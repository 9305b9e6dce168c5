------------------------------ MODULE Control -------------------------------
(***************************************************************************)
(* What HandleCommand answers to the commands that leave the medium alone: *)
(* status, and the data put into the data buffer of the command.  A        *)
(* command has a page where its block says what to describe, and its data  *)
(* is the room the kernel gives.                                           *)
(***************************************************************************)
EXTENDS Cdb, Sequences

CONSTANTS
  SectorSize, \* Sizes().SectorSize, in units of data
  VolumeSize, \* Sizes().VolumeSize, in units of data
  Word64,     \* 2^64
  Page,       \* the descriptions, each a sequence of units
  ParamSize   \* the 512 bytes EmulateModeSelect asks for

PageNames == {"inquiry", "supported", "identification", "header6", "header10", "caching"}

ASSUME ControlAssumption ==
  /\ SectorSize \in Nat \ {0} /\ VolumeSize \in Nat
  /\ Word64 \in Nat \ {0} /\ ParamSize \in Nat
  /\ Page \in [PageNames -> Seq(Nat)]

TestUnitReady == 0
InquiryOp == 18
ModeSelect6 == 21
ModeSense6 == 26
ModeSelect10 == 85
ModeSense10 == 90
ServiceActionIn16 == 158

Room(c) == Len(c.data)

(* cmd.Write(d) where nobody looks whether it all went in                  *)
Cut(d, room) == SubSeq(d, 1, IF room < Len(d) THEN room ELSE Len(d))

Good(d) == [status |-> "good", data |-> d]
Check == [status |-> "check", data |-> <<>>]
GoError == [status |-> "error", data |-> <<>>]

(* EmulateStdInquiry is the one that looks, and then returns a Go error.   *)
StdInquiry(c) ==
  IF Room(c) < Len(Page["inquiry"]) THEN GoError ELSE Good(Page["inquiry"])

(* EmulateEvpdInquiry.  The page of block limits reads an attribute of the *)
(* device, which ends in a newline, and Atoi refuses it.                   *)
Inquiry(c) ==
  CASE c.page = "inquiry" -> StdInquiry(c)
    [] c.page \in {"supported", "identification"} -> Good(Cut(Page[c.page], Room(c)))
    [] OTHER -> Check

(* The index of the last block, in 64 bits: of no block, the largest.      *)
LastBlock == (VolumeSize \div SectorSize - 1) % Word64

ServiceActionIn(c) ==
  IF c.page = "capacity" THEN Good(Cut(<<LastBlock, SectorSize>>, Room(c))) ELSE Check

(* EmulateModeSense: a header, and the one page there is if it is wanted,  *)
(* cut to the length in the block and then to the room.                    *)
ModePages(c) ==
  (IF c.op = ModeSense6 THEN Page["header6"] ELSE Page["header10"])
    \o (IF c.page = "caching" THEN Page["caching"] ELSE <<>>)

ModeSense(c) == Good(Cut(Cut(ModePages(c), XferLen(c)), Room(c)))

(* EmulateModeSelect: Read fails on fewer than 512 bytes, and 512 are too  *)
(* many; what follows in the code is never reached.                        *)
ModeSelect(c) ==
  IF XferLen(c) = 0 THEN Good(<<>>)
  ELSE IF Room(c) < ParamSize THEN GoError
  ELSE Check

(* The rest of HandleCommand; what it does not know is NotHandled.         *)
Answer(c) ==
  CASE c.op = InquiryOp -> Inquiry(c)
    [] c.op = TestUnitReady -> Good(<<>>)
    [] c.op = ServiceActionIn16 -> ServiceActionIn(c)
    [] c.op \in {ModeSense6, ModeSense10} -> ModeSense(c)
    [] c.op \in {ModeSelect6, ModeSelect10} -> ModeSelect(c)
    [] OTHER -> Check
=============================================================================
