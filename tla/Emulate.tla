------------------------------ MODULE Emulate -------------------------------
(***************************************************************************)
(* ReadWriteAtCmdHandler: how command.go serves reads and writes from a    *)
(* ReadWriteAt. One goroutine serves one command at a time, as startPoll   *)
(* does. The data buffer is that of DataBuffer; the ReadWriteAt is a store *)
(* of fixed size that may fail at any time, in the middle of a write too.  *)
(***************************************************************************)
EXTENDS Control

CONSTANTS
  Word32,     \* 2^32: where the length of a transfer wraps, as its offset at Word64
  Values,     \* what a unit of data can hold
  Blank,      \* the medium at the start, a sequence of units
  Ops,        \* operation codes the kernel sends
  Asked,      \* pages the other commands name
  Lbas,       \* block addresses in commands
  Xfers,      \* transfer lengths in commands
  Payloads    \* contents of the data buffers the kernel supplies

Transfers == [op : Ops \cap (Reads \cup Writes), lba : Lbas, xfer : Xfers, data : Payloads]
Others == [op : Ops \ (Reads \cup Writes), page : Asked, xfer : Xfers, data : Payloads]
Commands == Transfers \cup Others

ASSUME EmulateAssumption ==
  /\ ByteBase \in Nat \ {0} /\ Word32 \in Nat \ {0}
  /\ Ops \subseteq 0 .. 255
  /\ Lbas \subseteq Nat /\ Xfers \subseteq Nat
  /\ Blank \in Seq(Values) /\ Payloads \subseteq Seq(Values)

VARIABLES
  medium, \* what the ReadWriteAt holds
  pc,     \* where the handler is
  cmd,    \* the command it serves, or NoCmd
  buffer, \* cmd.Buffer
  reply   \* the status of the last response and the data returned with it

vars == <<medium, pc, cmd, buffer, reply>>

NoCmd == [op |-> -1]

Init ==
  /\ medium = Blank
  /\ pc = "idle"
  /\ cmd = NoCmd
  /\ buffer = <<>>
  /\ reply = [status |-> "good", data |-> <<>>]

Respond(status, data) ==
  /\ reply' = [status |-> status, data |-> data]
  /\ pc' = "idle"
  /\ cmd' = NoCmd

(* getNextCommand: entCdb panics when it cannot tell the length of the     *)
(* block.                                                                  *)
Take(c) ==
  /\ pc = "idle"
  /\ cmd' = c
  /\ buffer' = <<>>
  /\ pc' = IF NoLength(c.op) THEN "panic" ELSE "handle"
  /\ UNCHANGED <<medium, reply>>

(* Wrong: the block address is taken for the offset.                       *)
OffsetInBlocks == LBA(cmd) % Word64

Offset == (LBA(cmd) * SectorSize) % Word64
Length == (XferLen(cmd) * SectorSize) % Word32
Within == Offset + Length <= Len(medium) \/ Length = 0

-----------------------------------------------------------------------------
(* EmulateRead                                                             *)

ReadAt ==
  /\ pc = "handle" /\ cmd.op \in Reads
  /\ Within
  /\ buffer' = SubSeq(medium, Offset + 1, Offset + Length)
  /\ pc' = "copyOut"
  /\ UNCHANGED <<medium, cmd, reply>>

(* ReadAt returns fewer bytes, or an error: MediumError.                   *)
ReadAtFails ==
  /\ pc = "handle" /\ cmd.op \in Reads
  /\ Respond("check", <<>>)
  /\ UNCHANGED <<medium, buffer>>

(* cmd.Write(cmd.Buffer)                                                   *)
CopyOut ==
  /\ pc = "copyOut"
  /\ IF Len(cmd.data) < Length
       THEN Respond("check", <<>>)
       ELSE Respond("good", buffer)
  /\ UNCHANGED <<medium, buffer>>

-----------------------------------------------------------------------------
(* EmulateWrite                                                            *)

(* Wrong: nobody looks how much Read moved.                                *)
CopyInUnchecked ==
  /\ pc = "handle" /\ cmd.op \in Writes
  /\ buffer' = [i \in 1 .. Length |-> IF i <= Len(cmd.data) THEN cmd.data[i] ELSE 0]
  /\ pc' = "writeAt"
  /\ UNCHANGED <<medium, cmd, reply>>

(* cmd.Read(cmd.Buffer)                                                    *)
CopyIn ==
  /\ pc = "handle" /\ cmd.op \in Writes
  /\ IF Len(cmd.data) < Length
       THEN Respond("check", <<>>) /\ buffer' = buffer
       ELSE /\ buffer' = SubSeq(cmd.data, 1, Length)
            /\ pc' = "writeAt"
            /\ UNCHANGED <<cmd, reply>>
  /\ UNCHANGED medium

Overwritten(d) ==
  [i \in DOMAIN medium |->
     IF Offset < i /\ i <= Offset + Len(d) THEN d[i - Offset] ELSE medium[i]]

WriteAt ==
  /\ pc = "writeAt"
  /\ Within
  /\ medium' = Overwritten(buffer)
  /\ Respond("good", <<>>)
  /\ UNCHANGED buffer

WriteAtFails ==
  /\ pc = "writeAt"
  /\ \E n \in 0 .. Length : medium' = Overwritten(SubSeq(buffer, 1, n))
  /\ Respond("check", <<>>)
  /\ UNCHANGED buffer

-----------------------------------------------------------------------------
(* The commands Control answers: they leave the medium alone.              *)
Other ==
  /\ pc = "handle" /\ cmd.op \notin Reads \cup Writes
  /\ Respond(Answer(cmd).status, Answer(cmd).data)
  /\ UNCHANGED <<medium, buffer>>

EmulateRead == ReadAt \/ ReadAtFails \/ CopyOut
EmulateWrite == CopyIn \/ WriteAt \/ WriteAtFails

Next ==
  \/ \E c \in Commands : Take(c)
  \/ EmulateRead
  \/ EmulateWrite
  \/ Other

Spec == Init /\ [][Next]_vars

-----------------------------------------------------------------------------
(* Properties                                                              *)

TypeOK ==
  /\ medium \in Seq(Values) /\ Len(medium) = Len(Blank)
  /\ pc \in {"idle", "handle", "copyOut", "writeAt", "panic"}
  /\ cmd \in Commands \cup {NoCmd}
  /\ buffer \in Seq(Values)

(* The code knows which command it serves, and takes nothing for data that *)
(* it has not read from the medium or from the initiator: the buffer of a  *)
(* read holds the blocks addressed, that of a write the data sent with it, *)
(* each as long as the transfer (command.go:351-363, 388-400).             *)
InvBuffer ==
  /\ pc = "idle" <=> cmd = NoCmd
  /\ pc = "copyOut" =>
       /\ cmd.op \in Reads
       /\ Within
       /\ buffer = SubSeq(medium, Offset + 1, Offset + Length)
  /\ pc = "writeAt" =>
       /\ cmd.op \in Writes
       /\ Length <= Len(cmd.data)
       /\ buffer = SubSeq(cmd.data, 1, Length)

EmulateInv == TypeOK /\ InvBuffer

(* The addresses the initiator uses are read as it meant them: the code    *)
(* keeps one byte of the three of a 6-byte command, and multiplies in 64   *)
(* bits.                                                                   *)
AddressesFit == \A c \in Transfers : LBA(c) = c.lba /\ c.lba * SectorSize < Word64

(* The volume is what the ReadWriteAt holds, and has a block.              *)
VolumeFits == VolumeSize = Len(Blank) /\ VolumeSize \div SectorSize \in 1 .. Word64

(* A read answered GOOD returns what the last writes left in the blocks it *)
(* names; a write replaces these and no other, or after a failure a first  *)
(* part of them; a transfer of 2^32 bytes or more may be served in part    *)
(* and answered GOOD all the same; every other command leaves the medium   *)
(* as it is and puts no more into the data buffer than it has room for,    *)
(* and the capacity reported is that of the medium (command.go:38-423).    *)
Device ==
  INSTANCE BlockDevice WITH MaxTransfer <- Word32, request <- cmd, Capacity <- ServiceActionIn16

DeviceSpec == Device!Spec

(* scsi.go:73: "LBA returns the block address that this command wishes to  *)
(* access." A 6-byte command has three bytes of address, of which it reads *)
(* one, and zero in it as 256.                                             *)
AddressOfCommand == pc = "handle" /\ cmd.op \in Reads \cup Writes => LBA(cmd) = cmd.lba
=============================================================================
