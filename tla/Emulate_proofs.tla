--------------------------- MODULE Emulate_proofs ---------------------------
(***************************************************************************)
(* Proofs about Emulate: the inductive invariant, and that it implements   *)
(* BlockDevice.                                                            *)
(***************************************************************************)
EXTENDS Emulate, TLAPS

(* A stretch of a sequence is a sequence of the same elements.             *)
LEMMA SubSeqType ==
  ASSUME NEW S, NEW q \in Seq(S), NEW o \in Nat, NEW n \in Nat, o + n <= Len(q)
  PROVE  SubSeq(q, o + 1, o + n) \in Seq(S)
BY SMT

(* A first part too, when n is 0 wherever it would start.                  *)
LEMMA SubSeqNone ==
  ASSUME NEW S, NEW q \in Seq(S), NEW o \in Nat
  PROVE  SubSeq(q, o + 1, o) = <<>>
BY SMT

(* What every command has, and what reads and writes have.                 *)
LEMMA CommandType ==
  ASSUME NEW c \in Commands
  PROVE  /\ c.op \in 0 .. 255 /\ c.xfer \in Nat /\ c.data \in Seq(Values)
         /\ c.op \in Reads \cup Writes => c \in Transfers /\ c.lba \in Nat
<1>1. CASE c \in Transfers
  BY <1>1, EmulateAssumption, ControlAssumption DEF EmulateAssumption, ControlAssumption, Transfers
<1>2. CASE c \in Others
  BY <1>2, EmulateAssumption, ControlAssumption DEF EmulateAssumption, ControlAssumption, Others
<1> QED BY <1>1, <1>2 DEF Commands

(* The offset and the length of the command served are numbers.            *)
LEMMA OffsetLengthType ==
  ASSUME cmd \in Commands, cmd.op \in Reads \cup Writes
  PROVE  /\ Offset \in Nat /\ Length \in Nat
         /\ XferLen(cmd) \in Nat /\ LBA(cmd) \in Nat
<1>1. cmd.lba \in Nat /\ cmd.xfer \in Nat
  BY CommandType
<1>2. LBA(cmd) \in Nat
  <2> DEFINE low == cmd.lba % ByteBase
  <2>1. low \in Nat
    BY <1>1, EmulateAssumption, ControlAssumption DEF EmulateAssumption, ControlAssumption
  <2>2. LBA(cmd) \in {cmd.lba, low, ByteBase}
    BY DEF LBA
  <2> QED BY <1>1, <2>1, <2>2, EmulateAssumption, ControlAssumption DEF EmulateAssumption, ControlAssumption
<1>3. LBA(cmd) * SectorSize \in Nat /\ cmd.xfer * SectorSize \in Nat
  BY <1>1, <1>2, EmulateAssumption, ControlAssumption DEF EmulateAssumption, ControlAssumption
<1>4. \A a \in Nat, b \in Nat \ {0} : a % b \in Nat
  OBVIOUS
<1>5. Offset \in Nat
  BY <1>3, <1>4, EmulateAssumption, ControlAssumption DEF EmulateAssumption, ControlAssumption, Offset
<1>6. Length \in Nat
  BY <1>3, <1>4, EmulateAssumption, ControlAssumption DEF EmulateAssumption, ControlAssumption, Length, XferLen
<1> QED BY <1>1, <1>2, <1>5, <1>6 DEF XferLen

(* Writing into the medium keeps its size and type.                        *)
LEMMA OverwrittenType ==
  ASSUME TypeOK, NEW d \in Seq(Values), Offset \in Nat
  PROVE  Overwritten(d) \in Seq(Values) /\ Len(Overwritten(d)) = Len(Blank)
<1>1. \A i \in DOMAIN medium : Overwritten(d)[i] \in Values
  BY DEF TypeOK, Overwritten
<1>2. DOMAIN medium = 1 .. Len(medium) /\ Len(medium) \in Nat
  BY DEF TypeOK
<1> QED BY <1>1, <1>2 DEF TypeOK, Overwritten

(* A first part of a sequence.                                             *)
LEMMA PrefixType ==
  ASSUME NEW S, NEW q \in Seq(S), NEW n \in Nat, n <= Len(q)
  PROVE  SubSeq(q, 1, n) \in Seq(S) /\ Len(SubSeq(q, 1, n)) = n
BY SMT
(* A first part of a first part.                                           *)
LEMMA SubSeqOfPrefix ==
  ASSUME NEW S, NEW q \in Seq(S), NEW m \in Nat, m <= Len(q), NEW n \in 0 .. m
  PROVE  SubSeq(SubSeq(q, 1, m), 1, n) = SubSeq(q, 1, n)
BY SMT

-----------------------------------------------------------------------------
LEMMA InitInv == Init => EmulateInv
<1> SUFFICES ASSUME Init PROVE EmulateInv
  OBVIOUS
<1> USE DEF Init
<1>1. TypeOK
  BY EmulateAssumption, ControlAssumption DEF EmulateAssumption, ControlAssumption, TypeOK
<1>2. InvBuffer
  BY DEF InvBuffer
<1> QED BY <1>1, <1>2 DEF EmulateInv

(* A command is never NoCmd.                                               *)
LEMMA CommandIsNotNone == ASSUME NEW c \in Commands PROVE c # NoCmd /\ c.op \in 0 .. 255
<1>1. c.op \in 0 .. 255
  BY CommandType
<1>2. NoCmd.op = -1
  BY DEF NoCmd
<1> QED BY <1>1, <1>2

LEMMA StepInv == EmulateInv /\ [Next]_vars => EmulateInv'
<1> SUFFICES ASSUME EmulateInv, [Next]_vars PROVE EmulateInv'
  OBVIOUS
<1> USE DEF EmulateInv
<1>0. pc # "idle" => cmd \in Commands
  BY DEF TypeOK, InvBuffer
<1>1. ASSUME NEW c \in Commands, Take(c) PROVE EmulateInv'
  <2>1. c # NoCmd
    BY CommandIsNotNone
  <2>2. TypeOK'
    BY <1>1 DEF Take, TypeOK
  <2>3. InvBuffer'
    BY <1>1, <2>1 DEF Take, InvBuffer
  <2> QED BY <2>2, <2>3
<1>2. CASE ReadAt
  <2>1. cmd \in Commands /\ cmd # NoCmd /\ Offset \in Nat /\ Length \in Nat
    BY <1>0, <1>2, OffsetLengthType, CommandIsNotNone DEF ReadAt
  <2>2. SubSeq(medium, Offset + 1, Offset + Length) \in Seq(Values)
    <3>1. CASE Length = 0
      <4> DEFINE o == Offset
      <4>1. SubSeq(medium, o + 1, o) = <<>>
        BY <2>1, SubSeqNone DEF TypeOK
      <4>2. <<>> \in Seq(Values) /\ o + Length = o
        BY <2>1, <3>1
      <4> QED BY <4>1, <4>2
    <3>2. CASE Offset + Length <= Len(medium)
      BY <2>1, <3>2, SubSeqType DEF TypeOK
    <3> QED BY <1>2, <3>1, <3>2 DEF ReadAt, Within
  <2>3. TypeOK'
    BY <1>2, <2>1, <2>2 DEF ReadAt, TypeOK
  <2>4. InvBuffer'
    BY <1>2, <2>1 DEF ReadAt, InvBuffer, Within, Offset, Length
  <2> QED BY <2>3, <2>4
<1>3. CASE ReadAtFails
  BY <1>3 DEF ReadAtFails, Respond, TypeOK, InvBuffer
<1>4. CASE CopyOut
  BY <1>4 DEF CopyOut, Respond, TypeOK, InvBuffer
<1>5. CASE CopyIn
  <2>1. cmd \in Commands /\ cmd # NoCmd /\ Offset \in Nat /\ Length \in Nat
    BY <1>0, <1>5, OffsetLengthType, CommandIsNotNone DEF CopyIn
  <2>2. cmd.data \in Seq(Values)
    BY <2>1, CommandType
  <2>3. CASE Len(cmd.data) < Length
    BY <1>5, <2>3 DEF CopyIn, Respond, TypeOK, InvBuffer
  <2>4. CASE ~(Len(cmd.data) < Length)
    <3>1. Length <= Len(cmd.data)
      BY <2>1, <2>2, <2>4
    <3>2. SubSeq(cmd.data, 1, Length) \in Seq(Values)
      BY <2>1, <2>2, <3>1, PrefixType
    <3>3. TypeOK'
      BY <1>5, <2>1, <2>4, <3>2 DEF CopyIn, TypeOK
    <3>4. InvBuffer'
      BY <1>5, <2>1, <2>4, <3>1 DEF CopyIn, InvBuffer, Length
    <3> QED BY <3>3, <3>4
  <2> QED BY <2>3, <2>4
<1>6. CASE WriteAt
  <2>1. cmd \in Commands /\ cmd.op \in Writes
    BY <1>0, <1>6 DEF WriteAt, InvBuffer
  <2>2. Overwritten(buffer) \in Seq(Values) /\ Len(Overwritten(buffer)) = Len(Blank)
    BY <2>1, OffsetLengthType, OverwrittenType DEF TypeOK
  <2>3. TypeOK'
    BY <1>6, <2>2 DEF WriteAt, Respond, TypeOK
  <2> QED BY <1>6, <2>3 DEF WriteAt, Respond, InvBuffer
<1>7. CASE WriteAtFails
  <2>1. cmd \in Commands /\ cmd.op \in Writes /\ Offset \in Nat /\ Length \in Nat
    BY <1>0, <1>7, OffsetLengthType DEF WriteAtFails, InvBuffer
  <2>2. PICK n \in 0 .. Length : medium' = Overwritten(SubSeq(buffer, 1, n))
    BY <1>7 DEF WriteAtFails
  <2>3. cmd.data \in Seq(Values) /\ Length <= Len(cmd.data) /\ buffer = SubSeq(cmd.data, 1, Length)
    BY <1>7, <2>1, CommandType DEF WriteAtFails, InvBuffer
  <2>4. Len(buffer) = Length
    BY <2>1, <2>3, PrefixType
  <2>5. SubSeq(buffer, 1, n) \in Seq(Values)
    BY <2>1, <2>2, <2>4, PrefixType DEF TypeOK
  <2>6. medium' \in Seq(Values) /\ Len(medium') = Len(Blank)
    BY <2>1, <2>2, <2>5, OverwrittenType
  <2>7. TypeOK'
    BY <1>7, <2>6 DEF WriteAtFails, Respond, TypeOK
  <2> QED BY <1>7, <2>7 DEF WriteAtFails, Respond, InvBuffer
<1>8. CASE Other
  BY <1>8 DEF Other, Respond, TypeOK, InvBuffer
<1>9. CASE UNCHANGED vars
  <2>1. TypeOK'
    BY <1>9 DEF vars, TypeOK
  <2>2. InvBuffer'
    BY <1>9 DEF vars, InvBuffer, Within, Offset, Length
  <2> QED BY <2>1, <2>2
<1> QED
  BY <1>1, <1>2, <1>3, <1>4, <1>5, <1>6, <1>7, <1>8, <1>9
  DEF Next, EmulateRead, EmulateWrite

(* Whatever the medium does, the buffer of a command holds what was read   *)
(* for it and nothing else.                                                *)
THEOREM EmulateCorrect == Spec => []EmulateInv
<1>1. Init => EmulateInv
  BY InitInv
<1>2. EmulateInv /\ [Next]_vars => EmulateInv'
  BY StepInv
<1> QED BY <1>1, <1>2, PTL DEF Spec
-----------------------------------------------------------------------------
(* The refinement                                                          *)

(* When the address fits, the offset is where the named blocks start, and  *)
(* the length is theirs unless it wraps.                                   *)
LEMMA OffsetOfCommand ==
  ASSUME AddressesFit, cmd \in Commands, cmd.op \in Reads \cup Writes
  PROVE  /\ Offset = Device!First(cmd)
         /\ Length \in Device!Served(cmd)
         /\ Device!Count(cmd) \in Nat
<1>1. cmd.lba \in Nat /\ cmd.xfer \in Nat
  BY CommandType
<1>2. /\ cmd.lba * SectorSize \in Nat
      /\ cmd.xfer * SectorSize \in Nat
  BY <1>1, EmulateAssumption, ControlAssumption DEF EmulateAssumption, ControlAssumption
<1>3. \A a \in Nat, b \in Nat \ {0} : /\ a < b => a % b = a
                                       /\ a % b \in 0 .. a
  OBVIOUS
<1>4. Offset = Device!First(cmd)
  <2>1. LBA(cmd) = cmd.lba /\ cmd.lba * SectorSize < Word64
    BY CommandType DEF AddressesFit
  <2> QED BY <1>2, <1>3, <2>1, ControlAssumption
    DEF ControlAssumption, Offset, Device!First
<1>5. Length \in Device!Served(cmd)
  <2> DEFINE count == cmd.xfer * SectorSize
  <2>1. Word32 \in Nat \ {0}
    BY EmulateAssumption, ControlAssumption DEF EmulateAssumption, ControlAssumption
  <2>2. Length = count % Word32 /\ Device!Count(cmd) = count
    BY DEF Length, XferLen, Device!Count
  <2>3. Length \in 0 .. count
    BY <1>2, <1>3, <2>1, <2>2
  <2>4. Length = count \/ count >= Word32
    BY <1>2, <1>3, <2>1, <2>2
  <2> QED BY <2>2, <2>3, <2>4 DEF Device!Served
<1> QED BY <1>2, <1>4, <1>5 DEF Device!Count

(* A description is cut to the room there is.                              *)
LEMMA CutType ==
  ASSUME NEW d \in Seq(Nat), NEW room \in Nat
  PROVE  /\ Cut(d, room) \in Seq(Nat) /\ Len(Cut(d, room)) <= room
         /\ \E n \in 0 .. Len(d) :
              n <= room /\ (n = Len(d) \/ n = room) /\ Cut(d, room) = SubSeq(d, 1, n)
<1> DEFINE n == IF room < Len(d) THEN room ELSE Len(d)
<1>1. n \in Nat /\ n <= Len(d) /\ n <= room /\ (n = Len(d) \/ n = room)
  OBVIOUS
<1>2. SubSeq(d, 1, n) \in Seq(Nat) /\ Len(SubSeq(d, 1, n)) = n
  BY <1>1, PrefixType
<1>3. Cut(d, room) = SubSeq(d, 1, n)
  BY DEF Cut
<1> HIDE DEF n
<1> QED BY <1>1, <1>2, <1>3

(* Every other command is answered in the room it has.                     *)
LEMMA AnswerType ==
  ASSUME NEW c \in Commands, c.op \notin Reads \cup Writes
  PROVE  /\ Answer(c).status \in {"good", "check", "error"}
         /\ Answer(c).data \in Seq(Nat) /\ Len(Answer(c).data) <= Len(c.data)
<1> DEFINE Fits(a) ==
      /\ a.status \in {"good", "check", "error"}
      /\ a.data \in Seq(Nat) /\ Len(a.data) <= Len(c.data)
<1>1. Room(c) = Len(c.data) /\ Room(c) \in Nat /\ XferLen(c) \in Nat
  BY CommandType DEF Room, XferLen
<1>2. \A d \in Seq(Nat) : Fits(Good(Cut(d, Room(c))))
  BY <1>1, CutType DEF Good
<1>3. Fits(Good(<<>>)) /\ Fits(Check) /\ Fits(GoError)
  BY <1>1 DEF Good, Check, GoError
<1>4. \A p \in PageNames : Page[p] \in Seq(Nat)
  BY ControlAssumption DEF ControlAssumption
<1> HIDE DEF Fits
<1>5. Fits(Inquiry(c))
  <2>1. CASE c.page = "inquiry"
    <3>1. CASE Room(c) < Len(Page["inquiry"])
      BY <1>3, <2>1, <3>1 DEF Inquiry, StdInquiry
    <3>2. CASE ~(Room(c) < Len(Page["inquiry"]))
      <4>1. Page["inquiry"] \in Seq(Nat)
        BY <1>4 DEF PageNames
      <4>2. Fits(Good(Page["inquiry"]))
        BY <1>1, <3>2, <4>1 DEF Fits, Good
      <4> QED BY <2>1, <3>2, <4>2 DEF Inquiry, StdInquiry
    <3> QED BY <3>1, <3>2
  <2>2. CASE c.page \in {"supported", "identification"}
    <3>1. Page[c.page] \in Seq(Nat)
      BY <1>4, <2>2 DEF PageNames
    <3> QED BY <1>2, <2>2, <3>1 DEF Inquiry
  <2>3. CASE c.page \notin {"inquiry", "supported", "identification"}
    BY <1>3, <2>3 DEF Inquiry
  <2> QED BY <2>1, <2>2, <2>3
<1>6. Fits(ServiceActionIn(c))
  <2>1. LastBlock \in Nat /\ SectorSize \in Nat
    BY ControlAssumption DEF ControlAssumption, LastBlock
  <2>2. <<LastBlock, SectorSize>> \in Seq(Nat)
    BY <2>1
  <2> QED BY <1>2, <1>3, <2>2 DEF ServiceActionIn
<1>7. Fits(ModeSense(c))
  <2>1. ModePages(c) \in Seq(Nat)
    BY <1>4 DEF ModePages, PageNames
  <2>2. Cut(ModePages(c), XferLen(c)) \in Seq(Nat)
    BY <1>1, <2>1, CutType
  <2> QED BY <1>2, <2>2 DEF ModeSense
<1>8. Fits(ModeSelect(c))
  BY <1>3 DEF ModeSelect
<1>9. Fits(Answer(c))
  BY <1>3, <1>5, <1>6, <1>7, <1>8
  DEF Answer, InquiryOp, TestUnitReady, ServiceActionIn16, ModeSense6, ModeSense10, ModeSelect6,
      ModeSelect10
<1> QED BY <1>9 DEF Fits

(* The capacity is that of the medium.                                     *)
LEMMA CapacityAnswer ==
  ASSUME VolumeFits, TypeOK, cmd \in Commands, Device!AsksCapacity
  PROVE  \E n \in 0 .. 2 :
           /\ n <= Len(cmd.data) /\ (n = 2 \/ n = Len(cmd.data))
           /\ Answer(cmd).status = "good"
           /\ Answer(cmd).data = SubSeq(<<Len(medium) \div SectorSize - 1, SectorSize>>, 1, n)
<1> DEFINE d == <<Len(medium) \div SectorSize - 1, SectorSize>>
<1>1. LastBlock = Len(medium) \div SectorSize - 1 /\ LastBlock \in Nat
  <2>1. Len(medium) = VolumeSize
    BY DEF VolumeFits, TypeOK
  <2>2. \A q \in 1 .. Word64 : (q - 1) % Word64 = q - 1
    BY ControlAssumption DEF ControlAssumption
  <2> QED BY <2>1, <2>2 DEF VolumeFits, LastBlock
<1>2. d = <<LastBlock, SectorSize>> /\ d \in Seq(Nat) /\ Len(d) = 2
  BY <1>1, ControlAssumption DEF ControlAssumption
<1> HIDE DEF d
<1>3. Answer(cmd) = Good(Cut(d, Room(cmd)))
  <2>1. cmd.op = ServiceActionIn16 /\ cmd.page = "capacity"
    BY DEF Device!AsksCapacity
  <2>2. cmd.op # InquiryOp /\ cmd.op # TestUnitReady
    BY <2>1 DEF InquiryOp, TestUnitReady, ServiceActionIn16
  <2>3. cmd.op \notin {ModeSense6, ModeSense10} /\ cmd.op \notin {ModeSelect6, ModeSelect10}
    BY <2>1 DEF ModeSense6, ModeSense10, ModeSelect6, ModeSelect10, ServiceActionIn16
  <2>4. Answer(cmd) = ServiceActionIn(cmd)
    BY <2>1, <2>2, <2>3 DEF Answer
  <2>5. ServiceActionIn(cmd) = Good(Cut(<<LastBlock, SectorSize>>, Room(cmd)))
    BY <2>1 DEF ServiceActionIn
  <2> QED BY <1>2, <2>4, <2>5
<1>4. Room(cmd) \in Nat /\ Room(cmd) = Len(cmd.data)
  BY CommandType DEF Room
<1>5. \E n \in 0 .. 2 : /\ n <= Room(cmd) /\ (n = 2 \/ n = Room(cmd))
                        /\ Cut(d, Room(cmd)) = SubSeq(d, 1, n)
  BY <1>2, <1>4, CutType
<1>6. Answer(cmd).status = "good" /\ Answer(cmd).data = Cut(d, Room(cmd))
  BY <1>3 DEF Good
<1> QED BY <1>4, <1>5, <1>6 DEF d

(* Serving a command, step by step.                                        *)
LEMMA StepDevice ==
  ASSUME AddressesFit, VolumeFits, EmulateInv, [Next]_vars
  PROVE  [Device!Next]_(Device!vars)
<1> USE DEF EmulateInv
<1>a. pc # "idle" => cmd \in Commands /\ cmd # NoCmd
  BY CommandIsNotNone DEF TypeOK, InvBuffer
<1>n. Device!None = NoCmd
  BY DEF Device!None, NoCmd
<1>1. ASSUME NEW c \in Commands, Take(c) PROVE Device!Next
  <2>1. Device!Request(c)
    BY <1>1, <1>n DEF Take, InvBuffer, Device!Request
  <2> QED BY <2>1 DEF Device!Next
<1>2. CASE ReadAt
  BY <1>2 DEF ReadAt, Device!vars
<1>3. CASE ReadAtFails
  <2>1. Device!FailRead
    BY <1>3, <1>a, <1>n DEF ReadAtFails, Respond, Device!FailRead, Device!Answer
  <2> QED BY <2>1 DEF Device!Next
<1>4. CASE CopyOut
  <2>1. cmd \in Commands /\ cmd # NoCmd /\ cmd.op \in Reads /\ Within
        /\ buffer = SubSeq(medium, Offset + 1, Offset + Length)
    BY <1>4, <1>a DEF CopyOut, InvBuffer
  <2>2. CASE Len(cmd.data) < Length
    <3>1. Device!FailRead
      BY <1>4, <1>n, <2>1, <2>2 DEF CopyOut, Respond, Device!FailRead, Device!Answer
    <3> QED BY <3>1 DEF Device!Next
  <2>3. CASE ~(Len(cmd.data) < Length)
    <3>1. Offset = Device!First(cmd) /\ Length \in Device!Served(cmd)
      BY <2>1, OffsetOfCommand
    <3>2. Device!OnDisk(cmd, Length)
      BY <2>1, <3>1 DEF Within, Device!OnDisk
    <3>3. Device!Answer("good", SubSeq(medium, Device!First(cmd) + 1, Device!First(cmd) + Length))
      BY <1>4, <1>n, <2>1, <2>3, <3>1 DEF CopyOut, Respond, Device!Answer
    <3>4. Device!ServeRead
      BY <1>4, <1>n, <2>1, <3>1, <3>2, <3>3 DEF CopyOut, Device!ServeRead
    <3> QED BY <3>4 DEF Device!Next
  <2> QED BY <2>2, <2>3
<1>5. CASE CopyIn
  <2>1. CASE Len(cmd.data) < Length
    <3>1. cmd \in Commands /\ cmd # NoCmd /\ cmd.op \in Writes
      BY <1>5, <1>a DEF CopyIn
    <3>2. Device!Count(cmd) \in Nat /\ cmd.data \in Seq(Values)
      BY <3>1, OffsetOfCommand, CommandType
    <3>3. SubSeq(cmd.data, 1, 0) = <<>>
      BY <3>2
    <3>4. medium = Device!Overwrite(Device!First(cmd), <<>>)
      <4>1. Device!First(cmd) \in Nat
        BY <3>1, OffsetLengthType, OffsetOfCommand
      <4> DEFINE w == Device!Overwrite(Device!First(cmd), <<>>)
      <4>2. \A i \in DOMAIN medium : w[i] = medium[i]
        BY <4>1 DEF TypeOK, Device!Overwrite
      <4>3. DOMAIN w = DOMAIN medium /\ w = [i \in DOMAIN medium |-> w[i]]
        BY DEF Device!Overwrite
      <4>4. medium = [i \in DOMAIN medium |-> medium[i]]
        BY DEF TypeOK
      <4> QED BY <4>2, <4>3, <4>4
    <3>5. 0 \in 0 .. Device!Count(cmd) /\ 0 <= Len(cmd.data)
      BY <3>2
    <3>6. medium' = Device!Overwrite(Device!First(cmd), SubSeq(cmd.data, 1, 0))
      BY <1>5, <3>3, <3>4 DEF CopyIn
    <3>7. Device!Answer("check", <<>>)
      BY <1>5, <1>n, <2>1 DEF CopyIn, Respond, Device!Answer
    <3>8. Device!FailWrite
      BY <1>n, <3>1, <3>5, <3>6, <3>7 DEF Device!FailWrite
    <3> QED BY <3>8 DEF Device!Next
  <2>2. CASE ~(Len(cmd.data) < Length)
    BY <1>5, <2>2 DEF CopyIn, Device!vars
  <2> QED BY <2>1, <2>2
<1>6. CASE WriteAt
  <2>1. cmd \in Commands /\ cmd # NoCmd /\ cmd.op \in Writes /\ Within
        /\ Length <= Len(cmd.data) /\ buffer = SubSeq(cmd.data, 1, Length)
    BY <1>6, <1>a DEF WriteAt, InvBuffer
  <2>2. Offset = Device!First(cmd) /\ Length \in Device!Served(cmd)
    BY <2>1, OffsetOfCommand
  <2>3. Device!OnDisk(cmd, Length)
    BY <2>1, <2>2 DEF Within, Device!OnDisk
  <2>4. medium' = Device!Overwrite(Device!First(cmd), SubSeq(cmd.data, 1, Length))
    BY <1>6, <2>1, <2>2 DEF WriteAt, Overwritten, Device!Overwrite
  <2>5. Device!Answer("good", <<>>)
    BY <1>6, <1>n DEF WriteAt, Respond, Device!Answer
  <2>6. Device!ServeWrite
    BY <1>n, <2>1, <2>2, <2>3, <2>4, <2>5 DEF Device!ServeWrite
  <2> QED BY <2>6 DEF Device!Next
<1>7. CASE WriteAtFails
  <2>1. cmd \in Commands /\ cmd # NoCmd /\ cmd.op \in Writes
        /\ Length <= Len(cmd.data) /\ buffer = SubSeq(cmd.data, 1, Length)
    BY <1>7, <1>a DEF WriteAtFails, InvBuffer
  <2>2. /\ Offset = Device!First(cmd) /\ Length \in Device!Served(cmd)
        /\ Device!Count(cmd) \in Nat /\ Length \in Nat
    BY <2>1, OffsetOfCommand, OffsetLengthType
  <2>3. PICK n \in 0 .. Length : medium' = Overwritten(SubSeq(buffer, 1, n))
    BY <1>7 DEF WriteAtFails
  <2>4. cmd.data \in Seq(Values)
    BY <2>1, CommandType
  <2>5. n \in 0 .. Device!Count(cmd) /\ n <= Len(cmd.data)
    BY <2>1, <2>2, <2>4 DEF Device!Served
  <2>6. SubSeq(buffer, 1, n) = SubSeq(cmd.data, 1, n)
    BY <2>1, <2>2, <2>4, SubSeqOfPrefix
  <2>7. medium' = Device!Overwrite(Device!First(cmd), SubSeq(cmd.data, 1, n))
    BY <2>2, <2>3, <2>6 DEF Overwritten, Device!Overwrite
  <2>8. Device!Answer("check", <<>>)
    BY <1>7, <1>n DEF WriteAtFails, Respond, Device!Answer
  <2>9. Device!FailWrite
    BY <1>n, <2>1, <2>5, <2>7, <2>8 DEF Device!FailWrite
  <2> QED BY <2>9 DEF Device!Next
<1>8. CASE Other
  <2>1. cmd \in Commands /\ cmd # NoCmd /\ cmd.op \notin Reads \cup Writes
    BY <1>8, <1>a DEF Other
  <2>2. /\ cmd' = NoCmd /\ UNCHANGED medium
        /\ reply' = [status |-> Answer(cmd).status, data |-> Answer(cmd).data]
    BY <1>8 DEF Other, Respond
  <2>3. CASE Device!AsksCapacity
    BY <1>n, <2>1, <2>2, <2>3, CapacityAnswer
    DEF Device!Next, Device!ServeCapacity, Device!Other, Device!Answer
  <2>4. CASE ~Device!AsksCapacity
    BY <1>n, <2>1, <2>2, <2>4, AnswerType DEF Device!Next, Device!ServeOther, Device!Other
  <2> QED BY <2>3, <2>4
<1>9. CASE UNCHANGED vars
  BY <1>9 DEF vars, Device!vars
<1> QED
  BY <1>1, <1>2, <1>3, <1>4, <1>5, <1>6, <1>7, <1>8, <1>9
  DEF Next, EmulateRead, EmulateWrite

(* When addresses and volume fit, the emulation is a disk: DeviceSpec.     *)
THEOREM DeviceRefined == ASSUME AddressesFit, VolumeFits PROVE Spec => DeviceSpec
<1>1. Init => Device!Init
  BY DEF Init, NoCmd, Device!Init, Device!None
<1>2. AddressesFit /\ VolumeFits /\ EmulateInv /\ [Next]_vars => [Device!Next]_(Device!vars)
  BY StepDevice
<1>3. AddressesFit /\ VolumeFits
  OBVIOUS
<1> QED BY <1>1, <1>2, <1>3, EmulateCorrect, PTL DEF Spec, DeviceSpec, Device!Spec
=============================================================================
