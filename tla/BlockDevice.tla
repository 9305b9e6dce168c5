---------------------------- MODULE BlockDevice -----------------------------
(***************************************************************************)
(* What an initiator expects of a disk it sends one command at a time: a   *)
(* read that is answered GOOD returns the blocks it asked for as the last  *)
(* writes left them, a write answered GOOD replaces the blocks it named    *)
(* and no others, and a write that fails replaces a first part of them. Of *)
(* a transfer of MaxTransfer units or more only a first part may be served.*)
(* It tells the last of its blocks, and nothing but a write changes it.    *)
(***************************************************************************)
EXTENDS Integers, Sequences

CONSTANTS
  SectorSize,  \* units of data in a block
  MaxTransfer, \* transfers below this size are served whole
  Blank,       \* the data on the disk at the start
  Reads,       \* operation codes
  Writes,
  Capacity,    \* an operation code: of the page "capacity", READ CAPACITY
  Commands     \* [op, lba, xfer, data], or with a page in the place of lba

VARIABLES
  medium,  \* the data on the disk, a sequence of units
  request, \* the command being served, or None
  reply    \* how the last one was answered

vars == <<medium, request, reply>>

None == [op |-> -1]

First(c) == c.lba * SectorSize
Count(c) == c.xfer * SectorSize

(* How much of a command that is answered GOOD is served.                  *)
Served(c) == {n \in 0 .. Count(c) : n = Count(c) \/ Count(c) >= MaxTransfer}

OnDisk(c, n) == n = 0 \/ First(c) + n <= Len(medium)

(* The medium with d in the place of what starts after unit o.             *)
Overwrite(o, d) ==
  [i \in DOMAIN medium |-> IF o < i /\ i <= o + Len(d) THEN d[i - o] ELSE medium[i]]

Answer(status, data) ==
  /\ reply' = [status |-> status, data |-> data]
  /\ request' = None

Init ==
  /\ medium = Blank
  /\ request = None
  /\ reply = [status |-> "good", data |-> <<>>]

Request(c) ==
  /\ request = None
  /\ request' = c
  /\ UNCHANGED <<medium, reply>>

ServeRead ==
  /\ request # None /\ request.op \in Reads
  /\ \E n \in Served(request) :
       /\ OnDisk(request, n)
       /\ Answer("good", SubSeq(medium, First(request) + 1, First(request) + n))
  /\ UNCHANGED medium

ServeWrite ==
  /\ request # None /\ request.op \in Writes
  /\ \E n \in Served(request) :
       /\ OnDisk(request, n) /\ n <= Len(request.data)
       /\ medium' = Overwrite(First(request), SubSeq(request.data, 1, n))
  /\ Answer("good", <<>>)

FailRead ==
  /\ request # None /\ request.op \in Reads
  /\ Answer("check", <<>>)
  /\ UNCHANGED medium

FailWrite ==
  /\ request # None /\ request.op \in Writes
  /\ \E n \in 0 .. Count(request) :
       /\ n <= Len(request.data)
       /\ medium' = Overwrite(First(request), SubSeq(request.data, 1, n))
  /\ Answer("check", <<>>)

Other == request # None /\ request.op \notin Reads \cup Writes
AsksCapacity == request.op = Capacity /\ request.page = "capacity"

(* The last block and the size of one, as much of it as there is room for. *)
ServeCapacity ==
  /\ Other /\ AsksCapacity
  /\ \E n \in 0 .. 2 :
       /\ n <= Len(request.data)
       /\ n = 2 \/ n = Len(request.data)
       /\ Answer("good", SubSeq(<<Len(medium) \div SectorSize - 1, SectorSize>>, 1, n))
  /\ UNCHANGED medium

(* The disk may describe itself, in what room there is.                    *)
ServeOther ==
  /\ Other /\ ~AsksCapacity
  /\ request' = None
  /\ reply' \in [status : {"good", "check", "error"}, data : Seq(Nat)]
  /\ Len(reply'.data) <= Len(request.data)
  /\ UNCHANGED medium

Next ==
  \/ \E c \in Commands : Request(c)
  \/ ServeRead
  \/ ServeWrite
  \/ FailRead
  \/ FailWrite
  \/ ServeCapacity
  \/ ServeOther

Spec == Init /\ [][Next]_vars
=============================================================================
