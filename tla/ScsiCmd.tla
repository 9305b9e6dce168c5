------------------------------ MODULE ScsiCmd -------------------------------
(***************************************************************************)
(* The data buffer of a ScsiCmd: Read and Write walk the vectors the       *)
(* kernel gave, from where the call before stopped. The two are one loop,  *)
(* with the sides of copy exchanged.                                       *)
(*                                                                         *)
(* The bytes of the vectors are numbered through: vector i holds the bytes *)
(* Starts[i] to Starts[i + 1] - 1, so that empty vectors, and commands     *)
(* with none, are included. The bytes the handler gives or takes in        *)
(* successive calls are numbered from 1.                                   *)
(***************************************************************************)
EXTENDS Integers

CONSTANTS
  NVecs,  \* len(cmd.vecs)
  Starts, \* where in the data buffer each vector starts
  Asks    \* len(b): lengths the handler asks for

Total == Starts[NVecs]

ASSUME VectorsAssumption ==
  /\ NVecs \in Nat
  /\ Starts \in [0 .. NVecs -> Nat]
  /\ Starts[0] = 0
  /\ \A i, j \in 0 .. NVecs : i <= j => Starts[i] <= Starts[j]
  /\ Asks \subseteq Nat

VARIABLES
  op,        \* the call under way: "Read", "Write" or "none"
  ask,       \* len(b) of that call
  boff,      \* how many of these bytes it has moved
  vecoffset, \* cmd.vecoffset
  offset,    \* cmd.offset
  returned,  \* bytes moved by the calls that have returned
  carries,   \* of each byte of the data buffer, the handler's byte moved to or from it
  result     \* what the last call returned

cursor == <<vecoffset, offset>>
vars == <<op, ask, boff, cursor, returned, carries, result>>

LenVec(i) == Starts[i + 1] - Starts[i]
Flat == Starts[vecoffset] + offset  \* the byte of the data buffer at the cursor

Init ==
  /\ op = "none"
  /\ ask = 0
  /\ boff = 0
  /\ vecoffset = 0
  /\ offset = 0
  /\ returned = 0
  /\ carries = [k \in 0 .. Total - 1 |-> 0]
  /\ result = [ask |-> 0, n |-> 0, failed |-> FALSE]

Call(o, n) ==
  /\ op = "none"
  /\ op' = o
  /\ ask' = n
  /\ boff' = 0
  /\ UNCHANGED <<cursor, returned, carries, result>>

(* How much copy moves: the rest of the vector, or the rest of b.          *)
Copied ==
  LET room == LenVec(vecoffset) - offset
      rest == ask - boff
  IN  IF rest <= room THEN rest ELSE room

Place(n) ==
  carries' = [k \in DOMAIN carries |->
                IF Flat <= k /\ k < Flat + n THEN returned + boff + (k - Flat) + 1
                                             ELSE carries[k]]

(* Wrong: the offset is kept when the next vector begins.                  *)
CopyKeepOffset(o) ==
  /\ op = o /\ boff < ask /\ vecoffset < NVecs
  /\ boff' = boff + Copied
  /\ Place(Copied)
  /\ IF offset + Copied = LenVec(vecoffset)
       THEN vecoffset' = vecoffset + 1 /\ offset' = Copied
       ELSE vecoffset' = vecoffset /\ offset' = offset + Copied
  /\ UNCHANGED <<op, ask, returned, result>>

(* Wrong: a vector that copy left at once is not left behind.              *)
CopySkipNoEmpty(o) ==
  /\ op = o /\ boff < ask /\ vecoffset < NVecs
  /\ boff' = boff + Copied
  /\ Place(Copied)
  /\ IF Copied > 0 /\ offset + Copied = LenVec(vecoffset)
       THEN vecoffset' = vecoffset + 1 /\ offset' = 0
       ELSE vecoffset' = vecoffset /\ offset' = offset + Copied
  /\ UNCHANGED <<op, ask, returned, result>>

(* Wrong: each vector is filled from the start of b.                       *)
CopyFromStart(o) ==
  /\ op = o /\ boff < ask /\ vecoffset < NVecs
  /\ boff' = boff + Copied
  /\ carries' = [k \in DOMAIN carries |->
                   IF Flat <= k /\ k < Flat + Copied THEN returned + (k - Flat) + 1
                                                     ELSE carries[k]]
  /\ IF offset + Copied = LenVec(vecoffset)
       THEN vecoffset' = vecoffset + 1 /\ offset' = 0
       ELSE vecoffset' = vecoffset /\ offset' = offset + Copied
  /\ UNCHANGED <<op, ask, returned, result>>

(* One round of the loop.                                                  *)
Copy(o) ==
  /\ op = o /\ boff < ask /\ vecoffset < NVecs
  /\ boff' = boff + Copied
  /\ Place(Copied)
  /\ IF offset + Copied = LenVec(vecoffset)
       THEN vecoffset' = vecoffset + 1 /\ offset' = 0
       ELSE vecoffset' = vecoffset /\ offset' = offset + Copied
  /\ UNCHANGED <<op, ask, returned, result>>

(* Wrong: a call that ends with the last vector fails.                     *)
ReturnSpaceLeft(o) ==
  /\ op = o /\ (boff = ask \/ vecoffset = NVecs)
  /\ op' = "none"
  /\ returned' = returned + boff
  /\ result' = [ask |-> ask, n |-> boff, failed |-> vecoffset = NVecs]
  /\ UNCHANGED <<ask, boff, cursor, carries>>

(* All of b was moved, or no vector is left: Write returns an error then,  *)
(* Read returns io.EOF.                                                    *)
Return(o) ==
  /\ op = o /\ (boff = ask \/ vecoffset = NVecs)
  /\ op' = "none"
  /\ returned' = returned + boff
  /\ result' = [ask |-> ask, n |-> boff, failed |-> boff # ask]
  /\ UNCHANGED <<ask, boff, cursor, carries>>

Write == (\E n \in Asks : Call("Write", n)) \/ Copy("Write") \/ Return("Write")
Read == (\E n \in Asks : Call("Read", n)) \/ Copy("Read") \/ Return("Read")

Next == Write \/ Read

Spec == Init /\ [][Next]_vars

(* The loop runs as long as it can; no handler has to call.                *)
FairSpec == Spec /\ \A o \in {"Read", "Write"} : WF_vars(Copy(o) \/ Return(o))

-----------------------------------------------------------------------------
TypeOK ==
  /\ op \in {"none", "Read", "Write"}
  /\ ask \in Nat /\ (op # "none" => ask \in Asks)
  /\ boff \in 0 .. ask
  /\ vecoffset \in 0 .. NVecs
  /\ offset \in Nat
  /\ returned \in Nat
  /\ carries \in [0 .. Total - 1 -> Nat]
  /\ result \in [ask : Nat, n : Nat, failed : BOOLEAN]

(* The cursor is inside its vector, or at the end of a vector of no bytes, *)
(* or behind the last vector; it stands where the bytes moved end.         *)
InvCursor ==
  /\ vecoffset = NVecs => offset = 0
  /\ vecoffset < NVecs => offset <= LenVec(vecoffset)
  /\ Flat = returned + (IF op = "none" THEN 0 ELSE boff)

(* However the buffer is cut into vectors and the transfer into calls, the *)
(* bytes of the one are those of the other, in order, and none is skipped  *)
(* or moved twice (scsi.go:125, :146).                                     *)
InOrder == \A k \in 0 .. Total - 1 : carries[k] = IF k < Flat THEN k + 1 ELSE 0

CursorInv == TypeOK /\ InvCursor /\ InOrder

(* The walk over the vectors is a transfer from a flat buffer: a call      *)
(* returns short, and with an error, exactly when the buffer is too short  *)
(* (scsi.go:120-122, :143). A call takes effect when it returns.           *)
Buffer == INSTANCE DataBuffer WITH pos <- returned
BufferSpec == Buffer!Spec

(* Every call returns: no cut of the buffer into vectors, empty ones       *)
(* included, keeps the loop busy without moving a byte.                    *)
CallsReturn == op # "none" ~> op = "none"
=============================================================================
