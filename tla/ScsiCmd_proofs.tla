--------------------------- MODULE ScsiCmd_proofs ---------------------------
(***************************************************************************)
(* What holds of the data buffer of a command for every number and length  *)
(* of vectors and every sequence of calls.                                 *)
(***************************************************************************)
EXTENDS ScsiCmd, TLAPS

USE DEF cursor

(* The lengths the loop works with.                                        *)
LEMMA Lengths ==
  ASSUME TypeOK, InvCursor
  PROVE  /\ Total \in Nat /\ Flat \in Nat /\ Flat <= Total
         /\ vecoffset = NVecs => Flat = Total
         /\ vecoffset < NVecs =>
              /\ LenVec(vecoffset) \in Nat
              /\ Starts[vecoffset + 1] = Starts[vecoffset] + LenVec(vecoffset)
              /\ Copied \in Nat /\ Copied <= ask - boff
              /\ offset + Copied <= LenVec(vecoffset)
              /\ Flat + Copied <= Total
<1>1. /\ NVecs \in 0 .. NVecs /\ vecoffset \in 0 .. NVecs
      /\ Starts[NVecs] \in Nat /\ Starts[vecoffset] \in Nat
      /\ Starts[vecoffset] <= Starts[NVecs]
  BY VectorsAssumption DEF TypeOK
<1>2. CASE vecoffset = NVecs
  BY <1>1, <1>2, VectorsAssumption DEF TypeOK, InvCursor, Total, Flat
<1>3. CASE vecoffset < NVecs
  <2>1. /\ vecoffset + 1 \in 0 .. NVecs /\ Starts[vecoffset + 1] \in Nat
        /\ Starts[vecoffset] <= Starts[vecoffset + 1]
        /\ Starts[vecoffset + 1] <= Starts[NVecs]
    BY <1>1, <1>3, VectorsAssumption
  <2>2. /\ LenVec(vecoffset) \in Nat /\ offset <= LenVec(vecoffset)
        /\ Starts[vecoffset + 1] = Starts[vecoffset] + LenVec(vecoffset)
    BY <1>1, <1>3, <2>1 DEF InvCursor, LenVec
  <2>3. /\ ask \in Nat /\ boff \in Nat /\ boff <= ask /\ offset \in Nat
    BY DEF TypeOK
  <2>4. Copied \in Nat /\ Copied <= ask - boff /\ offset + Copied <= LenVec(vecoffset)
    BY <2>2, <2>3 DEF Copied
  <2> QED BY <1>1, <1>3, <2>1, <2>2, <2>3, <2>4 DEF Total, Flat
<1> QED BY <1>1, <1>2, <1>3, VectorsAssumption

LEMMA CopyStep ==
  ASSUME CursorInv, NEW o \in {"Read", "Write"}, Copy(o)
  PROVE  CursorInv'
<1> DEFINE v == vecoffset
<1>1. TypeOK /\ InvCursor /\ InOrder
  BY DEF CursorInv
<1>2. /\ Flat \in Nat /\ Copied \in Nat /\ Copied <= ask - boff /\ Flat + Copied <= Total
      /\ LenVec(v) \in Nat /\ offset + Copied <= LenVec(v)
      /\ Starts[v + 1] = Starts[v] + LenVec(v) /\ Starts[v] \in Nat
      /\ Total \in Nat /\ Flat = returned + boff /\ v < NVecs /\ op = o
  BY <1>1, Lengths, VectorsAssumption DEF TypeOK, InvCursor, Copy
<1>3. /\ ask \in Nat /\ boff \in Nat /\ v \in Nat /\ offset \in Nat /\ returned \in Nat /\ NVecs \in Nat
  BY <1>1, VectorsAssumption DEF TypeOK
<1>4. boff' = boff + Copied /\ UNCHANGED <<op, ask, returned, result>>
  BY DEF Copy
<1>5. \/ offset + Copied = LenVec(v) /\ vecoffset' = v + 1 /\ offset' = 0
      \/ offset + Copied # LenVec(v) /\ vecoffset' = v /\ offset' = offset + Copied
  BY DEF Copy
<1>6. Flat' = Flat + Copied
  <2>1. Flat = Starts[v] + offset /\ Flat' = Starts[vecoffset'] + offset'
    BY DEF Flat
  <2> QED BY <1>2, <1>3, <1>5, <2>1
<1>7. \A k \in 0 .. Total - 1 : carries'[k] = IF k < Flat + Copied THEN k + 1 ELSE 0
  <2> SUFFICES ASSUME NEW k \in 0 .. Total - 1
               PROVE  carries'[k] = IF k < Flat + Copied THEN k + 1 ELSE 0
    OBVIOUS
  <2>1. carries[k] = (IF k < Flat THEN k + 1 ELSE 0) /\ k \in DOMAIN carries /\ k \in Nat
    BY <1>1, <1>2 DEF InOrder, TypeOK
  <2>2. carries'[k] = IF Flat <= k /\ k < Flat + Copied THEN returned + boff + (k - Flat) + 1
                                                        ELSE carries[k]
    BY <2>1 DEF Copy, Place
  <2> HIDE DEF v
  <2>3. CASE k < Flat
    BY <1>2, <2>1, <2>2, <2>3
  <2>4. CASE Flat <= k /\ k < Flat + Copied
    <3>1. returned + boff + (k - Flat) + 1 = k + 1
      BY <1>2, <1>3, <2>1
    <3> QED BY <2>2, <2>4, <3>1
  <2>5. CASE Flat + Copied <= k
    BY <1>2, <2>1, <2>2, <2>5
  <2> QED BY <1>2, <2>1, <2>3, <2>4, <2>5
<1>8. TypeOK'
  <2>1. carries' \in [0 .. Total - 1 -> Nat]
    <3>1. carries' = [k \in 0 .. Total - 1 |-> carries'[k]]
      BY <1>1 DEF Copy, Place, TypeOK
    <3>2. \A k \in 0 .. Total - 1 : carries'[k] \in Nat
      BY <1>2, <1>7
    <3> QED BY <3>1, <3>2
  <2>2. boff' \in 0 .. ask' /\ vecoffset' \in 0 .. NVecs /\ offset' \in Nat
    BY <1>2, <1>3, <1>4, <1>5
  <2> QED BY <1>1, <1>4, <2>1, <2>2 DEF TypeOK
<1>9. InvCursor'
  <2>1. Flat' = returned' + (IF op' = "none" THEN 0 ELSE boff')
    BY <1>2, <1>3, <1>4, <1>6
  <2>2. (vecoffset' = NVecs => offset' = 0) /\ (vecoffset' < NVecs => offset' <= LenVec(vecoffset'))
    <3>1. CASE vecoffset' = v + 1 /\ offset' = 0
      <4>1. v + 1 < NVecs => 0 <= LenVec(v + 1)
        BY <1>3, VectorsAssumption DEF LenVec
      <4> QED BY <3>1, <4>1
    <3>2. CASE vecoffset' = v /\ offset' = offset + Copied
      BY <1>2, <1>3, <3>2
    <3> QED BY <1>5, <3>1, <3>2
  <2> QED BY <2>1, <2>2 DEF InvCursor
<1>10. InOrder'
  BY <1>6, <1>7 DEF InOrder
<1> QED BY <1>8, <1>9, <1>10 DEF CursorInv

(* CursorInv, and InOrder with it: the cursor stands where the bytes moved *)
(* end, and every byte of the buffer carries its own byte of the transfer. *)
THEOREM CursorCorrect == Spec => []CursorInv
<1>1. Init => CursorInv
  <2> SUFFICES ASSUME Init PROVE CursorInv
    OBVIOUS
  <2>1. TypeOK /\ InvCursor
    <3>1. CASE NVecs = 0
      BY <3>1, VectorsAssumption DEF Init, TypeOK, InvCursor, Flat, Total, LenVec
    <3>2. CASE NVecs > 0
      <4>1. LenVec(0) \in Nat
        BY <3>2, VectorsAssumption DEF LenVec
      <4> QED BY <3>2, <4>1, VectorsAssumption DEF Init, TypeOK, InvCursor, Flat, Total
    <3> QED BY <3>1, <3>2, VectorsAssumption
  <2>2. InOrder
    BY VectorsAssumption DEF Init, InOrder, Flat
  <2> QED BY <2>1, <2>2 DEF CursorInv
<1>2. CursorInv /\ [Next]_vars => CursorInv'
  <2> SUFFICES ASSUME CursorInv, [Next]_vars PROVE CursorInv'
    OBVIOUS
  <2>1. ASSUME NEW o \in {"Read", "Write"}, NEW n \in Asks, Call(o, n) PROVE CursorInv'
    BY <2>1, VectorsAssumption
       DEF Call, CursorInv, TypeOK, InvCursor, InOrder, Flat, LenVec, Total
  <2>2. ASSUME NEW o \in {"Read", "Write"}, Copy(o) PROVE CursorInv'
    BY <2>2, CopyStep
  <2>3. ASSUME NEW o \in {"Read", "Write"}, Return(o) PROVE CursorInv'
    BY <2>3, VectorsAssumption
       DEF Return, CursorInv, TypeOK, InvCursor, InOrder, Flat, LenVec, Total
  <2>4. CASE UNCHANGED vars
    BY <2>4 DEF vars, CursorInv, TypeOK, InvCursor, InOrder, Flat, LenVec, Total
  <2> QED BY <2>1, <2>2, <2>3, <2>4 DEF Next, Read, Write
<1> QED BY <1>1, <1>2, PTL DEF Spec

(* InOrder: no cut into vectors and no sequence of calls skips, repeats or *)
(* reorders a byte.                                                        *)
THEOREM BytesInOrder == Spec => []InOrder
<1>1. CursorInv => InOrder
  BY DEF CursorInv
<1> QED BY <1>1, CursorCorrect, PTL

(* The walk over the vectors implements the flat buffer.                   *)
THEOREM BufferRefined == Spec => BufferSpec
<1>1. Init => Buffer!Init
  BY DEF Init, Buffer!Init
<1>2. CursorInv /\ [Next]_vars => [Buffer!Next]_Buffer!vars
  <2> SUFFICES ASSUME CursorInv, [Next]_vars PROVE [Buffer!Next]_Buffer!vars
    OBVIOUS
  <2>1. ASSUME NEW o \in {"Read", "Write"}, NEW n \in Asks, Call(o, n) PROVE UNCHANGED Buffer!vars
    BY <2>1 DEF Call, Buffer!vars
  <2>2. ASSUME NEW o \in {"Read", "Write"}, Copy(o) PROVE UNCHANGED Buffer!vars
    BY <2>2 DEF Copy, Buffer!vars
  <2>3. ASSUME NEW o \in {"Read", "Write"}, Return(o) PROVE Buffer!Next
    <3>1. /\ ask \in Asks /\ ask \in Nat /\ boff \in 0 .. ask /\ returned \in Nat /\ Total \in Nat
          /\ Flat = returned + boff /\ Flat <= Total
          /\ vecoffset = NVecs => Flat = Total
      BY <2>3, Lengths DEF CursorInv, TypeOK, InvCursor, Return
    <3>2. Buffer!Transfer(ask)
      BY <2>3, <3>1 DEF Return, Buffer!Transfer
    <3> QED BY <3>1, <3>2 DEF Buffer!Next
  <2>4. CASE UNCHANGED vars
    BY <2>4 DEF vars, Buffer!vars
  <2> QED BY <2>1, <2>2, <2>3, <2>4 DEF Next, Read, Write
<1> QED BY <1>1, <1>2, CursorCorrect, PTL DEF Spec, BufferSpec, Buffer!Spec
=============================================================================
