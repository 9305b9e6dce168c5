-------------------------- MODULE RespRing_proofs ---------------------------
(***************************************************************************)
(* What holds of the concurrent dispatch for every number of slots and of  *)
(* commands outstanding: always (RingTypeCorrect, IndicesKept,             *)
(* NoCommandTwice), and for as long as no slot is handed out before        *)
(* startRespx has left it (the others), which fewer commands outstanding   *)
(* than slots are enough for (RoomWithFewer).                              *)
(***************************************************************************)
EXTENDS RespRingInv, SequenceTheorems, TLAPS

USE DEF pollVars, handlerVars, respVars, kernelVars

-----------------------------------------------------------------------------
LEMMA RingTypeInit == Init => TypeOK
<1> SUFFICES ASSUME Init PROVE TypeOK
  OBVIOUS
<1>1. 0 \in Slots /\ ZeroResponse \in Responses
  BY DispatchAssumption DEF Slots, Responses, ZeroResponse
<1>2. /\ cmdDone \in Seq(Slots) /\ Len(cmdDone) <= RingSize
      /\ completed \in Seq(Responses)
  BY DispatchAssumption DEF Init
<1> QED BY <1>1, <1>2, DispatchAssumption DEF Init, TypeOK

(* TypeOK: indices stay in the ring, and cmdDone within its capacity,      *)
(* however many commands are outstanding.                                  *)
THEOREM RingTypeCorrect == Spec => []TypeOK
<1>1. Init => TypeOK
  BY RingTypeInit
<1>2. TypeOK /\ [Next]_vars => TypeOK'
  <2> SUFFICES ASSUME TypeOK, [Next]_vars PROVE TypeOK'
    OBVIOUS
  <2> USE DispatchAssumption DEF TypeOK
  <2>1. \A i \in Slots : Next1(i) \in Slots
    BY DEF Slots, Next1
  <2>2. CASE Submit
    BY <2>2, LenProperties DEF Submit
  <2>3. CASE StartPollx
    <3>1. CASE Wake
      BY <3>1 DEF Wake
    <3>2. ASSUME NEW n \in Cmds, Fetch(n) PROVE TypeOK'
      BY <2>1, <3>2 DEF Fetch, Cmds
    <3>3. CASE Drained
      BY <3>3 DEF Drained
    <3>4. CASE PollStops
      BY <3>4 DEF PollStops
    <3> QED BY <2>3, <3>1, <3>2, <3>3, <3>4 DEF StartPollx
  <2>4. ASSUME NEW n \in Cmds, HandleRequestx(n) PROVE TypeOK'
    <3>1. ASSUME NEW status \in {"good", "check", "error"}, Answer(n, status) PROVE TypeOK'
      <4>1. ResponseTo(n, status) \in Responses
        BY DEF ResponseTo, ZeroResponse, Responses, Cmds
      <4>2. data' \in [Slots -> Responses \cup {Nil}]
        BY <3>1, <4>1 DEF Answer
      <4> QED BY <3>1, <4>2 DEF Answer
    <3>2. CASE Send(n)
      <4>1. cmdDone' \in Seq(Slots) /\ Len(cmdDone') <= RingSize
        BY <3>2, AppendProperties, LenProperties DEF Send
      <4> QED BY <3>2, <4>1 DEF Send
    <3> QED BY <2>4, <3>1, <3>2 DEF HandleRequestx
  <2>5. CASE StartRespx
    <3>1. CASE Receive
      <4>1. cmdDone' \in Seq(Slots) /\ Len(cmdDone') <= RingSize
        BY <3>1, HeadTailProperties, LenProperties DEF Receive
      <4> QED BY <3>1, <4>1 DEF Receive
    <3>2. CASE Look
      BY <3>2 DEF Look
    <3>3. CASE Complete
      <4>1. completed' \in Seq(Responses)
        BY <3>3, AppendProperties DEF Complete
      <4> QED BY <3>3, <4>1 DEF Complete
    <3>4. CASE ClearSlot
      BY <2>1, <3>4 DEF ClearSlot
    <3> QED BY <2>5, <3>1, <3>2, <3>3, <3>4 DEF StartRespx
  <2>6. CASE UNCHANGED vars
    BY <2>6 DEF vars
  <2> HIDE DEF TypeOK
  <2> QED BY <2>2, <2>3, <2>4, <2>5, <2>6 DEF Next
<1> QED BY <1>1, <1>2, PTL DEF Spec

-----------------------------------------------------------------------------
(* Nothing is heard of a command before it is fetched.                     *)
Unheard == \A n \in Cmds : fetched < n => stage[n] = "none"

LEMMA UnheardStep == TypeOK /\ Unheard /\ [Next]_vars => Unheard'
<1> SUFFICES ASSUME TypeOK, Unheard, [Next]_vars PROVE Unheard'
  OBVIOUS
<1>1. ASSUME NEW n \in Cmds, Fetch(n) PROVE Unheard'
  BY <1>1 DEF Fetch, Unheard, TypeOK, Cmds
<1>2. ASSUME NEW n \in Cmds, HandleRequestx(n) PROVE Unheard'
  BY <1>2 DEF HandleRequestx, Answer, Send, Unheard, TypeOK
<1>3. CASE Submit \/ Wake \/ Drained \/ PollStops \/ StartRespx \/ UNCHANGED vars
  BY <1>3 DEF Submit, Wake, Drained, PollStops, StartRespx, Receive, Look, Complete, ClearSlot, vars, Unheard
<1> QED BY <1>1, <1>2, <1>3 DEF Next, StartPollx

(* NoIndexLost: startRespx never sleeps on the response it needs next,     *)
(* whatever the order in which the handlers end, and also when more        *)
(* commands are outstanding than there are slots.                          *)
THEOREM IndicesKept == Spec => []NoIndexLost
<1>1. Init => Unheard /\ NoIndexLost
  <2> SUFFICES ASSUME Init PROVE Unheard /\ NoIndexLost
    OBVIOUS
  <2>1. tail \in Slots
    BY RingTypeInit DEF TypeOK
  <2> QED BY <2>1 DEF Init, Unheard, NoIndexLost
<1>2. TypeOK /\ Unheard /\ NoIndexLost /\ [Next]_vars => NoIndexLost'
  <2> SUFFICES ASSUME TypeOK, Unheard, NoIndexLost, [Next]_vars, (respPc = "select" /\ data[tail] # Nil)'
               PROVE  \/ \E i \in DOMAIN cmdDone' : cmdDone'[i] = tail'
                      \/ \E n \in Cmds : stage'[n] = "send" /\ index'[n] = tail'
    BY DEF NoIndexLost
  <2>1. ASSUME NEW n \in Cmds, Fetch(n) PROVE stage[n] = "none"
    BY <2>1 DEF Fetch, Unheard, TypeOK, Cmds
  <2>2. ASSUME NEW n \in Cmds, Fetch(n)
        PROVE  \/ \E i \in DOMAIN cmdDone' : cmdDone'[i] = tail'
               \/ \E m \in Cmds : stage'[m] = "send" /\ index'[m] = tail'
    BY <2>1, <2>2 DEF Fetch, NoIndexLost, TypeOK
  <2>3. ASSUME NEW n \in Cmds, NEW status \in {"good", "check", "error"}, Answer(n, status)
        PROVE  \/ \E i \in DOMAIN cmdDone' : cmdDone'[i] = tail'
               \/ \E m \in Cmds : stage'[m] = "send" /\ index'[m] = tail'
    <3>1. CASE index[n] = tail
      BY <2>3, <3>1 DEF Answer, TypeOK
    <3>2. CASE index[n] # tail
      BY <2>3, <3>2 DEF Answer, NoIndexLost, TypeOK
    <3> QED BY <3>1, <3>2
  <2>4. ASSUME NEW n \in Cmds, Send(n)
        PROVE  \/ \E i \in DOMAIN cmdDone' : cmdDone'[i] = tail'
               \/ \E m \in Cmds : stage'[m] = "send" /\ index'[m] = tail'
    <3>1. /\ DOMAIN cmdDone = 1 .. Len(cmdDone) /\ DOMAIN cmdDone' = 1 .. Len(cmdDone) + 1
          /\ cmdDone'[Len(cmdDone) + 1] = index[n]
          /\ \A i \in DOMAIN cmdDone : cmdDone'[i] = cmdDone[i]
          /\ Len(cmdDone) \in Nat
      BY <2>4 DEF Send, TypeOK
    <3>2. \A i \in DOMAIN cmdDone : i \in DOMAIN cmdDone'
      BY <3>1
    <3>3. Len(cmdDone) + 1 \in DOMAIN cmdDone'
      BY <3>1
    <3>4. /\ respPc = "select" /\ data[tail] # Nil /\ tail' = tail /\ UNCHANGED index
          /\ \A m \in Cmds : stage[m] = "send" /\ m # n => stage'[m] = "send"
      BY <2>4 DEF Send, TypeOK
    <3> QED BY <3>1, <3>2, <3>3, <3>4 DEF NoIndexLost
  <2>5. CASE Receive
    <3>1. /\ cmdDone # <<>> /\ tail # Head(cmdDone) /\ cmdDone' = Tail(cmdDone) /\ respPc = "select"
          /\ UNCHANGED <<data, tail, stage, index>> /\ cmdDone \in Seq(Slots)
      BY <2>5 DEF Receive, TypeOK
    <3>2. ASSUME NEW i \in DOMAIN cmdDone, cmdDone[i] = tail
          PROVE  \E j \in DOMAIN cmdDone' : cmdDone'[j] = tail
      <4>1. i # 1 /\ i - 1 \in DOMAIN cmdDone' /\ cmdDone'[i - 1] = cmdDone[i]
        BY <3>1, <3>2
      <4> QED BY <3>2, <4>1
    <3> QED BY <3>1, <3>2 DEF NoIndexLost
  <2>6. CASE Look \/ Complete \/ ClearSlot
    BY <2>6 DEF Look, Complete, ClearSlot
  <2>7. CASE Submit \/ Wake \/ Drained \/ PollStops \/ UNCHANGED vars
    BY <2>7 DEF Submit, Wake, Drained, PollStops, vars, NoIndexLost
  <2> QED BY <2>2, <2>3, <2>4, <2>5, <2>6, <2>7 DEF Next, StartPollx, HandleRequestx, StartRespx
<1> QED BY <1>1, <1>2, UnheardStep, RingTypeCorrect, PTL DEF Spec

-----------------------------------------------------------------------------
(* Slots at different distances from a slot differ, and moving on by one   *)
(* slot brings every place one nearer.                                     *)
LEMMA Places ==
  ASSUME NEW t \in Slots
  PROVE  /\ Next1(t) \in Slots
         /\ Place(t, 0) = t
         /\ \A k \in 0 .. RingSize : Place(t, k) \in Slots
         /\ \A k \in 0 .. RingSize - 1 :
              Next1(Place(t, k)) = Place(t, k + 1) /\ Place(Next1(t), k) = Place(t, k + 1)
         /\ \A j, k \in 0 .. RingSize - 1 : Place(t, j) = Place(t, k) => j = k
BY DispatchAssumption DEF Slots, Next1, Place

(* The numbers the invariant counts with.                                  *)
LEMMA Counting ==
  ASSUME SlotInv, RoomInRing
  PROVE  /\ fetched \in Nat /\ submitted \in Nat
         /\ Len(completed) \in Nat /\ Past \in Nat
         /\ Past <= Len(completed) /\ Len(completed) <= fetched
         /\ fetched - Past <= RingSize
<1>1. Len(completed) \in Nat /\ (completed # <<>> => Len(completed) > 0)
  BY EmptySeq, LenProperties DEF SlotInv, TypeOK
<1> QED BY <1>1, DispatchAssumption DEF SlotInv, TypeOK, InvCounts, InvResponder, Past, RoomInRing

(* Steps that touch neither slots nor commands taken.                      *)
LEMMA QuietStep ==
  ASSUME SlotInv, TypeOK', InvCounts', InvResponder', Past' = Past,
         UNCHANGED <<fetched, head, index, data, tail, stage>>
  PROVE  SlotInv'
BY DEF SlotInv, InvSlots, InvStages, InvData, Live

LEMMA FetchStep ==
  ASSUME SlotInv, RoomInRing, RoomInRing', TypeOK', NEW n \in Cmds, Fetch(n)
  PROVE  SlotInv'
<1> USE DEF Fetch
<1>1. Past' = Past /\ Past \in Nat /\ Past <= fetched /\ fetched - Past < RingSize /\ fetched \in Nat
  <2>1. Past' = Past /\ fetched' = fetched + 1
    BY DEF Past
  <2> QED BY <2>1, Counting, DispatchAssumption DEF RoomInRing
<1>2. /\ head = Place(tail, fetched - Past)
      /\ \A c \in Cmds : Live(c) => index[c] = Place(tail, c - Past - 1)
      /\ tail \in Slots /\ head \in Slots /\ n = fetched + 1
      /\ index \in [Cmds -> Slots] /\ stage \in [Cmds -> {"none", "handle", "send", "done"}]
  BY DEF SlotInv, InvSlots, TypeOK
<1>3. \A c \in Cmds : Live(c)' <=> Live(c) \/ c = n
  BY <1>1, <1>2 DEF Live, Cmds
<1>4. ASSUME NEW c \in Cmds, Live(c) PROVE c # n /\ index[c] # head
  <2>1. /\ c - Past - 1 \in 0 .. RingSize - 1 /\ fetched - Past \in 0 .. RingSize - 1
        /\ c - Past - 1 # fetched - Past /\ c # n
    BY <1>1, <1>2, <1>4, DispatchAssumption DEF Live, Cmds
  <2>2. Place(tail, c - Past - 1) # Place(tail, fetched - Past)
    BY <1>2, <2>1, Places
  <2> QED BY <1>2, <1>4, <2>1, <2>2
<1>5. InvCounts'
  BY <1>2 DEF SlotInv, InvCounts, TypeOK
<1>6. InvSlots'
  <2>1. head' = Place(tail, fetched' - Past')
    <3>1. fetched - Past \in 0 .. RingSize - 1 /\ fetched' - Past' = (fetched - Past) + 1
      BY <1>1, <1>2, DispatchAssumption
    <3> QED BY <1>2, <3>1, Places
  <2>2. \A c \in Cmds : Live(c)' => index'[c] = Place(tail, c - Past - 1)
    BY <1>1, <1>2, <1>3, <1>4
  <2> QED BY <1>1, <2>1, <2>2 DEF InvSlots
<1>7. InvStages'
  BY <1>1, <1>2 DEF SlotInv, InvStages, Cmds
<1>8. InvData'
  <2>1. data[head] = Nil
    BY <1>2, <1>4 DEF SlotInv, InvData
  <2>2. \A c \in Cmds : Live(c)' => (data'[index'[c]] = Nil <=> stage'[c] = "handle")
    BY <1>2, <1>3, <1>4, <2>1 DEF SlotInv, InvData
  <2>3. \A s \in Slots : data'[s] # Nil => \E c \in Cmds : Live(c)' /\ index'[c] = s
    BY <1>2, <1>3, <1>4 DEF SlotInv, InvData
  <2> QED BY <2>2, <2>3 DEF InvData
<1>9. InvResponder'
  BY <1>2 DEF SlotInv, InvResponder, TypeOK, Past
<1> QED BY <1>5, <1>6, <1>7, <1>8, <1>9 DEF SlotInv

(* A command being handled is live, and its slot is nobody else's.         *)
LEMMA OwnSlot ==
  ASSUME SlotInv, RoomInRing, NEW n \in Cmds, stage[n] = "handle"
  PROVE  /\ Live(n) /\ data[index[n]] = Nil /\ index[n] \in Slots
         /\ \A c \in Cmds : Live(c) /\ c # n => index[c] # index[n]
         /\ respPc \in {"complete", "clear"} => index[n] # tail
<1>1. /\ Past \in Nat /\ fetched \in Nat /\ fetched - Past <= RingSize /\ tail \in Slots
      /\ index \in [Cmds -> Slots]
  BY Counting DEF SlotInv, TypeOK
<1>2. Live(n)
  BY <1>1 DEF SlotInv, InvStages, Live, Cmds
<1>3. \A c \in Cmds : Live(c) => index[c] = Place(tail, c - Past - 1) /\ c - Past - 1 \in 0 .. RingSize - 1
  BY <1>1, DispatchAssumption DEF SlotInv, InvSlots, Live, Cmds
<1>4. ASSUME NEW c \in Cmds, Live(c), c # n PROVE index[c] # index[n]
  <2>1. c - Past - 1 # n - Past - 1
    BY <1>1, <1>4 DEF Cmds
  <2>2. Place(tail, c - Past - 1) # Place(tail, n - Past - 1)
    BY <1>1, <1>2, <1>3, <1>4, <2>1, Places
  <2> QED BY <1>2, <1>3, <1>4, <2>2
<1>5. data[index[n]] = Nil
  BY <1>2 DEF SlotInv, InvData
<1>6. respPc \in {"complete", "clear"} => data[tail] # Nil
  <2>1. \A r \in Responses : r # Nil
    BY DEF Responses, Nil
  <2>2. completed # <<>> => completed[Len(completed)] \in Responses
    BY EmptySeq, ElementOfSeq, LenProperties DEF SlotInv, TypeOK
  <2> QED BY <2>1, <2>2 DEF SlotInv, InvResponder, TypeOK
<1> QED BY <1>1, <1>2, <1>4, <1>5, <1>6

LEMMA AnswerStep ==
  ASSUME SlotInv, RoomInRing, TypeOK', NEW n \in Cmds,
         NEW status \in {"good", "check", "error"}, Answer(n, status)
  PROVE  SlotInv'
<1> USE DEF Answer
<1>1. /\ Live(n) /\ index[n] \in Slots /\ Past' = Past
      /\ \A c \in Cmds : Live(c) /\ c # n => index[c] # index[n]
      /\ respPc \in {"complete", "clear"} => index[n] # tail
  BY OwnSlot DEF Past
<1>2. /\ data \in [Slots -> Responses \cup {Nil}] /\ tail \in Slots
      /\ index \in [Cmds -> Slots] /\ stage \in [Cmds -> {"none", "handle", "send", "done"}]
  BY DEF SlotInv, TypeOK
<1>3. ResponseTo(n, status) # Nil
  BY DEF ResponseTo, ZeroResponse, Nil, Cmds
<1>4. InvCounts' /\ InvSlots'
  BY <1>1 DEF SlotInv, InvCounts, InvSlots, Live
<1>5. InvStages'
  BY <1>1, <1>2, Counting DEF SlotInv, InvStages, Live, Cmds
<1>6. InvData'
  <2>1. \A c \in Cmds : Live(c)' => (data'[index'[c]] = Nil <=> stage'[c] = "handle")
    BY <1>1, <1>2, <1>3 DEF SlotInv, InvData, Live
  <2>2. \A s \in Slots : data'[s] # Nil => \E c \in Cmds : Live(c)' /\ index'[c] = s
    BY <1>1, <1>2 DEF SlotInv, InvData, Live
  <2> QED BY <2>1, <2>2 DEF InvData
<1>7. InvResponder'
  BY <1>1, <1>2 DEF SlotInv, InvResponder
<1> QED BY <1>4, <1>5, <1>6, <1>7 DEF SlotInv

(* A command of which startRespx found the response.                       *)
LEMMA AtTail ==
  ASSUME SlotInv, RoomInRing, respPc # "clear", data[tail] # Nil
  PROVE  /\ Len(completed) + 1 \in Cmds /\ Len(completed) < fetched
         /\ Live(Len(completed) + 1) /\ index[Len(completed) + 1] = tail
         /\ stage[Len(completed) + 1] # "handle"
<1>1. /\ Past = Len(completed) /\ Past \in Nat /\ fetched \in Nat
      /\ fetched - Past <= RingSize /\ tail \in Slots /\ fetched <= MaxCmds
  BY Counting DEF Past, SlotInv, TypeOK
<1>2. PICK c \in Cmds : Live(c) /\ index[c] = tail
  BY <1>1 DEF SlotInv, InvData
<1>3. index[c] = Place(tail, c - Past - 1) /\ c - Past - 1 \in 0 .. RingSize - 1
  BY <1>1, <1>2, DispatchAssumption DEF SlotInv, InvSlots, Live, Cmds
<1>4. c - Past - 1 = 0
  <2>1. Place(tail, c - Past - 1) = Place(tail, 0)
    BY <1>1, <1>2, <1>3, Places
  <2>2. 0 \in 0 .. RingSize - 1
    BY DispatchAssumption
  <2> QED BY <1>1, <1>3, <2>1, <2>2, Places
<1>5. c = Len(completed) + 1
  BY <1>1, <1>4 DEF Cmds
<1>6. stage[c] # "handle"
  BY <1>1, <1>2 DEF SlotInv, InvData
<1> QED BY <1>1, <1>2, <1>5, <1>6 DEF Live

LEMMA CompleteStep ==
  ASSUME SlotInv, RoomInRing, TypeOK', Complete
  PROVE  SlotInv'
<1> USE DEF Complete
<1>1. /\ Len(completed) \in Nat /\ fetched \in Nat /\ submitted \in Nat
      /\ Len(completed) < fetched /\ data[tail] = resp
  BY Counting DEF SlotInv, InvResponder
<1>2. /\ Len(completed') = Len(completed) + 1
      /\ completed' # <<>> /\ completed'[Len(completed')] = resp
  BY AppendProperties, EmptySeq DEF SlotInv, TypeOK
<1>3. Past' = Past
  BY <1>1, <1>2 DEF Past
<1>4. InvCounts'
  BY <1>1, <1>2, DispatchAssumption DEF SlotInv, InvCounts
<1>5. InvResponder'
  BY <1>1, <1>2 DEF InvResponder
<1> QED BY <1>3, <1>4, <1>5, QuietStep

LEMMA ClearStep ==
  ASSUME SlotInv, RoomInRing, TypeOK', ClearSlot
  PROVE  SlotInv'
<1> USE DEF ClearSlot
<1> DEFINE D == Len(completed)
<1>1. /\ D \in Nat /\ fetched \in Nat /\ D <= fetched /\ D > 0 /\ Past = D - 1 /\ Past' = D
      /\ fetched - Past <= RingSize /\ fetched <= MaxCmds /\ tail \in Slots
      /\ data \in [Slots -> Responses \cup {Nil}] /\ index \in [Cmds -> Slots]
  BY Counting DEF Past, SlotInv, TypeOK
<1>2. /\ head = Place(tail, fetched - Past)
      /\ \A c \in Cmds : Live(c) => index[c] = Place(tail, c - Past - 1)
  BY DEF SlotInv, InvSlots
<1>3. D \in Cmds /\ Live(D) /\ \A c \in Cmds : Live(c) <=> Live(c)' \/ c = D
  <2>1. D \in Cmds /\ Live(D)
    BY <1>1, DispatchAssumption DEF Live, Cmds
  <2>2. \A c \in Cmds : (Past < c <=> Past' < c \/ c = D) /\ fetched' = fetched
    BY <1>1 DEF Cmds
  <2> QED BY <1>1, <2>1, <2>2 DEF Live
<1>4. index[D] = tail
  <2>1. D - Past - 1 = 0
    BY <1>1
  <2> QED BY <1>1, <1>2, <1>3, <2>1, Places
<1>5. \A c \in Cmds : Live(c)' => index[c] # tail
  <2> SUFFICES ASSUME NEW c \in Cmds, Live(c)' PROVE index[c] # tail
    OBVIOUS
  <2>1. /\ index[c] = Place(tail, c - Past - 1) /\ c - Past - 1 \in 0 .. RingSize - 1
        /\ c - Past - 1 > 0
    <3>1. index[c] = Place(tail, c - Past - 1)
      BY <1>2, <1>3
    <3>2. D < c /\ c <= fetched /\ c \in Nat
      BY <1>1 DEF Live, Cmds
    <3> QED BY <1>1, <3>1, <3>2, DispatchAssumption
  <2>2. 0 \in 0 .. RingSize - 1
    BY DispatchAssumption
  <2> QED BY <1>1, <2>1, <2>2, Places
<1>6. InvCounts' /\ InvResponder'
  BY DEF SlotInv, InvCounts, InvResponder
<1>7. InvSlots'
  <2>1. head' = Place(tail', fetched' - Past')
    <3>1. fetched - D \in 0 .. RingSize - 1 /\ fetched - Past = (fetched - D) + 1
      BY <1>1, DispatchAssumption
    <3> QED BY <1>1, <1>2, <3>1, Places
  <2>2. ASSUME NEW c \in Cmds, Live(c)' PROVE index'[c] = Place(tail', c - Past' - 1)
    <3>1. c - D - 1 \in 0 .. RingSize - 1 /\ c - Past - 1 = (c - D - 1) + 1
      BY <1>1, <2>2, DispatchAssumption DEF Live, Cmds
    <3> QED BY <1>1, <1>2, <1>3, <2>2, <3>1, Places
  <2> QED BY <2>1, <2>2 DEF InvSlots
<1>8. InvStages'
  <2>1. stage[D] # "handle"
    BY <1>1, <1>3, <1>4, EmptySeq, ElementOfSeq, LenProperties
       DEF SlotInv, InvData, InvResponder, Live, TypeOK, Responses, Nil
  <2> QED BY <1>1, <1>3, <2>1 DEF SlotInv, InvStages, Cmds
<1>9. InvData'
  <2>1. \A c \in Cmds : Live(c)' => (data'[index'[c]] = Nil <=> stage'[c] = "handle")
    BY <1>1, <1>3, <1>5 DEF SlotInv, InvData
  <2>2. \A s \in Slots : data'[s] # Nil => \E c \in Cmds : Live(c)' /\ index'[c] = s
    BY <1>1, <1>3, <1>4 DEF SlotInv, InvData
  <2> QED BY <2>1, <2>2 DEF InvData
<1> QED BY <1>6, <1>7, <1>8, <1>9 DEF SlotInv

LEMMA SlotsInit == Init => SlotInv /\ RoomInRing
<1> SUFFICES ASSUME Init, TypeOK PROVE SlotInv /\ RoomInRing
  BY RingTypeInit
<1>1. Past = 0 /\ Len(completed) = 0 /\ \A s \in Slots : data[s] = Nil
  BY DEF Init, Past
<1>2. 0 \in Slots
  BY DispatchAssumption DEF Slots
<1> QED BY <1>1, <1>2, Places, DispatchAssumption
   DEF Init, SlotInv, InvCounts, InvSlots, InvStages, InvData, InvResponder, Live, Cmds, RoomInRing

LEMMA SlotsStep ==
  ASSUME SlotInv, RoomInRing, RoomInRing', TypeOK', [Next]_vars
  PROVE  SlotInv'
<1> USE DEF InvCounts, InvResponder, Past
<1>1. CASE Submit
  <2>1. InvCounts'
    BY <1>1, Counting, DispatchAssumption DEF Submit, SlotInv
  <2> QED BY <1>1, <2>1, QuietStep DEF Submit, SlotInv
<1>2. CASE StartPollx
  <2>1. CASE Wake
    BY <2>1, QuietStep DEF Wake, SlotInv
  <2>2. ASSUME NEW n \in Cmds, Fetch(n) PROVE SlotInv'
    BY <2>2, FetchStep
  <2>3. CASE Drained
    BY <2>3, QuietStep DEF Drained, SlotInv
  <2>4. CASE PollStops
    BY <2>4, QuietStep DEF PollStops, SlotInv
  <2> QED BY <1>2, <2>1, <2>2, <2>3, <2>4 DEF StartPollx
<1>3. ASSUME NEW n \in Cmds, HandleRequestx(n) PROVE SlotInv'
  <2>1. ASSUME NEW status \in {"good", "check", "error"}, Answer(n, status) PROVE SlotInv'
    BY <2>1, AnswerStep
  <2>2. CASE Send(n)
    BY <2>2 DEF Send, SlotInv, InvSlots, InvStages, InvData, Live, TypeOK
  <2> QED BY <1>3, <2>1, <2>2 DEF HandleRequestx
<1>4. CASE StartRespx
  <2>1. CASE Receive
    BY <2>1, QuietStep DEF Receive, SlotInv
  <2>2. CASE Look
    <3>1. InvResponder'
      BY <2>2, AtTail DEF Look, SlotInv
    <3> QED BY <2>2, <3>1, QuietStep DEF Look, SlotInv
  <2>3. CASE Complete
    BY <2>3, CompleteStep
  <2>4. CASE ClearSlot
    BY <2>4, ClearStep
  <2> QED BY <1>4, <2>1, <2>2, <2>3, <2>4 DEF StartRespx
<1>5. CASE UNCHANGED vars
  BY <1>5, QuietStep DEF vars, SlotInv, TypeOK
<1> QED BY <1>1, <1>2, <1>3, <1>4, <1>5 DEF Next

(* SlotInv: for as long as no slot is handed out too early, every response *)
(* is in the slot of its command and every other slot is empty.            *)
THEOREM SlotsCorrect == Spec /\ []RoomInRing => []SlotInv
<1>1. SlotInv /\ RoomInRing /\ RoomInRing' /\ TypeOK' /\ [Next]_vars => SlotInv'
  BY SlotsStep
<1> QED BY <1>1, SlotsInit, RingTypeCorrect, PTL DEF Spec

(* RoomInRing: fewer commands outstanding than slots are enough. The last  *)
(* command completed may be among those whose slot is not left.            *)
THEOREM RoomWithFewer ==
  ASSUME InFlight < RingSize
  PROVE  Spec => []RoomInRing
<1>1. SlotInv /\ RoomInRing /\ TypeOK' /\ [Next]_vars => RoomInRing'
  <2> SUFFICES ASSUME SlotInv, RoomInRing, TypeOK', [Next]_vars PROVE RoomInRing'
    OBVIOUS
  <2>1. /\ Past \in Nat /\ Len(completed) \in Nat /\ Past >= Len(completed) - 1
        /\ fetched \in Nat /\ submitted \in Nat /\ submitted - Len(completed) <= InFlight
    BY Counting DEF SlotInv, InvCounts, Past
  <2>2. ASSUME NEW n \in Cmds, Fetch(n) PROVE RoomInRing'
    <3>1. Past' = Past /\ fetched' = fetched + 1 /\ fetched < submitted
      BY <2>2 DEF Fetch, Past
    <3> QED BY <2>1, <3>1, DispatchAssumption DEF RoomInRing
  <2>3. CASE Complete
    <3>1. Len(completed') = Len(completed) + 1
      BY <2>3, AppendProperties DEF Complete, SlotInv, TypeOK
    <3>2. Past' = Past /\ fetched' = fetched
      BY <2>1, <2>3, <3>1 DEF Complete, Past
    <3> QED BY <3>2 DEF RoomInRing
  <2>4. CASE ClearSlot
    BY <2>1, <2>4, DispatchAssumption DEF ClearSlot, Past, RoomInRing
  <2>5. ASSUME UNCHANGED <<fetched, completed>>, respPc' = "clear" <=> respPc = "clear"
        PROVE  RoomInRing'
    BY <2>5 DEF RoomInRing, Past
  <2>6. CASE Submit \/ Wake \/ Drained \/ PollStops \/ Receive \/ Look \/ UNCHANGED vars
    BY <2>5, <2>6 DEF Submit, Wake, Drained, PollStops, Receive, Look, vars
  <2>7. ASSUME NEW n \in Cmds, HandleRequestx(n) PROVE RoomInRing'
    BY <2>5, <2>7 DEF HandleRequestx, Answer, Send
  <2> QED BY <2>2, <2>3, <2>4, <2>6, <2>7 DEF Next, StartPollx, StartRespx
<1>2. SlotInv /\ RoomInRing /\ TypeOK' /\ [Next]_vars => SlotInv'
  BY <1>1, SlotsStep
<1> QED BY <1>1, <1>2, SlotsInit, RingTypeCorrect, PTL DEF Spec
-----------------------------------------------------------------------------
(* NoAnswerLost, from SlotInv: for as long as no slot is handed out too    *)
(* early, the slot a handler fills is empty, and the slot startRespx       *)
(* empties holds the response just completed.                              *)
THEOREM AnswersKept == Spec /\ []RoomInRing => NoAnswerLost
<1> DEFINE Kept(s) == data[s] # Nil /\ data'[s] # data[s]
                        => /\ data'[s] = Nil
                           /\ completed # <<>>
                           /\ data[s] = completed[Len(completed)]
<1>1. SlotInv /\ RoomInRing /\ [Next]_vars => [\A s \in Slots : Kept(s)]_vars
  <2> SUFFICES ASSUME SlotInv, RoomInRing, Next, NEW s \in Slots PROVE Kept(s)
    OBVIOUS
  <2>1. CASE data' = data
    BY <2>1
  <2>2. ASSUME NEW n \in Cmds, NEW status \in {"good", "check", "error"}, Answer(n, status)
        PROVE  Kept(s)
    <3>1. data[index[n]] = Nil
      BY <2>2, OwnSlot DEF Answer
    <3> QED BY <2>2, <3>1 DEF Answer, SlotInv, TypeOK
  <2>3. CASE ClearSlot
    BY <2>3 DEF ClearSlot, SlotInv, InvResponder, TypeOK
  <2>4. data' = data \/ ClearSlot
          \/ \E n \in Cmds : \E status \in {"good", "check", "error"} : Answer(n, status)
    BY DEF Next, Submit, StartPollx, Wake, Fetch, Drained, PollStops, HandleRequestx, Send,
           StartRespx, Receive, Look, Complete
  <2> HIDE DEF Kept
  <2> QED BY <2>1, <2>2, <2>3, <2>4
<1> QED BY <1>1, SlotsCorrect, PTL DEF Spec, NoAnswerLost

-----------------------------------------------------------------------------
(* InvOwn, with handlers that return no Go error and for as long as no     *)
(* slot is handed out too early: the response in a slot and the response   *)
(* the kernel is told of are the command's own.                            *)
THEOREM OwnResponses ==
  ASSUME HandlerErrs = FALSE
  PROVE  Spec /\ []RoomInRing => []InvOwn
<1>1. Init => InvOwn
  BY DEF Init, InvOwn, Live, Past, Cmds
<1>2. SlotInv /\ SlotInv' /\ RoomInRing /\ InvOwn /\ [Next]_vars => InvOwn'
  <2> SUFFICES ASSUME SlotInv, SlotInv', RoomInRing, InvOwn, [Next]_vars PROVE InvOwn'
    OBVIOUS
  <2>1. ASSUME Past' = Past, UNCHANGED <<fetched, index, data, completed>>,
               \A n \in Cmds : stage'[n] # "handle" => stage[n] # "handle"
        PROVE  InvOwn'
    BY <2>1 DEF InvOwn, Live
  <2>2. CASE Submit \/ Wake \/ Drained \/ PollStops \/ Receive \/ Look \/ UNCHANGED vars
    BY <2>1, <2>2 DEF Submit, Wake, Drained, PollStops, Receive, Look, vars, Past
  <2>3. ASSUME NEW n \in Cmds, Fetch(n) PROVE InvOwn'
    <3>1. ASSUME NEW c \in Cmds, Live(c)', stage'[c] # "handle"
          PROVE  Live(c) /\ stage[c] # "handle" /\ index'[c] = index[c]
      BY <2>3, <3>1 DEF Fetch, Live, Past, SlotInv, TypeOK, Cmds
    <3> QED BY <2>3, <3>1 DEF Fetch, InvOwn
  <2>4. ASSUME NEW n \in Cmds, NEW status \in {"good", "check", "error"}, Answer(n, status)
        PROVE  InvOwn'
    <3>1. \A c \in Cmds : Live(c) /\ c # n => index[c] # index[n]
      BY <2>4, OwnSlot DEF Answer
    <3>2. ResponseTo(n, status).id = n
      BY <2>4 DEF Answer, ResponseTo
    <3>3. ASSUME NEW c \in Cmds, Live(c)', stage'[c] # "handle" PROVE data'[index'[c]].id = c
      <4>1. CASE c = n
        BY <2>4, <3>2, <4>1 DEF Answer, SlotInv, TypeOK
      <4>2. CASE c # n
        <5>1. Live(c) /\ stage[c] # "handle" /\ data'[index'[c]] = data[index[c]]
          BY <2>4, <3>1, <3>3, <4>2 DEF Answer, SlotInv, TypeOK, Live, Past
        <5> QED BY <5>1 DEF InvOwn
      <4> QED BY <4>1, <4>2
    <3> QED BY <2>4, <3>3 DEF Answer, InvOwn
  <2>5. ASSUME NEW n \in Cmds, Send(n) PROVE InvOwn'
    BY <2>1, <2>5 DEF Send, SlotInv, TypeOK, Past
  <2>6. CASE Complete
    <3>1. data[tail] = resp /\ data[tail] # Nil
      BY <2>6 DEF Complete, SlotInv, InvResponder, TypeOK, Responses, Nil
    <3>2. resp.id = Len(completed) + 1
      BY <2>6, <3>1, AtTail DEF Complete, InvOwn
    <3>3. Past' = Past
      BY <2>6, AppendProperties DEF Complete, Past, SlotInv, TypeOK
    <3>4. \A k \in 1 .. Len(completed') : completed'[k].id = k
      BY <2>6, <3>2, AppendProperties, LenProperties DEF Complete, InvOwn, SlotInv, TypeOK
    <3> QED BY <2>6, <3>3, <3>4 DEF Complete, InvOwn, Live
  <2>7. CASE ClearSlot
    <3>1. ASSUME NEW c \in Cmds, Live(c)', stage'[c] # "handle" PROVE data'[index'[c]].id = c
      <4>1. Live(c) /\ stage[c] # "handle" /\ index'[c] = index[c]
        BY <2>7, <3>1, Counting DEF ClearSlot, Live, Past, Cmds
      <4>2. data'[index[c]] # Nil
        BY <3>1, <4>1 DEF SlotInv, InvData
      <4>3. data'[index[c]] = data[index[c]]
        BY <2>7, <4>2 DEF ClearSlot, SlotInv, TypeOK
      <4> QED BY <4>1, <4>3 DEF InvOwn
    <3> QED BY <2>7, <3>1 DEF ClearSlot, InvOwn
  <2> QED BY <2>2, <2>3, <2>4, <2>5, <2>6, <2>7 DEF Next, StartPollx, HandleRequestx, StartRespx
<1> QED BY <1>1, <1>2, SlotsCorrect, PTL DEF Spec

-----------------------------------------------------------------------------
LEMMA OnceAnswer ==
  ASSUME TypeOK, TypeOK', InvOnce, HandlerErrs = FALSE,
         NEW n \in Cmds, NEW status \in {"good", "check", "error"}, Answer(n, status)
  PROVE  InvOnce'
<1> USE DEF Answer, Told
<1>1. /\ index[n] \in Slots /\ data'[index[n]] # Nil /\ data'[index[n]].id = n
      /\ \A s \in Slots : s # index[n] => data'[s] = data[s]
  BY DEF ResponseTo, TypeOK, Nil, Cmds
<1>2. \A c \in Cmds : stage[c] \in {"send", "done"} => c # n /\ stage'[c] = stage[c]
  BY DEF TypeOK
<1>3. stage'[n] \in {"send", "done"} /\ \A c \in Cmds : stage[c] = "none" <=> stage'[c] = "none"
  BY DEF TypeOK
<1>4. \A i \in 1 .. Len(completed) : completed[i].id # n
  BY <1>2 DEF InvOnce
<1>5. \A s \in Slots : data[s] # Nil => data[s].id # n
  BY <1>2 DEF InvOnce
<1>6. respPc = "complete" => resp.id # n
  BY <1>2 DEF InvOnce
<1>7. ASSUME NEW s \in Slots, data'[s] # Nil
      PROVE  /\ \E c \in Cmds : c = data'[s].id /\ stage'[c] \in {"send", "done"}
             /\ \A t \in Slots : data'[t] # Nil /\ data'[t].id = data'[s].id => t = s
             /\ Told(data'[s].id) => respPc = "clear" /\ s = tail
             /\ respPc = "complete" /\ data'[s].id = resp.id => s = tail
  <2>1. CASE s = index[n]
    BY <1>1, <1>3, <1>4, <1>5, <1>6, <2>1
  <2>2. CASE s # index[n]
    <3>1. data'[s] = data[s] /\ data[s] # Nil
      BY <1>1, <1>7, <2>2
    <3>2. \A t \in Slots : data'[t] # Nil /\ data'[t].id = data'[s].id => t = s
      BY <1>1, <1>5, <3>1 DEF InvOnce
    <3> QED BY <1>2, <3>1, <3>2 DEF InvOnce
  <2> QED BY <2>1, <2>2
<1>8. respPc = "complete" => \E c \in Cmds : c = resp.id /\ stage'[c] \in {"send", "done"}
  BY <1>2 DEF InvOnce
<1>9. \A i \in 1 .. Len(completed) : \E c \in Cmds : c = completed[i].id /\ stage'[c] \in {"send", "done"}
  BY <1>2 DEF InvOnce
<1> QED BY <1>3, <1>7, <1>8, <1>9 DEF InvOnce, NoneTwice

LEMMA OnceComplete ==
  ASSUME TypeOK, InvOnce, Complete
  PROVE  InvOnce'
<1> USE DEF Complete, Told
<1>1. /\ Len(completed) \in Nat /\ Len(completed') = Len(completed) + 1
      /\ completed'[Len(completed) + 1] = resp
      /\ \A i \in 1 .. Len(completed) : completed'[i] = completed[i]
  BY AppendProperties, LenProperties DEF TypeOK
<1>2. \A i \in 1 .. Len(completed') : i \in 1 .. Len(completed) \/ i = Len(completed) + 1
  BY <1>1
<1>3. NoneTwice'
  BY <1>1, <1>2 DEF InvOnce, NoneTwice
<1>4. \A i \in 1 .. Len(completed') : \E n \in Cmds : n = completed'[i].id /\ stage[n] \in {"send", "done"}
  BY <1>1, <1>2 DEF InvOnce
<1>5. \A s \in Slots : data[s] # Nil /\ (\E i \in 1 .. Len(completed') : completed'[i].id = data[s].id) => s = tail
  BY <1>1, <1>2 DEF InvOnce
<1> QED BY <1>3, <1>4, <1>5 DEF InvOnce

LEMMA OnceStep ==
  ASSUME TypeOK, TypeOK', InvOnce, HandlerErrs = FALSE, [Next]_vars
  PROVE  InvOnce'
<1>1. ASSUME UNCHANGED <<fetched, stage, data, completed, resp, tail>>,
             respPc \notin {"complete", "clear"}, respPc' \notin {"complete", "clear"}
      PROVE  InvOnce'
  BY <1>1 DEF InvOnce, NoneTwice, Told
<1>2. CASE UNCHANGED <<fetched, stage, data, completed, resp, tail, respPc>>
  BY <1>2 DEF InvOnce, NoneTwice, Told
<1>3. CASE Submit \/ Wake \/ Drained \/ PollStops \/ UNCHANGED vars
  BY <1>2, <1>3 DEF Submit, Wake, Drained, PollStops, vars
<1>4. ASSUME NEW n \in Cmds, Fetch(n) PROVE InvOnce'
  <2>1. \A c \in Cmds : c # n => stage'[c] = stage[c] /\ (fetched < c <=> fetched + 1 < c)
    BY <1>4 DEF Fetch, TypeOK, Cmds
  <2>2. stage[n] = "none" /\ stage'[n] = "handle" /\ ~(fetched + 1 < n) /\ fetched' = fetched + 1
    BY <1>4 DEF Fetch, TypeOK, InvOnce, Cmds
  <2>3. UNCHANGED <<data, completed, resp, tail, respPc>>
    BY <1>4 DEF Fetch
  <2>4. \A c \in Cmds : stage[c] \in {"send", "done"} => stage'[c] \in {"send", "done"}
    BY <2>1, <2>2
  <2>5. \A c \in Cmds : (stage'[c] = "none") <=> (fetched' < c)
    BY <2>1, <2>2 DEF InvOnce
  <2> QED BY <2>3, <2>4, <2>5 DEF InvOnce, NoneTwice, Told
<1>5. ASSUME NEW n \in Cmds, HandleRequestx(n) PROVE InvOnce'
  <2>1. ASSUME NEW status \in {"good", "check", "error"}, Answer(n, status) PROVE InvOnce'
    BY <2>1, OnceAnswer
  <2>2. CASE Send(n)
    <3>1. UNCHANGED <<fetched, data, completed, resp, tail, respPc>>
      BY <2>2 DEF Send
    <3>2. \A c \in Cmds : /\ stage[c] \in {"send", "done"} => stage'[c] \in {"send", "done"}
                          /\ stage[c] = "none" <=> stage'[c] = "none"
      BY <2>2 DEF Send, TypeOK
    <3> QED BY <3>1, <3>2 DEF InvOnce, NoneTwice, Told
  <2> QED BY <1>5, <2>1, <2>2 DEF HandleRequestx
<1>6. CASE Receive
  BY <1>1, <1>6 DEF Receive
<1>7. CASE Look
  <2>1. CASE data[tail] = Nil
    BY <1>7, <2>1 DEF Look, InvOnce, NoneTwice, Told
  <2>2. CASE data[tail] # Nil
    BY <1>7, <2>2 DEF Look, InvOnce, NoneTwice, Told, TypeOK
  <2> QED BY <2>1, <2>2
<1>8. CASE Complete
  BY <1>8, OnceComplete
<1>9. CASE ClearSlot
  <2>1. /\ respPc = "clear" /\ respPc' = "look" /\ UNCHANGED <<fetched, stage, completed, resp>>
        /\ \A s \in Slots : data'[s] # Nil => s # tail /\ data'[s] = data[s]
    BY <1>9 DEF ClearSlot, TypeOK
  <2> QED BY <2>1 DEF InvOnce, NoneTwice, Told
<1> QED BY <1>3, <1>4, <1>5, <1>6, <1>7, <1>8, <1>9 DEF Next, StartPollx, StartRespx

(* NoneTwice, with handlers that return no Go error: no command is         *)
(* answered twice, however many commands are outstanding.                  *)
THEOREM NoCommandTwice ==
  ASSUME HandlerErrs = FALSE
  PROVE  Spec => []NoneTwice
<1>1. Init => InvOnce
  <2> SUFFICES ASSUME Init PROVE InvOnce
    OBVIOUS
  <2>1. Len(completed) = 0 /\ \A s \in Slots : data[s] = Nil
    BY DEF Init
  <2> QED BY <2>1 DEF Init, InvOnce, NoneTwice, Told, Cmds
<1>2. TypeOK /\ TypeOK' /\ InvOnce /\ [Next]_vars => InvOnce'
  BY OnceStep
<1>3. InvOnce => NoneTwice
  BY DEF InvOnce
<1> QED BY <1>1, <1>2, <1>3, RingTypeCorrect, PTL DEF Spec

-----------------------------------------------------------------------------
LEMMA NumbersGrow ==
  ASSUME NEW m \in Nat
  PROVE  /\ Len([k \in 1 .. m |-> k]) = m
         /\ [k \in 1 .. m + 1 |-> k] = Append([k \in 1 .. m |-> k], m + 1)
<1> DEFINE s == [k \in 1 .. m |-> k]
           t == [k \in 1 .. m + 1 |-> k]
<1>1. s \in Seq(Nat) /\ Len(s) = m /\ t \in Seq(Nat) /\ Len(t) = m + 1
  OBVIOUS
<1>2. /\ Append(s, m + 1) \in Seq(Nat) /\ Len(Append(s, m + 1)) = m + 1
      /\ \A i \in 1 .. m + 1 : Append(s, m + 1)[i] = t[i]
  <2>1. \A i \in 1 .. m : s[i] = i
    OBVIOUS
  <2>2. \A i \in 1 .. m + 1 : t[i] = i
    OBVIOUS
  <2> HIDE DEF s, t
  <2> QED BY <1>1, <2>1, <2>2, AppendProperties
<1>3. t = Append(s, m + 1)
  <2> HIDE DEF s, t
  <2> QED BY <1>1, <1>2, SeqEqual
<1> QED BY <1>1, <1>3

(* The concurrent dispatch implements CmdService: with handlers that       *)
(* return no Go error, and for as long as no slot is handed out too early, *)
(* the kernel cannot tell it from startPoll.                               *)
THEOREM DispatchRefines ==
  ASSUME HandlerErrs = FALSE
  PROVE  Spec /\ []RoomInRing => ServiceSpec
<1> DEFINE numbers == [k \in 1 .. submitted |-> k]
           served == IF respPc = "complete" THEN Append(completed, resp) ELSE completed
<1>1. Init => Service!Init
  BY DEF Init, Service!Init
<1>2. SlotInv /\ RoomInRing /\ InvOwn /\ [Next]_vars => [Service!Next]_Service!vars
  <2> SUFFICES ASSUME SlotInv, RoomInRing, InvOwn, [Next]_vars PROVE [Service!Next]_Service!vars
    OBVIOUS
  <2>1. completed \in Seq(Responses) /\ Len(completed) \in Nat /\ submitted \in Nat
    BY LenProperties DEF SlotInv, TypeOK
  <2>2. CASE Submit
    <3>1. /\ Len(numbers) = submitted /\ numbers' = Append(numbers, submitted + 1)
          /\ served' = served /\ completed' = completed
      BY <2>1, <2>2, NumbersGrow DEF Submit
    <3>2. \A i \in Len(completed) + 1 .. Len(numbers) : numbers[i] # submitted + 1
      BY <2>1, <3>1
    <3>3. submitted + 1 \in Cmds
      BY <2>1, <2>2, DispatchAssumption DEF Submit, Cmds
    <3>4. PICK id \in Cmds : id = submitted + 1
      BY <3>3
    <3>5. Service!Submit(id)
      <4> HIDE DEF numbers, served
      <4> SUFFICES /\ Len(numbers) < MaxCmds
                   /\ \A i \in Len(completed) + 1 .. Len(numbers) : numbers[i] # id
                   /\ numbers' = Append(numbers, id)
                   /\ served' = served /\ completed' = completed
        BY DEF Service!Submit, numbers, served
      <4> QED BY <2>2, <3>1, <3>2, <3>4 DEF Submit
    <3> HIDE DEF numbers, served
    <3> QED BY <3>5 DEF Service!Next
  <2>3. CASE Look
    <3>1. CASE data[tail] = Nil
      BY <2>3, <3>1 DEF Look, Service!vars
    <3>2. CASE data[tail] # Nil
      <4>1. /\ Len(completed) + 1 \in Cmds /\ Len(completed) < fetched
            /\ data[tail].id = Len(completed) + 1
        BY <2>3, <3>2, AtTail DEF Look, InvOwn
      <4>2. /\ data[tail] = [id |-> Len(completed) + 1, status |-> data[tail].status]
            /\ data[tail].status \in {"good", "check"}
        BY <3>2, <4>1 DEF SlotInv, TypeOK, Responses
      <4>3. /\ Len(completed) < Len(numbers) /\ numbers[Len(completed) + 1] = Len(completed) + 1
        BY <2>1, <4>1, NumbersGrow DEF SlotInv, InvCounts, TypeOK
      <4>4. Service!Serve(data[tail].status)
        BY <2>3, <3>2, <4>2, <4>3 DEF Look, Service!Serve
      <4> QED BY <4>2, <4>4 DEF Service!Next
    <3> QED BY <3>1, <3>2
  <2>4. CASE Complete
    <3>1. /\ Len(Append(completed, resp)) = Len(completed) + 1
          /\ Append(completed, resp)[Len(completed) + 1] = resp
      BY <2>1, AppendProperties DEF SlotInv, TypeOK
    <3>2. Service!Report
      BY <2>1, <2>4, <3>1 DEF Complete, Service!Report
    <3> QED BY <3>2 DEF Service!Next
  <2>5. ASSUME UNCHANGED <<submitted, completed, served>> PROVE UNCHANGED Service!vars
    BY <2>5 DEF Service!vars
  <2>6. CASE StartPollx \/ Receive \/ ClearSlot \/ (\E n \in Cmds : HandleRequestx(n)) \/ UNCHANGED vars
    BY <2>5, <2>6 DEF StartPollx, Wake, Fetch, Drained, PollStops, Receive, ClearSlot,
                      HandleRequestx, Answer, Send, vars
  <2> QED BY <2>2, <2>3, <2>4, <2>6 DEF Next, StartRespx
<1> QED BY <1>1, <1>2, SlotsCorrect, OwnResponses, PTL DEF Spec, ServiceSpec, Service!Spec
=============================================================================
