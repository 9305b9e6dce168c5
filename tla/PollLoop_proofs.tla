-------------------------- MODULE PollLoop_proofs --------------------------
(***************************************************************************)
(* Proofs about PollLoop for every ring size, set of entry lengths and set *)
(* of cmd_ids: type correctness, the invariant RingInv of the cursors and  *)
(* the ring, and what follows from it whatever the handler returns.        *)
(***************************************************************************)
EXTENDS PollLoopInv, TLAPS

-----------------------------------------------------------------------------
(* Types.                                                                  *)

LEMMA ModType ==
  ASSUME NEW x \in Nat
  PROVE  x % CmdrSize \in Offsets
BY RingAssumption DEF Offsets

TypeInv ==
  /\ TypeOK
  /\ pollPc = "handle" => cmd \in CmdIds

LEMMA PublishType ==
  ASSUME RingTypeOK, NEW e, NEW seq \in Nat, Publish(e, seq),
         e.op \in {"pad", "cmd"}, e \in Unit
  PROVE  /\ ring' \in [Offsets -> Unit]
         /\ log' \in Seq(LogEntry)
         /\ mbCmdHead' \in Offsets
<1> USE RingAssumption
<1>1. Body \in Unit
  BY DEF Body, Unit, Statuses
<1>2. ring' \in [Offsets -> Unit]
  BY <1>1 DEF Publish, WriteEntry, RingTypeOK
<1>3. mbCmdHead + e.len \in Nat
  BY DEF Unit, RingTypeOK, Offsets
<1>4. mbCmdHead' \in Offsets
  BY <1>3, ModType DEF Publish
<1>5. [op |-> e.op, off |-> mbCmdHead, len |-> e.len, id |-> e.id, seq |-> seq] \in LogEntry
  BY DEF LogEntry, Unit, RingTypeOK
<1>6. log' \in Seq(LogEntry)
  BY <1>5 DEF Publish, RingTypeOK
<1> QED BY <1>2, <1>4, <1>6

LEMMA AfterType ==
  ASSUME RingTypeOK, NEW off \in Offsets
  PROVE  After(off) \in Offsets
<1>1. off + ring[off].len \in Nat
  BY RingAssumption DEF RingTypeOK, Unit, Offsets
<1> QED BY <1>1, ModType DEF After, EntHdrLen

LEMMA RingTypeFrame ==
  ASSUME RingTypeOK, UNCHANGED ringVars
  PROVE  RingTypeOK'
BY DEF RingTypeOK, ringVars, sharedVars, kernelVars, histVars

(* TypeOK: every variable of the ring and of both goroutines keeps its    *)
(* type; the cursors stay inside the ring.                                 *)
THEOREM TypeCorrect == Spec => []TypeOK
<1>1. Init => TypeInv
  <2> SUFFICES ASSUME Init PROVE TypeInv
    OBVIOUS
  <2>1. 0 \in Offsets
    BY RingAssumption DEF Offsets
  <2>2. Body \in Unit
    BY RingAssumption DEF Body, Unit, Statuses
  <2>3. RingTypeOK
    BY <2>1, <2>2 DEF Init, RingInit, RingTypeOK
  <2> QED BY <2>3, RingAssumption DEF Init, TypeInv, TypeOK, PollPcs, WaitPcs, ZeroResponse, Response
<1>2. TypeInv /\ [Next]_vars => TypeInv'
  <2> SUFFICES ASSUME TypeInv, [Next]_vars PROVE TypeInv'
    OBVIOUS
  <2> USE DEF TypeInv, TypeOK, PollPcs, WaitPcs
  <2>1. CASE Kernel
    <3>1. ASSUME NEW l \in Lens, PadRing(l) PROVE TypeInv'
      <4>1. HeadToEnd \in Nat
        BY RingAssumption DEF HeadToEnd, RingTypeOK, Offsets
      <4>2. Pad(HeadToEnd) \in Unit /\ Pad(HeadToEnd).op = "pad"
        BY <4>1, RingAssumption DEF Pad, Unit, Statuses
      <4>3. Len(submitted) \in Nat
        BY DEF RingTypeOK
      <4>4. Publish(Pad(HeadToEnd), Len(submitted))
        BY <3>1 DEF PadRing, KernelPad
      <4>5. /\ ring' \in [Offsets -> Unit]
            /\ log' \in Seq(LogEntry)
            /\ mbCmdHead' \in Offsets
        BY <4>2, <4>3, <4>4, PublishType
      <4> QED BY <4>5, <3>1 DEF PadRing, KernelPad, RingTypeOK, loopVars
    <3>2. ASSUME NEW l \in Lens, NEW id \in CmdIds, Submit(l, id) PROVE TypeInv'
      <4>2. Cmd(l, id) \in Unit /\ Cmd(l, id).op = "cmd"
        BY RingAssumption DEF Cmd, Unit, Statuses
      <4>3. Len(submitted) + 1 \in Nat
        BY DEF RingTypeOK
      <4>4. Publish(Cmd(l, id), Len(submitted) + 1)
        BY <3>2 DEF Submit, KernelSubmit
      <4>5. /\ ring' \in [Offsets -> Unit]
            /\ log' \in Seq(LogEntry)
            /\ mbCmdHead' \in Offsets
        BY <4>2, <4>3, <4>4, PublishType
      <4>6. RingTypeOK'
        BY <4>5, <3>2, RingAssumption DEF Submit, KernelSubmit, RingTypeOK
      <4> QED BY <4>6, <3>2 DEF Submit
    <3>3. CASE RaiseEvent
      <4>1. RingTypeOK'
        BY <3>3, RingTypeFrame DEF RaiseEvent
      <4> QED BY <4>1, <3>3 DEF RaiseEvent
    <3>4. CASE Clean
      <4>1. After(lastCleaned) \in Offsets
        BY AfterType DEF RingTypeOK
      <4>2. ring[lastCleaned].id \in CmdIds /\ ring[lastCleaned].status \in Statuses
        BY DEF RingTypeOK, Unit
      <4>3. CASE CleanEnd
        <5>1. RingTypeOK'
          BY <4>3 DEF CleanEnd, sharedVars, histVars, RingTypeOK
        <5> QED BY <5>1, <3>4 DEF Clean, loopVars
      <4>6. CASE CleanUnknown
        <5>1. RingTypeOK'
          BY <4>6 DEF CleanUnknown, sharedVars, histVars, RingTypeOK
        <5> QED BY <5>1, <3>4 DEF Clean, loopVars
      <4>4. CASE CleanPad
        BY <4>1, <4>4, <3>4 DEF Clean, CleanPad, PassOldest, Oldest, loopVars, sharedVars, RingTypeOK,
             After, EntHdrLen
      <4>5. CASE CleanCmd
        BY <4>1, <4>2, <4>5, <3>4 DEF Clean, CleanCmd, PassOldest, Oldest, loopVars, sharedVars,
             RingTypeOK, After, EntHdrLen
      <4> HIDE DEF TypeInv
      <4> QED BY <3>4, <4>3, <4>4, <4>5, <4>6 DEF Clean, KernelClean
    <3> HIDE DEF TypeInv
    <3> QED BY <2>1, <3>1, <3>2, <3>3, <3>4 DEF Kernel
  <2>2. CASE Waiter
    <3>1. RingTypeOK'
      BY <2>2, RingTypeFrame DEF Waiter, WaitPoll, PollFails, HandOver
    <3> QED BY <3>1, <2>2 DEF Waiter, WaitPoll, PollFails, HandOver
  <2>3. CASE Poller
    <3>1. CASE ClearUioEvents \/ Drained
      <4>1. RingTypeOK'
        BY <3>1, RingTypeFrame DEF ClearUioEvents, Drained
      <4> QED BY <4>1, <3>1 DEF ClearUioEvents, Drained
    <3>2. CASE DrainPad \/ DrainCmd
      <4>1. After(cmdTail) \in Offsets
        BY AfterType DEF RingTypeOK
      <4>2. EntCmdId(cmdTail) \in CmdIds
        BY DEF EntCmdId, RingTypeOK, Unit
      <4> QED BY <4>1, <4>2, <3>2 DEF DrainPad, DrainCmd, FetchPad, FetchCmd, AdvanceFetch, NextEntryOff,
            loopVars, kernelVars, RingTypeOK
    <3>3. ASSUME NEW status \in {"good", "check", "error"}, Handle(status) PROVE TypeInv'
      <4>1. [id |-> cmd, status |-> status] \in Outcome
        BY <3>3 DEF Handle, Outcome
      <4>2. resp' \in Response
        BY <3>3, RingAssumption DEF Handle, Response, ZeroResponse
      <4> QED BY <4>1, <4>2, <3>3 DEF Handle, sharedVars, kernelVars, RingTypeOK
    <3>4. CASE CompleteSkip \/ CompletePass
      <4>1. After(mbCmdTail) \in Offsets
        BY AfterType DEF RingTypeOK
      <4> QED BY <4>1, <3>4 DEF CompleteSkip, CompletePass, SkipTailPad, PassTailEntry, AdvanceTail, TailEntryOff,
            loopVars, kernelVars, RingTypeOK
    <3>5. CASE CompleteWrite
      <4>1. Answered(ring[mbCmdTail], resp) \in Unit
        BY DEF Answered, RingTypeOK, Unit, Response, Statuses
      <4>2. ring' = [ring EXCEPT ![mbCmdTail] = Answered(ring[mbCmdTail], resp)]
        BY <3>5 DEF CompleteWrite, WriteResponse, TailEntryOff
      <4>3. ring' \in [Offsets -> Unit]
        BY <4>1, <4>2 DEF RingTypeOK
      <4> QED BY <4>3, <3>5 DEF CompleteWrite, WriteResponse, kernelVars, histVars, RingTypeOK
    <3>6. CASE Notify
      <4>2. RingTypeOK'
        <5>1. NotifyKernel => RingTypeOK'
          BY DEF NotifyKernel, sharedVars, histVars, RingTypeOK
        <5> QED BY <5>1, <3>6, RingTypeFrame DEF Notify
      <4>3. resp' \in Response
        BY <3>6, RingAssumption DEF Notify, ZeroResponse, Response
      <4> QED BY <4>2, <4>3, <3>6 DEF Notify
    <3> HIDE DEF TypeInv
    <3> QED BY <2>3, <3>1, <3>2, <3>3, <3>4, <3>5, <3>6 DEF Poller
  <2>4. CASE Closer
    <3>1. CASE RemoveLun
      <4>1. RingTypeOK'
        BY <3>1, RingTypeFrame DEF RemoveLun
      <4> QED BY <4>1, <3>1 DEF RemoveLun
    <3>2. CASE StopPoll
      <4>1. RingTypeOK'
        BY <3>2, RingTypeFrame DEF StopPoll
      <4> QED BY <4>1, <3>2 DEF StopPoll
    <3> QED BY <2>4, <3>1, <3>2 DEF Closer
  <2>5. CASE UNCHANGED vars
    <3>1. RingTypeOK'
      BY <2>5, RingTypeFrame DEF vars
    <3> QED BY <3>1, <2>5 DEF vars, loopVars
  <2> QED BY <2>1, <2>2, <2>3, <2>4, <2>5 DEF Next
<1>3. TypeInv => TypeOK
  BY DEF TypeInv
<1> QED BY <1>1, <1>2, <1>3, PTL DEF Spec

-----------------------------------------------------------------------------
(* Distances around the ring.                                              *)

LEMMA DistAdvance ==
  ASSUME NEW b \in Offsets, NEW o \in Offsets, NEW l \in Nat,
         o + l <= CmdrSize, Dist(b, o) + l < CmdrSize
  PROVE  /\ (o + l) % CmdrSize \in Offsets
         /\ Dist(b, (o + l) % CmdrSize) = Dist(b, o) + l
<1>1. (o + l) % CmdrSize = IF o + l = CmdrSize THEN 0 ELSE o + l
  BY RingAssumption DEF Offsets
<1> QED BY <1>1, RingAssumption DEF Offsets, Dist

LEMMA DistRebase ==
  ASSUME NEW b \in Offsets, NEW o \in Offsets, NEW l \in Nat,
         b + l <= CmdrSize, l <= Dist(b, o)
  PROVE  Dist((b + l) % CmdrSize, o) = Dist(b, o) - l
<1>1. (b + l) % CmdrSize = IF b + l = CmdrSize THEN 0 ELSE b + l
  BY RingAssumption DEF Offsets
<1> QED BY <1>1, RingAssumption DEF Offsets, Dist

LEMMA DistInside ==
  ASSUME NEW b \in Offsets, NEW o \in Offsets, NEW h \in Offsets, NEW l \in Nat,
         h + l <= CmdrSize, Dist(b, h) + l < CmdrSize, Dist(b, o) < Dist(b, h)
  PROVE  o \notin h .. h + l - 1
BY RingAssumption DEF Offsets, Dist

LEMMA DistSplit ==
  ASSUME NEW b \in Offsets, NEW x \in Offsets, NEW y \in Offsets,
         Dist(b, x) <= Dist(b, y)
  PROVE  Dist(x, y) = Dist(b, y) - Dist(b, x)
BY RingAssumption DEF Offsets, Dist

LEMMA DistType ==
  ASSUME NEW b \in Offsets, NEW o \in Offsets
  PROVE  Dist(b, o) \in 0 .. CmdrSize - 1
BY RingAssumption DEF Offsets, Dist

LEMMA LogType ==
  ASSUME TypeOK
  PROVE  /\ Len(log) \in Nat
         /\ \A k \in 1 .. Len(log) :
              /\ log[k] \in LogEntry
              /\ log[k].off \in Offsets /\ log[k].len \in Nat /\ log[k].seq \in Nat
              /\ log[k].op \in {"pad", "cmd"} /\ log[k].id \in CmdIds
<1>1. log \in Seq(LogEntry)
  BY DEF TypeOK, RingTypeOK
<1>2. \A k \in 1 .. Len(log) : log[k] \in LogEntry
  BY <1>1
<1> QED BY <1>1, <1>2 DEF LogEntry

(* Appending to the log leaves the entries there. *)
LEMMA PublishLog ==
  ASSUME TypeOK, NEW e \in Unit, NEW seq \in Nat, Publish(e, seq),
         e.op \in {"pad", "cmd"}
  PROVE  /\ Len(log') = Len(log) + 1
         /\ \A k \in 1 .. Len(log) : log'[k] = log[k]
         /\ log'[Len(log) + 1] = [op |-> e.op, off |-> mbCmdHead, len |-> e.len,
                                  id |-> e.id, seq |-> seq]
<1> DEFINE r == [op |-> e.op, off |-> mbCmdHead, len |-> e.len, id |-> e.id, seq |-> seq]
<1>1. log \in Seq(LogEntry) /\ r \in LogEntry
  BY DEF TypeOK, RingTypeOK, LogEntry, Unit
<1>2. log' = Append(log, r)
  BY DEF Publish
<1> HIDE DEF r
<1>3. /\ Len(log') = Len(log) + 1
      /\ \A k \in 1 .. Len(log) : log'[k] = log[k]
      /\ log'[Len(log) + 1] = r
  BY <1>1, <1>2
<1> QED BY <1>3 DEF r

LEMMA WindowType ==
  ASSUME TypeOK, RingInv
  PROVE  /\ Window \subseteq 1 .. Len(log)
         /\ \A k \in nClean + 1 .. Len(log) + 1 : Off(k) \in Offsets
<1>1. Window \subseteq 1 .. Len(log)
  BY LogType DEF Window, RingInv, InvCursors, TypeOK, RingTypeOK
<1>2. ASSUME NEW k \in nClean + 1 .. Len(log) + 1
      PROVE  Off(k) \in Offsets
  <2>1. CASE k <= Len(log)
    BY <1>1, <2>1, LogType DEF Off, Window, TypeOK, RingTypeOK
  <2>2. CASE ~(k <= Len(log))
    BY <2>2 DEF Off, TypeOK, RingTypeOK
  <2> QED BY <2>1, <2>2
<1> QED BY <1>1, <1>2

(* The cursor after entry k is the start of entry k + 1 *)
LEMMA AfterEntry ==
  ASSUME TypeOK, RingInv, NEW k \in Window
  PROVE  /\ After(Off(k)) = Off(k + 1)
         /\ EntHdrOp(Off(k)) = log[k].op
BY LogType, WindowType DEF RingInv, InvChain, InvHeaders, After, EntHdrLen, EntHdrOp, Off, Window

LEMMA RingPublish ==
  ASSUME TypeOK, RingInv, NEW e \in Unit, NEW seq \in Nat, Publish(e, seq),
         e.op \in {"pad", "cmd"},
         e.len > 0, mbCmdHead + e.len <= CmdrSize, e.len <= Free,
         seq = Len(submitted) + (IF e.op = "cmd" THEN 1 ELSE 0),
         Len(submitted') = seq,
         UNCHANGED <<mbCmdTail, cmdTail, lastCleaned, nClean, nTail, nFetch, pollPc, cmd>>,
         InvPadded'
  PROVE  RingInv' 
<1> DEFINE n == Len(log)
<1>1. /\ Len(log') = n + 1
      /\ \A k \in 1 .. n : log'[k] = log[k]
      /\ log'[n + 1] = [op |-> e.op, off |-> mbCmdHead, len |-> e.len, id |-> e.id, seq |-> seq]
  BY PublishLog
<1>t. /\ n \in Nat /\ nClean \in Nat /\ nTail \in Nat /\ nFetch \in Nat
      /\ mbCmdHead \in Offsets /\ lastCleaned \in Offsets /\ e.len \in Nat
      /\ nClean <= nTail /\ nTail <= nFetch /\ nFetch <= n
  BY DEF TypeOK, RingTypeOK, Unit, RingInv, InvCursors
<1> DEFINE Off2(k) == IF k <= Len(log') THEN log'[k].off ELSE mbCmdHead'
           Seqs2(k) == IF k = 0 THEN 0 ELSE log'[k].seq
<1>2. /\ \A k \in 1 .. n + 1 : Off2(k) = Off(k)
      /\ Off2(n + 2) = mbCmdHead'
  BY <1>1, <1>t DEF Off
<1>3. /\ \A k \in 0 .. n : Seqs2(k) = Seqs(k)
      /\ Seqs2(n + 1) = seq
  <2>1. ASSUME NEW k \in 0 .. n PROVE Seqs2(k) = Seqs(k)
    BY <1>1, <1>t DEF Seqs
  <2>2. log'[n + 1].seq = seq /\ n + 1 # 0
    BY <1>1, <1>t
  <2>3. Seqs2(n + 1) = seq
    BY <2>2
  <2> HIDE DEF Seqs2
  <2> QED BY <2>1, <2>3
<1>4. Window' = Window \cup {n + 1}
  BY <1>1, <1>t DEF Window
<1>5. mbCmdHead' = (mbCmdHead + e.len) % CmdrSize
  BY DEF Publish
<1>6. /\ Rel(mbCmdHead') = Rel(mbCmdHead) + e.len
      /\ Rel(mbCmdHead)' = Rel(mbCmdHead')
      /\ Rel(mbCmdHead) \in Nat
  <2>1. Dist(lastCleaned, mbCmdHead) + e.len < CmdrSize
    BY <1>t, DistType, RingAssumption DEF Free
  <2> QED BY <2>1, <1>5, <1>t, DistAdvance, DistType DEF Rel, Dist
<1>7. \A k \in Window : /\ k \in 1 .. n
                        /\ log[k].off \in Offsets /\ log[k].len \in Nat
                        /\ log[k].len > 0
                        /\ Rel(log[k].off) \in Nat
                        /\ Rel(log[k].off) + log[k].len <= Rel(mbCmdHead)
  BY LogType, WindowType, DistType, <1>t, SMTT(30) DEF RingInv, InvChain, InvOrder, Rel
<1>8. \A k \in Window : ring'[log[k].off] = ring[log[k].off]
  <2> SUFFICES ASSUME NEW k \in Window PROVE ring'[log[k].off] = ring[log[k].off]
    OBVIOUS
  <2>1. Dist(lastCleaned, log[k].off) < Dist(lastCleaned, mbCmdHead)
    BY <1>6, <1>7 DEF Rel
  <2>2. Dist(lastCleaned, mbCmdHead) + e.len < CmdrSize
    BY <1>t, DistType, RingAssumption DEF Free
  <2>3. log[k].off \notin mbCmdHead .. mbCmdHead + e.len - 1
    BY <2>1, <2>2, <1>7, <1>t, DistInside
  <2>4. ring' = WriteEntry(mbCmdHead, e)
    BY DEF Publish
  <2>5. /\ log[k].off \in Offsets
        /\ log[k].off # mbCmdHead
        /\ log[k].off \notin mbCmdHead + 1 .. mbCmdHead + e.len - 1
    <3> HIDE DEF n
    <3>1. log[k].off \in Offsets /\ mbCmdHead \in Offsets /\ e.len \in Nat /\ e.len > 0
      BY <1>7, <1>t
    <3> DEFINE o == log[k].off
    <3> HIDE DEF o
    <3>3. o \in Offsets /\ o \notin mbCmdHead .. mbCmdHead + e.len - 1
      BY <3>1, <2>3 DEF o
    <3>4. o # mbCmdHead /\ o \notin mbCmdHead + 1 .. mbCmdHead + e.len - 1
      BY <3>1, <3>3, RingAssumption DEF Offsets
    <3> QED BY <3>3, <3>4 DEF o
  <2> QED BY <2>4, <2>5, Zenon DEF WriteEntry
<1>9. ring'[mbCmdHead] = e
  BY <1>t DEF Publish, WriteEntry
<1>10. \A k \in Window' : \/ k \in Window /\ k \in 1 .. n /\ log'[k] = log[k]
                          \/ k = n + 1 /\ k \notin Window
  BY <1>4, <1>1, <1>7, <1>t
<1> HIDE DEF n, Off2, Seqs2
<1>11. InvCursors'
  <2>1. \A k \in {nClean + 1, nTail + 1, nFetch + 1} : Off2(k) = Off(k)
    BY <1>2, <1>t
  <2> QED BY <2>1, <1>1, <1>t DEF RingInv, InvCursors, Off, Off2
<1>12. InvChain'
  <2> SUFFICES ASSUME NEW k \in Window' 
               PROVE  /\ log'[k].len > 0
                      /\ log'[k].off + log'[k].len <= CmdrSize
                      /\ Off2(k + 1) = (log'[k].off + log'[k].len) % CmdrSize
    BY DEF InvChain, Off, Off2
  <2>1. CASE k \in Window /\ k \in 1 .. n /\ log'[k] = log[k]
    BY <2>1, <1>2, <1>t DEF RingInv, InvChain
  <2>2. CASE k = n + 1
    <3>1. log'[k].off = mbCmdHead /\ log'[k].len = e.len
      BY <2>2, <1>1
    <3>2. k + 1 = n + 2
      BY <2>2, <1>t
    <3>3. Off2(k + 1) = mbCmdHead'
      BY <3>2, <1>2
    <3> QED BY <3>1, <3>3, <1>5
  <2> QED BY <1>10, <2>1, <2>2
<1>13. InvOrder'
  <2>1. \A o : Rel(o)' = Rel(o)
    BY DEF Rel, Dist
  <2>2. ASSUME NEW k \in Window'
        PROVE  Rel(log'[k].off) + log'[k].len <= Rel(mbCmdHead')
    <3>1. CASE k \in Window /\ k \in 1 .. n /\ log'[k] = log[k]
      BY <3>1, <1>6, <1>7, <1>t
    <3>2. CASE k = n + 1
      BY <3>2, <1>1, <1>6, <1>t
    <3> QED BY <1>10, <3>1, <3>2
  <2>3. ASSUME NEW i \in Window', NEW j \in Window', i < j
        PROVE  Rel(log'[i].off) + log'[i].len <= Rel(log'[j].off)
    <3>1. i \in Window /\ i \in 1 .. n /\ log'[i] = log[i]
      BY <1>10, <2>3, <1>t
    <3>2. CASE j \in Window /\ j \in 1 .. n /\ log'[j] = log[j]
      BY <3>1, <3>2, <2>3 DEF RingInv, InvOrder
    <3>3. CASE j = n + 1
      BY <3>1, <3>3, <1>1, <1>7
    <3> QED BY <1>10, <3>2, <3>3
  <2> QED BY <2>1, <2>2, <2>3 DEF InvOrder, Rel, Dist
<1>14. InvHeaders'
  <2> SUFFICES ASSUME NEW k \in Window'
               PROVE  ring'[log'[k].off].op = log'[k].op /\ ring'[log'[k].off].len = log'[k].len
    BY DEF InvHeaders
  <2>1. CASE k \in Window /\ k \in 1 .. n /\ log'[k] = log[k]
    BY <2>1, <1>8 DEF RingInv, InvHeaders
  <2>2. CASE k = n + 1
    BY <2>2, <1>1, <1>9
  <2> QED BY <1>10, <2>1, <2>2
<1>15. InvUnanswered'
  <2> SUFFICES ASSUME NEW k \in nTail + 1 .. n + 1, ~Answering(k)
               PROVE  ring'[log'[k].off].id = log'[k].id
    BY <1>1 DEF InvUnanswered, Answering
  <2>1. CASE k <= n
    <3>1. k \in Window /\ k \in nTail + 1 .. n
      BY <2>1, <1>t DEF Window, n
    <3> QED BY <3>1, <1>1, <1>7, <1>8 DEF RingInv, InvUnanswered, n
  <2>2. CASE k = n + 1
    BY <2>2, <1>1, <1>9
  <2> QED BY <2>1, <2>2, <1>t
<1>16. InvSeqs'
  <2>s. seq = Seqs(n) + (IF e.op = "cmd" THEN 1 ELSE 0)
    BY DEF RingInv, InvSeqs, n
  <2>u. \A k \in 1 .. n : log[k].seq \in Nat /\ log[k].seq <= Seqs(n) /\ Seqs(n) \in Nat
    BY LogType DEF RingInv, InvSeqs, Seqs, n
  <2>1. ASSUME NEW k \in 1 .. n + 1
        PROVE  log'[k].seq = Seqs2(k - 1) + (IF IsCmd(k)' THEN 1 ELSE 0)
    <3>1. CASE k <= n
      BY <3>1, <1>1, <1>3, <1>t DEF RingInv, InvSeqs, IsCmd, n
    <3>2. CASE k = n + 1
      BY <3>2, <1>1, <1>3, <1>t, <2>s DEF IsCmd
    <3> QED BY <3>1, <3>2, <1>t
  <2>2. ASSUME NEW i \in 1 .. n + 1, NEW j \in 1 .. n + 1, i <= j
        PROVE  log'[i].seq <= log'[j].seq
    <3>1. CASE j <= n
      <4>1. i \in 1 .. n /\ j \in 1 .. n /\ i <= j
        BY <3>1, <2>2, <1>t
      <4>2. log[i].seq <= log[j].seq
        BY <4>1 DEF RingInv, InvSeqs, n
      <4> QED BY <4>1, <4>2, <1>1
    <3>2. CASE j = n + 1 /\ i <= n
      BY <3>2, <1>1, <1>t, <2>s, <2>u
    <3>3. CASE j = n + 1 /\ i = n + 1
      BY <3>3, <1>1
    <3> QED BY <3>1, <3>2, <3>3, <1>t, <2>2
  <2>3. Len(submitted') = Seqs2(n + 1)
    BY <1>3
  <2> QED BY <2>1, <2>2, <2>3, <1>1 DEF InvSeqs, Seqs, Seqs2
<1>17. InvServing'
  <2>1. CASE pollPc = "pass"
    <3>1. nTail + 1 \in Window /\ nFetch = nTail + 1 /\ mbCmdTail = log[nTail + 1].off
      BY <2>1, <1>t DEF RingInv, InvServing, InvCursors, Window, Off, n
    <3> QED BY <2>1, <3>1, <1>1, <1>3, <1>8, <1>t DEF RingInv, InvServing, Serving, IsCmd, Seqs, Seqs2, n
  <2>2. CASE pollPc # "pass"
    BY <2>2, <1>1, <1>3, <1>t DEF RingInv, InvServing, Serving, IsCmd, Seqs, Seqs2, n
  <2> QED BY <2>1, <2>2
<1> QED BY <1>11, <1>12, <1>13, <1>14, <1>15, <1>16, <1>17 DEF RingInv


LEMMA RingClean ==
  ASSUME TypeOK, RingInv, lastCleaned # mbCmdTail, PassOldest,
         UNCHANGED <<ring, mbCmdHead, mbCmdTail, cmdTail, padded, log, submitted,
                     nTail, nFetch, pollPc, cmd>>
  PROVE  RingInv'
<1> DEFINE n == Len(log)
           a == nClean + 1
           len == log[a].len
<1>1. /\ n \in Nat /\ nClean \in Nat /\ nTail \in Nat /\ nFetch \in Nat
      /\ mbCmdHead \in Offsets /\ lastCleaned \in Offsets
      /\ nClean < nTail /\ nTail <= nFetch /\ nFetch <= n
  BY DEF TypeOK, RingTypeOK, RingInv, InvCursors
<1>2. a \in Window /\ a \in 1 .. n
  BY <1>1 DEF Window
<1>3. /\ lastCleaned = log[a].off
      /\ Oldest.len = len
      /\ len \in Nat /\ len > 0 /\ lastCleaned + len <= CmdrSize
      /\ lastCleaned' = (lastCleaned + len) % CmdrSize
      /\ lastCleaned' = Off(nClean + 2)
  <2>1. lastCleaned = log[a].off
    BY <1>2 DEF RingInv, InvCursors, Off
  <2>2. Oldest.len = len /\ len > 0 /\ lastCleaned + len <= CmdrSize
    BY <1>2, <2>1 DEF RingInv, InvHeaders, InvChain, Oldest
  <2>3. Off(a + 1) = (lastCleaned + len) % CmdrSize
    BY <1>2, <2>1 DEF RingInv, InvChain
  <2>4. a + 1 = nClean + 2
    BY <1>1
  <2> QED BY <2>1, <2>2, <2>3, <2>4, <1>2, LogType DEF PassOldest
<1>4. nClean' = nClean + 1 /\ Window' = Window \ {a} /\ Window' \subseteq 1 .. n
  BY <1>1 DEF PassOldest, Window
<1>5. \A o \in Offsets : len <= Rel(o) => Rel(o)' = Rel(o) - len
  BY <1>1, <1>3, DistRebase DEF Rel, Dist
<1>6. \A k \in Window' : len <= Rel(log[k].off) /\ log[k].off \in Offsets
                         /\ log[k].len \in Nat /\ Rel(log[k].off) \in Nat
  <2> SUFFICES ASSUME NEW k \in Window' PROVE len <= Rel(log[k].off) /\ log[k].off \in Offsets
                         /\ log[k].len \in Nat /\ Rel(log[k].off) \in Nat
    OBVIOUS
  <2>1. k \in Window /\ a < k /\ k \in 1 .. n
    BY <1>1, <1>4 DEF Window
  <2>2. Rel(log[a].off) + log[a].len <= Rel(log[k].off)
    BY <2>1, <1>2 DEF RingInv, InvOrder
  <2>3. Rel(log[a].off) = 0
    BY <1>1, <1>3 DEF Rel, Dist, Offsets
  <2>4. log[k].off \in Offsets /\ log[k].len \in Nat
    BY <2>1, LogType
  <2>5. Rel(log[k].off) \in Nat
    BY <2>4, <1>1, DistType DEF Rel
  <2>6. len <= Rel(log[k].off)
    BY <2>2, <2>3, <2>5, <1>3
  <2> QED BY <2>4, <2>5, <2>6
<1>7. len <= Rel(mbCmdHead) /\ Rel(mbCmdHead) \in Nat
  <2>1. Rel(log[a].off) + log[a].len <= Rel(mbCmdHead)
    BY <1>2 DEF RingInv, InvOrder
  <2>2. Rel(log[a].off) = 0
    BY <1>1, <1>3 DEF Rel, Dist, Offsets
  <2> QED BY <2>1, <2>2, <1>1, <1>3, DistType DEF Rel
<1> HIDE DEF n, a, len
<1>8. InvCursors'
  BY <1>1, <1>3, <1>4 DEF RingInv, InvCursors, Off
<1>9. InvChain' /\ InvHeaders' /\ InvUnanswered'
  BY <1>4 DEF RingInv, InvChain, InvHeaders, InvUnanswered, Off, Answering
<1>10. InvOrder'
  <2> DEFINE Rel2(o) == Dist(lastCleaned', o)
  <2>1. \A k \in Window' : Rel2(log[k].off) = Rel(log[k].off) - len
    BY <1>5, <1>6 DEF Rel, Dist
  <2>2. Rel2(mbCmdHead) = Rel(mbCmdHead) - len
    BY <1>1, <1>5, <1>7 DEF Rel, Dist
  <2> HIDE DEF Rel2
  <2>3. \A k \in Window' : Rel(log[k].off) + log[k].len <= Rel(mbCmdHead)
    BY <1>4 DEF RingInv, InvOrder
  <2>4. \A i, j \in Window' : i < j => Rel(log[i].off) + log[i].len <= Rel(log[j].off)
    BY <1>4 DEF RingInv, InvOrder
  <2>5. \A k \in Window' : Rel2(log[k].off) + log[k].len <= Rel2(mbCmdHead)
    BY <2>1, <2>2, <2>3, <1>3, <1>6, <1>7
  <2>6. \A i, j \in Window' : i < j => Rel2(log[i].off) + log[i].len <= Rel2(log[j].off)
    BY <2>1, <2>4, <1>3, <1>6
  <2> QED BY <2>5, <2>6 DEF InvOrder, Rel, Rel2, Dist
<1>11. InvSeqs' /\ InvServing'
  BY DEF RingInv, InvSeqs, InvServing, Seqs, IsCmd, Serving
<1>12. InvPadded'
  <2>1. Rel(mbCmdHead)' = Rel(mbCmdHead) - len
    BY <1>1, <1>5, <1>7
  <2>2. padded \in Nat
    BY RingAssumption DEF TypeOK, RingTypeOK
  <2> QED BY <2>1, <2>2, <1>3, <1>7, RingAssumption DEF RingInv, InvPadded, Free, Rel
<1> QED BY <1>8, <1>9, <1>10, <1>11, <1>12 DEF RingInv

LEMMA RingFetch ==
  ASSUME TypeOK, RingInv, cmdTail # mbCmdHead, AdvanceFetch, pollPc = "drain",
         UNCHANGED <<ring, mbCmdHead, mbCmdTail, lastCleaned, padded, log, submitted,
                     nClean, nTail>>,
         \/ EntHdrOp(cmdTail) = "pad" /\ pollPc' = pollPc
         \/ EntHdrOp(cmdTail) = "cmd" /\ pollPc' = "handle" /\ cmd' = EntCmdId(cmdTail)
  PROVE  RingInv'
<1> DEFINE n == Len(log)
           k == nFetch + 1
<1>1. /\ n \in Nat /\ nClean \in Nat /\ nTail \in Nat /\ nFetch \in Nat
      /\ nClean <= nTail /\ nTail <= nFetch /\ nFetch < n
  BY DEF TypeOK, RingTypeOK, RingInv, InvCursors, Off
<1>2. /\ k \in Window /\ k \in 1 .. n /\ k \in nTail + 1 .. n
      /\ cmdTail = Off(k) /\ cmdTail = log[k].off
  BY <1>1 DEF RingInv, InvCursors, Off, Window
<1>3. /\ cmdTail' = Off(k + 1) /\ nFetch' = k
      /\ EntHdrOp(cmdTail) = log[k].op
      /\ EntCmdId(cmdTail) = log[k].id
  <2>1. EntCmdId(cmdTail) = log[k].id
    BY <1>2 DEF RingInv, InvUnanswered, Answering, EntCmdId
  <2> QED BY <2>1, <1>2, AfterEntry DEF AdvanceFetch, NextEntryOff
<1>4. Seqs(k) = Seqs(nFetch) + (IF IsCmd(k) THEN 1 ELSE 0)
  <2>1. k - 1 = nFetch /\ k # 0
    BY <1>1
  <2> QED BY <2>1, <1>2 DEF RingInv, InvSeqs, Seqs
<1>5. Seqs(nTail) = Seqs(nFetch) /\ Seqs(nFetch) \in Nat
  <2>1. nFetch = 0 \/ nFetch \in 1 .. n
    BY <1>1
  <2> QED BY <2>1, LogType DEF RingInv, InvServing, Serving, Seqs
<1> HIDE DEF n, k
<1>6. InvCursors'
  <2>1. k = nFetch + 1 /\ k <= Len(log)
    BY <1>1 DEF n, k
  <2> QED BY <2>1, <1>1, <1>3 DEF RingInv, InvCursors, Off
<1>7. InvChain' /\ InvOrder' /\ InvHeaders' /\ InvSeqs' /\ InvPadded'
  BY DEF RingInv, InvChain, InvOrder, InvHeaders, InvSeqs, InvPadded, Off, Seqs, Window, Rel, Dist,
         IsCmd, Free
<1>8. InvUnanswered'
  BY DEF RingInv, InvUnanswered, Answering
<1>9. InvServing'
  <2>1. CASE EntHdrOp(cmdTail) = "pad" /\ pollPc' = pollPc
    BY <2>1, <1>3, <1>4, <1>5 DEF InvServing, Serving, Seqs, IsCmd
  <2>2. CASE EntHdrOp(cmdTail) = "cmd" /\ pollPc' = "handle" /\ cmd' = EntCmdId(cmdTail)
    <3>1. nTail < k
      BY <1>1 DEF k
    <3> QED BY <2>2, <3>1, <1>3, <1>4, <1>5 DEF InvServing, Serving, Seqs, IsCmd
  <2> QED BY <2>1, <2>2
<1> QED BY <1>6, <1>7, <1>8, <1>9 DEF RingInv

LEMMA TailEntry ==
  ASSUME TypeOK, RingInv, pollPc \in {"complete", "pass"}
  PROVE  /\ nTail + 1 \in Window /\ nTail + 1 \in 1 .. Len(log) /\ nTail + 1 <= nFetch
         /\ mbCmdTail = log[nTail + 1].off
         /\ EntHdrOp(mbCmdTail) = log[nTail + 1].op
         /\ After(mbCmdTail) = Off(nTail + 2)
         /\ log[nTail + 1].op \in {"pad", "cmd"}
         /\ Seqs(nTail + 1) = Seqs(nTail) + (IF IsCmd(nTail + 1) THEN 1 ELSE 0)
         /\ Seqs(nTail) \in Nat
         /\ IsCmd(nTail + 1) => nTail + 1 = nFetch
<1> DEFINE n == Len(log)
           k == nTail + 1
<1>1. /\ n \in Nat /\ nClean \in Nat /\ nTail \in Nat /\ nFetch \in Nat
      /\ nClean <= nTail /\ nTail < nFetch /\ nFetch <= n
  BY DEF TypeOK, RingTypeOK, RingInv, InvCursors, InvServing, Serving
<1>2. k \in Window /\ k \in 1 .. n /\ k <= nFetch
  BY <1>1 DEF Window
<1>3. mbCmdTail = Off(k) /\ mbCmdTail = log[k].off
  BY <1>2 DEF RingInv, InvCursors, Off
<1>4. EntHdrOp(mbCmdTail) = log[k].op /\ After(mbCmdTail) = Off(nTail + 2)
  <2>1. k + 1 = nTail + 2
    BY <1>1
  <2> QED BY <2>1, <1>2, <1>3, AfterEntry
<1>5. log[k].op \in {"pad", "cmd"}
  BY <1>2, LogType
<1>6. Seqs(k) = Seqs(nTail) + (IF IsCmd(k) THEN 1 ELSE 0)
  <2>1. k - 1 = nTail /\ k # 0
    BY <1>1
  <2> QED BY <2>1, <1>2 DEF RingInv, InvSeqs, Seqs
<1>7. Seqs(nTail) \in Nat
  <2>1. nTail = 0 \/ nTail \in 1 .. n
    BY <1>1
  <2> QED BY <2>1, LogType DEF Seqs
<1>8. ASSUME IsCmd(k), k # nFetch PROVE FALSE
  <2>1. /\ nFetch - 1 \in 1 .. n /\ nFetch \in 1 .. n /\ k <= nFetch - 1 /\ nFetch # 0
        /\ nFetch - 1 # 0 /\ k # 0
    BY <1>1, <1>2, <1>8
  <2>2. log[nFetch].seq = Seqs(nFetch - 1) + (IF IsCmd(nFetch) THEN 1 ELSE 0)
    BY <2>1 DEF RingInv, InvSeqs
  <2>3. log[k].seq <= log[nFetch - 1].seq
    BY <2>1, <1>2 DEF RingInv, InvSeqs
  <2>4. IsCmd(nFetch) /\ Seqs(nTail) + 1 = Seqs(nFetch)
    BY DEF RingInv, InvServing, Serving
  <2>5. log[k].seq \in Nat /\ log[nFetch - 1].seq \in Nat
    BY <2>1, <1>2, LogType
  <2> QED BY <1>6, <1>7, <1>8, <2>1, <2>2, <2>3, <2>4, <2>5 DEF Seqs
<1> QED BY <1>1, <1>2, <1>3, <1>4, <1>5, <1>6, <1>7, <1>8

LEMMA RingTail ==
  ASSUME TypeOK, RingInv, AdvanceTail,
         UNCHANGED <<ring, mbCmdHead, cmdTail, lastCleaned, padded, log, submitted,
                     nClean, nFetch, cmd>>,
         \/ pollPc = "complete" /\ EntHdrOp(mbCmdTail) # "cmd" /\ pollPc' = pollPc
         \/ pollPc = "pass" /\ pollPc' = "notify"
  PROVE  RingInv'
<1> DEFINE n == Len(log)
           k == nTail + 1
<1>1. /\ n \in Nat /\ nClean \in Nat /\ nTail \in Nat /\ nFetch \in Nat
      /\ nClean <= nTail /\ nTail < nFetch /\ nFetch <= n
  BY DEF TypeOK, RingTypeOK, RingInv, InvCursors, InvServing, Serving
<1>2. /\ k \in Window /\ k \in 1 .. n /\ k <= nFetch
      /\ mbCmdTail = log[k].off
      /\ EntHdrOp(mbCmdTail) = log[k].op
      /\ After(mbCmdTail) = Off(nTail + 2)
      /\ log[k].op \in {"pad", "cmd"}
      /\ Seqs(k) = Seqs(nTail) + (IF IsCmd(k) THEN 1 ELSE 0)
  BY TailEntry
<1>3. mbCmdTail' = Off(nTail + 2) /\ nTail' = k
  BY <1>2 DEF AdvanceTail, TailEntryOff
<1> HIDE DEF n
<1>4. InvCursors'
  BY <1>1, <1>2, <1>3 DEF RingInv, InvCursors, Off
<1>5. InvChain' /\ InvOrder' /\ InvHeaders' /\ InvSeqs' /\ InvPadded'
  BY DEF RingInv, InvChain, InvOrder, InvHeaders, InvSeqs, InvPadded, Off, Seqs, Window, Rel, Dist,
         IsCmd, Free
<1>6. InvUnanswered'
  BY <1>1, <1>3 DEF RingInv, InvUnanswered, Answering, n
<1>7. InvServing'
  <2>1. CASE pollPc = "complete" /\ EntHdrOp(mbCmdTail) # "cmd" /\ pollPc' = pollPc
    <3>1. log[k].op = "pad" /\ IsCmd(nFetch)
      BY <2>1, <1>2 DEF RingInv, InvServing, Serving
    <3>2. k < nFetch
      BY <3>1, <1>1, <1>2 DEF IsCmd
    <3>3. Seqs(k) = Seqs(nTail)
      BY <3>1, <1>2, TailEntry, <2>1 DEF IsCmd
    <3> HIDE DEF k
    <3> QED BY <2>1, <3>2, <3>3, <1>3 DEF RingInv, InvServing, Serving, Seqs, IsCmd
  <2>2. CASE pollPc = "pass" /\ pollPc' = "notify"
    BY <2>2, <1>3 DEF RingInv, InvServing, Serving, Seqs
  <2> QED BY <2>1, <2>2
<1> QED BY <1>4, <1>5, <1>6, <1>7 DEF RingInv

(* Two entries of the window do not start in the same place. *)
LEMMA WindowApart ==
  ASSUME TypeOK, RingInv, NEW i \in Window, NEW j \in Window, i # j
  PROVE  log[i].off # log[j].off
<1>1. ASSUME NEW x \in Window, NEW y \in Window, x < y
      PROVE  log[x].off # log[y].off
  <2>1. Rel(log[x].off) + log[x].len <= Rel(log[y].off) /\ log[x].len > 0
    BY <1>1 DEF RingInv, InvOrder, InvChain
  <2>2. log[x].off \in Offsets /\ log[x].len \in Nat
    BY WindowType, LogType
  <2>3. lastCleaned \in Offsets
    BY DEF TypeOK, RingTypeOK
  <2>4. Rel(log[x].off) \in Nat
    BY <2>2, <2>3, DistType DEF Rel
  <2> QED BY <2>1, <2>2, <2>4
<1>2. i < j \/ j < i
  BY WindowType, LogType
<1> QED BY <1>1, <1>2

LEMMA RingWrite ==
  ASSUME TypeOK, RingInv, pollPc = "complete", WriteResponse(resp), pollPc' = "pass",
         UNCHANGED cmd
  PROVE  RingInv'
<1> DEFINE k == nTail + 1
<1>1. /\ k \in Window /\ k \in 1 .. Len(log) /\ k <= nFetch
      /\ mbCmdTail = log[k].off /\ mbCmdTail \in Offsets
      /\ EntHdrOp(mbCmdTail) = log[k].op
      /\ IsCmd(k) => k = nFetch
  BY TailEntry DEF TypeOK, RingTypeOK
<1>2. IsCmd(k) /\ k = nFetch
  BY <1>1 DEF WriteResponse, IsCmd, TailEntryOff
<1>3. /\ ring'[mbCmdTail] = Answered(ring[mbCmdTail], resp)
      /\ \A j \in Window : j # k => ring'[log[j].off] = ring[log[j].off]
  <2>1. \A j \in Window : log[j].off \in Offsets
    BY WindowType, LogType
  <2> QED BY <2>1, <1>1, WindowApart DEF WriteResponse, TailEntryOff, TypeOK, RingTypeOK
<1>4. UNCHANGED <<mbCmdHead, mbCmdTail, cmdTail, lastCleaned, padded, log, submitted,
                  nClean, nTail, nFetch, cmd>>
  BY DEF WriteResponse, kernelVars, histVars
<1> HIDE DEF k
<1>5. InvCursors' /\ InvChain' /\ InvOrder' /\ InvSeqs' /\ InvPadded'
  BY <1>4 DEF RingInv, InvCursors, InvChain, InvOrder, InvSeqs, InvPadded, Off, Seqs, Window, Rel, Dist,
         IsCmd, Free
<1>6. InvHeaders'
  <2> SUFFICES ASSUME NEW j \in Window
               PROVE  ring'[log[j].off].op = log[j].op /\ ring'[log[j].off].len = log[j].len
    BY <1>4 DEF InvHeaders, Window
  <2>1. CASE j = k
    BY <2>1, <1>1, <1>3 DEF RingInv, InvHeaders, Answered
  <2>2. CASE j # k
    BY <2>2, <1>3 DEF RingInv, InvHeaders
  <2> QED BY <2>1, <2>2
<1>7. InvUnanswered'
  <2> SUFFICES ASSUME NEW j \in k + 1 .. Len(log)
               PROVE  ring'[log[j].off].id = log[j].id
    BY <1>4 DEF InvUnanswered, Answering, k, TypeOK, RingTypeOK
  <2>1. j \in Window /\ j # k /\ j \in nTail + 1 .. Len(log)
    BY DEF Window, k, TypeOK, RingTypeOK, RingInv, InvCursors
  <2> QED BY <2>1, <1>3 DEF RingInv, InvUnanswered, Answering
<1>8. InvServing'
  <2>1. ring'[mbCmdTail].status # "none"
    BY <1>3 DEF Answered, TypeOK, Response
  <2> QED BY <2>1, <1>2, <1>4 DEF RingInv, InvServing, Serving, Seqs, IsCmd, k
<1> QED BY <1>5, <1>6, <1>7, <1>8 DEF RingInv

LEMMA RingFrame ==
  ASSUME TypeOK, RingInv,
         UNCHANGED <<ring, mbCmdHead, mbCmdTail, cmdTail, lastCleaned, padded, log, submitted,
                     nClean, nTail, nFetch>>,
         \/ UNCHANGED <<pollPc, cmd>>
         \/ pollPc = "handle" /\ pollPc' = "complete" /\ UNCHANGED cmd
         \/ ~Serving /\ ~Serving'
  PROVE  RingInv'
<1>1. InvCursors' /\ InvChain' /\ InvOrder' /\ InvSeqs' /\ InvPadded' /\ InvHeaders'
  BY DEF RingInv, InvCursors, InvChain, InvOrder, InvSeqs, InvPadded, InvHeaders, Off, Seqs,
         Window, Rel, Dist, IsCmd, Free
<1>2. InvUnanswered' /\ InvServing'
  BY DEF RingInv, InvUnanswered, InvServing, Answering, Serving, Seqs, IsCmd
<1> QED BY <1>1, <1>2 DEF RingInv

LEMMA RingInit0 == Init => RingInv
BY RingAssumption DEF Init, RingInit, RingInv, InvCursors, InvChain, InvOrder, InvHeaders, InvUnanswered,
     InvSeqs, InvServing, InvPadded, Window, Off, Seqs, Serving

LEMMA RingStep == TypeOK /\ TypeOK' /\ RingInv /\ [Next]_vars => RingInv'
<1> SUFFICES ASSUME TypeOK, TypeOK', RingInv, [Next]_vars PROVE RingInv'
  OBVIOUS
<1>1. ASSUME NEW l \in Lens, PadRing(l) PROVE RingInv'
  <2> DEFINE e == Pad(HeadToEnd)
  <2>1. HeadToEnd \in Nat \ {0} /\ mbCmdHead + HeadToEnd = CmdrSize
    BY RingAssumption DEF HeadToEnd, TypeOK, RingTypeOK, Offsets
  <2>2. /\ e \in Unit /\ e.op = "pad" /\ e.len = HeadToEnd
        /\ Len(submitted) \in Nat
    BY <2>1, RingAssumption DEF Pad, Unit, Statuses, TypeOK, RingTypeOK
  <2>3. /\ Publish(e, Len(submitted)) /\ HeadToEnd + l <= Free
        /\ submitted' = submitted /\ padded' = l
        /\ UNCHANGED <<mbCmdTail, cmdTail, lastCleaned, nClean, nTail, nFetch, pollPc, cmd>>
    BY <1>1 DEF PadRing, KernelPad, loopVars
  <2>t. mbCmdHead \in Offsets /\ lastCleaned \in Offsets
    BY DEF TypeOK, RingTypeOK
  <2>d. Dist(lastCleaned, mbCmdHead) \in Nat
    BY <2>t, DistType
  <2>4. Free \in Int /\ l \in Nat \ {0} /\ Dist(lastCleaned, mbCmdHead) \in Nat
    BY <2>d, RingAssumption DEF Free
  <2>5. mbCmdHead' = 0
    <3>1. mbCmdHead' = (mbCmdHead + HeadToEnd) % CmdrSize
      BY <2>2, <2>3 DEF Publish
    <3> QED BY <3>1, <2>1, RingAssumption
  <2>6. l <= Free'
    <3>1. Dist(lastCleaned, mbCmdHead') = Dist(lastCleaned, mbCmdHead) + HeadToEnd
      <4>1. Dist(lastCleaned, mbCmdHead) + HeadToEnd < CmdrSize
        BY <2>1, <2>3, <2>4, RingAssumption DEF Free
      <4>2. mbCmdHead' = (mbCmdHead + HeadToEnd) % CmdrSize
        BY <2>2, <2>3 DEF Publish
      <4>3. HeadToEnd \in Nat /\ mbCmdHead + HeadToEnd <= CmdrSize
        BY <2>1, RingAssumption
      <4>4. Dist(lastCleaned, (mbCmdHead + HeadToEnd) % CmdrSize)
              = Dist(lastCleaned, mbCmdHead) + HeadToEnd
        BY <4>1, <4>3, <2>t, DistAdvance
      <4> QED BY <4>2, <4>4
    <3>2. Free' = CmdrSize - 1 - Dist(lastCleaned, mbCmdHead')
      BY <2>3 DEF Free, Dist
    <3> QED BY <3>1, <3>2, <2>1, <2>3, <2>4, RingAssumption DEF Free
  <2>7. InvPadded'
    BY <2>3, <2>5, <2>6 DEF InvPadded
  <2> HIDE DEF e
  <2>8. e.len > 0 /\ mbCmdHead + e.len <= CmdrSize /\ e.len <= Free
    BY <2>1, <2>2, <2>3, <2>4, RingAssumption DEF TypeOK, RingTypeOK, Offsets
  <2> QED BY <2>2, <2>3, <2>7, <2>8, RingPublish
<1>2. ASSUME NEW l \in Lens, NEW id \in CmdIds, Submit(l, id) PROVE RingInv'
  <2> DEFINE e == Cmd(l, id)
  <2>1. /\ e \in Unit /\ e.op = "cmd" /\ e.len = l /\ l \in Nat \ {0}
        /\ Len(submitted) \in Nat
    BY RingAssumption DEF Cmd, Unit, Statuses, TypeOK, RingTypeOK
  <2>2. /\ Publish(e, Len(submitted) + 1)
        /\ \/ padded = l
           \/ padded = 0 /\ l <= HeadToEnd /\ l <= Free
        /\ submitted' = Append(submitted, id) /\ padded' = 0
        /\ UNCHANGED <<mbCmdTail, cmdTail, lastCleaned, nClean, nTail, nFetch, pollPc, cmd>>
    BY <1>2 DEF Submit, KernelSubmit
  <2>3. Len(submitted') = Len(submitted) + 1
    BY <2>2 DEF TypeOK, RingTypeOK
  <2>4. InvPadded'
    BY <2>2 DEF InvPadded
  <2>5. mbCmdHead + l <= CmdrSize /\ l <= Free
    BY <2>1, <2>2, RingAssumption DEF RingInv, InvPadded, HeadToEnd, TypeOK, RingTypeOK, Offsets
  <2> HIDE DEF e
  <2> QED BY <2>1, <2>2, <2>3, <2>4, <2>5, RingPublish
<1>3. CASE RaiseEvent
  BY <1>3, RingFrame DEF RaiseEvent, ringVars, sharedVars, kernelVars, histVars
<1>4. CASE Clean
  <2>1. CASE CleanEnd \/ CleanUnknown
    BY <2>1, <1>4, RingFrame DEF Clean, CleanEnd, CleanUnknown, loopVars, sharedVars, histVars
  <2>2. CASE CleanPad \/ CleanCmd
    BY <2>2, <1>4, RingClean DEF Clean, CleanPad, CleanCmd, Cleaning, loopVars, sharedVars
  <2> QED BY <1>4, <2>1, <2>2 DEF Clean, KernelClean
<1>5. CASE Waiter
  BY <1>5, RingFrame DEF Waiter, WaitPoll, PollFails, HandOver, Serving, ringVars, sharedVars, kernelVars, histVars
<1>6. CASE ClearUioEvents \/ Drained
  BY <1>6, RingFrame DEF ClearUioEvents, Drained, Serving, ringVars, sharedVars, kernelVars, histVars
<1>7. CASE DrainPad
  BY <1>7, RingFetch DEF DrainPad, FetchPad, NextEntryOff, HeadEntryOff, loopVars, kernelVars
<1>8. CASE DrainCmd
  BY <1>8, RingFetch DEF DrainCmd, FetchCmd, NextEntryOff, HeadEntryOff, kernelVars
<1>9. ASSUME NEW status \in {"good", "check", "error"}, Handle(status) PROVE RingInv'
  BY <1>9, RingFrame DEF Handle, sharedVars, kernelVars
<1>10. CASE CompleteSkip
  BY <1>10, RingTail DEF CompleteSkip, SkipTailPad, TailEntryOff, loopVars, kernelVars
<1>11. CASE CompleteWrite
  BY <1>11, RingWrite DEF CompleteWrite
<1>12. CASE CompletePass
  BY <1>12, RingTail DEF CompletePass, PassTailEntry, kernelVars
<1>13. CASE Notify
  BY <1>13, RingFrame DEF Notify, NotifyKernel, Serving, ringVars, sharedVars, kernelVars, histVars
<1>14. CASE Closer
  BY <1>14, RingFrame DEF Closer, RemoveLun, StopPoll, ringVars, sharedVars, kernelVars, histVars
<1>15. CASE UNCHANGED vars
  BY <1>15, RingFrame DEF vars, loopVars, ringVars, sharedVars, kernelVars, histVars
<1> QED
  BY <1>1, <1>2, <1>3, <1>4, <1>5, <1>6, <1>7, <1>8, <1>9, <1>10, <1>11, <1>12, <1>13, <1>14, <1>15
  DEF Next, Kernel, Poller

(* RingInv: the cursors of the kernel and of the library stand at starts   *)
(* of entries, in order, whatever the handler returns.                     *)
THEOREM RingCorrect == Spec => []RingInv
BY TypeCorrect, RingInit0, RingStep, PTL DEF Spec

(* CursorOrder: cmd_tail never overtakes what getNextCommand has fetched,  *)
(* which never overtakes cmd_head, around a ring of any size.              *)
THEOREM CursorsOrdered == Spec => []CursorOrder
<1>1. TypeOK /\ RingInv => CursorOrder
  <2> SUFFICES ASSUME TypeOK, RingInv PROVE CursorOrder
    OBVIOUS
  <2> DEFINE n == Len(log)
  <2>1. /\ n \in Nat /\ nClean \in Nat /\ nTail \in Nat /\ nFetch \in Nat
        /\ nClean <= nTail /\ nTail <= nFetch /\ nFetch <= n
        /\ mbCmdHead \in Offsets /\ lastCleaned \in Offsets
        /\ mbCmdTail \in Offsets /\ cmdTail \in Offsets
    BY DEF TypeOK, RingTypeOK, RingInv, InvCursors
  <2>2. ASSUME NEW k \in nClean + 1 .. n + 1, NEW j \in k .. n + 1
        PROVE  Rel(Off(k)) <= Rel(Off(j))
    <3>1. Rel(Off(k)) \in Nat /\ Rel(Off(j)) \in Nat
      BY <2>1, WindowType, DistType DEF Rel
    <3>2. CASE k = j
      BY <3>1, <3>2
    <3>3. CASE k < j /\ j <= n
      <4>1. k \in Window /\ j \in Window
        BY <2>1, <3>3 DEF Window
      <4>2. Rel(log[k].off) + log[k].len <= Rel(log[j].off) /\ log[k].len \in Nat
        BY <4>1, <3>3, LogType, WindowType DEF RingInv, InvOrder
      <4> QED BY <4>2, <3>1, <3>3, <2>1 DEF Off
    <3>4. CASE k < j /\ j = n + 1
      <4>1. k \in Window
        BY <2>1, <3>4 DEF Window
      <4>2. Rel(log[k].off) + log[k].len <= Rel(mbCmdHead) /\ log[k].len \in Nat
        BY <4>1, LogType, WindowType DEF RingInv, InvOrder
      <4>3. Off(k) = log[k].off /\ Off(j) = mbCmdHead
        BY <3>4, <2>1 DEF Off
      <4> QED BY <4>2, <4>3, <3>1
    <3> QED BY <3>2, <3>3, <3>4, <2>1
  <2>3. /\ Rel(mbCmdTail) <= Rel(cmdTail)
        /\ Rel(cmdTail) <= Rel(mbCmdHead)
    <3>1. Off(n + 1) = mbCmdHead
      BY <2>1 DEF Off
    <3>2. mbCmdTail = Off(nTail + 1) /\ cmdTail = Off(nFetch + 1)
      BY DEF RingInv, InvCursors
    <3>3. /\ nTail + 1 \in nClean + 1 .. n + 1 /\ nFetch + 1 \in nTail + 1 .. n + 1
          /\ nFetch + 1 \in nClean + 1 .. n + 1 /\ n + 1 \in nFetch + 1 .. n + 1
      BY <2>1
    <3> QED BY <2>2, <3>1, <3>2, <3>3
  <2>4. /\ Dist(mbCmdTail, cmdTail) = Rel(cmdTail) - Rel(mbCmdTail)
        /\ Dist(cmdTail, mbCmdHead) = Rel(mbCmdHead) - Rel(cmdTail)
    BY <2>1, <2>3, DistSplit DEF Rel
  <2>5. Rel(mbCmdTail) \in Nat /\ Rel(cmdTail) \in Nat /\ Rel(mbCmdHead) \in Nat
    BY <2>1, DistType DEF Rel
  <2> QED BY <2>4, <2>5 DEF CursorOrder, Rel
<1> QED BY <1>1, TypeCorrect, RingCorrect, PTL

(* OnAHeader: getNextCommand never meets bytes that are no header, and     *)
(* completeCommand ends up at the command being served.                    *)
THEOREM HeadersMet == Spec => []OnAHeader
<1>1. TypeOK /\ RingInv => OnAHeader
  <2> SUFFICES ASSUME TypeOK, RingInv PROVE OnAHeader
    OBVIOUS
  <2>1. ASSUME cmdTail # mbCmdHead PROVE EntHdrOp(NextEntryOff) \in {"pad", "cmd"}
    <3>1. nFetch + 1 \in Window /\ cmdTail = Off(nFetch + 1)
      BY <2>1 DEF TypeOK, RingTypeOK, RingInv, InvCursors, Off, Window
    <3> QED BY <3>1, AfterEntry, WindowType, LogType DEF NextEntryOff
  <2>2. ASSUME pollPc = "complete"
        PROVE  /\ EntHdrOp(TailEntryOff) \in {"pad", "cmd"}
               /\ EntHdrOp(TailEntryOff) = "cmd" => EntCmdId(TailEntryOff) = cmd
    <3>1. /\ nTail + 1 \in nTail + 1 .. Len(log)
          /\ mbCmdTail = log[nTail + 1].off
          /\ EntHdrOp(mbCmdTail) = log[nTail + 1].op
          /\ log[nTail + 1].op \in {"pad", "cmd"}
          /\ IsCmd(nTail + 1) => nTail + 1 = nFetch
      BY <2>2, TailEntry DEF TypeOK, RingTypeOK
    <3>2. EntCmdId(mbCmdTail) = log[nTail + 1].id
      BY <2>2, <3>1 DEF RingInv, InvUnanswered, Answering, EntCmdId
    <3>3. cmd = log[nFetch].id
      BY <2>2 DEF RingInv, InvServing, Serving
    <3> QED BY <3>1, <3>2, <3>3 DEF TailEntryOff, IsCmd
  <2> QED BY <2>1, <2>2 DEF OnAHeader
<1> QED BY <1>1, TypeCorrect, RingCorrect, PTL

(* TailPassesAnswered: cmd_tail never moves past a command without a       *)
(* response in the ring.                                                   *)
THEOREM TailAfterAnswer == Spec => TailPassesAnswered
<1>1. ASSUME TypeOK, RingInv, [Next]_vars
      PROVE  [mbCmdTail' # mbCmdTail =>
               \/ ring[mbCmdTail].op = "pad"
               \/ ring[mbCmdTail].status # "none"]_vars
  <2> SUFFICES ASSUME Next, mbCmdTail' # mbCmdTail
               PROVE  ring[mbCmdTail].op = "pad" \/ ring[mbCmdTail].status # "none"
    BY <1>1
  <2>1. CompleteSkip \/ CompletePass
    BY DEF Next, Kernel, Waiter, Poller, Closer, PadRing, Submit, RaiseEvent, Clean, KernelPad, KernelSubmit,
      KernelClean, CleanEnd, CleanPad, CleanCmd, CleanUnknown, WaitPoll, PollFails, HandOver, ClearUioEvents,
      DrainPad, FetchPad, DrainCmd, FetchCmd, Drained, Handle, CompleteWrite, WriteResponse, Notify,
      NotifyKernel, RemoveLun, StopPoll, ringVars, sharedVars, kernelVars, histVars
  <2>2. CASE CompleteSkip
    BY <2>2, <1>1, TailEntry DEF CompleteSkip, SkipTailPad, TailEntryOff, EntHdrOp
  <2>3. CASE CompletePass
    BY <2>3, <1>1 DEF CompletePass, RingInv, InvServing
  <2> QED BY <2>1, <2>2, <2>3
<1> QED BY <1>1, TypeCorrect, RingCorrect, PTL DEF Spec, TailPassesAnswered

(* NoWakeupLost: whatever fails, a command that is published and not       *)
(* fetched has its wake-up on the way where both goroutines wait.          *)
THEOREM WakeupsKept == Spec => []NoWakeupLost
<1> USE DEF NextEntryOff, HeadEntryOff
<1>1. Init => NoWakeupLost
  BY DEF Init, RingInit, NoWakeupLost
<1>2. NoWakeupLost /\ [Next]_vars => NoWakeupLost'
  <2> SUFFICES ASSUME NoWakeupLost, [Next]_vars PROVE NoWakeupLost'
    OBVIOUS
  <2>1. ASSUME NEW l \in Lens, PadRing(l) PROVE NoWakeupLost'
    <3>1. padded' = l
      BY <2>1 DEF PadRing, KernelPad
    <3> QED BY <3>1, RingAssumption DEF NoWakeupLost
  <2>2. ASSUME NEW l \in Lens, NEW id \in CmdIds, Submit(l, id) PROVE NoWakeupLost'
    BY <2>2 DEF Submit, NoWakeupLost
  <2>3. CASE RaiseEvent
    BY <2>3 DEF RaiseEvent, NoWakeupLost
  <2>4. CASE Clean
    BY <2>4 DEF Clean, KernelClean, CleanEnd, CleanPad, CleanCmd, CleanUnknown, sharedVars, histVars, loopVars,
       NoWakeupLost
  <2>5. CASE Waiter \/ Closer
    BY <2>5 DEF Waiter, WaitPoll, PollFails, HandOver, Closer, RemoveLun, StopPoll, ringVars, sharedVars,
       kernelVars, NoWakeupLost
  <2>6. CASE Drained
    BY <2>6 DEF Drained, NoCommand, ringVars, sharedVars, kernelVars, NoWakeupLost
  <2>7. CASE Poller /\ ~Drained
    <3>1. pollPc' # "select"
      BY <2>7 DEF Poller, ClearUioEvents, DrainPad, DrainCmd, Handle, CompleteSkip, CompleteWrite,
         CompletePass, Notify, loopVars
    <3> QED BY <3>1 DEF NoWakeupLost
  <2>8. CASE UNCHANGED vars
    BY <2>8 DEF vars, ringVars, sharedVars, kernelVars, loopVars, NoWakeupLost
  <2> QED BY <2>1, <2>2, <2>3, <2>4, <2>5, <2>6, <2>7, <2>8 DEF Next, Kernel
<1> QED BY <1>1, <1>2, PTL DEF Spec
=============================================================================
