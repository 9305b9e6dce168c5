----------------------- MODULE PollLoopReply_proofs -----------------------
(***************************************************************************)
(* Proofs about PollLoop with a handler that returns no Go error: every    *)
(* command is answered with what the handler decided of it, for every ring *)
(* size, set of entry lengths and set of cmd_ids, and the device is the    *)
(* service of CmdService.                                                  *)
(***************************************************************************)
EXTENDS PollLoop_proofs

LEMMA Counting ==
  ASSUME TypeOK, RingInv
  PROVE  /\ Len(log) \in Nat
         /\ \A k \in 0 .. Len(log) : Seqs(k) \in Nat
         /\ \A j, k \in 0 .. Len(log) : j <= k => Seqs(j) <= Seqs(k)
         /\ \A k \in 1 .. Len(log) : /\ log[k].seq = Seqs(k)
                                     /\ Seqs(k) = Seqs(k - 1) + (IF IsCmd(k) THEN 1 ELSE 0)
                                     /\ IsCmd(k) => Seqs(k) >= 1
<1>1. Len(log) \in Nat
  BY LogType
<1>2. \A k \in 1 .. Len(log) : log[k].seq = Seqs(k) /\ log[k].seq \in Nat
  BY LogType DEF Seqs
<1>3. \A k \in 0 .. Len(log) : Seqs(k) \in Nat
  BY <1>1, <1>2 DEF Seqs
<1>4. \A j, k \in 1 .. Len(log) : j <= k => Seqs(j) <= Seqs(k)
  BY <1>2 DEF RingInv, InvSeqs
<1>5. \A j, k \in 0 .. Len(log) : j <= k => Seqs(j) <= Seqs(k)
  <2> SUFFICES ASSUME NEW j \in 0 .. Len(log), NEW k \in 0 .. Len(log), j <= k
               PROVE  Seqs(j) <= Seqs(k)
    OBVIOUS
  <2>1. CASE j = 0
    BY <2>1, <1>3, <1>1 DEF Seqs
  <2>2. CASE j # 0
    <3>1. j \in 1 .. Len(log) /\ k \in 1 .. Len(log)
      BY <2>2, <1>1
    <3> QED BY <3>1, <1>4
  <2> QED BY <2>1, <2>2
<1>6. \A k \in 1 .. Len(log) : Seqs(k) = Seqs(k - 1) + (IF IsCmd(k) THEN 1 ELSE 0)
  BY <1>2 DEF RingInv, InvSeqs
<1>7. \A k \in 1 .. Len(log) : k - 1 \in 0 .. Len(log)
  BY <1>1
<1>8. \A k \in 1 .. Len(log) : IsCmd(k) => Seqs(k) >= 1
  BY <1>3, <1>6, <1>7
<1> QED BY <1>1, <1>2, <1>3, <1>5, <1>6, <1>8

LEMMA Cursors ==
  ASSUME TypeOK, RingInv
  PROVE  /\ nClean \in Nat /\ nTail \in Nat /\ nFetch \in Nat /\ Len(log) \in Nat
         /\ nClean <= nTail /\ nTail <= nFetch /\ nFetch <= Len(log)
         /\ Seqs(nClean) \in Nat /\ Seqs(nTail) \in Nat /\ Seqs(nFetch) \in Nat
         /\ Seqs(nClean) <= Seqs(nTail) /\ Seqs(nTail) <= Seqs(nFetch)
         /\ Seqs(nFetch) <= Seqs(Len(log)) /\ Seqs(Len(log)) \in Nat
<1>1. /\ nClean \in Nat /\ nTail \in Nat /\ nFetch \in Nat /\ Len(log) \in Nat
      /\ nClean <= nTail /\ nTail <= nFetch /\ nFetch <= Len(log)
  BY Counting DEF TypeOK, RingTypeOK, RingInv, InvCursors
<1>2. /\ nClean \in 0 .. Len(log) /\ nTail \in 0 .. Len(log) /\ nFetch \in 0 .. Len(log)
      /\ Len(log) \in 0 .. Len(log)
  BY <1>1
<1> QED BY <1>1, <1>2, Counting

(* The histories never run ahead of one another. *)
LEMMA Histories ==
  ASSUME TypeOK, RingInv, InvCounts
  PROVE  /\ Len(done) \in Nat /\ Len(served) \in Nat /\ Len(submitted) \in Nat
         /\ Len(done) = Seqs(nClean) /\ Len(done) <= Seqs(nTail)
         /\ Seqs(nTail) <= Len(served) /\ Len(served) <= Len(submitted)
         /\ Len(submitted) = Seqs(Len(log))
         /\ pollPc = "handle" => Len(served) + 1 = Seqs(nFetch) /\ Len(served) < Len(submitted)
<1>1. Len(done) \in Nat /\ Len(served) \in Nat /\ Len(submitted) \in Nat
  BY DEF TypeOK, RingTypeOK
<1>2. pollPc = "handle" => Seqs(nTail) + 1 = Seqs(nFetch)
  BY DEF RingInv, InvServing, Serving
<1>3. Len(submitted) = Seqs(Len(log))
  BY DEF RingInv, InvSeqs
<1> QED BY <1>1, <1>2, <1>3, Cursors DEF InvCounts

(* Every command between the kernel's cursor and the tail is answered in   *)
(* the ring, under its own cmd_id.                                         *)
LEMMA AnsweredEntry ==
  ASSUME TypeOK, RingInv, ReplyInv, NEW k \in Window, k <= nTail, IsCmd(k)
  PROVE  /\ log[k].seq \in 1 .. Len(served)
         /\ served[log[k].seq] = [id |-> ring[log[k].off].id,
                                  status |-> ring[log[k].off].status]
         /\ ring[log[k].off].id = log[k].id
<1>1. k \in 1 .. Len(log) /\ k \in 0 .. Len(log) /\ nTail \in 0 .. Len(log)
  BY WindowType, Cursors
<1>2. log[k].seq = Seqs(k) /\ Seqs(k) >= 1 /\ Seqs(k) <= Seqs(nTail) /\ Seqs(k) \in Nat
  BY <1>1, Counting
<1>3. log[k].seq \in 1 .. Len(served)
  BY <1>2, Histories, Cursors DEF ReplyInv
<1>4. served[log[k].seq] = [id |-> ring[log[k].off].id,
                            status |-> ring[log[k].off].status]
  BY DEF ReplyInv, InvAnswered
<1>5. served[log[k].seq].id = submitted[log[k].seq]
  BY <1>3 DEF ReplyInv, InvHistory
<1>6. submitted[log[k].seq] = log[k].id
  BY <1>1 DEF ReplyInv, InvSubmitted
<1> QED BY <1>3, <1>4, <1>5, <1>6

-----------------------------------------------------------------------------
(* One lemma per kind of step.                                             *)

LEMMA ReplyFrame ==
  ASSUME TypeOK, RingInv, ReplyInv,
         UNCHANGED <<ring, inflight, broken, submitted, served, done, log,
                     nClean, nTail, nFetch>>,
         \/ UNCHANGED <<pollPc, resp>>
         \/ ~Serving /\ ~Serving'
  PROVE  ReplyInv'
BY SMTT(30) DEF ReplyInv, InvAnswered, InvSubmitted, InvCounts, InvHistory, InvInflight, Window, Answering,
       Seqs, IsCmd, Serving

LEMMA ReplyPublish ==
  ASSUME TypeOK, RingInv, ReplyInv, NEW e \in Unit, NEW seq \in Nat, Publish(e, seq),
         e.op \in {"pad", "cmd"}, e.len > 0, mbCmdHead + e.len <= CmdrSize, e.len <= Free,
         \/ e.op = "pad" /\ UNCHANGED <<submitted, inflight>>
         \/ /\ e.op = "cmd" /\ seq = Len(submitted) + 1
            /\ submitted' = Append(submitted, e.id)
            /\ e.id \notin inflight
            /\ inflight' = inflight \cup {e.id},
         UNCHANGED <<broken, served, done, lastCleaned, nClean, nTail, nFetch, pollPc, resp>>
  PROVE  ReplyInv'
<1> DEFINE n == Len(log)
<1>1. /\ Len(log') = n + 1
      /\ \A k \in 1 .. n : log'[k] = log[k]
      /\ log'[n + 1] = [op |-> e.op, off |-> mbCmdHead, len |-> e.len, id |-> e.id, seq |-> seq]
  BY PublishLog
<1>2. /\ n \in Nat /\ nClean \in Nat /\ nTail \in Nat /\ nFetch \in Nat
      /\ nClean <= nTail /\ nTail <= nFetch /\ nFetch <= n
      /\ pollPc = "pass" => nTail + 1 <= n
  BY Cursors DEF RingInv, InvServing
<1>3. Window' = Window \cup {n + 1} /\ Window \subseteq 1 .. n /\ n + 1 \notin Window
  BY <1>1, <1>2, WindowType DEF Window
<1>4. \A k \in Window : ring'[log[k].off] = ring[log[k].off]
  <2> SUFFICES ASSUME NEW k \in Window PROVE ring'[log[k].off] = ring[log[k].off]
    OBVIOUS
  <2>1. /\ mbCmdHead \in Offsets /\ lastCleaned \in Offsets /\ e.len \in Nat
        /\ log[k].off \in Offsets /\ log[k].len \in Nat
    BY <1>3, LogType DEF TypeOK, RingTypeOK, Unit
  <2>2. /\ Dist(lastCleaned, log[k].off) \in Nat /\ Dist(lastCleaned, mbCmdHead) \in Nat
        /\ log[k].len > 0
        /\ Dist(lastCleaned, log[k].off) + log[k].len <= Dist(lastCleaned, mbCmdHead)
    BY <2>1, DistType DEF RingInv, InvChain, InvOrder, Rel
  <2>3. Dist(lastCleaned, log[k].off) < Dist(lastCleaned, mbCmdHead)
    BY <2>1, <2>2
  <2>4. Dist(lastCleaned, mbCmdHead) + e.len < CmdrSize
    BY <2>1, <2>2, RingAssumption DEF Free
  <2>5. log[k].off \notin mbCmdHead .. mbCmdHead + e.len - 1
    BY <2>1, <2>3, <2>4, DistInside
  <2> QED BY <2>1, <2>5 DEF Publish, WriteEntry, Offsets
<1>5. \A k \in 0 .. n : (IF k = 0 THEN 0 ELSE log'[k].seq) = Seqs(k)
  BY <1>1, <1>2 DEF Seqs
<1>6. /\ Len(served) <= Len(submitted) /\ Len(served) \in Nat /\ Len(submitted) \in Nat
      /\ \A i \in 1 .. Len(submitted) : submitted'[i] = submitted[i]
      /\ e.op = "cmd" => /\ submitted'[Len(submitted) + 1] = e.id
                         /\ Len(submitted') = Len(submitted) + 1
  <2>1. Len(served) <= Len(submitted) /\ Len(served) \in Nat /\ Len(submitted) \in Nat
    BY Histories DEF ReplyInv
  <2>2. submitted \in Seq(CmdIds) /\ e.id \in CmdIds
    BY DEF TypeOK, RingTypeOK, Unit
  <2>3. CASE e.op = "pad" /\ UNCHANGED <<submitted, inflight>>
    BY <2>1, <2>3
  <2>4. CASE submitted' = Append(submitted, e.id)
    BY <2>1, <2>2, <2>4
  <2> QED BY <2>3, <2>4
<1>7. \A k \in 1 .. n : IsCmd(k) => log[k].seq \in 1 .. Len(submitted)
  <2> SUFFICES ASSUME NEW k \in 1 .. n, IsCmd(k) PROVE log[k].seq \in 1 .. Len(submitted)
    OBVIOUS
  <2>1. k \in 0 .. n /\ n \in 0 .. n
    BY <1>2
  <2>2. log[k].seq = Seqs(k) /\ Seqs(k) >= 1 /\ Seqs(k) \in Nat /\ Seqs(k) <= Seqs(n)
    BY <2>1, <1>2, Counting
  <2> QED BY <2>2, <1>6 DEF RingInv, InvSeqs
<1> HIDE DEF n
<1>8. InvAnswered'
  <2> SUFFICES ASSUME NEW k \in Window', k <= nTail \/ Answering(k), log'[k].op = "cmd"
               PROVE  served[log'[k].seq] = [id |-> ring'[log'[k].off].id,
                                             status |-> ring'[log'[k].off].status]
    BY DEF InvAnswered, Answering, IsCmd
  <2>1. k <= n
    <3>1. k \in Nat
      BY <1>2, <1>3
    <3> QED BY <3>1, <1>2 DEF Answering
  <2>2. k \in Window /\ k \in 1 .. n
    BY <2>1, <1>2, <1>3
  <2> QED BY <2>2, <1>1, <1>4 DEF ReplyInv, InvAnswered, IsCmd
<1>9. InvSubmitted'
  <2>1. ASSUME NEW k \in 1 .. n + 1, log'[k].op = "cmd"
        PROVE  submitted'[log'[k].seq] = log'[k].id
    <3>1. CASE k \in 1 .. n
      BY <3>1, <2>1, <1>1, <1>6, <1>7 DEF ReplyInv, InvSubmitted, IsCmd, n
    <3>2. CASE k = n + 1
      BY <3>2, <2>1, <1>1, <1>6
    <3> QED BY <3>1, <3>2, <1>2
  <2>2. ASSUME NEW i \in 1 .. Len(submitted')
        PROVE  \E k \in 1 .. n + 1 : log'[k].op = "cmd" /\ log'[k].seq = i
    <3>1. CASE i \in 1 .. Len(submitted)
      <4>1. PICK k \in 1 .. n : IsCmd(k) /\ log[k].seq = i
        BY <3>1 DEF ReplyInv, InvSubmitted, n
      <4>2. k \in 1 .. n + 1 /\ log'[k] = log[k]
        BY <4>1, <1>1, <1>2
      <4> QED BY <4>1, <4>2 DEF IsCmd
    <3>2. CASE e.op = "cmd" /\ i = Len(submitted) + 1
      BY <3>2, <1>1, <1>2
    <3> QED BY <3>1, <3>2, <1>6
  <2> QED BY <2>1, <2>2, <1>1 DEF InvSubmitted, IsCmd
<1>10. InvCounts'
  <2>1. nFetch \in 0 .. n /\ nClean \in 0 .. n
    BY <1>2
  <2> QED BY <2>1, <1>5 DEF ReplyInv, InvCounts, Seqs
<1>11. InvHistory'
  BY <1>6 DEF ReplyInv, InvHistory
<1>12. InvInflight'
  <2>1. \A k \in Window : IsCmd(k) => log[k].id \in inflight /\ log'[k] = log[k]
    BY <1>1, <1>3 DEF ReplyInv, InvInflight
  <2>2. \A k \in Window' : k \in Window \/ k = n + 1
    BY <1>3
  <2>3. \A k \in Window' : log'[k].op = "cmd" => log'[k].id \in inflight'
    BY <2>1, <2>2, <1>1, <1>3 DEF IsCmd
  <2>4. ASSUME NEW i \in Window', NEW j \in Window', log'[i].op = "cmd", log'[j].op = "cmd", i # j
        PROVE  log'[i].id # log'[j].id
    <3>1. CASE i \in Window /\ j \in Window
      BY <3>1, <2>4, <1>1, <1>3 DEF ReplyInv, InvInflight, IsCmd
    <3>2. CASE i = n + 1 /\ j \in Window
      BY <3>2, <2>1, <2>4, <1>1, <1>3 DEF IsCmd
    <3>3. CASE j = n + 1 /\ i \in Window
      BY <3>3, <2>1, <2>4, <1>1, <1>3 DEF IsCmd
    <3> QED BY <3>1, <3>2, <3>3, <2>2, <2>4
  <2> QED BY <2>3, <2>4 DEF ReplyInv, InvInflight, IsCmd
<1> QED BY <1>8, <1>9, <1>10, <1>11, <1>12 DEF ReplyInv

(* The oldest entry, which the kernel is about to take back. *)
LEMMA OldestEntry ==
  ASSUME TypeOK, RingInv, lastCleaned # mbCmdTail
  PROVE  /\ nClean + 1 \in Window /\ nClean + 1 \in 1 .. Len(log) /\ nClean + 1 <= nTail
         /\ lastCleaned = log[nClean + 1].off
         /\ Oldest.op = log[nClean + 1].op
         /\ Seqs(nClean + 1) = Seqs(nClean) + (IF IsCmd(nClean + 1) THEN 1 ELSE 0)
         /\ log[nClean + 1].seq = Seqs(nClean + 1)
<1>1. nClean < nTail /\ nTail <= Len(log) /\ nClean \in Nat /\ nTail \in Nat /\ Len(log) \in Nat
  BY Cursors DEF RingInv, InvCursors
<1>2. nClean + 1 \in Window /\ nClean + 1 \in 1 .. Len(log) /\ nClean + 1 <= nTail
  BY <1>1 DEF Window
<1>3. lastCleaned = log[nClean + 1].off
  BY <1>1 DEF RingInv, InvCursors, Off
<1>4. Oldest.op = log[nClean + 1].op
  BY <1>2, <1>3 DEF RingInv, InvHeaders, Oldest
<1>6. /\ log[nClean + 1].seq = Seqs(nClean + 1)
      /\ Seqs(nClean + 1) = Seqs(nClean) + (IF IsCmd(nClean + 1) THEN 1 ELSE 0)
  <2>1. \A k \in 1 .. Len(log) : /\ log[k].seq = Seqs(k)
                                 /\ Seqs(k) = Seqs(k - 1) + (IF IsCmd(k) THEN 1 ELSE 0)
    BY Counting
  <2> DEFINE a == nClean + 1
  <2>2. a \in 1 .. Len(log)
    BY <1>2
  <2>3. a - 1 = nClean
    BY <1>1
  <2> HIDE DEF a
  <2>4. /\ log[a].seq = Seqs(a)
        /\ Seqs(a) = Seqs(nClean) + (IF IsCmd(a) THEN 1 ELSE 0)
    BY <2>1, <2>2, <2>3
  <2> QED BY <2>4 DEF a
<1> QED BY <1>2, <1>3, <1>4, <1>6

LEMMA ReplyClean ==
  ASSUME TypeOK, RingInv, ReplyInv, CleanPad \/ CleanCmd,
         UNCHANGED <<pollPc, resp>>
  PROVE  ReplyInv'
<1> DEFINE a == nClean + 1
<1>1. /\ a \in Window /\ a \in 1 .. Len(log) /\ a <= nTail
      /\ lastCleaned = log[a].off
      /\ Oldest.op = log[a].op
      /\ Seqs(a) = Seqs(nClean) + (IF IsCmd(a) THEN 1 ELSE 0)
      /\ log[a].seq = Seqs(a)
  BY OldestEntry DEF CleanPad, CleanCmd, Cleaning
<1>2. /\ UNCHANGED <<ring, log, submitted, served, broken, nTail, nFetch>>
      /\ nClean' = a
  BY DEF CleanPad, CleanCmd, PassOldest, sharedVars
<1>3. Window' \subseteq Window /\ a \notin Window'
  BY <1>2, Cursors DEF Window
<1>4. /\ Len(done) \in Nat /\ Len(done) = Seqs(nClean)
  BY Histories DEF ReplyInv
<1> HIDE DEF a
<1>5. InvAnswered' /\ InvSubmitted'
  BY <1>2, <1>3 DEF ReplyInv, InvAnswered, InvSubmitted, Answering, IsCmd
<1>6. CASE CleanPad
  <2>1. ~IsCmd(a) /\ UNCHANGED <<inflight, done>>
    BY <1>1, <1>6 DEF CleanPad, IsCmd
  <2>2. Seqs(a) = Seqs(nClean)
    BY <2>1, <1>1, <1>4
  <2>3. InvCounts' /\ InvHistory' /\ InvInflight'
    BY <2>1, <2>2, <1>2, <1>3 DEF ReplyInv, InvCounts, InvHistory, InvInflight, Seqs, IsCmd
  <2> QED BY <2>3, <1>5 DEF ReplyInv
<1>7. CASE CleanCmd
  <2>1. IsCmd(a)
    BY <1>1, <1>7 DEF CleanCmd, IsCmd
  <2>2. /\ log[a].seq \in 1 .. Len(served)
        /\ served[log[a].seq] = [id |-> Oldest.id, status |-> Oldest.status]
        /\ Oldest.id = log[a].id
    BY <1>1, <2>1, AnsweredEntry DEF Oldest
  <2>3. log[a].seq = Len(done) + 1
    BY <1>1, <1>4, <2>1
  <2>4. /\ done' = Append(done, served[Len(done) + 1])
        /\ inflight' = inflight \ {log[a].id}
    BY <1>7, <2>2, <2>3 DEF CleanCmd
  <2>5. /\ Len(done') = Len(done) + 1
        /\ \A i \in 1 .. Len(done) + 1 : i \in 1 .. Len(done) => done'[i] = done[i]
        /\ done'[Len(done) + 1] = served[Len(done) + 1]
    BY <2>4 DEF TypeOK, RingTypeOK
  <2>6. InvCounts'
    BY <2>3, <2>5, <1>1, <1>2 DEF ReplyInv, InvCounts, Seqs
  <2>7. InvHistory'
    <3>1. ASSUME NEW i \in 1 .. Len(done) + 1 PROVE done'[i] = served[i]
      <4>1. CASE i \in 1 .. Len(done)
        BY <4>1, <2>5 DEF ReplyInv, InvHistory
      <4>2. CASE i = Len(done) + 1
        BY <4>2, <2>5
      <4> QED BY <4>1, <4>2, <1>4
    <3> QED BY <3>1, <2>5, <1>2 DEF ReplyInv, InvHistory
  <2>8. InvInflight'
    BY <2>1, <2>4, <1>1, <1>2, <1>3 DEF ReplyInv, InvInflight, IsCmd
  <2> QED BY <2>6, <2>7, <2>8, <1>5 DEF ReplyInv
<1> QED BY <1>6, <1>7

(* The kernel knows the cmd_id of every completion. *)
LEMMA NoUnknown == TypeOK /\ RingInv /\ ReplyInv => ~CleanUnknown
<1> SUFFICES ASSUME TypeOK, RingInv, ReplyInv, CleanUnknown PROVE FALSE
  OBVIOUS
<1> DEFINE a == nClean + 1
<1>1. a \in Window /\ a <= nTail /\ lastCleaned = log[a].off /\ Oldest.op = log[a].op
  BY OldestEntry DEF CleanUnknown, Cleaning
<1>2. IsCmd(a)
  BY <1>1 DEF CleanUnknown, IsCmd
<1>3. Oldest.id = log[a].id
  BY <1>1, <1>2, AnsweredEntry DEF Oldest
<1> QED BY <1>1, <1>2, <1>3 DEF CleanUnknown, ReplyInv, InvInflight

LEMMA ReplyFetch ==
  ASSUME TypeOK, RingInv, ReplyInv, DrainPad \/ DrainCmd
  PROVE  ReplyInv'
<1> DEFINE k == nFetch + 1
<1>1. /\ UNCHANGED <<ring, inflight, broken, submitted, served, done, log, nClean, nTail, resp>>
      /\ pollPc = "drain" /\ cmdTail # mbCmdHead /\ nFetch' = k
      /\ \/ EntHdrOp(cmdTail) = "pad" /\ pollPc' = "drain"
         \/ EntHdrOp(cmdTail) = "cmd" /\ pollPc' = "handle"
  BY DEF DrainPad, DrainCmd, FetchPad, FetchCmd, AdvanceFetch, NextEntryOff, HeadEntryOff,
         loopVars, kernelVars
<1>2. k \in Window /\ k \in 1 .. Len(log) /\ cmdTail = Off(k)
  <2>1. mbCmdHead # Off(k) /\ cmdTail = Off(k)
    BY <1>1 DEF RingInv, InvCursors
  <2>2. k \in Nat /\ Len(log) \in Nat /\ nClean < k /\ k <= Len(log) + 1
    BY Cursors
  <2>3. k <= Len(log)
    BY <2>1 DEF Off
  <2>4. nClean \in Nat /\ 1 <= k
    BY Cursors
  <2> HIDE DEF k
  <2>5. k \in 1 .. Len(log) /\ k \in nClean + 1 .. Len(log)
    BY <2>2, <2>3, <2>4
  <2> QED BY <2>1, <2>5 DEF Window
<1>3. EntHdrOp(cmdTail) = log[k].op
  BY <1>2, AfterEntry
<1>4. Seqs(k) = Seqs(nFetch) + (IF IsCmd(k) THEN 1 ELSE 0) /\ Seqs(nFetch) \in Nat
  <2>1. k - 1 = nFetch
    BY Cursors
  <2> QED BY <2>1, <1>2, Counting, Cursors
<1> HIDE DEF k
<1>5. InvAnswered' /\ InvSubmitted' /\ InvHistory' /\ InvInflight'
  <2>1. pollPc # "pass" /\ pollPc' # "pass" /\ pollPc' # "complete"
    BY <1>1
  <2>2. InvAnswered' /\ InvHistory'
    BY <2>1, <1>1 DEF ReplyInv, InvAnswered, InvHistory, Answering, IsCmd, Window
  <2>3. InvSubmitted' /\ InvInflight'
    BY <1>1 DEF ReplyInv, InvSubmitted, InvInflight, IsCmd, Window
  <2> QED BY <2>2, <2>3
<1>6. InvCounts'
  <2>1. Len(served) = Seqs(nFetch) /\ Len(done) = Seqs(nClean)
    BY <1>1, <1>4 DEF ReplyInv, InvCounts
  <2>2. Len(served) = Seqs(k) - (IF pollPc' = "handle" THEN 1 ELSE 0)
    BY <2>1, <1>1, <1>3, <1>4 DEF IsCmd
  <2> QED BY <2>1, <2>2, <1>1 DEF InvCounts, Seqs
<1> QED BY <1>5, <1>6 DEF ReplyInv

LEMMA ReplyHandle ==
  ASSUME TypeOK, RingInv, ReplyInv, NEW status \in {"good", "check"}, Handle(status)
  PROVE  ReplyInv'
<1> DEFINE s == Len(served)
           r == [id |-> cmd, status |-> status]
<1>1. /\ UNCHANGED <<ring, inflight, broken, submitted, done, log, nClean, nTail, nFetch>>
      /\ pollPc = "handle" /\ pollPc' = "complete"
      /\ served' = Append(served, r) /\ resp' = r
  BY DEF Handle, sharedVars, kernelVars
<1>2. /\ s \in Nat /\ s + 1 = Seqs(nFetch) /\ s < Len(submitted)
      /\ Len(done) <= s /\ Len(done) \in Nat /\ Seqs(nTail) <= s
      /\ Len(submitted) \in Nat
  BY <1>1, Histories, Cursors DEF ReplyInv
<1>3. served \in Seq(Outcome) /\ r \in Outcome
  <2>1. nFetch \in 1 .. Len(log) /\ cmd = log[nFetch].id
    BY <1>1, Cursors DEF RingInv, InvServing, Serving
  <2>2. cmd \in CmdIds
    BY <2>1, LogType
  <2> QED BY <2>2 DEF TypeOK, RingTypeOK, Outcome
<1>4. /\ Len(served') = s + 1
      /\ \A i \in 1 .. s : served'[i] = served[i]
      /\ served'[s + 1] = r
  <2> HIDE DEF r
  <2> QED BY <1>1, <1>3
<1>5. submitted[s + 1] = cmd
  <2>1. nFetch \in 1 .. Len(log) /\ IsCmd(nFetch) /\ cmd = log[nFetch].id
    BY <1>1, Cursors DEF RingInv, InvServing, Serving
  <2>2. log[nFetch].seq = s + 1
    BY <2>1, <1>2, Counting
  <2> QED BY <2>1, <2>2 DEF ReplyInv, InvSubmitted
<1> HIDE DEF s
<1>6. InvAnswered'
  <2> SUFFICES ASSUME NEW k \in Window, k <= nTail, IsCmd(k)
               PROVE  served'[log[k].seq] = served[log[k].seq]
    BY <1>1 DEF ReplyInv, InvAnswered, Answering, Window, IsCmd
  <2>1. k \in 0 .. Len(log) /\ nTail \in 0 .. Len(log) /\ k \in 1 .. Len(log)
    BY WindowType, Cursors
  <2>2. log[k].seq \in 1 .. s
    BY <2>1, <1>2, Counting
  <2> QED BY <2>2, <1>4
<1>7. InvSubmitted' /\ InvInflight'
  BY <1>1 DEF ReplyInv, InvSubmitted, InvInflight, IsCmd, Window
<1>8. InvCounts'
  BY <1>1, <1>2, <1>4 DEF ReplyInv, InvCounts, Seqs
<1>9. InvHistory'
  <2>1. ASSUME NEW i \in 1 .. s + 1 PROVE served'[i].id = submitted[i]
    <3>1. CASE i \in 1 .. s
      BY <3>1, <1>4 DEF ReplyInv, InvHistory, s
    <3>2. CASE i = s + 1
      BY <3>2, <1>4, <1>5
    <3> QED BY <3>1, <3>2, <1>2
  <2>2. ASSUME NEW i \in 1 .. Len(done) PROVE done[i] = served'[i]
    <3>1. i \in 1 .. s
      BY <1>2
    <3> QED BY <3>1, <1>4 DEF ReplyInv, InvHistory
  <2> QED BY <2>1, <2>2, <1>1, <1>4 DEF InvHistory
<1> QED BY <1>6, <1>7, <1>8, <1>9 DEF ReplyInv

LEMMA ReplySkip ==
  ASSUME TypeOK, RingInv, ReplyInv, CompleteSkip
  PROVE  ReplyInv'
<1>1. /\ UNCHANGED <<ring, inflight, broken, submitted, served, done, log, nClean, nFetch,
                     pollPc, resp>>
      /\ pollPc = "complete" /\ nTail' = nTail + 1 /\ EntHdrOp(mbCmdTail) # "cmd"
  BY DEF CompleteSkip, SkipTailPad, AdvanceTail, TailEntryOff, loopVars, kernelVars
<1>2. ~IsCmd(nTail + 1)
  BY <1>1, TailEntry DEF IsCmd
<1>3. InvAnswered'
  <2> SUFFICES ASSUME NEW k \in Window, k <= nTail + 1, IsCmd(k)
               PROVE  k <= nTail
    BY <1>1 DEF ReplyInv, InvAnswered, Answering, Window, IsCmd
  <2> QED BY <1>2, WindowType, Cursors
<1>4. InvSubmitted' /\ InvCounts' /\ InvHistory' /\ InvInflight'
  BY <1>1 DEF ReplyInv, InvSubmitted, InvCounts, InvHistory, InvInflight, IsCmd, Window, Seqs
<1> QED BY <1>3, <1>4 DEF ReplyInv

LEMMA ReplyWrite ==
  ASSUME TypeOK, RingInv, ReplyInv, CompleteWrite
  PROVE  ReplyInv'
<1> DEFINE k == nTail + 1
<1>1. /\ UNCHANGED <<inflight, broken, submitted, served, done, log, nClean, nTail, nFetch, resp>>
      /\ pollPc = "complete" /\ pollPc' = "pass"
      /\ ring' = [ring EXCEPT ![mbCmdTail] = Answered(ring[mbCmdTail], resp)]
      /\ EntHdrOp(mbCmdTail) = "cmd"
  BY DEF CompleteWrite, WriteResponse, TailEntryOff, kernelVars, histVars
<1>2. k \in Window /\ k \in 1 .. Len(log) /\ mbCmdTail = log[k].off /\ IsCmd(k) /\ k = nFetch
  BY <1>1, TailEntry DEF IsCmd
<1>3. /\ ring'[mbCmdTail] = Answered(ring[mbCmdTail], resp)
      /\ \A j \in Window : j # k => ring'[log[j].off] = ring[log[j].off]
  <2>1. \A j \in Window : log[j].off \in Offsets
    BY WindowType, LogType
  <2> QED BY <2>1, <1>1, <1>2, WindowApart DEF TypeOK, RingTypeOK
<1>4. served[log[k].seq] = resp
  <2>1. log[k].seq = Len(served)
    BY <1>1, <1>2, Counting, Cursors DEF ReplyInv, InvCounts
  <2> QED BY <2>1, <1>1 DEF ReplyInv, InvHistory
<1>5. InvAnswered'
  <2> SUFFICES ASSUME NEW j \in Window, j <= nTail \/ j = k, IsCmd(j)
               PROVE  served[log[j].seq] = [id |-> ring'[log[j].off].id,
                                            status |-> ring'[log[j].off].status]
    BY <1>1 DEF InvAnswered, Answering, Window, IsCmd
  <2>1. CASE j = k
    <3>1. resp = [id |-> resp.id, status |-> resp.status]
      BY DEF TypeOK, Response
    <3> QED BY <2>1, <3>1, <1>2, <1>3, <1>4 DEF Answered
  <2>2. CASE j # k
    BY <2>2, <1>3 DEF ReplyInv, InvAnswered
  <2> QED BY <2>1, <2>2
<1>6. InvSubmitted' /\ InvCounts' /\ InvHistory' /\ InvInflight'
  BY <1>1 DEF ReplyInv, InvSubmitted, InvCounts, InvHistory, InvInflight, IsCmd, Window, Seqs
<1> QED BY <1>5, <1>6 DEF ReplyInv

LEMMA ReplyPass ==
  ASSUME TypeOK, RingInv, ReplyInv, CompletePass
  PROVE  ReplyInv'
<1>1. /\ UNCHANGED <<ring, inflight, broken, submitted, served, done, log, nClean, nFetch, resp>>
      /\ pollPc = "pass" /\ pollPc' = "notify" /\ nTail' = nTail + 1
  BY DEF CompletePass, PassTailEntry, AdvanceTail, kernelVars
<1>2. InvAnswered'
  <2> SUFFICES ASSUME NEW k \in Window, k <= nTail + 1, IsCmd(k)
               PROVE  k <= nTail \/ Answering(k)
    BY <1>1 DEF ReplyInv, InvAnswered, Answering, Window, IsCmd
  <2>1. k \in Nat /\ nTail \in Nat
    BY WindowType, Cursors
  <2> QED BY <2>1, <1>1 DEF Answering
<1>3. InvSubmitted' /\ InvCounts' /\ InvHistory' /\ InvInflight'
  <2>1. InvSubmitted' /\ InvInflight'
    BY <1>1 DEF ReplyInv, InvSubmitted, InvInflight, IsCmd, Window
  <2>2. InvCounts'
    BY <1>1 DEF ReplyInv, InvCounts, Seqs
  <2>3. InvHistory'
    BY <1>1 DEF ReplyInv, InvHistory
  <2> QED BY <2>1, <2>2, <2>3
<1> QED BY <1>2, <1>3 DEF ReplyInv

-----------------------------------------------------------------------------
LEMMA ReplyInit == Init => ReplyInv
BY DEF Init, RingInit, ReplyInv, InvAnswered, InvSubmitted, InvCounts, InvHistory, InvInflight,
       Window, Seqs

LEMMA ReplyStep ==
  ASSUME HandlerErrs = FALSE, TypeOK, TypeOK', RingInv, RingInv', ReplyInv, [Next]_vars
  PROVE  ReplyInv'
<1>1. ASSUME NEW l \in Lens, PadRing(l) PROVE ReplyInv'
  <2> DEFINE e == Pad(HeadToEnd)
  <2>1. HeadToEnd \in Nat \ {0} /\ mbCmdHead + HeadToEnd = CmdrSize
    BY RingAssumption DEF HeadToEnd, TypeOK, RingTypeOK, Offsets
  <2>2. /\ e \in Unit /\ e.op = "pad" /\ e.len = HeadToEnd
        /\ Len(submitted) \in Nat
    BY <2>1, RingAssumption DEF Pad, Unit, Statuses, TypeOK, RingTypeOK
  <2>3. /\ Publish(e, Len(submitted)) /\ HeadToEnd + l <= Free
        /\ UNCHANGED <<submitted, inflight>>
        /\ UNCHANGED <<broken, served, done, lastCleaned, nClean, nTail, nFetch, pollPc, resp>>
    BY <1>1 DEF PadRing, KernelPad, loopVars
  <2>t. mbCmdHead \in Offsets /\ lastCleaned \in Offsets
    BY DEF TypeOK, RingTypeOK
  <2>4. Free \in Int /\ l \in Nat \ {0}
    <3>1. Dist(lastCleaned, mbCmdHead) \in Nat
      BY <2>t, DistType
    <3> QED BY <3>1, RingAssumption DEF Free
  <2> HIDE DEF e
  <2>5. e.len > 0 /\ mbCmdHead + e.len <= CmdrSize /\ e.len <= Free
    BY <2>1, <2>2, <2>3, <2>4, <2>t, RingAssumption DEF Offsets
  <2> QED BY <2>2, <2>3, <2>5, ReplyPublish
<1>2. ASSUME NEW l \in Lens, NEW id \in CmdIds, Submit(l, id) PROVE ReplyInv'
  <2> DEFINE e == Cmd(l, id)
  <2>1. /\ e \in Unit /\ e.op = "cmd" /\ e.len = l /\ e.id = id /\ l \in Nat \ {0}
        /\ Len(submitted) + 1 \in Nat
    BY RingAssumption DEF Cmd, Unit, Statuses, TypeOK, RingTypeOK
  <2>2. /\ Publish(e, Len(submitted) + 1)
        /\ id \notin inflight
        /\ \/ padded = l
           \/ padded = 0 /\ l <= HeadToEnd /\ l <= Free
        /\ submitted' = Append(submitted, id)
        /\ inflight' = inflight \cup {id}
        /\ UNCHANGED <<broken, served, done, lastCleaned, nClean, nTail, nFetch, pollPc, resp>>
    BY <1>2 DEF Submit, KernelSubmit
  <2>3. mbCmdHead + l <= CmdrSize /\ l <= Free
    BY <2>1, <2>2, RingAssumption DEF RingInv, InvPadded, HeadToEnd, TypeOK, RingTypeOK, Offsets
  <2> HIDE DEF e
  <2> QED BY <2>1, <2>2, <2>3, ReplyPublish
<1>3. CASE RaiseEvent
  BY <1>3, ReplyFrame DEF RaiseEvent, ringVars, kernelVars, sharedVars, histVars
<1>4. CASE Clean
  <2>1. CASE CleanEnd
    BY <2>1, <1>4, ReplyFrame DEF Clean, CleanEnd, loopVars, sharedVars, histVars
  <2>2. CASE CleanPad \/ CleanCmd
    BY <2>2, <1>4, ReplyClean DEF Clean, loopVars
  <2> QED BY <1>4, <2>1, <2>2, NoUnknown DEF Clean, KernelClean
<1>5. CASE Waiter
  BY <1>5, ReplyFrame DEF Waiter, WaitPoll, PollFails, HandOver, Serving, ringVars, kernelVars, sharedVars, histVars
<1>6. CASE ClearUioEvents \/ Drained
  BY <1>6, ReplyFrame DEF ClearUioEvents, Drained, Serving, ringVars, kernelVars, sharedVars, histVars
<1>7. CASE DrainPad \/ DrainCmd
  BY <1>7, ReplyFetch
<1>8. ASSUME NEW status \in {"good", "check", "error"}, Handle(status) PROVE ReplyInv'
  <2>1. status \in {"good", "check"}
    BY <1>8 DEF Handle
  <2> QED BY <2>1, <1>8, ReplyHandle
<1>9. CASE CompleteSkip
  BY <1>9, ReplySkip
<1>10. CASE CompleteWrite
  BY <1>10, ReplyWrite
<1>11. CASE CompletePass
  BY <1>11, ReplyPass
<1>12. CASE Notify
  BY <1>12, ReplyFrame DEF Notify, NotifyKernel, Serving, ringVars, kernelVars, sharedVars, histVars
<1>13. CASE Closer
  BY <1>13, ReplyFrame DEF Closer, RemoveLun, StopPoll, ringVars, kernelVars, sharedVars, histVars
<1>14. CASE UNCHANGED vars
  BY <1>14, ReplyFrame DEF vars, loopVars, ringVars, kernelVars, sharedVars, histVars
<1> QED
  BY <1>1, <1>2, <1>3, <1>4, <1>5, <1>6, <1>7, <1>8, <1>9, <1>10, <1>11, <1>12, <1>13, <1>14
  DEF Next, Kernel, Poller

(* ReplyInv: what the entries of the ring say is what the handler decided. *)
THEOREM ReplyCorrect ==
  ASSUME HandlerErrs = FALSE
  PROVE  Spec => []ReplyInv
<1>1. TypeOK /\ TypeOK' /\ RingInv /\ RingInv' /\ ReplyInv /\ [Next]_vars => ReplyInv'
  BY ReplyStep
<1> QED BY <1>1, ReplyInit, TypeCorrect, RingCorrect, PTL DEF Spec

(* OwnCompletion: the kernel reads, for every command and in the order it  *)
(* submitted them, exactly what the handler decided (HandleRequest and     *)
(* completeCommand), if the handler returns no Go error.                   *)
THEOREM CompletionsOwn ==
  ASSUME HandlerErrs = FALSE
  PROVE  Spec => []OwnCompletion
<1>1. TypeOK /\ RingInv /\ ReplyInv => OwnCompletion
  <2> SUFFICES ASSUME TypeOK, RingInv, ReplyInv PROVE OwnCompletion
    OBVIOUS
  <2>1. Len(done) <= Len(served) /\ Len(served) <= Len(submitted)
    BY Histories, Cursors DEF ReplyInv
  <2> QED BY <2>1 DEF ReplyInv, InvHistory, OwnCompletion
<1> QED BY <1>1, TypeCorrect, RingCorrect, ReplyCorrect, PTL

-----------------------------------------------------------------------------
(* Refinement.                                                             *)

LEMMA ServiceInit == Init => Service!Init
BY DEF Init, RingInit, Service!Init

LEMMA ServiceStep ==
  ASSUME HandlerErrs = FALSE, TypeOK, RingInv, ReplyInv, [Next]_vars
  PROVE  [Service!Next]_Service!vars
<1>1. ASSUME NEW l \in Lens, NEW id \in CmdIds, Submit(l, id) PROVE Service!Next
  <2>1. /\ Len(submitted) < MaxCmds /\ id \notin inflight
        /\ submitted' = Append(submitted, id) /\ UNCHANGED <<served, done>>
    BY <1>1 DEF Submit, KernelSubmit
  <2>2. ASSUME NEW i \in Len(done) + 1 .. Len(submitted) PROVE submitted[i] # id
    <3>1. Len(done) \in Nat /\ Len(done) = Seqs(nClean) /\ Len(submitted) \in Nat
      BY Histories DEF ReplyInv
    <3>2. i \in 1 .. Len(submitted) /\ i > Seqs(nClean)
      BY <3>1
    <3>3. PICK k \in 1 .. Len(log) : IsCmd(k) /\ log[k].seq = i
      BY <3>2 DEF ReplyInv, InvSubmitted
    <3>4. k > nClean
      <4>1. k \in 0 .. Len(log) /\ nClean \in 0 .. Len(log) /\ Seqs(k) = i /\ Seqs(k) \in Nat
        <5>1. k \in 0 .. Len(log) /\ k # 0
          BY Cursors
        <5>2. Seqs(k) = log[k].seq
          BY <5>1 DEF Seqs
        <5> QED BY <5>1, <5>2, <3>3, Counting, Cursors
      <4> QED BY <4>1, <3>1, <3>2, Counting
    <3>5. k \in Window
      BY <3>4, Cursors DEF Window
    <3>6. log[k].id \in inflight
      BY <3>3, <3>5 DEF ReplyInv, InvInflight
    <3>7. submitted[i] = log[k].id
      BY <3>3 DEF ReplyInv, InvSubmitted
    <3> QED BY <2>1, <3>6, <3>7
  <2> QED BY <2>1, <2>2 DEF Service!Next, Service!Submit
<1>2. ASSUME NEW status \in {"good", "check", "error"}, Handle(status) PROVE Service!Next
  <2>1. /\ pollPc = "handle" /\ status \in {"good", "check"}
        /\ served' = Append(served, [id |-> cmd, status |-> status])
        /\ UNCHANGED <<submitted, done>>
    BY <1>2 DEF Handle
  <2>2. Len(served) + 1 = Seqs(nFetch) /\ Len(served) < Len(submitted)
    BY <2>1, Histories DEF ReplyInv
  <2>3. nFetch \in 1 .. Len(log) /\ IsCmd(nFetch) /\ cmd = log[nFetch].id
    BY <2>1, Cursors DEF RingInv, InvServing, Serving
  <2>4. log[nFetch].seq = Len(served) + 1
    BY <2>2, <2>3, Counting
  <2>5. cmd = submitted[Len(served) + 1]
    BY <2>3, <2>4 DEF ReplyInv, InvSubmitted
  <2> QED BY <2>1, <2>2, <2>5 DEF Service!Next, Service!Serve
<1>3. CASE CleanCmd /\ Clean
  <2> DEFINE a == nClean + 1
  <2>1. /\ a \in Window /\ a <= nTail
        /\ lastCleaned = log[a].off
        /\ Oldest.op = log[a].op
        /\ Seqs(a) = Seqs(nClean) + (IF IsCmd(a) THEN 1 ELSE 0)
        /\ log[a].seq = Seqs(a)
    BY <1>3, OldestEntry DEF CleanCmd, Cleaning
  <2> HIDE DEF a
  <2>2. IsCmd(a)
    BY <1>3, <2>1 DEF CleanCmd, IsCmd
  <2>3. /\ log[a].seq \in 1 .. Len(served)
        /\ served[log[a].seq] = [id |-> Oldest.id, status |-> Oldest.status]
    BY <2>1, <2>2, AnsweredEntry DEF Oldest
  <2>4. log[a].seq = Len(done) + 1 /\ Len(done) \in Nat /\ Len(served) \in Nat
    BY <2>1, <2>2, Histories DEF ReplyInv
  <2>5. /\ done' = Append(done, served[Len(done) + 1])
        /\ UNCHANGED <<submitted, served>>
    BY <1>3, <2>3, <2>4 DEF CleanCmd
  <2> QED BY <2>3, <2>4, <2>5 DEF Service!Next, Service!Report
<1>4. ASSUME NEW l \in Lens, PadRing(l) PROVE UNCHANGED Service!vars
  BY <1>4 DEF PadRing, KernelPad, Service!vars
<1>5. CASE Clean /\ ~CleanCmd
  BY <1>5 DEF Clean, KernelClean, CleanEnd, CleanPad, CleanUnknown, histVars, Service!vars
<1>6. CASE RaiseEvent \/ Waiter \/ ClearUioEvents \/ Drained \/ Closer \/ Notify
  BY <1>6 DEF RaiseEvent, Waiter, WaitPoll, PollFails, HandOver, ClearUioEvents, Drained, Closer, RemoveLun, StopPoll,
       Notify, NotifyKernel, ringVars, histVars, Service!vars
<1>7. CASE DrainPad \/ DrainCmd
  BY <1>7 DEF DrainPad, DrainCmd, FetchPad, FetchCmd, Service!vars
<1>8. CASE CompleteSkip \/ CompleteWrite \/ CompletePass
  BY <1>8 DEF CompleteSkip, SkipTailPad, CompleteWrite, WriteResponse, CompletePass, PassTailEntry, histVars,
       Service!vars
<1>9. CASE UNCHANGED vars
  BY <1>9 DEF vars, ringVars, histVars, Service!vars
<1> QED
  BY <1>1, <1>2, <1>3, <1>4, <1>5, <1>6, <1>7, <1>8, <1>9
  DEF Next, Kernel, Poller

(* ServiceSpec: the ring, the mailbox and the two goroutines together are  *)
(* a queue that serves every command once, in order (CmdService).          *)
THEOREM ServiceRefined ==
  ASSUME HandlerErrs = FALSE
  PROVE  Spec => ServiceSpec
<1>1. TypeOK /\ RingInv /\ ReplyInv /\ [Next]_vars => [Service!Next]_Service!vars
  BY ServiceStep
<1> QED BY <1>1, ServiceInit, TypeCorrect, RingCorrect, ReplyCorrect, PTL DEF Spec, ServiceSpec, Service!Spec
=============================================================================
