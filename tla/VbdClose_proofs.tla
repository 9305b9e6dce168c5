-------------------------- MODULE VbdClose_proofs --------------------------
(***************************************************************************)
(* Close beside the poll loop: the composition is a behaviour of PollLoop, *)
(* so the theorems about the loop hold beside Close, and what they say of  *)
(* the ring is why unmapping it before waiting for the loop is harmless    *)
(* but for one last look.                                                  *)
(***************************************************************************)
EXTENDS VbdClose, PollLoopReply_proofs

-----------------------------------------------------------------------------
(* Every step of the composition is a step of the loop or none.            *)
LEMMA LoopStepped == CloseInv /\ [CloseNext]_allVars => [Next]_vars
<1> SUFFICES ASSUME CloseInv, [CloseNext]_allVars PROVE [Next]_vars
  OBVIOUS
<1>1. CASE KernelStep
  BY <1>1 DEF KernelStep, Next
<1>2. CASE LunRemoved
  BY <1>2 DEF LunRemoved, Next, Closer
<1>3. CASE LoopStep
  BY <1>3 DEF LoopStep, UioAccess, RingAccess, Next, Poller
<1>4. CASE CloseStop
  BY <1>4 DEF CloseStop, CloseInv, Stopped, StopPoll, Next, Closer
<1>5. CASE Fault \/ CallClose \/ TeardownFails \/ TornDown \/ Munmap \/ CloseUio \/ Collect
           \/ ClosePipe \/ WaitTimeout
  BY <1>5 DEF Fault, CallClose, TeardownFails, TornDown, Munmap, CloseUio, Collect, ClosePipe, WaitTimeout
<1>6. CASE UNCHANGED allVars
  BY <1>6 DEF allVars
<1> QED BY <1>1, <1>2, <1>3, <1>4, <1>5, <1>6 DEF CloseNext, CloseStep

LEMMA CloseInitial == CloseInit => CloseInv /\ InvLast
BY DEF CloseInit, Init, RingInit, CloseInv, ClosePcs, Stopped, InvLast, NoFaultAtRest

(* The steps of startPoll neither publish nor change what Close sees.      *)
LEMMA PollerFrame ==
  RingAccess \/ UioAccess =>
    /\ UNCHANGED <<log, padded, inflight, lunGone, pipeReady, waitPc>>
    /\ pollPc \notin {"select", "stopping"} /\ pollPc' # "stopping"
BY DEF RingAccess, UioAccess, DrainPad, FetchPad, DrainCmd, FetchCmd, Drained, Handle, CompleteSkip,
  SkipTailPad, CompleteWrite, WriteResponse, CompletePass, PassTailEntry, ClearUioEvents, Notify,
  NotifyKernel, loopVars, ringVars, kernelVars, histVars

LEMMA KernelFrame ==
  Kernel =>
    /\ UNCHANGED <<lunGone, pipeReady, waitPc, pollPc>>
    /\ lunGone => inflight' \subseteq inflight /\ padded' = padded
BY DEF Kernel, PadRing, Submit, RaiseEvent, Clean, KernelClean, CleanEnd, CleanPad, CleanCmd, CleanUnknown,
  loopVars, ringVars, kernelVars

(* The steps of Close other than stopPoll leave the loop alone.            *)
CloseQuiet ==
  \/ CallClose \/ TeardownFails \/ TornDown \/ Munmap \/ CloseUio \/ Collect \/ ClosePipe \/ WaitTimeout

LEMMA CloseKept == CloseInv /\ [CloseNext]_allVars => CloseInv'
<1> SUFFICES ASSUME CloseInv, [CloseNext]_allVars PROVE CloseInv'
  OBVIOUS
<1>1. CASE KernelStep
  BY <1>1, KernelFrame DEF KernelStep, closeVars, CloseInv, NoFaultAtRest
<1>2. CASE LunRemoved
  <2>1. lunGone' /\ inflight' = {} /\ padded' = 0
    BY <1>2 DEF LunRemoved, RemoveLun, ringVars, kernelVars
  <2>2. UNCHANGED <<pipeReady, waitPc, pollPc, closePc, collected, faulted, atRest>>
    BY <1>2 DEF LunRemoved, RemoveLun, closeVars
  <2> QED BY <2>1, <2>2 DEF CloseInv, NoFaultAtRest
<1>3. CASE LoopStep /\ (RingAccess \/ UioAccess)
  BY <1>3, PollerFrame DEF LoopStep, closeVars, CloseInv, NoFaultAtRest
<1>4. CASE LoopStep /\ Waiter
  BY <1>4 DEF LoopStep, Waiter, WaitPoll, PollFails, HandOver, ringVars, kernelVars, closeVars, CloseInv,
     NoFaultAtRest
<1>5. CASE ~faulted /\ CloseStop
  <2>1. /\ closePc = "stop" /\ closePc' = "munmap" /\ pipeReady'
        /\ atRest' => pollPc = "select" /\ waitPc = "poll"
    BY <1>5 DEF CloseStop
  <2>2. UNCHANGED <<inflight, padded, lunGone, waitPc, pollPc, collected, faulted>>
    BY <1>5 DEF CloseStop, ringVars, kernelVars
  <2> QED BY <1>5, <2>1, <2>2 DEF CloseInv, NoFaultAtRest, ClosePcs, Stopped
<1>6. CASE Fault
  BY <1>6 DEF Fault, vars, ringVars, kernelVars, loopVars, CloseInv, NoFaultAtRest
<1>7. CASE CloseQuiet
  <2>1. /\ UNCHANGED <<inflight, padded, lunGone, pipeReady, waitPc, pollPc, faulted, atRest>>
        /\ collected' # collected => pollPc = "stopping"
    BY <1>7 DEF CloseQuiet, CallClose, TeardownFails, TornDown, Munmap, CloseUio, Collect, ClosePipe,
       WaitTimeout, vars, ringVars, kernelVars, loopVars
  <2>2. /\ closePc' \in ClosePcs
        /\ closePc' \in Stopped <=> closePc \in Stopped
        /\ closePc' \in Stopped \cup {"stop"} => lunGone
    BY <1>7 DEF CloseQuiet, CallClose, TeardownFails, TornDown, Munmap, CloseUio, Collect, ClosePipe,
       WaitTimeout, CloseInv, ClosePcs, Stopped
  <2> QED BY <2>1, <2>2 DEF CloseInv, NoFaultAtRest
<1>8. CASE UNCHANGED allVars
  BY <1>8 DEF allVars, vars, ringVars, kernelVars, loopVars, closeVars, CloseInv, NoFaultAtRest
<1> QED BY <1>1, <1>2, <1>3, <1>4, <1>5, <1>6, <1>7, <1>8 DEF CloseNext, CloseStep, LoopStep, CloseQuiet

-----------------------------------------------------------------------------
(* LoopSpec: beside Close the loop is the loop of PollLoop, so that its    *)
(* theorems hold there too; Close stops it once, after the LUN is gone.    *)
THEOREM CloseRefinesLoop == CloseSpec => LoopSpec
<1>1. CloseInit => Init
  BY DEF CloseInit
<1> QED BY <1>1, CloseInitial, CloseKept, LoopStepped, PTL DEF CloseSpec, LoopSpec, Spec

(* CloseInv: what Close and the loop agree on, whatever fails or is late.  *)
THEOREM CloseCorrect == CloseSpec => []CloseInv
BY CloseInitial, CloseKept, PTL DEF CloseSpec

(* NoFaultAtRest: the loop that was waiting when stopPoll wrote to the     *)
(* pipe ends without a look at the ring.                                   *)
THEOREM RestSafe == CloseSpec => []NoFaultAtRest
<1>1. CloseInv => NoFaultAtRest
  BY DEF CloseInv
<1> QED BY <1>1, CloseCorrect, PTL

(* NoSendOnClosed: when startPoll has returned and closed its channel, the *)
(* waiter has ended and nobody is left to send on it.                      *)
THEOREM NobodySends == CloseSpec => []NoSendOnClosed
<1>1. CloseInv => NoSendOnClosed
  BY DEF CloseInv, NoSendOnClosed
<1> QED BY <1>1, CloseCorrect, PTL

(* What is proved of the loop alone holds beside Close too: own            *)
(* completions, headers met, cursors in order, no wake-up lost.            *)
THEOREM LoopSafeBesideClose ==
  ASSUME HandlerErrs = FALSE
  PROVE  CloseSpec => [](OwnCompletion /\ OnAHeader /\ CursorOrder /\ NoWakeupLost)
BY CloseRefinesLoop, CompletionsOwn, HeadersMet, CursorsOrdered, WakeupsKept, PTL DEF LoopSpec

-----------------------------------------------------------------------------
(* The last entry stays a command where nothing is published.              *)
LEMMA LastKept == InvLast /\ UNCHANGED <<log, padded>> => InvLast'
BY DEF InvLast, IsCmd

LEMMA LastPublished ==
  ASSUME TypeOK, InvLast, Kernel
  PROVE  InvLast'
<1>1. ASSUME NEW l \in Lens, PadRing(l) PROVE InvLast'
  BY <1>1, RingAssumption DEF PadRing, KernelPad, InvLast
<1>2. ASSUME NEW l \in Lens, NEW id \in CmdIds, Submit(l, id) PROVE InvLast'
  <2>1. log \in Seq(LogEntry)
    BY DEF TypeOK, RingTypeOK
  <2> DEFINE e == [op |-> "cmd", off |-> mbCmdHead, len |-> l, id |-> id, seq |-> Len(submitted) + 1]
  <2>2. log' = Append(log, e)
    BY <1>2 DEF Submit, KernelSubmit, Publish, Cmd
  <2>3. Len(log') = Len(log) + 1 /\ log'[Len(log')] = e
    BY <2>1, <2>2
  <2> QED BY <2>3 DEF InvLast, IsCmd
<1>3. CASE RaiseEvent
  BY <1>3, LastKept DEF RaiseEvent, ringVars, kernelVars, histVars
<1>4. CASE Clean
  BY <1>4, LastKept DEF Clean, KernelClean, CleanEnd, CleanPad, CleanCmd, CleanUnknown, sharedVars, histVars
<1> QED BY <1>1, <1>2, <1>3, <1>4 DEF Kernel

LEMMA LastStep ==
  ASSUME TypeOK, InvLast, [CloseNext]_allVars
  PROVE  InvLast'
<1>1. CASE KernelStep
  BY <1>1, LastPublished DEF KernelStep
<1>2. CASE LoopStep /\ (RingAccess \/ UioAccess)
  BY <1>2, PollerFrame, LastKept
<1>3. CASE LunRemoved \/ (LoopStep /\ Waiter) \/ CloseStop
  BY <1>3, LastKept DEF LunRemoved, RemoveLun, LoopStep, Waiter, WaitPoll, PollFails, HandOver, CloseStop,
     ringVars, kernelVars, histVars
<1>4. CASE Fault \/ CloseQuiet \/ UNCHANGED allVars
  <2>1. UNCHANGED vars
    BY <1>4 DEF Fault, CloseQuiet, CallClose, TeardownFails, TornDown, Munmap, CloseUio, Collect, ClosePipe,
       WaitTimeout, allVars
  <2> QED BY <2>1, LastKept DEF vars, ringVars, kernelVars, histVars
<1> QED BY <1>1, <1>2, <1>3, <1>4 DEF CloseNext, CloseStep, LoopStep, CloseQuiet

(* With no command outstanding and none awaited everything is cleaned.     *)
LEMMA AllClean ==
  ASSUME TypeOK, RingInv, ReplyInv, InvLast, inflight = {}, padded = 0
  PROVE  /\ nClean = Len(log) /\ nTail = Len(log) /\ nFetch = Len(log)
         /\ cmdTail = mbCmdHead
         /\ Len(done) = Len(submitted)
<1>1. /\ nClean \in Nat /\ nTail \in Nat /\ nFetch \in Nat /\ Len(log) \in Nat
      /\ nClean <= nTail /\ nTail <= nFetch /\ nFetch <= Len(log)
  BY DEF TypeOK, RingTypeOK, RingInv, InvCursors
<1>2. nClean = Len(log)
  <2> SUFFICES ASSUME nClean # Len(log) PROVE FALSE
    OBVIOUS
  <2>1. Len(log) \in Window
    BY <1>1 DEF Window
  <2>2. IsCmd(Len(log))
    BY <1>1, <2>1 DEF InvLast, Window
  <2> QED BY <2>1, <2>2 DEF ReplyInv, InvInflight
<1>3. nTail = Len(log) /\ nFetch = Len(log)
  BY <1>1, <1>2
<1>4. cmdTail = mbCmdHead
  BY <1>1, <1>3 DEF RingInv, InvCursors, Off
<1>5. Len(done) = Len(submitted)
  BY <1>2 DEF RingInv, InvSeqs, ReplyInv, InvCounts
<1> QED BY <1>2, <1>3, <1>4, <1>5

(* NothingLeftAtUnmap: if handlers return no Go error, Close unmaps a ring *)
(* in which every command was completed and reported, whatever fails.      *)
THEOREM UnmapSafe ==
  ASSUME HandlerErrs = FALSE
  PROVE  CloseSpec => []NothingLeftAtUnmap
<1>1. CloseSpec => [](TypeOK /\ RingInv /\ ReplyInv)
  BY CloseRefinesLoop, TypeCorrect, RingCorrect, ReplyCorrect, PTL DEF LoopSpec
<1>2. CloseSpec => []InvLast
  BY <1>1, CloseInitial, LastStep, PTL DEF CloseSpec
<1>3. CloseSpec => []CloseInv
  BY CloseCorrect
<1>4. TypeOK /\ RingInv /\ ReplyInv /\ InvLast /\ CloseInv => NothingLeftAtUnmap
  <2> SUFFICES ASSUME TypeOK, RingInv, ReplyInv, InvLast, CloseInv, ~Mapped
               PROVE  /\ Len(done) = Len(submitted)
                      /\ NextEntryOff = HeadEntryOff
                      /\ pollPc \notin {"handle", "complete", "pass"}
    BY DEF NothingLeftAtUnmap
  <2>1. inflight = {} /\ padded = 0
    BY DEF CloseInv, Mapped, ClosePcs, Stopped
  <2>2. /\ nTail = nFetch /\ cmdTail = mbCmdHead
        /\ Len(done) = Len(submitted)
        /\ nTail \in Nat
    BY <2>1, AllClean DEF TypeOK, RingTypeOK
  <2>3. ~Serving
    BY <2>2 DEF RingInv, InvServing
  <2> QED BY <2>2, <2>3 DEF NextEntryOff, HeadEntryOff, Serving
<1> QED BY <1>1, <1>2, <1>3, <1>4, PTL
=============================================================================
