------------------------------ MODULE VbdClose ------------------------------
(***************************************************************************)
(* Close of a device whose poll loop runs.  Close removes the LUN, tells   *)
(* the loop to stop, unmaps the ring and closes the uio device, and only   *)
(* then waits for the loop, at most 30 seconds.  The loop is PollLoop's;   *)
(* here it meets a ring that is no longer mapped and a descriptor that is  *)
(* no longer open.                                                         *)
(***************************************************************************)
EXTENDS PollLoopInv

CONSTANTS
  TeardownMayFail,  \* TRUE: a step of teardown may fail or time out
  MayTimeout        \* TRUE: the loop may take more than 30 s to answer

ASSUME CloseAssumption ==
  /\ TeardownMayFail \in BOOLEAN
  /\ MayTimeout \in BOOLEAN

VARIABLES
  closePc,    \* where Close is
  collected,  \* Close has received on vbd.wait: startPoll has returned
  faulted,    \* the loop touched memory that is not mapped; the process is gone
  atRest      \* history: both goroutines were waiting when stopPoll wrote

closeVars == <<closePc, collected, faulted, atRest>>
allVars == <<vars, closeVars>>

ClosePcs ==
  {"idle", "failed", "teardown", "stop", "munmap", "closeUio", "wait", "closePipe", "closed"}

Mapped == closePc \in {"idle", "failed", "teardown", "stop", "munmap"}
UioOpen == Mapped \/ closePc = "closeUio"

CloseInit ==
  /\ Init
  /\ closePc = "idle"
  /\ collected = FALSE
  /\ faulted = FALSE
  /\ atRest = FALSE

-----------------------------------------------------------------------------
(* Close                                                                   *)

(* Wrong: the loop is stopped before the LUN is removed.                   *)
CallCloseStopFirst ==
  /\ closePc \in {"idle", "failed"}
  /\ closePc' = "teardown"
  /\ pipeReady' = TRUE
  /\ UNCHANGED <<ringVars, pollPc, waitPc, cmd, resp, event, uioReady, lunGone,
                 collected, faulted, atRest>>

(* Close may be called again after it returned an error.                   *)
CallClose ==
  /\ closePc \in {"idle", "failed"}
  /\ closePc' = "teardown"
  /\ UNCHANGED <<vars, collected, faulted, atRest>>

(* The kernel removes the LUN (external); after a timeout of remove this   *)
(* may come when Close has returned.                                       *)
LunRemoved ==
  /\ closePc \in {"teardown", "failed"}
  /\ RemoveLun
  /\ UNCHANGED closeVars

TornDown ==
  /\ closePc = "teardown"
  /\ lunGone
  /\ closePc' = "stop"
  /\ UNCHANGED <<vars, collected, faulted, atRest>>

(* Wrong: the error of teardown is not returned.                           *)
TeardownIgnored ==
  /\ closePc = "teardown"
  /\ TeardownMayFail
  /\ closePc' = "stop"
  /\ UNCHANGED <<vars, collected, faulted, atRest>>

TeardownFails ==
  /\ closePc = "teardown"
  /\ TeardownMayFail
  /\ closePc' = "failed"
  /\ UNCHANGED <<vars, collected, faulted, atRest>>

(* stopPoll.  A byte into an empty pipe is always written.                 *)
CloseStop ==
  /\ closePc = "stop"
  /\ pipeReady' = TRUE
  /\ atRest' = (pollPc = "select" /\ waitPc = "poll")
  /\ closePc' = "munmap"
  /\ UNCHANGED <<ringVars, pollPc, waitPc, cmd, resp, event, uioReady, lunGone,
                 collected, faulted>>

(* closeDevice                                                             *)
Munmap ==
  /\ closePc = "munmap"
  /\ closePc' = "closeUio"
  /\ UNCHANGED <<vars, collected, faulted, atRest>>

CloseUio ==
  /\ closePc = "closeUio"
  /\ closePc' = "wait"
  /\ UNCHANGED <<vars, collected, faulted, atRest>>

(* <-vbd.wait meets vbd.wait <- struct{}{}; startPoll returns and closes   *)
(* its channel.                                                            *)
Collect ==
  /\ closePc = "wait"
  /\ pollPc = "stopping"
  /\ collected' = TRUE
  /\ closePc' = "closePipe"
  /\ UNCHANGED <<vars, faulted, atRest>>

WaitTimeout ==
  /\ closePc = "wait"
  /\ MayTimeout
  /\ closePc' = "closePipe"
  /\ UNCHANGED <<vars, collected, faulted, atRest>>

(* A poll of the closed pipe ends as that of the readable one: it is not   *)
(* POLLIN, but neither are the revents of the uio device 0 or POLLIN.      *)
ClosePipe ==
  /\ closePc = "closePipe"
  /\ closePc' = "closed"
  /\ UNCHANGED <<vars, collected, faulted, atRest>>

-----------------------------------------------------------------------------
(* The loop beside it.                                                     *)

(* The actions of startPoll that read or write the ring, the handler's     *)
(* data buffers included.                                                  *)
RingAccess ==
  \/ DrainPad
  \/ DrainCmd
  \/ Drained
  \/ \E status \in {"good", "check", "error"} : Handle(status)
  \/ CompleteSkip
  \/ CompleteWrite
  \/ CompletePass

(* On a closed descriptor read and write do nothing (EBADF).               *)
UioAccess ==
  \/ ClearUioEvents /\ (UioOpen \/ uioReady' = uioReady)
  \/ Notify /\ (UioOpen \/ irq' = irq)

LoopStep ==
  /\ Waiter \/ UioAccess \/ (Mapped /\ RingAccess)
  /\ UNCHANGED closeVars

(* An access to the ring after syscall.Munmap ends the process.            *)
Fault ==
  /\ ~Mapped
  /\ pollPc \in {"drain", "handle", "complete", "pass"}
  /\ faulted' = TRUE
  /\ UNCHANGED <<vars, closePc, collected, atRest>>

KernelStep == Kernel /\ UNCHANGED closeVars

CloseStep ==
  \/ TornDown
  \/ CloseStop
  \/ Munmap
  \/ CloseUio
  \/ Collect
  \/ ClosePipe

CloseNext ==
  /\ ~faulted
  /\ \/ KernelStep
     \/ LunRemoved
     \/ LoopStep
     \/ Fault
     \/ CallClose
     \/ TeardownFails
     \/ CloseStep
     \/ WaitTimeout

CloseSpec == CloseInit /\ [][CloseNext]_allVars

(* The Go scheduler runs the goroutines, handlers return, a kernel that    *)
(* has written a pad or published a command finishes the submission, takes *)
(* completions after a notification and removes a LUN without commands.    *)
(* Once a removal has begun the kernel lets only commands through that     *)
(* were on their way; MaxCmds bounds them.  Calls of Close, new commands,  *)
(* failures and timeouts are not fair.                                     *)
FinishSubmit == \E l \in Lens, id \in CmdIds : padded = l /\ Submit(l, id)

CloseFairness ==
  /\ WF_allVars(~faulted /\ (WaitPoll \/ HandOver) /\ UNCHANGED closeVars)
  /\ WF_allVars(~faulted /\ UioAccess /\ UNCHANGED closeVars)
  /\ WF_allVars(~faulted /\ Mapped /\ RingAccess /\ UNCHANGED closeVars)
  /\ WF_allVars(~faulted /\ Fault)
  /\ WF_allVars(~faulted /\ FinishSubmit /\ UNCHANGED closeVars)
  /\ WF_allVars(~faulted /\ RaiseEvent /\ UNCHANGED closeVars)
  /\ WF_allVars(~faulted /\ Clean /\ UNCHANGED closeVars)
  /\ WF_allVars(~faulted /\ LunRemoved)
  /\ WF_allVars(~faulted /\ CloseStep)

CloseFairSpec == CloseSpec /\ CloseFairness

-----------------------------------------------------------------------------
(* When Close unmaps the ring, every command was completed and reported,   *)
(* the ring is empty and no handler is at work: all the loop can still do  *)
(* with the ring is to look once more and find nothing (block_device.go:   *)
(* 136-143).  teardown returns an error before that if it is not so.       *)
NothingLeftAtUnmap ==
  ~Mapped =>
    /\ Len(done) = Len(submitted)
    /\ NextEntryOff = HeadEntryOff
    /\ pollPc \notin {"handle", "complete", "pass"}

(* A loop whose two goroutines are waiting when stopPoll writes to the     *)
(* pipe never touches the unmapped ring, even if a uio event comes at that *)
(* moment, since the pipe is looked at before the uio device               *)
(* (handler.go:248-254).  Close has no such promise to make to a loop that *)
(* is still draining.                                                      *)
NoFaultAtRest == faulted => ~atRest

(* startPoll closes the channel when it returns: nobody sends on it then   *)
(* (handler.go:183, :246-258).                                             *)
NoSendOnClosed == collected => waitPc = "exit"

(* The loop beside Close is the loop PollLoop specifies: Close stops it    *)
(* only after the LUN is gone, and only once.                              *)
LoopSpec == Spec

(* poll has failed, and the loop has ended with the device still there.    *)
LoopDied == waitPc = "exit" /\ ~pipeReady

(* Every submitted command is completed, before and beside Close, unless   *)
(* poll fails: no wake-up is lost between the clearing of the uio event,   *)
(* the drain and the next poll.                                            *)
EveryCommandDone ==
  \A n \in 1 .. MaxCmds : Len(submitted) >= n ~> Len(done) >= n \/ LoopDied

(* Close needs neither of its timeouts: without them it returns, unless    *)
(* the process ended or the loop had died.                                 *)
CloseReturns ==
  closePc = "teardown" ~> closePc \in {"failed", "closed"} \/ faulted \/ LoopDied

-----------------------------------------------------------------------------
(* What Close and the loop agree on; with RingInv and ReplyInv it implies  *)
(* the invariants above.                                                   *)
Stopped == {"munmap", "closeUio", "wait", "closePipe", "closed"}

CloseInv ==
  /\ closePc \in ClosePcs
  /\ closePc \in Stopped \cup {"stop"} => lunGone
  /\ pipeReady <=> closePc \in Stopped
  /\ lunGone => inflight = {} /\ padded = 0
  /\ waitPc = "exit" <=> pollPc = "stopping"
  /\ collected => pollPc = "stopping"
  /\ atRest => pipeReady /\ waitPc # "sendTrue" /\ pollPc \in {"select", "stopping"}
  /\ NoFaultAtRest

(* A pad is never the last entry, except while its command is awaited.     *)
InvLast == log # <<>> /\ padded = 0 => IsCmd(Len(log))
=============================================================================
