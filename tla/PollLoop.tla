------------------------------ MODULE PollLoop ------------------------------
(***************************************************************************)
(* The data path of one device as start() runs it: the goroutine           *)
(* waitForNextCommand polls the uio device and the stop pipe and hands     *)
(* each wake-up over an unbuffered channel to the goroutine startPoll,     *)
(* which drains the ring and serves one command at a time (HandleRequest). *)
(* The ring and the kernel's side are those of Mailbox.                    *)
(***************************************************************************)
EXTENDS Mailbox

CONSTANTS
  HandlerErrs,  \* TRUE: HandleCommand may return a Go error
  PollMayFail,  \* TRUE: unix.Poll may return an error or an unexpected event
  WriteMayFail  \* TRUE: unix.Write to the uio device may fail

ASSUME LoopAssumption ==
  /\ HandlerErrs \in BOOLEAN
  /\ PollMayFail \in BOOLEAN
  /\ WriteMayFail \in BOOLEAN

VARIABLES
  pollPc,   \* where startPoll is
  waitPc,   \* where waitForNextCommand is
  cmd,      \* the cmd_id of the command startPoll is serving, or NoCmd
  resp,     \* the ScsiResponse it is completing that command with
  event,    \* kernel: a command was published, its uio event not yet raised
  uioReady, \* the uio device is readable
  lunGone,  \* Close has removed the LUN: the kernel submits no more
  pipeReady \* stopPoll has written to the pipe

loopVars == <<pollPc, waitPc, cmd, resp, event, uioReady, lunGone, pipeReady>>
vars == <<ringVars, loopVars>>

NoCmd == -1

PollPcs == {"select", "clear", "drain", "handle", "complete", "pass", "notify", "stopping"}
WaitPcs == {"poll", "sendTrue", "sendFalse", "exit"}

ZeroResponse == [id |-> 0, status |-> "good"]  \* ScsiResponse{}

Init ==
  /\ RingInit
  /\ pollPc = "select"
  /\ waitPc = "poll"
  /\ cmd = NoCmd
  /\ resp = ZeroResponse
  /\ event = FALSE
  /\ uioReady = FALSE
  /\ lunGone = FALSE
  /\ pipeReady = FALSE

-----------------------------------------------------------------------------
(* The kernel (external).                                                  *)

PadRing(l) ==
  /\ ~event /\ ~lunGone
  /\ KernelPad(l)
  /\ UNCHANGED loopVars

Submit(l, id) ==
  /\ ~event /\ ~lunGone
  /\ KernelSubmit(l, id)
  /\ event' = TRUE
  /\ UNCHANGED <<pollPc, waitPc, cmd, resp, uioReady, lunGone, pipeReady>>

RaiseEvent ==
  /\ event
  /\ event' = FALSE
  /\ uioReady' = TRUE
  /\ UNCHANGED <<ringVars, pollPc, waitPc, cmd, resp, lunGone, pipeReady>>

Clean ==
  /\ KernelClean
  /\ UNCHANGED loopVars

-----------------------------------------------------------------------------
(* waitForNextCommand                                                      *)

(* Wrong: the stop pipe is not among the descriptors polled.               *)
WaitPollUioOnly ==
  /\ waitPc = "poll"
  /\ uioReady
  /\ waitPc' = "sendTrue"
  /\ UNCHANGED <<ringVars, pollPc, cmd, resp, event, uioReady, lunGone, pipeReady>>

(* Wrong: the uio device is looked at before the pipe.                     *)
WaitPollUioFirst ==
  /\ waitPc = "poll"
  /\ \/ uioReady /\ waitPc' = "sendTrue"
     \/ ~uioReady /\ pipeReady /\ waitPc' = "sendFalse"
  /\ UNCHANGED <<ringVars, pollPc, cmd, resp, event, uioReady, lunGone, pipeReady>>

WaitPoll ==
  /\ waitPc = "poll"
  /\ \/ /\ pipeReady
        /\ waitPc' = "sendFalse"
     \/ /\ uioReady /\ ~pipeReady
        /\ waitPc' = "sendTrue"
  /\ UNCHANGED <<ringVars, pollPc, cmd, resp, event, uioReady, lunGone, pipeReady>>

(* An error of poll, EINTR included, or an unexpected event.               *)
PollFails ==
  /\ waitPc = "poll"
  /\ PollMayFail
  /\ waitPc' = "sendFalse"
  /\ UNCHANGED <<ringVars, pollPc, cmd, resp, event, uioReady, lunGone, pipeReady>>

(* Wrong: the waiter polls on after it has sent false.                     *)
HandOverNoBreak ==
  /\ pollPc = "select"
  /\ waitPc \in {"sendTrue", "sendFalse"}
  /\ waitPc' = "poll"
  /\ pollPc' = IF waitPc = "sendTrue" THEN "clear" ELSE "stopping"
  /\ UNCHANGED <<ringVars, cmd, resp, event, uioReady, lunGone, pipeReady>>

(* ch <- success meets success := <-ch: the channel has no buffer.         *)
HandOver ==
  /\ pollPc = "select"
  /\ \/ /\ waitPc = "sendTrue"
        /\ waitPc' = "poll"
        /\ pollPc' = "clear"
     \/ /\ waitPc = "sendFalse"
        /\ waitPc' = "exit"
        /\ pollPc' = "stopping"  \* vbd.wait <- struct{}{}
  /\ UNCHANGED <<ringVars, cmd, resp, event, uioReady, lunGone, pipeReady>>

-----------------------------------------------------------------------------
(* startPoll and the functions it calls                                    *)

(* clearUioEvents; a read interrupted by a signal clears nothing.          *)
ClearUioEvents ==
  /\ pollPc = "clear"
  /\ uioReady' \in {FALSE, uioReady}
  /\ pollPc' = "drain"
  /\ UNCHANGED <<ringVars, waitPc, cmd, resp, event, lunGone, pipeReady>>

DrainPad ==
  /\ pollPc = "drain"
  /\ FetchPad
  /\ UNCHANGED loopVars

DrainCmd ==
  /\ pollPc = "drain"
  /\ FetchCmd
  /\ cmd' = EntCmdId(NextEntryOff)
  /\ pollPc' = "handle"
  /\ UNCHANGED <<waitPc, resp, event, uioReady, lunGone, pipeReady>>

Drained ==
  /\ pollPc = "drain"
  /\ NoCommand
  /\ pollPc' = "select"
  /\ UNCHANGED <<ringVars, waitPc, cmd, resp, event, uioReady, lunGone, pipeReady>>

(* Wrong: a CHECK CONDITION forgets which command it answers.              *)
HandleAnonymous(status) ==
  /\ pollPc = "handle"
  /\ status = "error" => HandlerErrs
  /\ served' = Append(served, [id |-> cmd, status |-> status])
  /\ resp' = CASE status = "error" -> ZeroResponse
               [] status = "check" -> [id |-> 0, status |-> status]
               [] status = "good"  -> [id |-> cmd, status |-> status]
  /\ pollPc' = "complete"
  /\ UNCHANGED <<sharedVars, kernelVars, submitted, done, log, nClean, nTail, nFetch,
                 waitPc, cmd, event, uioReady, lunGone, pipeReady>>

(* HandleCommand.  Its error is dropped; the response is then the zero     *)
(* value of ScsiResponse.                                                  *)
Handle(status) ==
  /\ pollPc = "handle"
  /\ status = "error" => HandlerErrs
  /\ served' = Append(served, [id |-> cmd, status |-> status])
  /\ resp' = IF status = "error" THEN ZeroResponse ELSE [id |-> cmd, status |-> status]
  /\ pollPc' = "complete"
  /\ UNCHANGED <<sharedVars, kernelVars, submitted, done, log, nClean, nTail, nFetch,
                 waitPc, cmd, event, uioReady, lunGone, pipeReady>>

CompleteSkip ==
  /\ pollPc = "complete"
  /\ SkipTailPad
  /\ UNCHANGED loopVars

CompleteWrite ==
  /\ pollPc = "complete"
  /\ WriteResponse(resp)
  /\ pollPc' = "pass"
  /\ UNCHANGED <<waitPc, cmd, resp, event, uioReady, lunGone, pipeReady>>

CompletePass ==
  /\ pollPc = "pass"
  /\ PassTailEntry
  /\ pollPc' = "notify"
  /\ UNCHANGED <<waitPc, cmd, resp, event, uioReady, lunGone, pipeReady>>

(* Wrong: one command per wake-up, whatever else is in the ring.           *)
NotifyOnce ==
  /\ pollPc = "notify"
  /\ \/ NotifyKernel
     \/ (WriteMayFail \/ lunGone) /\ UNCHANGED ringVars
  /\ cmd' = NoCmd
  /\ resp' = ZeroResponse
  /\ pollPc' = "select"
  /\ UNCHANGED <<waitPc, event, uioReady, lunGone, pipeReady>>

(* The write to the uio device; its error is only logged.  Once the LUN is *)
(* gone Close may have closed the descriptor.                              *)
Notify ==
  /\ pollPc = "notify"
  /\ \/ NotifyKernel
     \/ (WriteMayFail \/ lunGone) /\ UNCHANGED ringVars
  /\ cmd' = NoCmd
  /\ resp' = ZeroResponse
  /\ pollPc' = "drain"
  /\ UNCHANGED <<waitPc, event, uioReady, lunGone, pipeReady>>

-----------------------------------------------------------------------------
(* The parts of Close that the loop sees.                                  *)

(* teardown: removing the LUN returns when the kernel has no command       *)
(* outstanding on it (external).                                           *)
RemoveLun ==
  /\ ~lunGone
  /\ inflight = {} /\ padded = 0
  /\ lunGone' = TRUE
  /\ UNCHANGED <<ringVars, pollPc, waitPc, cmd, resp, event, uioReady, pipeReady>>

StopPoll ==
  /\ lunGone
  /\ ~pipeReady
  /\ pipeReady' = TRUE
  /\ UNCHANGED <<ringVars, pollPc, waitPc, cmd, resp, event, uioReady, lunGone>>

-----------------------------------------------------------------------------
Kernel ==
  \/ \E l \in Lens : PadRing(l)
  \/ \E l \in Lens, id \in CmdIds : Submit(l, id)
  \/ RaiseEvent
  \/ Clean

Waiter == WaitPoll \/ PollFails \/ HandOver

Poller ==
  \/ ClearUioEvents
  \/ DrainPad
  \/ DrainCmd
  \/ Drained
  \/ \E status \in {"good", "check", "error"} : Handle(status)
  \/ CompleteSkip
  \/ CompleteWrite
  \/ CompletePass
  \/ Notify

Closer == RemoveLun \/ StopPoll

Next == Kernel \/ Waiter \/ Poller \/ Closer

Spec == Init /\ [][Next]_vars

-----------------------------------------------------------------------------
TypeOK ==
  /\ RingTypeOK
  /\ pollPc \in PollPcs
  /\ waitPc \in WaitPcs
  /\ cmd \in CmdIds \cup {NoCmd}
  /\ resp \in Response
  /\ event \in BOOLEAN
  /\ uioReady \in BOOLEAN
  /\ lunGone \in BOOLEAN
  /\ pipeReady \in BOOLEAN

(* Every completion the kernel reads is the one the handler decided for    *)
(* the command submitted in that place: none is lost, doubled, swapped or  *)
(* given another command's status (completeCommand, HandleRequest).        *)
OwnCompletion ==
  /\ Len(done) <= Len(served)
  /\ Len(served) <= Len(submitted)
  /\ \A i \in 1 .. Len(served) : served[i].id = submitted[i]
  /\ \A i \in 1 .. Len(done) : done[i] = served[i]

(* A handler that returns a Go error has met a "process-ending" error      *)
(* (command.go:12): its command is not reported to the kernel and no other *)
(* command is served after it.  HandleRequest drops the error instead.     *)
ErrorEndsService ==
  \A i \in 1 .. Len(served) :
    served[i].status = "error" => i = Len(served) /\ Len(done) < i

(* The three cursors never overtake one another around the ring: cleaned,  *)
(* then completed, then fetched, then published, in less than one lap.     *)
CursorOrder ==
  Dist(lastCleaned, mbCmdTail) + Dist(mbCmdTail, cmdTail)
    + Dist(cmdTail, mbCmdHead) = Dist(lastCleaned, mbCmdHead)

(* getNextCommand always stands on a header it knows (its panic            *)
(* "unsupported command from tcmu?" is unreachable), and completeCommand,  *)
(* once past the pads, on the entry of the command being served.           *)
OnAHeader ==
  /\ cmdTail # mbCmdHead => EntHdrOp(NextEntryOff) \in {"pad", "cmd"}
  /\ pollPc = "complete" => EntHdrOp(TailEntryOff) \in {"pad", "cmd"}
  /\ pollPc = "complete" /\ EntHdrOp(TailEntryOff) = "cmd" => EntCmdId(TailEntryOff) = cmd

(* Where both goroutines wait and a command is published that nobody has   *)
(* fetched, its wake-up is still on its way: none is lost between the      *)
(* clearing of the uio event, the last look at the ring and the next poll  *)
(* (handler.go:186-201, :226-260).                                         *)
NoWakeupLost ==
  pollPc = "select" /\ waitPc = "poll" /\ padded = 0 /\ NextEntryOff # HeadEntryOff =>
    event \/ uioReady

(* cmd_tail moves only past a pad or a command whose response is already   *)
(* in the ring: the kernel may read the entry as soon as it has moved.     *)
TailPassesAnswered ==
  [][mbCmdTail' # mbCmdTail =>
       \/ ring[mbCmdTail].op = "pad"
       \/ ring[mbCmdTail].status # "none"]_vars

(* The ring serves commands as CmdService promises.                        *)
Service == INSTANCE CmdService
ServiceSpec == Service!Spec
=============================================================================
