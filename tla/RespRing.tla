------------------------------ MODULE RespRing ------------------------------
(***************************************************************************)
(* The concurrent dispatch of handler.go: startPollx starts a goroutine    *)
(* HandleRequestx for each command it takes out of the ring, and           *)
(* startRespx, the third party, completes the commands in the order in     *)
(* which they were taken, from a ring of response slots.                   *)
(*                                                                         *)
(* The command ring of the kernel is the business of Mailbox; here it is   *)
(* what getNextCommand and completeCommand make of it, a sequence walked   *)
(* by two counters. Commands are named by their place in it: the k-th      *)
(* command submitted is command k, and that is its cmd_id.                 *)
(***************************************************************************)
EXTENDS Integers, Sequences

CONSTANTS
  RingSize,    \* CMD_RING_SIZE
  InFlight,    \* how many commands the kernel has outstanding at most
  MaxCmds,     \* bound: how many commands are submitted in a behaviour
  HandlerErrs, \* TRUE: HandleCommand may return a Go error
  MayStop      \* TRUE: the waiter may report that polling is over

ASSUME DispatchAssumption ==
  /\ RingSize \in Nat \ {0}
  /\ InFlight \in Nat \ {0}
  /\ MaxCmds \in Nat
  /\ HandlerErrs \in BOOLEAN
  /\ MayStop \in BOOLEAN

VARIABLES
  submitted, \* kernel: how many commands it has published
  uioReady,  \* the uio device is readable
  pollPc,    \* where startPollx is
  fetched,   \* how many commands getNextCommand has returned
  head,      \* cmdRing.head
  stage,     \* of each command, where its HandleRequestx is
  index,     \* of each command, the slot its HandleRequestx was given
  data,      \* cmdRing.data: a response or Nil per slot
  cmdDone,   \* the channel of slots whose response is there
  respPc,    \* where startRespx is
  resp,      \* the response startRespx is completing a command with
  tail,      \* cmdRing.tail
  completed  \* the responses in the order completeCommand wrote them

pollVars == <<pollPc, fetched, head>>
handlerVars == <<stage, index, data, cmdDone>>
respVars == <<respPc, resp, tail, completed>>
kernelVars == <<submitted, uioReady>>
vars == <<kernelVars, pollVars, handlerVars, respVars>>

Slots == 0 .. RingSize - 1
Cmds == 1 .. MaxCmds
Responses == [id : Nat, status : {"good", "check"}]
ZeroResponse == [id |-> 0, status |-> "good"]  \* ScsiResponse{}
Nil == [id |-> -1, status |-> "nil"]

Next1(i) == IF i + 1 >= RingSize THEN 0 ELSE i + 1

Init ==
  /\ submitted = 0
  /\ uioReady = FALSE
  /\ pollPc = "select"
  /\ fetched = 0
  /\ head = 0
  /\ stage = [n \in Cmds |-> "none"]
  /\ index = [n \in Cmds |-> 0]
  /\ data = [s \in Slots |-> Nil]
  /\ cmdDone = <<>>
  /\ respPc = "select"
  /\ resp = ZeroResponse
  /\ tail = 0
  /\ completed = <<>>

-----------------------------------------------------------------------------
(* The kernel (external): publishes a command and raises the uio event.    *)
(* It has a command back as soon as completeCommand has moved cmd_tail.    *)
Submit ==
  /\ submitted < MaxCmds
  /\ submitted - Len(completed) < InFlight
  /\ submitted' = submitted + 1
  /\ uioReady' = TRUE
  /\ UNCHANGED <<pollVars, handlerVars, respVars>>

-----------------------------------------------------------------------------
(* startPollx                                                              *)

(* true arrives from the waiter, which may have seen a readable device     *)
(* some time ago; clearUioEvents.                                          *)
Wake ==
  /\ pollPc = "select"
  /\ uioReady' = FALSE
  /\ pollPc' = "drain"
  /\ UNCHANGED <<submitted, fetched, head, handlerVars, respVars>>

(* Wrong: the last slot of the ring is never used, but counted.            *)
FetchWrapEarly(n) ==
  /\ pollPc = "drain"
  /\ fetched < submitted /\ n = fetched + 1
  /\ fetched' = n
  /\ stage' = [stage EXCEPT ![n] = "handle"]
  /\ index' = [index EXCEPT ![n] = head]
  /\ head' = IF head + 1 >= RingSize - 1 THEN 0 ELSE head + 1
  /\ UNCHANGED <<kernelVars, pollPc, data, cmdDone, respVars>>

(* getNextCommand returns command n; go HandleRequestx(cmd, head).         *)
Fetch(n) ==
  /\ pollPc = "drain"
  /\ fetched < submitted /\ n = fetched + 1
  /\ fetched' = n
  /\ stage' = [stage EXCEPT ![n] = "handle"]
  /\ index' = [index EXCEPT ![n] = head]
  /\ head' = Next1(head)
  /\ UNCHANGED <<kernelVars, pollPc, data, cmdDone, respVars>>

Drained ==
  /\ pollPc = "drain"
  /\ fetched = submitted
  /\ pollPc' = "select"
  /\ UNCHANGED <<kernelVars, fetched, head, handlerVars, respVars>>

(* false arrives from the waiter. startRespx and the handlers live on:     *)
(* nothing closes vbd.shut.                                                *)
PollStops ==
  /\ MayStop
  /\ pollPc = "select"
  /\ pollPc' = "stopped"
  /\ UNCHANGED <<kernelVars, fetched, head, handlerVars, respVars>>

-----------------------------------------------------------------------------
(* HandleRequestx                                                          *)

ResponseTo(n, status) ==
  IF status = "error" THEN ZeroResponse ELSE [id |-> n, status |-> status]

(* HandleCommand returns; its Go error is dropped.                         *)
Answer(n, status) ==
  /\ stage[n] = "handle"
  /\ status = "error" => HandlerErrs
  /\ data' = [data EXCEPT ![index[n]] = ResponseTo(n, status)]
  /\ stage' = [stage EXCEPT ![n] = "send"]
  /\ UNCHANGED <<kernelVars, pollVars, index, cmdDone, respVars>>

(* Wrong: a channel without a bound.                                       *)
SendUnbounded(n) ==
  /\ stage[n] = "send"
  /\ cmdDone' = Append(cmdDone, index[n])
  /\ stage' = [stage EXCEPT ![n] = "done"]
  /\ UNCHANGED <<kernelVars, pollVars, index, data, respVars>>

(* cmdDone <- index: the channel holds CMD_RING_SIZE indices.              *)
Send(n) ==
  /\ stage[n] = "send"
  /\ Len(cmdDone) < RingSize
  /\ cmdDone' = Append(cmdDone, index[n])
  /\ stage' = [stage EXCEPT ![n] = "done"]
  /\ UNCHANGED <<kernelVars, pollVars, index, data, respVars>>

-----------------------------------------------------------------------------
(* startRespx                                                              *)

(* Wrong: responses are completed in the order in which they arrive.       *)
ReceiveInOrderOfArrival ==
  /\ respPc = "select"
  /\ cmdDone # <<>>
  /\ cmdDone' = Tail(cmdDone)
  /\ tail' = Head(cmdDone)
  /\ respPc' = "look"
  /\ UNCHANGED <<kernelVars, pollVars, stage, index, data, resp, completed>>

(* An index other than the tail is dropped: its response is found when     *)
(* the tail gets there.                                                    *)
Receive ==
  /\ respPc = "select"
  /\ cmdDone # <<>>
  /\ cmdDone' = Tail(cmdDone)
  /\ respPc' = IF tail = Head(cmdDone) THEN "look" ELSE "select"
  /\ UNCHANGED <<kernelVars, pollVars, stage, index, data, resp, tail, completed>>

Look ==
  /\ respPc = "look"
  /\ IF data[tail] = Nil
       THEN respPc' = "select" /\ resp' = resp
       ELSE respPc' = "complete" /\ resp' = data[tail]
  /\ UNCHANGED <<kernelVars, pollVars, handlerVars, tail, completed>>

(* completeCommand, and the write to the uio device whose failure is only  *)
(* logged.                                                                 *)
Complete ==
  /\ respPc = "complete"
  /\ completed' = Append(completed, resp)
  /\ respPc' = "clear"
  /\ UNCHANGED <<kernelVars, pollVars, handlerVars, resp, tail>>

(* Wrong: one response per index received.                                 *)
ClearSlotOnce ==
  /\ respPc = "clear"
  /\ data' = [data EXCEPT ![tail] = Nil]
  /\ tail' = Next1(tail)
  /\ respPc' = "select"
  /\ UNCHANGED <<kernelVars, pollVars, stage, index, cmdDone, resp, completed>>

(* Wrong: the slot keeps its response.                                     *)
ClearSlotNot ==
  /\ respPc = "clear"
  /\ tail' = Next1(tail)
  /\ respPc' = "look"
  /\ UNCHANGED <<kernelVars, pollVars, handlerVars, resp, completed>>

ClearSlot ==
  /\ respPc = "clear"
  /\ data' = [data EXCEPT ![tail] = Nil]
  /\ tail' = Next1(tail)
  /\ respPc' = "look"
  /\ UNCHANGED <<kernelVars, pollVars, stage, index, cmdDone, resp, completed>>

-----------------------------------------------------------------------------
StartPollx == Wake \/ (\E n \in Cmds : Fetch(n)) \/ Drained \/ PollStops

HandleRequestx(n) ==
  \/ \E status \in {"good", "check", "error"} : Answer(n, status)
  \/ Send(n)

StartRespx == Receive \/ Look \/ Complete \/ ClearSlot

Next == Submit \/ StartPollx \/ (\E n \in Cmds : HandleRequestx(n)) \/ StartRespx

Spec == Init /\ [][Next]_vars

(* The Go scheduler runs every goroutine that can run, handlers return,    *)
(* and a readable device wakes the waiter. The kernel need not submit.     *)
FairSpec ==
  /\ Spec
  /\ WF_vars(uioReady /\ Wake)
  /\ WF_vars((\E n \in Cmds : Fetch(n)) \/ Drained)
  /\ \A n \in Cmds : WF_vars(HandleRequestx(n))
  /\ WF_vars(StartRespx)

-----------------------------------------------------------------------------
TypeOK ==
  /\ submitted \in 0 .. MaxCmds
  /\ uioReady \in BOOLEAN
  /\ pollPc \in {"select", "drain", "stopped"}
  /\ fetched \in 0 .. MaxCmds
  /\ head \in Slots
  /\ stage \in [Cmds -> {"none", "handle", "send", "done"}]
  /\ index \in [Cmds -> Slots]
  /\ data \in [Slots -> Responses \cup {Nil}]
  /\ cmdDone \in Seq(Slots) /\ Len(cmdDone) <= RingSize
  /\ respPc \in {"select", "look", "complete", "clear"}
  /\ resp \in Responses
  /\ tail \in Slots
  /\ completed \in Seq(Responses)

(* A response leaves its slot only after completeCommand has written it:   *)
(* no handler overwrites another's response, and startRespx, which clears  *)
(* the slot after the kernel may have sent the next command, clears no     *)
(* other (handler.go:140, :154-162).                                       *)
NoAnswerLost ==
  [][\A s \in Slots :
       data[s] # Nil /\ data'[s] # data[s]
         => /\ data'[s] = Nil
            /\ completed # <<>>
            /\ data[s] = completed[Len(completed)]]_vars

(* Where startRespx waits and the response it needs next is there, an      *)
(* index will come that makes it look: the one it was waiting for is never *)
(* among those it has dropped (handler.go:135-165), however many commands  *)
(* are outstanding.                                                        *)
NoIndexLost ==
  respPc = "select" /\ data[tail] # Nil =>
    \/ \E i \in DOMAIN cmdDone : cmdDone[i] = tail
    \/ \E n \in Cmds : stage[n] = "send" /\ index[n] = tail

(* Handlers that end in any order, and the kernel is told what each        *)
(* decided, in the order of the commands: the concurrent dispatch is the   *)
(* service startPoll gives. The handler's decision takes effect when       *)
(* startRespx picks it up.                                                 *)
Service == INSTANCE CmdService WITH
  CmdIds <- Cmds,
  MaxCmds <- MaxCmds,
  submitted <- [k \in 1 .. submitted |-> k],
  served <- IF respPc = "complete" THEN Append(completed, resp) ELSE completed,
  done <- completed
ServiceSpec == Service!Spec

(* While polling goes on every command is taken, and every command taken   *)
(* is completed, in whatever order the handlers end and also after polling *)
(* is over: an index that startRespx drops because it is not the tail is   *)
(* not lost.                                                               *)
EveryCommandDone ==
  \A n \in Cmds :
    /\ submitted >= n ~> fetched >= n \/ pollPc = "stopped"
    /\ fetched >= n ~> Len(completed) >= n
=============================================================================
