----------------------------- MODULE CmdService -----------------------------
(***************************************************************************)
(* What a libtcmu device promises to the kernel, with no ring, no mailbox  *)
(* and no goroutines: commands are taken in the order they were submitted, *)
(* each is handled once, and what the handler decided of it, and nothing   *)
(* else, is what the kernel is told about it.                              *)
(***************************************************************************)
EXTENDS Integers, Sequences

CONSTANTS
  CmdIds,  \* the cmd_id values of the kernel
  MaxCmds  \* bound: how many commands are submitted in a behaviour

VARIABLES
  submitted, \* cmd_ids in the order the kernel submitted them
  served,    \* what the handler decided: [id, status]
  done       \* what the kernel was told: [id, status]

vars == <<submitted, served, done>>

Init ==
  /\ submitted = <<>>
  /\ served = <<>>
  /\ done = <<>>

(* The kernel reuses a cmd_id only once it was told about its last use.    *)
Submit(id) ==
  /\ Len(submitted) < MaxCmds
  /\ \A i \in Len(done) + 1 .. Len(submitted) : submitted[i] # id
  /\ submitted' = Append(submitted, id)
  /\ UNCHANGED <<served, done>>

(* The handler decides about the oldest command not yet handled.           *)
Serve(status) ==
  /\ Len(served) < Len(submitted)
  /\ served' = Append(served, [id |-> submitted[Len(served) + 1], status |-> status])
  /\ UNCHANGED <<submitted, done>>

(* The kernel learns what the handler decided about the oldest command     *)
(* it has not heard about.                                                 *)
Report ==
  /\ Len(done) < Len(served)
  /\ done' = Append(done, served[Len(done) + 1])
  /\ UNCHANGED <<submitted, served>>

Next ==
  \/ \E id \in CmdIds : Submit(id)
  \/ \E status \in {"good", "check"} : Serve(status)
  \/ Report

Spec == Init /\ [][Next]_vars
=============================================================================
