----------------------------- MODULE DataBuffer -----------------------------
(***************************************************************************)
(* What ScsiCmd.Read and ScsiCmd.Write promise to a command handler: the   *)
(* data buffer of a command is one stretch of bytes, each call moves the   *)
(* next bytes of it, as many as were asked for or as many as are left, and *)
(* the call fails exactly when they are fewer than were asked for.         *)
(***************************************************************************)
EXTENDS Integers

CONSTANTS
  Total, \* bytes in the data buffer of the command
  Asks   \* lengths a handler asks for

VARIABLES
  pos,    \* bytes moved so far
  result  \* what the last call returned

vars == <<pos, result>>

Init ==
  /\ pos = 0
  /\ result = [ask |-> 0, n |-> 0, failed |-> FALSE]

Transfer(ask) ==
  LET left == Total - pos
      n == IF ask <= left THEN ask ELSE left
  IN  /\ pos' = pos + n
      /\ result' = [ask |-> ask, n |-> n, failed |-> n # ask]

Next == \E ask \in Asks : Transfer(ask)

Spec == Init /\ [][Next]_vars
=============================================================================
