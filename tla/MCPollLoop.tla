----------------------------- MODULE MCPollLoop -----------------------------
(* Instances of PollLoop for TLC. *)
EXTENDS PollLoopInv

MCLens == {1, 3}
MCIds == 0 .. 1
=============================================================================
