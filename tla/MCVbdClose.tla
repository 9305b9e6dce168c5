----------------------------- MODULE MCVbdClose -----------------------------
(* Instances of VbdClose for TLC. *)
EXTENDS VbdClose

MCLens == {2}
MCIds == 0 .. 1
=============================================================================
