----------------------------- MODULE MCScsiCmd ------------------------------
(* Instances of ScsiCmd for TLC: vectors of 0, 2, 0, 3 and 1 bytes, the    *)
(* last but one followed by an empty one.                                  *)
EXTENDS ScsiCmd, TLC

MCStarts == (0 :> 0) @@ (1 :> 0) @@ (2 :> 2) @@ (3 :> 2) @@ (4 :> 5) @@ (5 :> 5) @@ (6 :> 6)
=============================================================================
