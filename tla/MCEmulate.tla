----------------------------- MODULE MCEmulate ------------------------------
(* Two sectors of two units; a transfer of three sectors or more wraps. The *)
(* room a command has is less than a description, as much, or more.         *)
EXTENDS Emulate

TwoSectors == <<0, 0, 0, 0>>
Buffers == {<<>>, <<1>>, <<1, 0>>, <<0, 1, 1, 1>>}

Pages ==
  [p \in PageNames |->
     CASE p = "inquiry" -> <<5, 2>>
       [] p = "header10" -> <<0, 0>>
       [] OTHER -> <<8>>]
=============================================================================
