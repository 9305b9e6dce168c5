-------------------------------- MODULE Cdb ---------------------------------
(***************************************************************************)
(* What the library reads in the command descriptor block of a command.    *)
(* A block is its operation code, the block address and the transfer       *)
(* length the initiator put into it, each a number.                        *)
(***************************************************************************)
EXTENDS Integers

CONSTANT ByteBase  \* 256: how many values a byte has

Read6 == 8
Read10 == 40
Read12 == 168
Read16 == 136
Write6 == 10
Write10 == 42
Write12 == 170
Write16 == 138

Reads == {Read6, Read10, Read12, Read16}
Writes == {Write6, Write10, Write12, Write16}

(* Operation codes cdbLen panics on. A block of code 127 tells its own     *)
(* length.                                                                 *)
NoLength(op) == op \in 96 .. 126 \/ op \in 192 .. 255

CdbLen(op) ==
  CASE op \in 0 .. 31 -> 6
    [] op \in 32 .. 95 -> 10
    [] op \in 128 .. 159 -> 16
    [] op \in 160 .. 191 -> 12

(* Of the address of a 6-byte command the last byte is read, and a zero in *)
(* it as 256; the others are read whole.                                   *)
LBA(c) ==
  IF CdbLen(c.op) = 6
    THEN IF c.lba % ByteBase = 0 THEN ByteBase ELSE c.lba % ByteBase
    ELSE c.lba

XferLen(c) == c.xfer
=============================================================================
