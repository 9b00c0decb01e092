----------------------------- MODULE MCFileSys -----------------------------
(***************************************************************************)
(* Instances of FileSysCorrect for TLC: three names, room for two files.   *)
(***************************************************************************)
EXTENDS FileSysCorrect, TLC

CONSTANTS a, b, c

MCNames == {a, b, c}

(* An empty partition, and one with a file on it.                          *)
MCDisks == { <<>>, (a :> 1) }

MCWrites == {1, 2}
=============================================================================
