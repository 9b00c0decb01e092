--------------------------- MODULE MCEspLittlefs ---------------------------
(***************************************************************************)
(* Small instances of EspLittlefs.                                         *)
(***************************************************************************)
EXTENDS EspLittlefs, TLC

MCNames == {1, 2}
MCPlaces == {<<1>>, <<2>>, <<1, 1>>}

Symmetric == Permutations(Tasks) \cup Permutations(Contexts) \cup Permutations(Files)
=============================================================================
