------------------------------ MODULE MCLfsDir ------------------------------
(* Instances of LfsDir for TLC.                                            *)
EXTENDS LfsDir, TLC

Symmetric == Permutations(Spares)
=============================================================================
