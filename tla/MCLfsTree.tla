----------------------------- MODULE MCLfsTree -----------------------------
(* Instances of LfsTree for TLC.                                           *)
EXTENDS LfsTree, TLC

Made(kind, p) == [kind |-> kind, path |-> p]

(* A directory in a directory, next to another one.                        *)
Nested == <<Made("mkdir", <<1>>), Made("mkdir", <<2>>), Made("mkdir", <<1, 1>>)>>

MostPlaces == {<<1>>, <<2>>, <<3>>, <<1, 1>>, <<1, 2>>, <<1, 3>>, <<2, 1>>}
=============================================================================
