----------------------------- MODULE FileStore -----------------------------
(***************************************************************************)
(* What the file system component promises about the partition: files keep *)
(* what is in them.  A file appears empty, grows while it is the open one, *)
(* and goes only when it is deleted, which an open file cannot be.  At     *)
(* most one file is open.                                                  *)
(***************************************************************************)
EXTENDS Integers

CONSTANTS Names, None

VARIABLES
  dir,      \* the size of each file there is
  open      \* the file that is open, or None

vars == <<dir, open>>

Init ==
  /\ DOMAIN dir \subseteq Names
  /\ \A n \in DOMAIN dir : dir[n] \in Nat
  /\ open = None

Create(n) ==
  /\ n \notin DOMAIN dir
  /\ dir' = [m \in DOMAIN dir \cup {n} |-> IF m = n THEN 0 ELSE dir[m]]
  /\ open' = n

Open(n) ==
  /\ n \in DOMAIN dir
  /\ open' = n
  /\ UNCHANGED dir

Close == open' = None /\ UNCHANGED dir

(* A write, which can close the file behind itself.                        *)
Write ==
  /\ open # None
  /\ dir' = [n \in DOMAIN dir |-> IF n = open THEN dir'[n] ELSE dir[n]]
  /\ dir'[open] >= dir[open]
  /\ open' \in {open, None}

Delete(n) ==
  /\ n \in DOMAIN dir /\ n # open
  /\ dir' = [m \in DOMAIN dir \ {n} |-> dir[m]]
  /\ UNCHANGED open

Next ==
  \/ \E n \in Names : Create(n) \/ Open(n) \/ Delete(n)
  \/ Close
  \/ Write

Spec == Init /\ [][Next]_vars
=============================================================================
