---------------------------- MODULE LfsNamespace ----------------------------
(***************************************************************************)
(* What littlefs promises about names: a tree of directories and files in  *)
(* which every call happens at once or, when power is lost, not at all.    *)
(* A path is the sequence of the names on the way from the root, which is  *)
(* the empty sequence; what lfs_dir_find makes of "/", "." and ".." on the *)
(* way is already done.                                                    *)
(***************************************************************************)
EXTENDS Integers, Sequences, SequencesExt, Functions

CONSTANTS
  Names,       \* the names of files and directories
  MaxDepth     \* bound: the longest path

VARIABLE tree  \* what there is: "reg" or "dir" at each path

Root == <<>>

Paths == UNION {[1..n -> Names] : n \in 0..MaxDepth}

Empty == [p \in {Root} |-> "dir"]

Below(t, p) == {q \in DOMAIN t : IsStrictPrefix(p, q)}

IsDir(t, p) == p \in DOMAIN t /\ t[p] = "dir"

(* There is nothing at p and a directory for it.                           *)
Vacant(t, p) == p # Root /\ p \notin DOMAIN t /\ IsDir(t, Front(p))

Removable(t, p) == p # Root /\ p \in DOMAIN t /\ Below(t, p) = {}

(* What is at q gives way to p: it is of the same kind, and a directory    *)
(* that gives way is empty.                                                *)
Renamable(t, p, q) ==
  /\ p # Root /\ p \in DOMAIN t
  /\ \/ Vacant(t, q)
     \/ p = q
     \/ q # Root /\ q \in DOMAIN t /\ t[q] = t[p] /\ Below(t, q) = {}

Insert(t, p, k) == [q \in DOMAIN t \cup {p} |-> IF q = p THEN k ELSE t[q]]

Delete(t, p) == Restrict(t, DOMAIN t \ {p})

(* Where a path leads after p was renamed to q.                            *)
Moved(r, p, q) ==
  IF IsPrefix(p, r) THEN q \o SubSeq(r, Len(p) + 1, Len(r)) ELSE r

(* Nothing keeps a directory from being renamed to a path below itself;    *)
(* it is then in no directory the root leads to, and lost with all in it.  *)
Move(t, p, q) ==
  LET rest == DOMAIN t \ ({p, q} \cup Below(t, p))
  IN IF p = q THEN t
     ELSE IF IsStrictPrefix(p, q) THEN Restrict(t, rest)
     ELSE [r \in rest \cup {Moved(s, p, q) : s \in {p} \cup Below(t, p)} |->
             IF IsPrefix(q, r) THEN t[Moved(r, q, p)] ELSE t[r]]

Init == tree = Empty

Create(p) == Vacant(tree, p) /\ tree' = Insert(tree, p, "reg")

Mkdir(p) == Vacant(tree, p) /\ tree' = Insert(tree, p, "dir")

Unlink(p) == Removable(tree, p) /\ tree' = Delete(tree, p)

Rename(p, q) == Renamable(tree, p, q) /\ tree' = Move(tree, p, q)

Next ==
  \E p \in Paths :
    \/ Create(p)
    \/ Mkdir(p)
    \/ Unlink(p)
    \/ \E q \in Paths : Rename(p, q)

Spec == Init /\ [][Next]_tree
=============================================================================
