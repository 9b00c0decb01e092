------------------------------ MODULE LfsThread ------------------------------
(***************************************************************************)
(* How the directories of a littlefs lie in flash.  A directory is a chain *)
(* of metadata pairs; all pairs, of all of them, are threaded by their     *)
(* tails, starting from the superblock.  A pair is thus named in two       *)
(* places, by the entry of its directory and by the tail of its            *)
(* predecessor.                                                            *)
(***************************************************************************)
EXTENDS Integers, Sequences, SequencesExt, FiniteSets, Functions

CONSTANTS
  Names,           \* of files and directories, in their order
  Blocks,          \* of the device, 0 and 1 hold the superblock
  MaxDepth         \* bound: the longest path

ASSUME BlocksAssumption ==
  /\ MaxDepth \in Nat
  /\ Names \subseteq Nat /\ {0, 1} \subseteq Blocks /\ Blocks \subseteq Nat

-----------------------------------------------------------------------------
HeadPair == <<0, 1>>
NoPair   == <<>>

SamePair(p, q) == ToSet(p) \cap ToSet(q) # {}     \* lfs_pair_cmp = 0
InSync(p, q)   == ToSet(p) = ToSet(q)             \* lfs_pair_sync
Swapped(p)     == <<p[2], p[1]>>

(* The entries of a pair: a file, or the pair a directory begins with.     *)
File == <<>>
NoEntries == [n \in {} |-> File]
Data(ents, tail, split) == [ents |-> ents, tail |-> tail, split |-> split]

Fetch(d, p) ==
  LET q == IF d[p[2]].rev > d[p[1]].rev THEN Swapped(p) ELSE p
  IN  [pair |-> q, data |-> d[q[1]].data, erased |-> TRUE]

NoMdir == [pair |-> NoPair, data |-> Data(NoEntries, NoPair, FALSE), erased |-> FALSE]

(* The first pair has the superblock for an entry.                         *)
Count(m) == Cardinality(DOMAIN m.data.ents) + (IF SamePair(m.pair, HeadPair) THEN 1 ELSE 0)

(* All pairs by their tails, and the pairs of one directory.               *)
Extended(d, ms, all) ==
  IF Last(ms).data.tail # NoPair /\ (all \/ Last(ms).data.split)
  THEN Append(ms, Fetch(d, Last(ms).data.tail)) ELSE ms

Walk(d, m, all) ==
  LET walk[n \in 0..Cardinality(Blocks) \div 2] ==
        IF n = 0 THEN <<m>> ELSE Extended(d, walk[n - 1], all)
  IN  walk[Cardinality(Blocks) \div 2]

Thread(d)     == Walk(d, Fetch(d, HeadPair), TRUE)
ChainOf(d, m) == Walk(d, m, FALSE)

(* An entry a pending move has taken away is not there any more.           *)
MovedHere(g, p) == {v.name : v \in {w \in ToSet(g.move) : SamePair(w.pair, p)}}

Shown(g, m) == Restrict(m.data.ents, DOMAIN m.data.ents \ MovedHere(g, m.pair))

FirstOf(ms, ks) ==
  IF ks = {} THEN <<>> ELSE <<ms[CHOOSE j \in ks : \A i \in ks : j <= i]>>

(* lfs_fs_parent: the entry that leads to a pair, as <<>> or as one of     *)
(* the pairs with the name in it.                                          *)
Leads(g, m, p) == {n \in DOMAIN Shown(g, m) : SamePair(m.data.ents[n], p)}

Leading(g, ms, p) ==
  [k \in 1..Len(ms) |-> [m |-> ms[k], name |-> CHOOSE n \in Leads(g, ms[k], p) : TRUE]]

ParentIn(th, g, p) ==
  Leading(g, FirstOf(th, {k \in 1..Len(th) : Leads(g, th[k], p) # {}}), p)

Parent(d, g, p) == ParentIn(Thread(d), g, p)

(* lfs_fs_pred                                                             *)
PredIn(th, p) == FirstOf(th, {k \in 1..Len(th) : SamePair(th[k].data.tail, p)})

Pred(d, p) == PredIn(Thread(d), p)

(* lfs_fs_rawtraverse as the allocator calls it, and the blocks left.      *)
TraversedNewest(d) == {Head(m.pair) : m \in ToSet(Thread(d))}

Traversed(d) ==
  UNION {ToSet(m.pair) \cup UNION {ToSet(m.data.ents[n]) : n \in DOMAIN m.data.ents} :
           m \in ToSet(Thread(d))}

Paths == UNION {[1..n -> Names] : n \in 0..MaxDepth}

(* lfs_dir_find, once the directory is known: the pair of the directory    *)
(* that has the name or a greater one, and otherwise the last.             *)
Ends(g, m, n) ==
  n \in DOMAIN Shown(g, m) \/ \E o \in DOMAIN m.data.ents : o > n

Holder(g, ch, n) ==
  ch[CHOOSE k \in 1..Len(ch) : /\ k = Len(ch) \/ Ends(g, ch[k], n)
                               /\ \A i \in 1..k - 1 : ~Ends(g, ch[i], n)]

PlaceIn(g, m, n) == [m |-> m, name |-> n, hit |-> n \in DOMAIN Shown(g, m)]

InDir(d, g, head, n) == PlaceIn(g, Holder(g, ChainOf(d, Fetch(d, head)), n), n)

Struct(f) == f.m.data.ents[f.name]

NoPlace == [m |-> NoMdir, name |-> 0, hit |-> FALSE]

FindFrom(d, g, head, n) == IF head = NoPair THEN NoPlace ELSE InDir(d, g, head, n)

(* The head of the directory at p, <<>> if there is none.                  *)
HeadAt(f) == IF f.hit THEN Struct(f) ELSE NoPair

HeadOf(d, g, p) ==
  LET head[k \in 0..Len(p)] ==
        IF k = 0 THEN HeadPair ELSE HeadAt(FindFrom(d, g, head[k - 1], p[k]))
  IN  head[Len(p)]

Find(d, g, p) == FindFrom(d, g, HeadOf(d, g, Front(p)), Last(p))

(* What a mount shows: the tree of LfsNamespace.                           *)
Kinds(places, there) ==
  [p \in there \cup {<<>>} |->
     IF p = <<>> \/ Struct(places[p]) # File THEN "dir" ELSE "reg"]

ViewOf(places) == Kinds(places, {p \in DOMAIN places : places[p].hit})

View(d, g) == ViewOf([p \in Paths \ {<<>>} |-> Find(d, g, p)])
=============================================================================
