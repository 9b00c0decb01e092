------------------------------ MODULE LfsCommit ------------------------------
(***************************************************************************)
(* Commits to the directories of a littlefs and what follows from them.    *)
(* A pair that moves to another block has to be put right in the entry and *)
(* in the tail that name it, which takes two more commits, either of which *)
(* may move a pair again.  That the two differ is counted in the global state, and    *)
(* lfs_fs_deorphan mends it.                                               *)
(*                                                                         *)
(* A commit is one step here, and its global state one variable: LfsDir    *)
(* has what they are made of.  An entry goes by its name, not by its id.   *)
(***************************************************************************)
EXTENDS LfsThread

CONSTANTS
  Setup,           \* bound: the calls made first, with no pair moved
  MaxTurns,        \* bound: compactions, splits and relocations after those
  Careful          \* do blocks wear out only where littlefs bears it?

VARIABLES
  disk,            \* what a fetch finds in each block
  gdisk, gstate,   \* orphans and the pending move: on disk, and wanted
  ram,             \* copies of metadata pairs a call holds
  hooked,          \* the copies that are in lfs->mlist
  taken,           \* blocks allocated since the call began
  com,             \* the commit under way
  op,              \* the call under way
  calls, turns,    \* how many there were
  aborted,         \* has an assertion failed?
  tree             \* what a mount would show

comVars == <<disk, gdisk, gstate, ram, hooked, taken, com, turns, aborted, tree>>

-----------------------------------------------------------------------------
Unused == Blocks \ (Traversed(disk) \cup taken)

(* Which of them is taken is of no consequence; the least is one that was  *)
(* in use before if there is such a block.                                 *)
Fresh(n) ==
  IF Cardinality(Unused) < n THEN {}
  ELSE {SetToSortSeq({b \in Unused : Cardinality({a \in Unused : a < b}) < n}, <)}

-----------------------------------------------------------------------------
(* What a commit changes: entries it deletes, adds or sets, and the tail.  *)
Changes(del, add, tail) == [del |-> del, add |-> add, tail |-> tail]
Entry(n, struct) == [x \in {n} |-> struct]
TailTo(p, split) == <<[pair |-> p, split |-> split]>>

Applied(data, a) ==
  LET kept == DOMAIN data.ents \ a.del
  IN  Data([n \in kept \cup DOMAIN a.add |->
              IF n \in DOMAIN a.add THEN a.add[n] ELSE data.ents[n]],
           IF a.tail = <<>> THEN data.tail ELSE a.tail[1].pair,
           IF a.tail = <<>> THEN data.split ELSE a.tail[1].split)

(* lfs_dir_relocatingcommit from its first write on: the data goes behind  *)
(* the commits in the block, into the other block of the pair, into that   *)
(* and a pair of its own, or into a fresh block in place of the other one. *)
Outcome(d, m, moved, new, cost) ==
  [disk |-> d, m |-> m, moved |-> moved, new |-> new, cost |-> cost]

Newest(m) == disk[m.pair[1]].rev + 1

InPlace(m, data) ==
  IF ~m.erased THEN {}
  ELSE {Outcome([disk EXCEPT ![m.pair[1]].data = data], [m EXCEPT !.data = data],
                FALSE, {}, 0)}

IntoTwin(m, data) ==
  {Outcome([disk EXCEPT ![m.pair[2]] = [rev |-> Newest(m), data |-> data]],
           [pair |-> Swapped(m.pair), data |-> data, erased |-> TRUE],
           FALSE, {}, IF m.erased THEN 1 ELSE 0)}

IntoTwo(m, data) ==
  {LET low  == {n \in DOMAIN data.ents : n < cut}
       pair == <<s[2], s[1]>>
   IN  Outcome([disk EXCEPT
                  ![s[2]] = [rev |-> disk[s[1]].rev + 1,
                             data |-> [data EXCEPT !.ents =
                                         Restrict(@, DOMAIN @ \ low)]],
                  ![m.pair[2]] = [rev |-> Newest(m),
                                  data |-> Data(Restrict(data.ents, low), pair, TRUE)]],
               [pair |-> Swapped(m.pair), data |-> Data(Restrict(data.ents, low), pair, TRUE),
                erased |-> TRUE],
               FALSE, ToSet(s), 1) :
     s \in Fresh(2),
     cut \in {n \in DOMAIN data.ents : \/ SamePair(m.pair, HeadPair)
                                       \/ \E o \in DOMAIN data.ents : o < n}}

Elsewhere(m, data) ==
  IF SamePair(m.pair, HeadPair) THEN {}
  ELSE {Outcome([disk EXCEPT ![s[1]] = [rev |-> Newest(m), data |-> data]],
                [pair |-> <<s[1], m.pair[1]>>, data |-> data, erased |-> TRUE],
                TRUE, ToSet(s), 1) : s \in Fresh(1)}

(* What littlefs bears: no new blocks while it mends orphans or renames a  *)
(* directory; and a pair that is to be put right moves in its turn only    *)
(* while every directory stands behind its parent in the thread.           *)
ParentsFirst ==
  \A th \in {Thread(disk)} :
    \A k \in 1..Len(th) : \A n \in DOMAIN th[k].data.ents :
      \/ th[k].data.ents[n] = File
      \/ \E j \in k + 1..Len(th) : SamePair(th[j].pair, th[k].data.ents[n])

Borne(o) ==
  /\ o.new # {} => ~com.power /\ op.kind # "renamedir"
  /\ o.moved /\ com.st # "commit" => ParentsFirst

Outcomes(m, data) ==
  {o \in InPlace(m, data) \cup IntoTwin(m, data) \cup IntoTwo(m, data)
           \cup Elsewhere(m, data) :
     /\ o.cost = 0 \/ calls > Len(Setup)
     /\ turns + o.cost <= MaxTurns
     /\ Careful => Borne(o)}

(* fixmlist, and lfs_dir_orphaningcommit for the copy that was committed.  *)
(* An entry of mlist stands at id 0, which may be on the tail by now.      *)
Refreshed(copies, old, m, who, d) ==
  [r \in DOMAIN copies |->
     IF (r \in hooked \/ r = who) /\ SamePair(copies[r].pair, old)
     THEN IF r \in hooked /\ Count(m) = 0 /\ m.data.split
          THEN Fetch(d, m.data.tail) ELSE m
     ELSE copies[r]]

NoCommit == [st |-> "none", who |-> "", a |-> Changes({}, NoEntries, <<>>),
             lp |-> NoPair, ld |-> NoMdir, orphans |-> FALSE,
             from |-> "op", found |-> 0, power |-> FALSE]

Scanned == [NoMdir EXCEPT !.data.tail = HeadPair, !.data.split = TRUE]

Commit(who, a) == [NoCommit EXCEPT !.st = "commit", !.who = who, !.a = a]

Deorphan(power) == [NoCommit EXCEPT !.st = "scan", !.power = power, !.from = "deorphan"]

(* lfs_dir_orphaningcommit returns to lfs_fs_deorphan or to lfs_dir_commit, *)
(* which deorphans when more than one pair has moved.                      *)
Returned(x, copies, g) ==
  IF x.from = "deorphan"
  THEN /\ com' = [x EXCEPT !.st = "scan", !.found = @ + 1, !.orphans = FALSE]
       /\ ram' = IF x.orphans THEN [copies EXCEPT !.pdir = Scanned] ELSE copies
  ELSE IF x.orphans /\ g.orphans > 0
  THEN /\ com' = Deorphan(FALSE)
       /\ ram' = [copies EXCEPT !.pdir = Scanned]
  ELSE com' = NoCommit /\ ram' = copies

(* Where a commit goes from a write; x is what is kept if the pair has not *)
(* moved.  A pair that has leaves the global state to the commit that      *)
(* links it.                                                               *)
Write(m, data, x, g, copies, who) ==
  \E o \in Outcomes(m, data) :
    \E r \in {Refreshed(copies, m.pair, o.m, who, o.disk)} :
      /\ disk' = o.disk
      /\ turns' = turns + o.cost /\ taken' = taken \cup o.new
      /\ gstate' = g
      /\ gdisk' = IF o.moved THEN gdisk ELSE g
      /\ tree' = View(disk', gdisk')
      /\ IF o.moved
         THEN /\ com' = [x EXCEPT !.st = "relink", !.lp = m.pair, !.ld = o.m,
                                  !.orphans = @ \/ x.st = "thread"]
              /\ ram' = r
         ELSE IF x.st = "thread" THEN com' = x /\ ram' = r
         ELSE Returned(x, r, g)
      /\ UNCHANGED <<hooked, aborted>>

(* The first write of a commit.  A pair of a split directory that has lost *)
(* its last entry is dropped instead: its predecessor takes its tail.      *)
FirstWriteOf(m, n, q) ==
  IF com.a.del # {} /\ Count(n) = 0 /\ q # <<>> /\ q[1].data.split
  THEN Write(q[1], [q[1].data EXCEPT !.tail = n.data.tail, !.split = n.data.split], com,
             gstate, Refreshed(ram, m.pair, n, com.who, disk), "none")
  ELSE Write(m, n.data, com, gstate, ram, com.who)

FirstWrite ==
  /\ com.st = "commit"
  /\ \E m \in {ram[com.who]} :
       FirstWriteOf(m, [m EXCEPT !.data = Applied(@, com.a)], Pred(disk, m.pair))

WithMove(g, p) == g

WithoutMove(g, p) == IF MovedHere(g, p) = {} THEN g ELSE [g EXCEPT !.move = <<>>]

(* The pair that moved has an entry in its parent: that one first, with an *)
(* orphan counted, since the thread still has the old pair.  An entry that *)
(* is to be moved away from the parent goes in the same commit.            *)
RelinkParentUncounted ==
  /\ com.st = "relink"
  /\ \E p \in ToSet(Parent(disk, gdisk, com.lp)) :
       Write(p.m, Applied(p.m.data, Changes(MovedHere(gstate, p.m.pair),
                                            Entry(p.name, com.ld.pair), <<>>)),
             [com EXCEPT !.st = "thread"],
             WithoutMove(gstate, p.m.pair), ram, "none")

RelinkParent ==
  /\ com.st = "relink"
  /\ \E p \in ToSet(Parent(disk, gdisk, com.lp)) :
       Write(p.m, Applied(p.m.data, Changes(MovedHere(gstate, p.m.pair),
                                            Entry(p.name, com.ld.pair), <<>>)),
             [com EXCEPT !.st = "thread"],
             [WithoutMove(gstate, p.m.pair) EXCEPT !.orphans = @ + 1], ram, "none")

(* Then the thread.  What is in neither is new.                            *)
UncountedNever(g, counted) == g

Uncounted(g, counted) ==
  IF counted /\ g.orphans > 0 THEN [g EXCEPT !.orphans = @ - 1] ELSE g

Relinking ==
  \/ com.st = "thread"
  \/ com.st = "relink" /\ Parent(disk, gdisk, com.lp) = <<>>

EmptiedByMove(q) ==
  /\ MovedHere(gstate, q.pair) # {}
  /\ Count([q EXCEPT !.data.ents =
              Restrict(@, DOMAIN @ \ MovedHere(gstate, q.pair))]) = 0

RelinkPred ==
  /\ Relinking
  /\ \E q \in ToSet(Pred(disk, com.lp)) :
       /\ ~EmptiedByMove(q)
       /\ Write(q, Applied(q.data, Changes(MovedHere(gstate, q.pair), NoEntries,
                                           TailTo(com.ld.pair, q.data.split))),
                [com EXCEPT !.st = "done"],
                WithoutMove(Uncounted(gstate, com.st = "thread"), q.pair), ram, "none")

(* lfs_dir_relocatingcommit asserts that it was given a place for the      *)
(* predecessor of a pair that becomes empty, and here it is given none.    *)
RelinkAborts ==
  /\ Relinking
  /\ \E q \in ToSet(Pred(disk, com.lp)) : EmptiedByMove(q)
  /\ aborted' = TRUE
  /\ UNCHANGED <<disk, gdisk, gstate, ram, hooked, taken, com, turns, tree>>

RelinkNothing ==
  /\ Relinking /\ Pred(disk, com.lp) = <<>>
  /\ Returned(com, ram, gstate)
  /\ UNCHANGED <<disk, gdisk, gstate, hooked, taken, turns, aborted, tree>>

-----------------------------------------------------------------------------
(* lfs_fs_deorphan: along the thread, is the head of every directory what  *)
(* the entry of the directory says, and is there such an entry at all?     *)
(* The latter only after a loss of power, as calls create such pairs.      *)
Verdict(s, p) ==
  IF p = <<>> THEN (IF com.power THEN "orphan" ELSE "fine")
  ELSE IF InSync(Struct(p[1]), s.data.tail) THEN "fine"
  ELSE "half"

Amiss(s) ==
  IF s.data.tail = NoPair \/ s.data.split THEN "fine"
  ELSE Verdict(s, Parent(disk, gdisk, s.data.tail))

Passed(s) ==
  IF s.data.tail = NoPair \/ Amiss(s) # "fine" THEN s ELSE Fetch(disk, s.data.tail)

Onward ==
  LET on[k \in 0..Cardinality(Blocks) \div 2] ==
        IF k = 0 THEN ram.pdir ELSE Passed(on[k - 1])
  IN  on[Cardinality(Blocks) \div 2]

Mend(s, a, g) ==
  /\ ram' = [ram EXCEPT !.pdir = s]
  /\ com' = [com EXCEPT !.st = "commit", !.who = "pdir", !.a = a]
  /\ gstate' = g

MendOrphan(s, dir) ==
  Mend(s, Changes({}, NoEntries, TailTo(dir.data.tail, dir.data.split)), gstate)

MendHalf(s) ==
  \E p \in ToSet(Parent(disk, gdisk, s.data.tail)) :
    Mend(s, Changes(MovedHere(gstate, s.pair), NoEntries, TailTo(Struct(p), FALSE)),
         WithoutMove(gstate, s.pair))

Scan ==
  /\ com.st = "scan"
  /\ \E s \in {Onward} :
       \/ /\ s.data.tail # NoPair /\ Amiss(s) = "orphan"
          /\ MendOrphan(s, Fetch(disk, s.data.tail))
       \/ /\ s.data.tail # NoPair /\ Amiss(s) = "half"
          /\ MendHalf(s)
       \/ /\ s.data.tail = NoPair
          /\ gstate' = [gstate EXCEPT !.orphans =
                          IF com.found >= @ THEN 0 ELSE @ - com.found]
          /\ com' = NoCommit /\ ram' = ram
  /\ UNCHANGED <<disk, gdisk, hooked, taken, turns, aborted, tree>>
=============================================================================
