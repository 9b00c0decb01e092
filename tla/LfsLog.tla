------------------------------- MODULE LfsLog -------------------------------
(***************************************************************************)
(* The log of a littlefs metadata block and what is read out of it: tags,  *)
(* the splices that shift the ids of other tags, the search backwards for  *)
(* one entry, the scan forwards for a name, and the traversal that leaves  *)
(* only what is still in force.  A tag is a record; its size counts as one *)
(* unit whatever it carries, and a crc tag closes a commit.                *)
(***************************************************************************)
EXTENDS Integers, Sequences, SequencesExt

(* FoldLeft and FoldRight, index by index: a log is folded over and over.  *)
Forwards(op(_, _), base, s) ==
  LET upTo[k \in 0..Len(s)] == IF k = 0 THEN base ELSE op(upTo[k - 1], s[k])
  IN  upTo[Len(s)]

Backwards(op(_, _), s, base) ==
  LET from[k \in 1..Len(s) + 1] ==
        IF k > Len(s) THEN base ELSE op(s[k], from[k + 1])
  IN  from[1]

Gone == 0 - 1        \* the contents of an attribute that was removed
NoPair == <<>>       \* LFS_BLOCK_NULL twice

Tag(type, id, val) == [type |-> type, id |-> id, val |-> val]

Noop  == Tag("noop", 0, 0)            \* LFS_FROM_NOOP
NoId  == 1023                         \* 0x3ff
Crc   == Tag("crc", NoId, 0)

(* lfs_tag_type1.  All names, and all structs, are of one kind each.       *)
Kind(t) ==
  CASE t.type \in {"super", "reg"}     -> "name"
    [] t.type = "inline"               -> "struct"
    [] t.type \in {"create", "delete"} -> "splice"
    [] OTHER                           -> t.type

(* lfs_tag_splice                                                          *)
Splice(t) == IF t.type = "create" THEN 1 ELSE -1

(* What is committed: everything up to the last crc.                       *)
Committed(log) ==
  SubSeq(log, 1, CHOOSE k \in 0..Len(log) :
                   /\ k = 0 \/ log[k].type = "crc"
                   /\ \A j \in k + 1..Len(log) : log[j].type # "crc")

-----------------------------------------------------------------------------
(* lfs_dir_traverse_filter: what the tags behind f in the traversal leave  *)
(* of it.  Tags that move an entry here from elsewhere are passed over.    *)
Redundant(later, f) ==
  \/ later.id = f.id /\ Kind(later) = Kind(f)
  \/ later.id = f.id /\ later.type = "delete"
  \/ f.type = "attr" /\ f.val = Gone

Filter(f, later) ==
  IF f.type = "noop" \/ later.type = "from" THEN f
  ELSE IF Redundant(later, f) THEN Noop
  ELSE IF Kind(later) = "splice" /\ later.id <= f.id
       THEN [f EXCEPT !.id = @ + Splice(later)]
       ELSE f

(* What is left of every tag of a log, up to and behind the next one.      *)
Leaving(left, t) == Append([k \in 1..Len(left) |-> Filter(left[k], t)], t)

Left(log) == Forwards(Leaving, <<>>, log)

(* The tags of some kinds that are in force in a log, for the entries from *)
(* begin up to end.                                                        *)
Passed(t, kinds, begin, end) ==
  IF Kind(t) \in kinds /\ begin <= t.id /\ t.id < end THEN <<t>> ELSE <<>>

AllPassed(left, kinds, begin, end) ==
  FlattenSeq([k \in 1..Len(left) |-> Passed(left[k], kinds, begin, end)])

InForce(log, kinds, begin, end) == AllPassed(Left(log), kinds, begin, end)

IdsLess(tags, n) == [k \in 1..Len(tags) |-> [tags[k] EXCEPT !.id = @ - n]]

(* A tag that moves entry t.val.id of another log to entry t.id of this.   *)
MovedHere(t) ==
  IdsLess(InForce(t.val.log, {"struct", "attr"}, t.val.id, t.val.id + 1),
          t.val.id - t.id)

Expansion(t) == IF t.type = "from" THEN MovedHere(t) ELSE <<t>>

Expanded(tags) == FlattenSeq([k \in 1..Len(tags) |-> Expansion(tags[k])])

(* lfs_dir_traverse as lfs_dir_compact calls it: the entries from begin up *)
(* to end, counted from begin, of a log with the attributes behind it.     *)
Compacted(log, attrs, begin, end) ==
  IdsLess(Expanded(InForce(log \o attrs,
                           {"name", "struct", "attr", "from"}, begin, end)),
          begin)

-----------------------------------------------------------------------------
(* lfs_dir_getslice: backwards from the end of the log, every splice shifts *)
(* the id that is looked for, at, which is the id asked for less gdiff.    *)
(* The entry a move has taken away is not there, and those behind it come  *)
(* one earlier; moved is NoId when there is no such move.                  *)
Sought(kind, at) == [kind |-> kind, at |-> at, stop |-> FALSE, found |-> <<>>]

SearchStep(t, s) ==
  IF s.stop THEN s
  ELSE IF Kind(t) = "splice" /\ t.id <= s.at THEN
    IF t.type = "create" /\ t.id = s.at THEN [s EXCEPT !.stop = TRUE]
    ELSE Sought(s.kind, s.at - Splice(t))
  ELSE IF Kind(t) = s.kind /\ t.id = s.at
       THEN [s EXCEPT !.stop = TRUE, !.found = <<t.val>>]
       ELSE s

Search(log, s) == Backwards(SearchStep, log, s)

Lookup(log, kind, id, moved) ==
  Search(log, Sought(kind, IF moved <= id THEN id + 1 ELSE id)).found

(* LFS_ERR_NOENT is the empty sequence, and so is an attribute removed.    *)
Unless(found, gone) == IF found = gone THEN <<>> ELSE found

Get(log, kind, id, moved) ==
  Unless(Lookup(log, kind, id, moved), IF kind = "attr" THEN <<Gone>> ELSE <<>>)

(* What a fetch counts, and the last tail and the last share of the global *)
(* state.                                                                  *)
Counted(n, t) ==
  IF Kind(t) = "name" THEN (IF t.id >= n THEN t.id + 1 ELSE n)
  ELSE IF Kind(t) = "splice" THEN n + Splice(t) ELSE n

CountOf(log) == Forwards(Counted, 0, log)

LastTail(v, t) == IF t.type = "tail" THEN t.val ELSE v

TailOf(log) == Forwards(LastTail, [pair |-> NoPair, split |-> FALSE], log)

LastMove(v, t) == IF t.type = "move" THEN t.val ELSE v

MoveOf(log) == Forwards(LastMove, {}, log)

(* lfs_dir_fetchmatch with lfs_dir_find_match: the tag of a name, or the   *)
(* place in front of the first greater name.                               *)
Nowhere(name) == [name |-> name, hit |-> FALSE, id |-> NoId]

Nearer(best, t) ==
  IF t.type # "reg" THEN best
  ELSE IF t.val = best.name THEN [best EXCEPT !.hit = TRUE, !.id = t.id]
  ELSE IF t.id = best.id THEN Nowhere(best.name)
  ELSE IF t.val > best.name /\ t.id <= best.id
       THEN [best EXCEPT !.hit = FALSE, !.id = t.id]
  ELSE best

ScanUnshifted(best, t) ==
  IF t.type = "delete" /\ t.id = best.id THEN [best EXCEPT !.hit = FALSE]
  ELSE Nearer(best, t)

ScanStep(best, t) ==
  IF t.type = "delete" /\ t.id = best.id THEN [best EXCEPT !.hit = FALSE]
  ELSE IF Kind(t) = "splice" /\ best # Nowhere(best.name) /\ t.id <= best.id
       THEN [best EXCEPT !.id = @ + Splice(t)]
       ELSE Nearer(best, t)

PastMove(best, moved) ==
  IF moved = best.id THEN [best EXCEPT !.hit = FALSE]
  ELSE IF best # Nowhere(best.name) /\ moved < best.id THEN [best EXCEPT !.id = @ - 1]
  ELSE best

Verdict(best, count) ==
  [hit  |-> best.hit,
   stop |-> best.hit \/ best.id < count,
   id   |-> IF best.id < count THEN best.id ELSE count]

Scan(log, name) == Forwards(ScanStep, Nowhere(name), log)

Match(log, name, moved) == Verdict(PastMove(Scan(log, name), moved), CountOf(log))

-----------------------------------------------------------------------------
(* Reference: the entries a log stands for, replayed from its beginning.   *)
(* Each has a name, a struct and an attribute, or not, as sequences.       *)
(* A compacted log need not name them in the order of their ids.           *)
NoEntry == [name |-> <<>>, struct |-> <<>>, attr |-> <<>>]

Upto(es, n) == es \o [k \in 1..n - Len(es) |-> NoEntry]

Put(es, i, kind, found) ==
  [k \in 1..Len(es) |-> IF k = i + 1 THEN [es[k] EXCEPT ![kind] = found] ELSE es[k]]

Brought(t, kind) == Get(t.val.log, kind, t.val.id, NoId)

Applied(es, t) ==
  CASE t.type = "create" -> InsertAt(es, t.id + 1, NoEntry)
    [] t.type = "delete" -> RemoveAt(es, t.id + 1)
    [] Kind(t) = "name" -> Put(Upto(es, t.id + 1), t.id, "name", <<t.val>>)
    [] Kind(t) = "struct" -> Put(es, t.id, "struct", <<t.val>>)
    [] Kind(t) = "attr" -> Put(es, t.id, "attr", Unless(<<t.val>>, <<Gone>>))
    [] t.type = "from" -> Put(Put(es, t.id, "struct", Brought(t, "struct")),
                              t.id, "attr", Brought(t, "attr"))
    [] OTHER -> es

Replay(log) == Forwards(Applied, <<>>, log)

(* What is known of an entry, and of a log so far.                         *)
ValueAt(es, at, kind) == IF at < Len(es) THEN es[at + 1][kind] ELSE <<>>

First(s, k) == SubSeq(s, 1, k)

(* What a tag may say of the entries there are: a log in which every tag   *)
(* fits is sound.                                                          *)
Fit(es, t) ==
  CASE t.type = "create" -> t.id \in 0..Len(es)
    [] t.type = "delete" -> t.id \in 0..Len(es) - 1
    [] Kind(t) = "name"  -> t.id \in Nat /\ ValueAt(es, t.id, "name") = <<>>
    [] Kind(t) \in {"struct", "attr"} ->
         t.id \in 0..Len(es) - 1 /\ ValueAt(es, t.id, "name") # <<>>
    [] OTHER -> t.type # "from"

Sound(log) == \A k \in 1..Len(log) : Fit(Replay(First(log, k - 1)), log[k])

(* What a compaction traverses: a sound log and attributes that fit behind *)
(* it, of which one may bring the rest of an entry just named from another *)
(* log.  Nothing is set, and no attribute was removed, next to a move.     *)
Unmoved(log) == \A k \in 1..Len(log) : log[k].type # "from"

IsGone(t) == t.type = "attr" /\ t.val = Gone

Movable(es, t) ==
  /\ t.type = "from" /\ t.id \in 0..Len(es) - 1
  /\ ValueAt(es, t.id, "name") # <<>>
  /\ ValueAt(es, t.id, "struct") = <<>> /\ ValueAt(es, t.id, "attr") = <<>>
  /\ Sound(t.val.log)
  /\ t.val.id \in 0..CountOf(t.val.log) - 1 /\ t.val.id < NoId

Follows(log, t) ==
  /\ t.type # "from" =>
       Fit(Replay(log), t) /\ (Kind(t) \in {"struct", "attr"} => Unmoved(log))
  /\ t.type = "from" =>
       /\ Movable(Replay(log), t) /\ Unmoved(log)
       /\ log # <<>> => ~IsGone(log[Len(log)])

Traversable(log) == \A k \in 1..Len(log) : Follows(First(log, k - 1), log[k])

(* What a scan goes through: the names are in order at all times, entries  *)
(* are named when created once one was created or deleted, and before any  *)
(* is deleted.                                                             *)
Named(es, i) == ValueAt(es, i, "name") # <<>>

NameAt(es, i) == ValueAt(es, i, "name")[1]

InOrder(es) ==
  \A i, j \in 0..Len(es) - 1 :
    i < j /\ Named(es, i) /\ Named(es, j) => NameAt(es, i) < NameAt(es, j)

Unspliced(log) == \A k \in 1..Len(log) : Kind(log[k]) # "splice"

Keeps(log, t) ==
  LET es == Replay(log)
  IN  /\ t.type = "delete" => \A i \in 0..Len(es) - 1 : Named(es, i)
      /\ Kind(t) = "name" => t.val \in Int /\ (t.id >= Len(es) => Unspliced(log))
      /\ InOrder(Applied(es, t)) /\ Len(Applied(es, t)) < NoId

Orderly(log) == \A k \in 1..Len(log) : Keeps(First(log, k - 1), log[k])
=============================================================================
