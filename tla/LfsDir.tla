------------------------------- MODULE LfsDir -------------------------------
(***************************************************************************)
(* The directory of a littlefs as it is kept in flash: a chain of metadata *)
(* pairs, each two blocks of which the one with the newer revision counts, *)
(* each block a log of commits.  A commit goes behind the others, or, when *)
(* it does not fit or cannot be programmed, the block is compacted into    *)
(* its twin, split over another pair, or relocated to a fresh block.  Only *)
(* one call is under way at a time; power may be lost in any of its        *)
(* writes, and any write may turn out corrupt.                             *)
(*                                                                         *)
(* The directory is the root, whose first pair holds the superblock and    *)
(* can not be relocated.  Its entries are files; each name is a number.    *)
(***************************************************************************)
EXTENDS LfsLog, FiniteSets, Functions

CONSTANTS
  Names, Values,   \* of the files: names, and what their structs may say
  HeadA, HeadB,    \* blocks 0 and 1
  Spares,          \* the other blocks
  BlockTags,       \* how many tags fit into a block, crcs of a commit aside
  SplitTags,       \* how many of them a compaction fills at most
  BlockCycles,     \* block_cycles
  RevModulus,      \* revisions are kept modulo this
  Calls,           \* the calls the client makes
  Careful,         \* does the client keep to what littlefs bears?
  Prelude,         \* bound: so many calls, or one less, create files in order, with no
                   \* mishap, before one file or listing may be opened and the rest begins
  MaxCalls, MaxFaults    \* bounds: calls, and writes that fail

Blocks == {HeadA, HeadB} \cup Spares
HeadPair   == <<HeadA, HeadB>>
Blank  == RevModulus - 1      \* an erased revision reads 0xffffffff

(* The superblock is never expanded: half the device is not free.          *)
ASSUME SizeAssumption == Cardinality(Spares) <= 3

VARIABLES
  flash,           \* revision and log of every block
  gdisk, gstate, gdelta,  \* the pending move: on disk, wanted, to be handed on
  handle,          \* an open file or a listing, in lfs->mlist
  op,              \* the call under way
  pc,              \* where it is
  c,               \* its commit
  before, after,   \* ghosts: what the directory shows before the call, and after
  calls, faults,   \* how many there were
  adrift           \* ghost: has a call failed and left the two out of step?

lfsVars == <<gdisk, gstate, gdelta>>
vars == <<flash, lfsVars, handle, op, pc, c, before, after, calls, faults, adrift>>

-----------------------------------------------------------------------------
Newer(a, b) ==         \* lfs_scmp(a, b) > 0
  LET d == (a - b) % RevModulus IN d > 0 /\ d < RevModulus \div 2

SamePair(p, q) == ToSet(p) \cap ToSet(q) # {}      \* lfs_pair_cmp = 0

Swapped(p) == <<p[2], p[1]>>

Xor(a, b) == (a \ b) \cup (b \ a)

(* lfs_dir_fetch: the newer block, the other one if that holds no commit.  *)
(* A commit can follow in place when nothing was programmed behind.        *)
NewerFirst(fl, pair) ==
  IF Newer(fl[pair[2]].rev, fl[pair[1]].rev) THEN Swapped(pair) ELSE pair

ValidFirst(fl, pair) ==
  IF Committed(fl[pair[1]].log) # <<>> THEN pair ELSE Swapped(pair)

Parsed(pair, block, log, end) ==
  [pair |-> pair, rev |-> block.rev, off |-> Len(log), count |-> CountOf(log),
   tail |-> end.pair, split |-> end.split, erased |-> Len(log) = Len(block.log)]

ParsedLog(pair, block, log) ==
  Parsed(pair, block, log, TailOf(log))

FetchFirst(fl, pair) == ParsedLog(pair, fl[pair[1]], Committed(fl[pair[1]].log))

Fetch(fl, pair) == FetchFirst(fl, ValidFirst(fl, NewerFirst(fl, pair)))

LogOf(fl, m) == SubSeq(fl[m.pair[1]].log, 1, m.off)

MovesOf(fl, m) == MoveOf(LogOf(fl, m))

(* The pairs in the order of their tails, from the superblock on.          *)
Chain(fl) ==
  Forwards(LAMBDA s, n : IF s # <<>> /\ Last(s).tail = NoPair THEN s
                         ELSE Append(s, Fetch(fl, IF s = <<>> THEN HeadPair
                                                  ELSE Last(s).tail)),
           <<>>, [n \in 1..Cardinality(Blocks) \div 2 + 1 |-> n])

Linked(fl) == UNION {ToSet(m.pair) : m \in ToSet(Chain(fl))}

(* The id a pending move has taken away from a pair.                       *)
MovedId(g, pair) ==
  IF \E v \in g : SamePair(v.pair, pair)
  THEN (CHOOSE v \in g : TRUE).id ELSE NoId

(* lfs_mount: every pair has its share of the global state.                *)
SharesOf(fl, chain) == Forwards(LAMBDA g, m : Xor(g, MovesOf(fl, m)), {}, chain)

Mounted(fl) == SharesOf(fl, Chain(fl))

(* lfs_dir_find: the first pair at which the search stops, or the last.    *)
FirstStop(at) ==
  CHOOSE k \in 1..Len(at) : /\ at[k].stop \/ k = Len(at)
                            /\ \A i \in 1..k - 1 : ~at[i].stop

FoundAt(chain, at, k) == [m |-> chain[k], id |-> at[k].id, hit |-> at[k].hit]

Stopped(chain, at) == FoundAt(chain, at, FirstStop(at))

FindIn(fl, g, name, chain) ==
  Stopped(chain, [k \in 1..Len(chain) |->
                    Match(LogOf(fl, chain[k]), name, MovedId(g, chain[k].pair))])

Find(fl, g, name) == FindIn(fl, g, name, Chain(fl))

(* lfs_fs_pred                                                             *)
PredIn(chain, pair) ==
  chain[CHOOSE k \in 1..Len(chain) : SamePair(chain[k].tail, pair)]

Pred(fl, pair) == PredIn(Chain(fl), pair)

(* What a mount would show of a flash.                                     *)
ShownAs(log, i, moved, name) ==
  IF name \in {<<>>, <<0>>} THEN {}
  ELSE {[name |-> name[1], struct |-> Get(log, "struct", i, moved),
         attr |-> Get(log, "attr", i, moved)]}

ShownIn(log, ids, moved) ==
  UNION {ShownAs(log, i, moved, Get(log, "name", i, moved)) : i \in ids}

ShownBy(fl, g, chain) ==
  UNION {ShownIn(LogOf(fl, m), 0..m.count - 1, MovedId(g, m.pair)) : m \in ToSet(chain)}

ViewOf(fl, chain) == ShownBy(fl, SharesOf(fl, chain), chain)

View(fl) == ViewOf(fl, Chain(fl))

(* Blocks the allocator may hand out.                                      *)
Unused(fl) ==
  Spares \ (Linked(fl) \cup ToSet(handle.m.pair) \cup ToSet(c.m.pair)
             \cup ToSet(c.m.tail) \cup ToSet(c.t.pair))

-----------------------------------------------------------------------------
NoDir == [pair |-> NoPair, rev |-> 0, off |-> 0, count |-> 0, tail |-> NoPair,
          split |-> FALSE, erased |-> FALSE]

NoHandle == [kind |-> "none", m |-> NoDir, id |-> 0, pos |-> 0, name |-> 0,
             owed |-> {}, shown |-> {}, fresh |-> TRUE]
At0(kind, m, id) == [NoHandle EXCEPT !.kind = kind, !.m = m, !.id = id]
NoOp     == [kind |-> "none"]
NoCommit == [m |-> NoDir, t |-> NoDir, attrs |-> <<>>, end |-> 0, old |-> NoPair,
             relocated |-> FALSE, own |-> FALSE, why |-> "none"]

Block(rev, log) == [rev |-> rev, log |-> log \o <<Crc>>]

Super == <<Tag("super", 0, 0), Tag("inline", 0, 0)>>

(* lfs_format writes both blocks of the first pair.                        *)
Formatted ==
  [b \in Blocks |-> IF b = HeadA THEN Block(1, Super)
                    ELSE IF b = HeadB THEN Block(2, Super)
                    ELSE [rev |-> Blank, log |-> <<>>]]

Init ==
  /\ flash = Formatted
  /\ gdisk = {} /\ gstate = {} /\ gdelta = {}
  /\ handle = NoHandle /\ op = NoOp /\ pc = "idle" /\ c = NoCommit
  /\ before = {} /\ after = {}
  /\ calls \in 0..1      \* the second leaves one file of the prelude out
  /\ faults = 0 /\ adrift = FALSE

-----------------------------------------------------------------------------
(***************************************************************************)
(* Commits.  c.m is the directory with the attributes already counted, as  *)
(* lfs_dir_relocatingcommit has it; c.t is the one being compacted, which  *)
(* is the new tail first when the directory is split.                      *)
(***************************************************************************)
PreparedBy(d, t) ==
  CASE t.type = "create" -> [d EXCEPT !.count = @ + 1]
    [] t.type = "delete" -> [d EXCEPT !.count = @ - 1]
    [] t.type = "tail" -> [d EXCEPT !.tail = t.val.pair, !.split = t.val.split]
    [] OTHER -> d

Prepared(m, attrs) == Forwards(PreparedBy, m, attrs)

ShiftedFiles(h, attrs) ==
  Forwards(LAMBDA d, t :
             CASE t.type = "delete" /\ d.id = t.id -> [d EXCEPT !.m.pair = NoPair]
               [] t.type = "delete" /\ d.id > t.id /\ d.kind = "file" -> [d EXCEPT !.id = @ - 1]
               [] t.type = "create" /\ d.id >= t.id /\ d.kind = "file" -> [d EXCEPT !.id = @ + 1]
               [] OTHER -> d,
           h, attrs)

ShiftedDown(h, attrs) ==
  Forwards(LAMBDA d, t :
             CASE t.type = "delete" /\ d.id = t.id -> [d EXCEPT !.m.pair = NoPair]
               [] t.type = "delete" /\ d.id > t.id -> [d EXCEPT !.id = @ - 1, !.pos = @ - 1]
               [] t.type = "create" /\ d.id >= t.id /\ d.kind = "file" -> [d EXCEPT !.id = @ + 1]
               [] OTHER -> d,
           h, attrs)

(* How an entry of lfs->mlist keeps to its entry while others come and go. *)
ShiftedBy(d, t) ==
  CASE t.type = "delete" /\ d.id = t.id -> [d EXCEPT !.m.pair = NoPair]
    [] t.type = "delete" /\ d.id > t.id -> [d EXCEPT !.id = @ - 1, !.pos = @ - 1]
    [] t.type = "create" /\ d.id >= t.id -> [d EXCEPT !.id = @ + 1, !.pos = @ + 1]
    [] OTHER -> d

Shifted(h, attrs) == Forwards(ShiftedBy, h, attrs)

(* On to the tail the entry is on since the directory was split, as far as *)
(* there are pairs.                                                        *)
OnTail(fl, h) ==
  IF h.id >= h.m.count /\ h.m.split
  THEN [h EXCEPT !.id = @ - h.m.count, !.m = Fetch(fl, h.m.tail)]
  ELSE h

Settled(fl, h) ==
  LET pairs == Cardinality(Blocks) \div 2
      on[k \in 0..pairs] == IF k = 0 THEN h ELSE OnTail(fl, on[k - 1])
  IN  on[pairs]

FixedUnshifted(fl, h, old, m, attrs, own) ==
  IF SamePair(h.m.pair, old) THEN Settled(fl, [h EXCEPT !.m = m]) ELSE h

Fixed(fl, h, old, m, attrs, own) ==
  IF SamePair(h.m.pair, old)
  THEN Settled(fl, IF own THEN [h EXCEPT !.m = m]
                   ELSE Shifted([h EXCEPT !.m = m], attrs))
  ELSE h

TailTag(m) == Tag("tail", NoId, [pair |-> m.tail, split |-> m.split])

Stage(m) == IF m.erased THEN "append" ELSE "compact"

CommitOf(m, attrs, own, why) ==
  [NoCommit EXCEPT !.m = Prepared(m, attrs), !.attrs = attrs, !.old = m.pair,
                   !.end = Prepared(m, attrs).count, !.own = own, !.why = why]

(* lfs_dir_commit up to its first write.  A tail that has lost its last    *)
(* entry is not written any more: its predecessor takes its global state   *)
(* and its place in the chain.                                             *)
Launch(fl, m, attrs, own, why, h, gd) ==
  LET p == Prepared(m, attrs)
      q == Pred(fl, m.pair)
  IN  IF p.count = 0 /\ ~SamePair(m.pair, HeadPair) /\ p.count < m.count
      THEN /\ gdelta' = Xor(gd, MovesOf(fl, m))
           /\ c' = CommitOf(q, <<TailTag(p)>>, FALSE, why)
           /\ handle' = Fixed(fl, h, m.pair, p, attrs, own)
           /\ pc' = Stage(q)
      ELSE /\ c' = CommitOf(m, attrs, own, why)
           /\ handle' = h
           /\ pc' = Stage(m)
           /\ gdelta' = gd

Done ==
  /\ pc' = "idle" /\ op' = NoOp /\ c' = NoCommit
  /\ before' = after

(* The call returns an error.                                              *)
Fail ==
  /\ pc' = "idle" /\ op' = NoOp /\ c' = NoCommit
  /\ before' = View(flash') /\ after' = View(flash')
  /\ adrift' = TRUE
  /\ UNCHANGED <<lfsVars, handle>>

(* What follows a commit: a relocated pair is put into the place of the    *)
(* old one, and a rename clears the entry it has moved away, unless a      *)
(* relocation has done so already.                                         *)
Follow(m, relocated) ==
  LET h  == Fixed(flash', handle, c.old, m, c.attrs, c.own)
      h2 == IF SamePair(h.m.pair, c.old) THEN [h EXCEPT !.m.pair = m.pair] ELSE h
      q  == Pred(flash', c.old)
      moved == MovedId(gstate, q.pair)
  IN  IF relocated
      THEN /\ gstate' = IF moved = NoId THEN gstate ELSE {}
           /\ c' = CommitOf(q, (IF moved = NoId THEN <<>>
                                ELSE <<Tag("delete", moved, 0)>>)
                               \o <<Tag("tail", NoId, [pair |-> m.pair,
                                                       split |-> q.split])>>,
                            FALSE, c.why)
           /\ pc' = Stage(q) /\ handle' = h2
           /\ gdelta' = {}
           /\ UNCHANGED <<op, before>>
      ELSE IF c.why = "force"
      THEN /\ pc' = "do" /\ c' = NoCommit /\ handle' = h
           /\ gdelta' = {}
           /\ UNCHANGED <<op, gstate, before>>
      ELSE IF c.why = "call" /\ op.kind = "rename" /\ gstate # {}
      THEN /\ gstate' = {}
           /\ Launch(flash', op.old.m, <<Tag("delete", op.old.id, 0)>>, FALSE,
                     "clear", h, {})
           /\ UNCHANGED <<op, before>>
      ELSE Done /\ handle' = h /\ gdelta' = {} /\ UNCHANGED gstate

ShareAlone(m, pending) ==
  IF pending = {} THEN <<>> ELSE <<Tag("move", NoId, pending)>>

(* The share of the global state a commit to m carries; a relocated pair   *)
(* leaves the change to the commit that links it.                          *)
Share(m, pending) ==
  IF pending = {} THEN <<>>
  ELSE <<Tag("move", NoId, Xor(pending, MovesOf(flash, m)))>>

Changed(b, content) == [flash EXCEPT ![b] = content]

Programmed(b, tags) == [flash[b] EXCEPT !.log = @ \o tags]

CanFail == calls > Prelude /\ faults < MaxFaults

(* The attributes go behind the last commit and are closed with a crc.     *)
(* What does not fit may have been programmed in part before that showed.  *)
Behind == Expanded(c.attrs)
            \o Share(c.m, Xor(Xor(gstate, gdisk), gdelta))

Fits == c.m.off + Len(Behind) <= BlockTags

(* A write that breaks off has programmed nothing or something; how much   *)
(* of a commit without its crc is there makes no difference to a fetch.    *)
Room == IF Fits THEN Len(Behind) ELSE BlockTags - c.m.off

TornBehind ==
  {Changed(c.m.pair[1], Programmed(c.m.pair[1], SubSeq(Behind, 1, k))) : k \in {0, Room}}

AppendCommit ==
  /\ pc = "append" /\ Fits
  /\ flash' = Changed(c.m.pair[1], Programmed(c.m.pair[1], Behind \o <<Crc>>))
  /\ gdisk' = gstate
  /\ Follow([c.m EXCEPT !.off = @ + Len(Behind) + 1], FALSE)
  /\ UNCHANGED <<after, calls, faults, adrift>>

AppendUncommitted ==
  /\ pc = "append"
  /\ Fits => CanFail
  /\ flash' \in TornBehind
  /\ faults' = IF Fits THEN faults + 1 ELSE faults
  /\ pc' = "compact"
  /\ UNCHANGED <<lfsVars, handle, op, c, before, after, calls, adrift>>

-----------------------------------------------------------------------------
(* lfs_dir_splittingcompact halves the entries until they fit half a block. *)
Source == LogOf(flash, c.m)

SplitAt ==
  LET half[s \in 0..c.end] ==
        IF \/ c.end - s <= 1
           \/ Len(Compacted(Source, c.attrs, s, c.end)) <= SplitTags
        THEN s ELSE half[s + (c.end - s) \div 2]
  IN  half[0]

AlignUp(rev) ==         \* unsigned, to a multiple of (block_cycles + 1) | 1
  LET n == 2 * ((BlockCycles + 1) \div 2) + 1
      up == (rev + n - 1) % RevModulus
  IN  up - (up % n)

Tired(m) ==
  /\ BlockCycles > 0
  /\ (m.rev + 1) % (2 * ((BlockCycles + 1) \div 2) + 1) = 0

OneMore(m) == [m EXCEPT !.rev = (@ + 1) % RevModulus]

(* What lfs_dir_compact goes on with: the block to write, or a fresh one   *)
(* for it when the pair has been written too often.                        *)
Target(m) ==
  IF Tired(m) /\ ~SamePair(m.pair, HeadPair)
  THEN IF Unused(flash) = {} THEN {[c EXCEPT !.t = OneMore(m), !.relocated = TRUE]}
       ELSE {[c EXCEPT !.t = [OneMore(m) EXCEPT !.pair[2] = b],
                       !.relocated = TRUE] : b \in Unused(flash)}
  ELSE {[c EXCEPT !.t = OneMore(m), !.relocated = FALSE]}

(* lfs_dir_alloc: the revision of the first block is read and passed by.   *)
Allocated(x, y) ==
  [NoDir EXCEPT !.pair = <<x, y>>, !.rev = AlignUp(flash[x].rev),
                !.tail = c.m.tail, !.split = c.m.split]

CompactSplit ==
  /\ pc = "compact" /\ SplitAt > 0
  /\ \E x, y \in Unused(flash) :
       /\ x # y
       /\ c' = [c EXCEPT !.t = OneMore(Allocated(x, y))]
  /\ pc' = "tail"
  /\ UNCHANGED <<flash, lfsVars, handle, op, before, after, calls, faults, adrift>>

CompactWhole ==
  /\ pc = "compact"
  /\ SplitAt = 0 \/ Cardinality(Unused(flash)) < 2
  /\ c' \in Target(c.m)
  /\ pc' = "own"
  /\ UNCHANGED <<flash, lfsVars, handle, op, before, after, calls, faults, adrift>>

Compact == CompactSplit \/ CompactWhole

(* The compacted block of c.t.                                             *)
Begin == IF pc = "tail" THEN SplitAt ELSE 0

Content ==
  LET pending == Xor(IF c.relocated THEN {} ELSE Xor(gdisk, gstate), gdelta)
      share   == Xor(pending, MovesOf(flash, c.t))
  IN  Compacted(Source, c.attrs, Begin, c.end)
        \o (IF c.t.tail = NoPair THEN <<>> ELSE <<TailTag(c.t)>>)
        \o (IF share = {} THEN <<>> ELSE <<Tag("move", NoId, share)>>)

Full(t) == [rev |-> t.rev, log |-> Content \o <<Crc>>]

Torn(t) ==
  {[rev |-> Blank, log |-> <<>>]}
    \cup {[rev |-> t.rev, log |-> SubSeq(Content, 1, k)] : k \in {0, Len(Content)}}

Stuck(t) == [t EXCEPT !.pair = Swapped(@), !.count = c.end - Begin,
                      !.off = Len(Content) + 1]

WriteTail ==
  /\ pc = "tail" /\ Len(Content) <= BlockTags
  /\ flash' = Changed(c.t.pair[2], Full(c.t))
  /\ gdelta' = {}
  /\ gdisk' = IF c.relocated THEN gdisk ELSE gstate
  /\ c' = [c EXCEPT !.m.tail = Stuck(c.t).pair, !.m.split = TRUE,
                    !.end = Begin, !.t = NoDir, !.relocated = FALSE]
  /\ pc' = "compact"
  /\ UNCHANGED <<gstate, handle, op, before, after, calls, faults, adrift>>

WriteOwn ==
  /\ pc = "own" /\ Len(Content) <= BlockTags
  /\ flash' = Changed(c.t.pair[2], Full(c.t))
  /\ gdisk' = IF c.relocated THEN gdisk ELSE gstate
  /\ Follow(Stuck(c.t), c.relocated)
  /\ UNCHANGED <<after, calls, faults, adrift>>

(* A block that can not be written is replaced, but not one of the first   *)
(* pair.                                                                   *)
WriteCorrupt ==
  /\ pc \in {"tail", "own"} /\ CanFail /\ Len(Content) <= BlockTags
  /\ ~SamePair(c.t.pair, HeadPair)
  /\ \E torn \in Torn(c.t) : flash' = Changed(c.t.pair[2], torn)
  /\ \E b \in Unused(flash) :
       c' = [c EXCEPT !.t.pair[2] = b, !.relocated = TRUE]
  /\ faults' = faults + 1
  /\ UNCHANGED <<lfsVars, handle, op, pc, before, after, calls, adrift>>

(* Nor is it when the allocator has no other: every block is in use, or    *)
(* has been handed out once and not been acknowledged, as no commit does.  *)
CantSplit ==
  /\ pc = "tail"
  /\ \/ /\ CanFail /\ Len(Content) <= BlockTags
        /\ \E torn \in Torn(c.t) : flash' = Changed(c.t.pair[2], torn)
        /\ faults' = faults + 1
     \/ /\ Len(Content) > BlockTags
        /\ flash' = Changed(c.t.pair[2], [rev |-> c.t.rev,
                                          log |-> SubSeq(Content, 1, BlockTags)])
        /\ UNCHANGED faults
  /\ c' \in Target(c.m)
  /\ pc' = "own"
  /\ UNCHANGED <<lfsVars, handle, op, before, after, calls, adrift>>

WriteFails ==
  /\ pc = "own"
  /\ \/ /\ CanFail /\ Len(Content) <= BlockTags
        /\ SamePair(c.t.pair, HeadPair) \/ Unused(flash) = {}
        /\ \E torn \in Torn(c.t) : flash' = Changed(c.t.pair[2], torn)
        /\ faults' = faults + 1
     \/ /\ Len(Content) > BlockTags
        /\ flash' = Changed(c.t.pair[2], [rev |-> c.t.rev,
                                          log |-> SubSeq(Content, 1, BlockTags)])
        /\ UNCHANGED faults
  /\ Fail
  /\ UNCHANGED calls

-----------------------------------------------------------------------------
(***************************************************************************)
(* The calls.  Those that change names first finish a move that a loss of  *)
(* power has left pending.                                                 *)
(***************************************************************************)
Call ==
  /\ pc = "idle" /\ (Careful => ~adrift)
  /\ \/ \E k \in Calls \cap {"create", "remove", "open"}, n \in Names :
           op' = [kind |-> k, name |-> n]
     \/ \E n \in Names, v \in Values \cup {Gone} :
           "setattr" \in Calls /\ op' = [kind |-> "setattr", name |-> n, val |-> v]
     \/ \E a, b \in Names :
           "rename" \in Calls /\ op' = [kind |-> "rename", name |-> a, to |-> b]
     \/ \E v \in Values :
           /\ "sync" \in Calls /\ handle.kind = "file"
           /\ op' = [kind |-> "sync", val |-> v]
     \/ /\ "list" \in Calls
        /\ op' = [kind |-> "list"]
  /\ calls < Prelude => /\ op'.kind = "create"
                        /\ op'.name = calls + 1
  /\ IF op'.kind \in {"open", "list"}
     THEN calls = Prelude /\ handle = NoHandle /\ UNCHANGED calls
     ELSE calls < MaxCalls /\ calls' = calls + 1
  /\ pc' = IF op'.kind \in {"setattr", "sync", "list"} THEN "do" ELSE "force"
  /\ UNCHANGED <<flash, lfsVars, handle, c, before, after, faults, adrift>>

(* lfs_fs_demove                                                           *)
ForceConsistency ==
  /\ pc = "force"
  /\ \/ gdisk = {} /\ pc' = "do" /\ UNCHANGED <<gstate, gdelta, handle, c>>
     \/ \E v \in gdisk :
          /\ gstate' = {}
          /\ Launch(flash, Fetch(flash, v.pair), <<Tag("delete", v.id, 0)>>, FALSE,
                    "force", handle, gdelta)
  /\ UNCHANGED <<flash, gdisk, op, before, after, calls, faults, adrift>>

(* lfs_dir_read, the dots aside: on to the next pair at the end of one,    *)
(* past the superblock and whatever else has no name here.                 *)
EndOfList == 0 - 1
Unreadable == 0 - 2

Onwards(h) ==
  IF h.id = h.m.count /\ h.m.split
  THEN [h EXCEPT !.m = Fetch(flash, @.tail), !.id = 0] ELSE h

Past(h, name) ==
  IF name \in {<<>>, <<0>>}
  THEN [h |-> [h EXCEPT !.id = @ + 1], said |-> 0]
  ELSE [h |-> [h EXCEPT !.id = @ + 1, !.pos = @ + 1], said |-> name[1]]

ReadAt(h) ==
  IF h.id = h.m.count /\ ~h.m.split THEN [h |-> h, said |-> EndOfList]
  ELSE IF h.m.pair = NoPair THEN [h |-> h, said |-> Unreadable]
  ELSE Past(h, Get(LogOf(flash, h.m), "name", h.id, MovedId(gdisk, h.m.pair)))

ReadOn(h) ==
  Forwards(LAMBDA s, k : IF s.said # 0 THEN s ELSE ReadAt(Onwards(s.h)),
           [h |-> h, said |-> 0],
           [k \in 1..2 * Cardinality(Names) + 2 |-> k])

(* An open file stands at its entry, a listing at the one it shows next.   *)
Facing(n, f) ==
  \/ handle.kind = "dir" /\ ReadOn(handle).said = n
  \/ handle.kind = "file" /\ f.hit /\ SamePair(handle.m.pair, f.m.pair)
       /\ handle.id = f.id

Others(n) == {e \in before : e.name # n}
Entry(n)  == CHOOSE e \in before : e.name = n

(* Names that come or go are no longer owed to a listing.                  *)
Unowed(h, ns) ==
  [h EXCEPT !.fresh = FALSE, !.owed = @ \ ns,
            !.name = IF h.kind = "file" /\ @ \in ns THEN 0 ELSE @]

Refused ==
  /\ pc' = "idle" /\ op' = NoOp
  /\ UNCHANGED <<lfsVars, handle, c, after>>

Create ==
  \E f \in {Find(flash, gdisk, op.name)} :
     \/ f.hit /\ Refused
     \/ /\ ~f.hit
        /\ Launch(flash, f.m, <<Tag("create", f.id, 0), Tag("reg", f.id, op.name),
                                Tag("inline", f.id, 0)>>,
                  FALSE, "call", Unowed(handle, {op.name}), gdelta)
        /\ after' = before \cup {[name |-> op.name, struct |-> <<0>>, attr |-> <<>>]}
        /\ UNCHANGED <<gstate, op>>

RemoveEntry ==
  \E f \in {Find(flash, gdisk, op.name)} :
    IF ~f.hit \/ (Careful /\ Facing(op.name, f)) THEN Refused
    ELSE /\ Launch(flash, f.m, <<Tag("delete", f.id, 0)>>, FALSE, "call",
                   Unowed(handle, {op.name}), gdelta)
         /\ after' = Others(op.name)
         /\ UNCHANGED <<gstate, op>>

(* The new entry takes over what the old one has.  In the same pair the    *)
(* old one goes in the same commit; between pairs the move is announced in *)
(* the global state first.                                                 *)
Same(f, g) == SamePair(f.m.pair, g.m.pair)

OldId(f, g) == IF ~g.hit /\ Same(f, g) /\ g.id <= f.id THEN f.id + 1 ELSE f.id

Renaming(f, g) ==
  (IF g.hit THEN <<Tag("delete", g.id, 0)>> ELSE <<>>)
    \o <<Tag("create", g.id, 0), Tag("reg", g.id, op.to),
         Tag("from", g.id, [log |-> LogOf(flash, f.m), id |-> f.id])>>
    \o (IF Same(f, g) THEN <<Tag("delete", OldId(f, g), 0)>> ELSE <<>>)

Rename ==
  \E f \in {Find(flash, gdisk, op.name)}, g \in {Find(flash, gdisk, op.to)} :
    IF \/ ~f.hit
       \/ g.hit /\ Same(f, g) /\ g.id = f.id
       \/ Careful /\ (Facing(op.name, f) \/ Facing(op.to, g))
    THEN Refused
    ELSE /\ gstate' = IF Same(f, g) THEN gstate
                      ELSE {[id |-> OldId(f, g), pair |-> f.m.pair]}
         /\ op' = [kind |-> "rename", old |-> [m |-> f.m, id |-> f.id]]
         /\ Launch(flash, g.m, Renaming(f, g), FALSE, "call",
                   Unowed(handle, {op.name, op.to}), gdelta)
         /\ after' = {e \in before : e.name \notin {op.name, op.to}}
                        \cup {[Entry(op.name) EXCEPT !.name = op.to]}

(* lfs_commitattr does not finish a pending move.                          *)
SetAttr ==
  \E f \in {Find(flash, gdisk, op.name)} :
    IF ~f.hit \/ (Careful /\ gdisk # {}) THEN Refused
    ELSE /\ Launch(flash, f.m, <<Tag("attr", f.id, op.val)>>, FALSE, "call", handle,
                   gdelta)
         /\ after' = Others(op.name)
               \cup {[Entry(op.name) EXCEPT
                         !.attr = IF op.val = Gone THEN <<>> ELSE <<op.val>>]}
         /\ UNCHANGED <<gstate, op>>

(* The struct of an open file is committed, unless its entry has gone.     *)
Sync ==
  \/ handle.m.pair = NoPair /\ Refused
  \/ /\ handle.m.pair # NoPair
     /\ Launch(flash, handle.m, <<Tag("inline", handle.id, op.val)>>, TRUE, "call",
               handle, gdelta)
     /\ after' = IF handle.name = 0 THEN before
                 ELSE Others(handle.name)
                        \cup {[Entry(handle.name) EXCEPT !.struct = <<op.val>>]}
     /\ UNCHANGED <<gstate, op>>

Open ==
  /\ \E f \in {Find(flash, gdisk, op.name)} :
       handle' = IF f.hit THEN [At0("file", f.m, f.id) EXCEPT !.name = op.name]
                          ELSE handle
  /\ pc' = "idle" /\ op' = NoOp
  /\ UNCHANGED <<lfsVars, c, after>>

List ==
  /\ handle' = [At0("dir", Fetch(flash, HeadPair), 0) EXCEPT
                   !.owed = {e.name : e \in before}]
  /\ pc' = "idle" /\ op' = NoOp
  /\ UNCHANGED <<lfsVars, c, after>>

Do ==
  /\ pc = "do"
  /\ \/ op.kind = "create" /\ Create
     \/ op.kind = "remove" /\ RemoveEntry
     \/ op.kind = "rename" /\ Rename
     \/ op.kind = "setattr" /\ SetAttr
     \/ op.kind = "sync" /\ Sync
     \/ op.kind = "open" /\ Open
     \/ op.kind = "list" /\ List
  /\ UNCHANGED <<flash, gdisk, before, calls, faults, adrift>>

-----------------------------------------------------------------------------
(* lfs_dir_seek counts entries from the first pair on, the superblock not  *)
(* among them.                                                             *)
Advanced(h, n) == [h EXCEPT !.id = @ + n, !.pos = @ + n]

SeekBy(s, h, n) ==
  IF h.id < h.m.count THEN [h |-> h, off |-> s.off - n, err |-> FALSE]
  ELSE IF ~h.m.split THEN [s EXCEPT !.err = TRUE]
  ELSE [h |-> Onwards(h), off |-> s.off - n, err |-> FALSE]

SeekOne(s, left) ==
  IF left < s.off THEN SeekBy(s, Advanced(s.h, left), left)
                  ELSE SeekBy(s, Advanced(s.h, s.off), s.off)

SeekTo(h, off) ==
  Forwards(LAMBDA s, k : IF s.off = 0 \/ s.err THEN s
                         ELSE SeekOne(s, s.h.m.count - s.h.id),
           [h |-> [h EXCEPT !.m = Fetch(flash, HeadPair), !.pos = 0,
                            !.id = IF off > 0 THEN 1 ELSE 0],
            off |-> off, err |-> FALSE],
           [k \in 1..Cardinality(Blocks) |-> k])

Read ==
  /\ pc = "idle" /\ handle.kind = "dir" /\ handle.name >= 0
  /\ \E r \in {ReadOn(handle)} :
         handle' = [r.h EXCEPT !.name = r.said,
                               !.shown = IF r.said > 0 THEN @ \cup {r.said} ELSE @]
  /\ UNCHANGED <<flash, lfsVars, op, pc, c, before, after, calls, faults, adrift>>

Close ==
  /\ pc = "idle" /\ handle # NoHandle
  /\ handle' = NoHandle
  /\ UNCHANGED <<flash, lfsVars, op, pc, c, before, after, calls, faults, adrift>>

(* Power is lost, in the middle of a write perhaps, and the device mounts  *)
(* again.                                                                  *)
Interrupted ==
  CASE pc = "append" -> TornBehind
    [] pc \in {"tail", "own"} ->
         {flash} \cup {Changed(c.t.pair[2], torn) :
                         torn \in {f \in Torn(c.t) : Len(f.log) <= BlockTags}}
    [] OTHER -> {flash}

Crash ==
  /\ calls > Prelude
  /\ flash' \in Interrupted
  /\ gdisk' = Mounted(flash') /\ gstate' = gdisk' /\ gdelta' = {}
  /\ handle' = NoHandle /\ op' = NoOp /\ pc' = "idle" /\ c' = NoCommit
  /\ before' = View(flash') /\ after' = before' /\ adrift' = FALSE
  /\ UNCHANGED <<calls, faults>>

Next ==
  \/ Call \/ ForceConsistency \/ Do
  \/ AppendCommit \/ AppendUncommitted
  \/ Compact \/ WriteTail \/ WriteOwn \/ WriteCorrupt \/ CantSplit \/ WriteFails
  \/ Read \/ Close
  \/ Crash

Spec == Init /\ [][Next]_vars

-----------------------------------------------------------------------------
TypeOK ==
  /\ \A b \in Blocks :
       /\ flash[b].rev \in 0..RevModulus - 1
       /\ Len(flash[b].log) <= BlockTags + 1
  /\ \A g \in {gdisk, gstate} : Cardinality(g) <= 1
  /\ pc \in {"idle", "force", "do", "append", "compact", "tail", "own"}
  /\ pc = "idle" <=> op = NoOp
  /\ pc \in {"append", "compact", "tail", "own"} <=> c # NoCommit

(* Whatever a loss of power leaves behind, a mount shows the directory as  *)
(* it was before the call or as the call is to leave it: in every state of *)
(* every append, compaction, split, relocation and drop, and between the   *)
(* two commits of a rename.                                                *)
AllOrNothing == View(flash) \in {before, after}

(* A call that has returned is in the flash.                               *)
ReturnedIsKept == pc = "idle" => View(flash) = after

(* Going backwards from the end of a log for one entry, shifting its id,   *)
(* finds what a replay of the log from its beginning shows.                *)
SearchFindsLast ==
  \A m \in ToSet(Chain(flash)) :
    LET log == LogOf(flash, m)
        es  == Replay(log)
    IN  /\ Len(es) = m.count
        /\ \A i \in 0..m.count - 1 : \A kind \in {"name", "struct", "attr"} :
             Get(log, kind, i, NoId) = es[i + 1][kind]

(* What the reading, the scanning and the compaction of a log rely on:     *)
(* every log in the chain is sound and orderly, and so is what a commit    *)
(* puts behind it.                                                         *)
LogsAreSound ==
  /\ \A m \in ToSet(Chain(flash)) :
       LET log == LogOf(flash, m) IN Sound(log) /\ Orderly(log)
  /\ c # NoCommit => Traversable(Source \o c.attrs)

(* The scan finds exactly the names there are, though compactions, splits  *)
(* and a pending move lie between, and otherwise the place that keeps the  *)
(* names in order.                                                         *)
ScanFindsNames ==
  pc = "idle" =>
    LET there == {e.name : e \in View(flash)}
    IN  \A n \in Names :
      LET f == Find(flash, gdisk, n)
      IN  /\ f.hit <=> n \in there
          /\ f.hit => Get(LogOf(flash, f.m), "name", f.id, MovedId(gdisk, f.m.pair)) = <<n>>

(* The entries stand in the order of their names, through the whole chain. *)
NamesInOrder ==
  pc = "idle" /\ gdisk = {} =>
    LET ch == Chain(flash)
        names == FlattenSeq([k \in 1..Len(ch) |->
                   [i \in 1..ch[k].count |->
                      Get(LogOf(flash, ch[k]), "name", i - 1, NoId)[1]]])
    IN  \A i, j \in 1..Len(names) : i < j => names[i] < names[j]

(* The shares of the pairs add up to the move that is pending.             *)
SharesAddUp == pc = "idle" /\ ~adrift => Mounted(flash) = gdisk

(* Calls happen at once or not at all, for good once they have returned,   *)
(* and with the global state they are to leave.                            *)
CommitsAreAtomic == AllOrNothing /\ ReturnedIsKept /\ SharesAddUp

(* What is read out of the logs, forwards and backwards, is what they say. *)
(* What they are does not depend on what is open: a state with the same    *)
(* logs and nothing open follows every state, by Close or by Crash.        *)
LogsReadRight ==
  TypeOK /\ (handle = NoHandle => LogsAreSound /\ SearchFindsLast /\ ScanFindsNames /\ NamesInOrder)

(* Nothing done to the directory takes an open file off its entry, or      *)
(* leaves it with an outdated idea of its pair.                            *)
OpenFileKeepsEntry ==
  pc = "idle" /\ ~adrift /\ handle.kind = "file" /\ handle.name # 0 =>
    LET m == Fetch(flash, handle.m.pair)
    IN  /\ m.pair = handle.m.pair /\ m.off = handle.m.off
        /\ m.tail = handle.m.tail /\ m.count = handle.m.count
        /\ m \in ToSet(Chain(flash))
        /\ Get(LogOf(flash, m), "name", handle.id, NoId) = <<handle.name>>

(* A listing that comes to an end has shown every name that was there all  *)
(* along, whatever came, went, was split, relocated or dropped meanwhile.  *)
ListingIsComplete ==
  handle.kind = "dir" /\ handle.name < 0 => handle.owed \subseteq handle.shown

(* It shows none of them twice.                                            *)
ListedOnce ==
  [][pc = "idle" /\ pc' = "idle" /\ handle' # handle /\ handle.kind = "dir"
       /\ handle'.name \in handle'.owed => handle'.name \notin handle.shown]_vars

(* Seeking to where a listing is, which starts again from the head of the  *)
(* chain, leads to the same next name as long as none came or went, though *)
(* the pairs may have been split or relocated since.                       *)
SeekReturns ==
  pc = "idle" /\ ~adrift /\ handle.kind = "dir" /\ handle.fresh /\ handle.name >= 0 =>
    \E s \in {SeekTo(handle, handle.pos)} :
      ReadOn(handle).said = IF s.err THEN EndOfList ELSE ReadOn(s.h).said

(* A listing keeps its place, and comes back to it.                        *)
ListingKeepsPlace == ListingIsComplete /\ SeekReturns
=============================================================================
