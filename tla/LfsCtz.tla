-------------------------------- MODULE LfsCtz --------------------------------
(***************************************************************************)
(* The skip list of blocks a file is kept in: block i begins with pointers *)
(* to the blocks i - 2^k, for every 2^k that divides i.  The list is known *)
(* by its last block, and only ever extended in blocks of its own.         *)
(***************************************************************************)
EXTENDS LfsFlash, SequencesExt

(* lfs_popc, lfs_ctz and lfs_npw2                                          *)
Popc(n) == Cardinality({k \in 0..n : (n \div 2^k) % 2 = 1})
Ctz(n)  == CHOOSE k \in 0..n : n % 2^k = 0 /\ n % 2^(k + 1) # 0
Npw2(n) == CHOOSE k \in 0..n : 2^k >= n /\ \A j \in 0..k - 1 : 2^j < n

(* lfs_ctz_index: the block that has a place of the file, and where in it. *)
PlaceIn(pos, b, i) == [index |-> i, off |-> IF i = 0 THEN pos ELSE pos - b * i - Popc(i)]

CtzIndex(pos) ==
  LET b == BlockSize - 2
  IN  PlaceIn(pos, b, IF pos \div b = 0 THEN 0
                      ELSE (pos - (Popc(pos \div b - 1) + 2)) \div b)

(* lfs_ctz_find: from the last block on by the longest pointers that fit.  *)
Skip(current, target) == Least(Npw2(current - target + 1) - 1, Ctz(current))

Skipped(w, k, r) ==
  IF r.err # "ok" THEN [w EXCEPT !.rc = r.rc, !.err = r.err]
  ELSE [w EXCEPT !.rc = r.rc, !.block = r.data[1], !.current = @ - 2^k]

SkipBy(flash, w, k) == Skipped(w, k, BdRead(flash, NoCache, w.rc, 1, w.block, k, 1))

CtzWalk(flash, rc, head, current, target) ==
  While(LAMBDA w : w.err = "ok" /\ w.current > target,
        LAMBDA w : SkipBy(flash, w, Skip(w.current, target)),
        [block |-> head, rc |-> rc, err |-> "ok", current |-> current], BlockCount)

FoundAt(w, off) == [block |-> w.block, off |-> off, rc |-> w.rc, err |-> w.err]

CtzFindAt(flash, rc, head, size, at) ==
  FoundAt(CtzWalk(flash, rc, head, CtzIndex(size - 1).index, at.index), at.off)

CtzFind(flash, rc, head, size, pos) ==
  IF size = 0 THEN [block |-> NullBlock, off |-> 0, rc |-> rc, err |-> "ok"]
  ELSE CtzFindAt(flash, rc, head, size, CtzIndex(pos))

(* lfs_ctz_traverse, two blocks at a time if the index is even; the cache  *)
(* of a file may have pointers that are not in flash yet.                  *)
Held(flash, c, b, off) == IF Holds(c, b, off) THEN c.buf[off - c.off] ELSE flash[b][off]

TraverseFrom(flash, c, t, count) ==
  [seen  |-> t.seen \cup {Held(flash, c, t.head, k) : k \in 0..count - 1},
   head  |-> Held(flash, c, t.head, count - 1),
   index |-> t.index - count]

CtzBlocks(flash, c, head, size) ==
  IF size = 0 THEN {}
  ELSE While(LAMBDA t : t.index # 0 /\ t.head \in Blocks,
             LAMBDA t : TraverseFrom(flash, c, t, 2 - (t.index % 2)),
             [seen |-> {head}, head |-> head, index |-> CtzIndex(size - 1).index],
             BlockCount).seen

(* Words i to n - 1 of a block, or of what is cached of an inline file,    *)
(* copied into a fresh block; one at a time, as the caches do the rest.    *)
WordOf(dev, from, b, i, n) ==
  IF b = InlineBlock THEN [data |-> <<from.buf[i]>>, rc |-> dev.rc, err |-> "ok"]
  ELSE BdRead(dev.flash, from, dev.rc, n - i, b, i, 1)

PutWord(dev, c, new, i, r) ==
  IF r.err # "ok" THEN [dev |-> [dev EXCEPT !.rc = r.rc], c |-> c, err |-> r.err]
  ELSE BdProg([dev EXCEPT !.rc = r.rc], c, new, i, r.data)

Further(p, i) == [dev |-> p.dev, c |-> p.c, err |-> p.err, i |-> i]

Copied(dev, from, b, n, c, new) ==
  While(LAMBDA p : p.err = "ok" /\ p.i < n,
        LAMBDA p : Further(PutWord(p.dev, p.c, new, p.i, WordOf(p.dev, from, b, p.i, n)),
                           p.i + 1),
        Further([dev |-> dev, c |-> c, err |-> "ok"], 0), n)

(* The pointers a block begins with, the first of them its predecessor.    *)
FarLink(p, r, i) ==
  [dev |-> [p.dev EXCEPT !.rc = r.rc], c |-> p.c, err |-> r.err, i |-> i,
   head |-> IF r.err = "ok" THEN r.data[1] ELSE NullBlock]

LinkOne(p, new, skips) ==
  IfOk(BdProg(p.dev, p.c, new, p.i, <<p.head>>),
       LAMBDA q : IF p.i = skips - 1 THEN [p EXCEPT !.dev = q.dev, !.c = q.c, !.i = skips]
                  ELSE FarLink(q, BdRead(q.dev.flash, NoCache, q.dev.rc, 1, p.head, p.i, 1),
                               p.i + 1))

Linked(dev, c, new, head, skips) ==
  While(LAMBDA p : p.err = "ok" /\ p.i < skips, LAMBDA p : LinkOne(p, new, skips),
        [dev |-> dev, c |-> c, err |-> "ok", i |-> 0, head |-> head], skips)

(* A traversal goes through rcache, and leaves a metadata block in it.     *)
(* taken and spare are no part of the code: blocks handed out, and those   *)
(* that were free when none was found.                                     *)
AllocDone(dev, a, used) ==
  [dev EXCEPT !.free  = a.free,
              !.rc    = IF a.looked THEN Dropped(@) ELSE @,
              !.taken = IF a.err = "ok" THEN @ \cup {a.block} ELSE @,
              !.spare = IF a.err = "ok" THEN @ ELSE Blocks \ (used \cup dev.worn \cup dev.taken)]

(* lfs_ctz_extend, of a list of size words: a block for the word behind.   *)
(* The last block is copied if it has room, and otherwise linked.  A block *)
(* that turns out to be worn is left and another one taken.                *)
ExtendDone(p, new, off) ==
  IF p.err = "CORRUPT"
  THEN [dev |-> p.dev, c |-> Dropped(p.c), block |-> new, off |-> off, err |-> "again"]
  ELSE [dev |-> p.dev, c |-> p.c, block |-> new, off |-> off, err |-> p.err]

ExtendBehind(dev, c, head, new, last, skips) ==
  IF last.off + 1 # BlockSize
  THEN ExtendDone(Copied(dev, NoCache, head, last.off + 1, c, new), new, last.off + 1)
  ELSE ExtendDone(Linked(dev, c, new, head, skips), new, skips)

ExtendInto(dev, c, head, size, new, last) ==
  IF size = 0 THEN [dev |-> dev, c |-> c, block |-> new, off |-> 0, err |-> "ok"]
  ELSE ExtendBehind(dev, c, head, new, last, Ctz(last.index + 1) + 1)

ExtendWith(dev, c, head, size, used, a) ==
  IF a.err # "ok"
  THEN [dev |-> AllocDone(dev, a, used), c |-> c, block |-> head, off |-> 0, err |-> a.err]
  ELSE ExtendInto(BdErase(AllocDone(dev, a, used), a.block), c, head, size, a.block,
                  CtzIndex(size - 1))

CtzExtend(dev, c, head, size, used) ==
  Retry(LAMBDA x : ExtendWith(x.dev, x.c, head, size, used, Alloc(x.dev.free, used)),
        [dev |-> dev, c |-> c, block |-> head, off |-> 0, err |-> "ok"])
=============================================================================
