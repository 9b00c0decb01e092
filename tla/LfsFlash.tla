------------------------------- MODULE LfsFlash -------------------------------
(***************************************************************************)
(* The flash under littlefs and the caches before it: lfs_bd_read,         *)
(* lfs_bd_prog and lfs_bd_flush.  Everything is counted in words of four   *)
(* bytes, the size of a pointer.                                           *)
(***************************************************************************)
EXTENDS LfsAlloc, Sequences

CONSTANTS
  BlockSize,               \* of the device
  CacheSize,               \* of rcache, pcache and the cache of a file
  UnitSize                 \* READ_SIZE and WRITE_SIZE, which are the same

(* What lfs_init asserts of the configuration.                             *)
ASSUME ConfigAssumption ==
  /\ UnitSize > 0 /\ CacheSize > 0 /\ BlockSize > 0
  /\ CacheSize % UnitSize = 0 /\ BlockSize % CacheSize = 0

Blocks == 0..BlockCount - 1

NullBlock   == -1
InlineBlock == -2

(* Data are natural numbers.  Flash that is written without being erased,  *)
(* or is worn out, holds neither the old nor the new word.                 *)
Erased == -1
Junk   == -2

Least(a, b)    == IF a < b THEN a ELSE b
Greatest(a, b) == IF a < b THEN b ELSE a

AlignDown(a, n) == a - (a % n)
AlignUp(a, n)   == AlignDown(a + n - 1, n)

-----------------------------------------------------------------------------
(* A cache holds size words of a block from off on.                        *)
Blank == [k \in 0..CacheSize - 1 |-> Erased]
NoCache == [block |-> NullBlock, off |-> 0, size |-> 0, buf |-> Blank]

Dropped(c) == [c EXCEPT !.block = NullBlock]
Zeroed(c)  == [c EXCEPT !.block = NullBlock, !.buf = Blank]

Holds(c, b, off) == c.block = b /\ off >= c.off /\ off < c.off + c.size

Loaded(flash, hint, b, off) ==
  LET from == AlignDown(off, UnitSize)
      size == Least(Least(AlignUp(off + hint, UnitSize), BlockSize) - from, CacheSize)
  IN  [block |-> b, off |-> from, size |-> size,
       buf |-> [k \in 0..CacheSize - 1 |-> IF k < size THEN flash[b][from + k] ELSE Erased]]

(* Loops.  A step is taken for as long as go says, and at most bound times; *)
(* one that ends with the error "again" is retried.                        *)
Stepped(go(_), step(_), r) == IF go(r) THEN step(r) ELSE r

While(go(_), step(_), r, bound) ==
  LET at[n \in 0..bound] == IF n = 0 THEN r ELSE Stepped(go, step, at[n - 1])
  IN  at[bound]

Retry(step(_), r) ==
  While(LAMBDA t : t.err = "again", LAMBDA t : step([t EXCEPT !.err = "ok"]),
        [r EXCEPT !.err = "again"], BlockCount + 1)

IfOk(r, next(_)) == IF r.err = "ok" THEN next(r) ELSE r

(* lfs_bd_read: from pcache, which has priority, from rcache, straight     *)
(* from flash if that much is asked for, and otherwise through rcache.  A  *)
(* place outside the device is LFS_ERR_CORRUPT as a worn block is, but not *)
(* an error that is mended by taking another block.                        *)
Slice(buf, i, n) == [k \in 1..n |-> buf[i + k - 1]]

UpTo(c, b, off, n) == IF c.block = b /\ off < c.off THEN Least(n, c.off - off) ELSE n

HeldOf(c, off, n) == Slice(c.buf, off - c.off, Least(n, c.size - (off - c.off)))

BdReadPart(flash, pc, hint, b, off, size, r) ==
  IF Holds(pc, b, off) THEN [r EXCEPT !.data = @ \o HeldOf(pc, off, size)]
  ELSE IF Holds(r.rc, b, off)
  THEN [r EXCEPT !.data = @ \o HeldOf(r.rc, off, UpTo(pc, b, off, size))]
  ELSE IF size >= hint /\ off % UnitSize = 0 /\ size >= UnitSize
  THEN [r EXCEPT !.data = @ \o
          Slice(flash[b], off,
                AlignDown(UpTo(r.rc, b, off, UpTo(pc, b, off, size)), UnitSize))]
  ELSE [r EXCEPT !.rc = Loaded(flash, hint, b, off)]

BdRead(flash, pc, rc, hint, b, off, size) ==
  IF b \notin Blocks \/ off + size > BlockSize
  THEN [data |-> <<>>, rc |-> rc, err |-> "RANGE"]
  ELSE While(LAMBDA r : Len(r.data) < size,
             LAMBDA r : BdReadPart(flash, pc, hint, b, off + Len(r.data),
                                   size - Len(r.data), r),
             [data |-> <<>>, rc |-> rc, err |-> "ok"], 2 * size)

(* lfs_bd_cmp, two words at a time: what it finds, and leaves in rcache.   *)
Compared(c, i, n, r) ==
  [same |-> r.data = Slice(c.buf, i, n), rc |-> r.rc, i |-> i + n]

CmpPart(flash, c, n, m, size) ==
  Compared(c, m.i, size,
           BdRead(flash, NoCache, m.rc, n - m.i, c.block, c.off + m.i, size))

BdCmp(flash, rc, c, n) ==
  While(LAMBDA m : m.same /\ m.i < n,
        LAMBDA m : CmpPart(flash, c, n, m, Least(n - m.i, 2)),
        [same |-> TRUE, rc |-> rc, i |-> 0], n)

(* The prog of the driver.                                                 *)
Progged(dev, c, n) ==
  [dev.flash EXCEPT ![c.block] =
     [k \in 0..BlockSize - 1 |->
        IF k < c.off \/ k >= c.off + n THEN @[k]
        ELSE IF c.block \in dev.worn \/ @[k] # Erased THEN Junk
        ELSE c.buf[k - c.off]]]

(* lfs_bd_flush; what was written is read back.                            *)
Verified(dev, c, cmp) ==
  [dev |-> [dev EXCEPT !.rc = cmp.rc],
   c   |-> IF cmp.same THEN Zeroed(c) ELSE c,
   err |-> IF cmp.same THEN "ok" ELSE "CORRUPT"]

ReadBack(dev, c, n) == Verified(dev, c, BdCmp(dev.flash, Dropped(dev.rc), c, n))

BdFlush(dev, c) ==
  IF c.block \in {NullBlock, InlineBlock} THEN [dev |-> dev, c |-> c, err |-> "ok"]
  ELSE ReadBack([dev EXCEPT !.flash = Progged(dev, c, AlignUp(c.size, UnitSize))], c,
                AlignUp(c.size, UnitSize))

(* lfs_bd_prog.  A cache that is in use for another place is an assertion. *)
PutInto(c, at, data) ==
  [c EXCEPT !.buf = [k \in 0..CacheSize - 1 |->
                       IF k >= at /\ k < at + Len(data) THEN data[k - at + 1] ELSE @[k]],
            !.size = Greatest(@, at + Len(data))]

FlushFull(dev, c) ==
  IF c.size < CacheSize THEN [dev |-> dev, c |-> c, err |-> "ok"] ELSE BdFlush(dev, c)

More(p, off, data) == [dev |-> p.dev, c |-> p.c, err |-> p.err, off |-> off, data |-> data]

BdProgUpTo(p, at, n) ==
  More(FlushFull(p.dev, PutInto(p.c, at, SubSeq(p.data, 1, n))),
       p.off + n, SubSeq(p.data, n + 1, Len(p.data)))

BdProgPart(p, b) ==
  IF p.c.block = b /\ p.off >= p.c.off /\ p.off < p.c.off + CacheSize
  THEN BdProgUpTo(p, p.off - p.c.off,
                  Least(Len(p.data), CacheSize - (p.off - p.c.off)))
  ELSE IF p.c.block # NullBlock THEN [p EXCEPT !.err = "ASSERT"]
  ELSE [p EXCEPT !.c.block = b, !.c.off = AlignDown(p.off, UnitSize), !.c.size = 0]

BdProg(dev, c, b, off, data) ==
  While(LAMBDA p : p.err = "ok" /\ p.data # <<>>, LAMBDA p : BdProgPart(p, b),
        More([dev |-> dev, c |-> c, err |-> "ok"], off, data), 2 * Len(data))

BdErase(dev, b) == [dev EXCEPT !.flash[b] = [k \in 0..BlockSize - 1 |-> Erased]]
=============================================================================
