------------------------------- MODULE LfsFile -------------------------------
(***************************************************************************)
(* Open files of littlefs: the lfs_file_raw functions, as operators on the *)
(* state s of the file system (flash, rcache, allocator, entries on disk   *)
(* and open files), each with its error in s.err.                          *)
(***************************************************************************)
EXTENDS LfsCtz

CONSTANTS
  InlineMax,       \* a larger file does not fit into its entry
  FileMax          \* lfs->file_max, in words

Has(f, flag) == flag \in f.flags
With(f, flag) == [f EXCEPT !.flags = @ \cup {flag}]
Without(f, flag) == [f EXCEPT !.flags = @ \ {flag}]

Failed(s, e) == [s EXCEPT !.err = e]
Erred(s, h) == IF s.err = "ok" THEN s ELSE [s EXCEPT !.files[h] = With(@, "ERRED")]

Ack(s) == [s EXCEPT !.free = Acked(@)]

-----------------------------------------------------------------------------
(* The blocks lfs_fs_rawtraverse visits, of the entries and of open files; *)
(* 0 and 1 stand for the metadata.                                         *)
UsedOnDisk(s) ==
  {0, 1} \cup UNION {CtzBlocks(s.flash, NoCache, s.disk[g].head, s.disk[g].size) :
                       g \in {e \in DOMAIN s.disk : s.disk[e].type = "ctz"}}

(* A file that was outlined has LFS_BLOCK_INLINE for its old list, which   *)
(* lfs_alloc_lookahead takes for some block of the device.                 *)
OldBlocks(fl, f) ==
  IF f.head = InlineBlock THEN IF f.size = 0 THEN {} ELSE {InlineBlock % BlockCount}
  ELSE CtzBlocks(fl, f.cache, f.head, f.size)

Used(s) ==
  UsedOnDisk(s)
    \cup UNION {LET f == s.files[g]
                IN  (IF Has(f, "DIRTY") THEN OldBlocks(s.flash, f) ELSE {})
                      \cup (IF Has(f, "WRITING") THEN CtzBlocks(s.flash, f.cache, f.block, f.pos)
                            ELSE {}) :
                  g \in {e \in DOMAIN s.files : ~Has(s.files[e], "INLINE")}}

(* A block without a word of the file is traversed as if it were the one   *)
(* before it, and blocks of the file are left out.                         *)
Early(f) == Has(f, "WRITING") /\ f.pos > 0 /\ f.off <= CtzIndex(f.pos).off
              /\ CtzIndex(f.pos).index # CtzIndex(f.pos - 1).index

(* lfs_file_relocate: what the block at hand has so far, into a new one.   *)
RelocateDone(p, h, new) ==
  IF p.err = "CORRUPT" THEN Failed(p.dev, "again")
  ELSE IF p.err # "ok" THEN Failed(p.dev, p.err)
  ELSE [p.dev EXCEPT !.files[h] =
          With([@ EXCEPT !.cache = p.c, !.block = new], "WRITING")]

RelocateInto(s, h, f, new) ==
  RelocateDone(Copied(BdErase(s, new), f.cache,
                      IF Has(f, "INLINE") THEN InlineBlock ELSE f.block, f.off,
                      NoCache, new),
               h, new)

RelocateWith(s, h, a) ==
  IF a.err # "ok" THEN Failed(s, a.err) ELSE RelocateInto(s, h, s.files[h], a.block)

RelocateBy(s, h, a, used) ==
  RelocateWith(AllocDone([s EXCEPT !.early = @ \/ (a.looked /\ Early(s.files[h]))],
                         a, used), h, a)

RelocateOnce(s, h, used) == RelocateBy(s, h, Alloc(s.free, used), used)

Relocate(s, h) == Retry(LAMBDA t : RelocateOnce(t, h, Used(t)), s)

(* lfs_file_outline: a file that has grown too large for its entry.        *)
Outline(s, h) ==
  IfOk(Relocate(Ack([s EXCEPT !.files[h].off = s.files[h].pos]), h),
       LAMBDA t : [t EXCEPT !.files[h] = Without(@, "INLINE")])

-----------------------------------------------------------------------------
(* lfs_file_flushedwrite: block by block.  A new block is added to the list *)
(* that ends where the file is written.                                    *)
PlacedAt(f, w) == [f EXCEPT !.cache = w.rc, !.block = w.block, !.off = w.off]

EndOf(flash, f) ==
  IF ~Has(f, "WRITING") /\ f.pos > 0
  THEN [PlacedAt(f, CtzFind(flash, f.cache, f.head, f.size, f.pos - 1))
          EXCEPT !.cache = Zeroed(@)]
  ELSE f

BlockAdded(x, h) ==
  IF x.err # "ok" THEN Failed([x.dev EXCEPT !.files[h].cache = x.c], x.err)
  ELSE [x.dev EXCEPT !.files[h] =
          With([@ EXCEPT !.cache = x.c, !.block = x.block, !.off = x.off], "WRITING")]

AddBlock(s, h, f) ==
  BlockAdded(CtzExtend(s, f.cache, f.block, f.pos, Used(s)), h)

AddBlockAt(s, h, f) == AddBlock(Ack([s EXCEPT !.files[h] = f]), h, f)

NewBlock(s, h) ==
  IF Has(s.files[h], "INLINE")
  THEN [s EXCEPT !.files[h] =
          With([@ EXCEPT !.block = InlineBlock, !.off = s.files[h].pos], "WRITING")]
  ELSE AddBlockAt(s, h, EndOf(s.flash, s.files[h]))

CacheKept(p, h) == [p.dev EXCEPT !.files[h].cache = p.c]

MovedAway(s, h) == IfOk(Relocate(s, h), LAMBDA r : Failed(r, "again"))

ProgramDone(p, h) ==
  IF p.err = "ok" THEN CacheKept(p, h)
  ELSE IF p.err # "CORRUPT" THEN Failed(CacheKept(p, h), p.err)
  ELSE MovedAway(CacheKept(p, h), h)

ProgramAt(s, h, f, data) == ProgramDone(BdProg(s, f.cache, f.block, f.off, data), h)

Programmed(s, h, data) == Retry(LAMBDA t : ProgramAt(t, h, t.files[h], data), s)

Ahead(s, h, n) == Ack([s EXCEPT !.files[h].pos = @ + n, !.files[h].off = @ + n])

WriteUpTo(s, h, data, n) ==
  [s |-> IfOk(s, LAMBDA t : IfOk(Programmed(t, h, SubSeq(data, 1, n)),
                                 LAMBDA p : Ahead(p, h, n))),
   data |-> SubSeq(data, n + 1, Len(data))]

WriteBlock(s, h, data) ==
  WriteUpTo(s, h, data, Least(Len(data), BlockSize - s.files[h].off))

WithRoom(s, h, f) ==
  IF ~Has(f, "WRITING") \/ f.off = BlockSize THEN NewBlock(s, h) ELSE s

WriteBlocks(s, h, data) ==
  Erred(While(LAMBDA w : w.s.err = "ok" /\ w.data # <<>>,
              LAMBDA w : WriteBlock(WithRoom(w.s, h, w.s.files[h]), h, w.data),
              [s |-> s, data |-> data], Len(data)).s,
        h)

OutlinedFor(s, h, f, n) ==
  IF Has(f, "INLINE") /\ Greatest(f.pos + n, f.size) > InlineMax
  THEN Erred(Outline(s, h), h) ELSE s

FlushedWrite(s, h, data) ==
  IfOk(OutlinedFor(s, h, s.files[h], Len(data)), LAMBDA o : WriteBlocks(o, h, data))

(* lfs_file_flushedread                                                    *)
ReadPlaced(f, w) ==
  IF w.err # "ok" THEN [f |-> [f EXCEPT !.cache = w.rc], err |-> w.err]
  ELSE [f |-> With(PlacedAt(f, w), "READING"), err |-> "ok"]

ReadPlace(flash, f) ==
  IF Has(f, "READING") /\ f.off # BlockSize THEN [f |-> f, err |-> "ok"]
  ELSE IF Has(f, "INLINE")
  THEN [f |-> With([f EXCEPT !.block = InlineBlock, !.off = f.pos], "READING"), err |-> "ok"]
  ELSE ReadPlaced(f, CtzFind(flash, f.cache, f.head, f.size, f.pos))

PartOf(flash, f, n) ==
  IF Has(f, "INLINE")
  THEN [data |-> [k \in 1..n |-> f.cache.buf[f.off + k - 1]], rc |-> f.cache, err |-> "ok"]
  ELSE BdRead(flash, NoCache, f.cache, BlockSize, f.block, f.off, n)

ReadUpTo(f, r) ==
  [f |-> [f EXCEPT !.cache = r.rc, !.pos = @ + Len(r.data), !.off = @ + Len(r.data)],
   data |-> r.data, err |-> r.err]

ReadBlock(flash, g, n) ==
  IF g.err # "ok" THEN [f |-> g.f, data |-> <<>>, err |-> g.err]
  ELSE ReadUpTo(g.f, PartOf(flash, g.f, Least(n, BlockSize - g.f.off)))

ReadBehind(data, r) == [r EXCEPT !.data = data \o @]

ReadBlocks(flash, f, n) ==
  While(LAMBDA r : r.err = "ok" /\ Len(r.data) < n,
        LAMBDA r : ReadBehind(r.data, ReadBlock(flash, ReadPlace(flash, r.f),
                                                n - Len(r.data))),
        [f |-> f, data |-> <<>>, err |-> "ok"], n)

FlushedRead(flash, f, n) ==
  IF f.pos >= f.size THEN [f |-> f, data |-> <<>>, err |-> "ok"]
  ELSE ReadBlocks(flash, f, Least(n, f.size - f.pos))

-----------------------------------------------------------------------------
(* lfs_file_flush.  What the file has behind the place it was written at   *)
(* is copied from the list as it was, which orig reads.                    *)
Rest(s, orig) == [s |-> s, orig |-> orig]

RestBehind(s, f) ==
  IF s.err # "ok" \/ s.rc.block = NullBlock THEN Rest(s, f)
  ELSE Rest([s EXCEPT !.rc = Dropped(@)], [f EXCEPT !.cache = Dropped(@)])

CopyWord(s, h, r) ==
  IF r.err # "ok" THEN Rest(Failed(s, r.err), r.f)
  ELSE RestBehind(FlushedWrite(s, h, r.data), r.f)

CopyRest(s, h, orig) ==
  While(LAMBDA t : t.s.err = "ok" /\ t.s.files[h].pos < t.s.files[h].size,
        LAMBDA t : CopyWord(t.s, h, FlushedRead(t.s.flash, t.orig, 1)),
        Rest(s, orig), FileMax).s

CacheFlushed(p, h) ==
  IF p.err = "ok" THEN CacheKept(p, h) ELSE MovedAway(CacheKept(p, h), h)

FlushCache(s, h) == Retry(LAMBDA t : CacheFlushed(BdFlush(t, t.files[h].cache), h), s)

ReadingDone(s, h) ==
  IF ~Has(s.files[h], "READING") THEN s
  ELSE [s EXCEPT !.files[h] =
          Without(IF Has(@, "INLINE") THEN @ ELSE [@ EXCEPT !.cache = Dropped(@)], "READING")]

WithoutRest(s, h) == s

WithRest(s, h) ==
  CopyRest([s EXCEPT !.rc = Dropped(@)], h,
           [s.files[h] EXCEPT !.flags = {}, !.off = 0, !.block = NullBlock, !.cache = s.rc])

WrittenOut(s, h, f) ==
  IF Has(f, "INLINE") THEN [s EXCEPT !.files[h].pos = Greatest(f.pos, f.size)]
  ELSE IfOk(WithRest(s, h), LAMBDA c : FlushCache(c, h))

FlushWriting(s, h, f) ==
  IF ~Has(f, "WRITING") THEN s
  ELSE IfOk(WrittenOut(s, h, f),
            LAMBDA t : [t EXCEPT !.files[h] =
                          [With(Without(@, "WRITING"), "DIRTY")
                             EXCEPT !.head = t.files[h].block, !.size = t.files[h].pos,
                                    !.pos = f.pos]])

FlushRead(s, h) == FlushWriting(s, h, s.files[h])

Flush(s, h) == FlushRead(ReadingDone(s, h), h)

(* lfs_file_rawsync.  The entry is committed as a whole (LfsDir).  A file  *)
(* with an error is left alone.                                            *)
EntryOf(f) ==
  IF Has(f, "INLINE")
  THEN [type |-> "inline", head |-> NullBlock, size |-> f.size,
        data |-> [k \in 1..f.size |-> f.cache.buf[k - 1]]]
  ELSE [type |-> "ctz", head |-> f.head, size |-> f.size, data |-> <<>>]

Committed(s, h, f) ==
  IF ~Has(f, "DIRTY") THEN s
  ELSE [s EXCEPT !.disk[f.file] = EntryOf(f), !.files[h] = Without(@, "DIRTY")]

RawSync(s, h) ==
  IF Has(s.files[h], "ERRED") THEN s
  ELSE Erred(IfOk(Flush(s, h), LAMBDA t : Committed(t, h, t.files[h])), h)

(* lfs_file_rawread, with the words it reads in s.out                      *)
HasRead(s, h, r) == [s EXCEPT !.files[h] = r.f, !.out = r.data, !.err = r.err]

RawRead(s, h, n) ==
  IfOk(IF Has(s.files[h], "WRITING") THEN Flush(s, h) ELSE s,
       LAMBDA t : HasRead(t, h, FlushedRead(t.flash, t.files[h], n)))

(* lfs_file_rawwrite.  A gap behind the end is filled with zeros.          *)
GrownTo(write(_), s, h, pos) ==
  While(LAMBDA t : t.err = "ok" /\ t.files[h].pos < pos, write, s, FileMax)

GapFilled(s, h) ==
  IF Has(s.files[h], "WRITING") \/ s.files[h].pos <= s.files[h].size THEN s
  ELSE GrownTo(LAMBDA t : FlushedWrite(t, h, <<0>>),
               [s EXCEPT !.files[h].pos = s.files[h].size], h, s.files[h].pos)

AppendedAt(f) ==
  IF Has(f, "APPEND") /\ f.pos < f.size THEN [f EXCEPT !.pos = f.size] ELSE f

WriteAt(s, h, data) ==
  IF s.files[h].pos + Len(data) > FileMax THEN Failed(s, "FBIG")
  ELSE IfOk(IfOk(GapFilled(s, h), LAMBDA z : FlushedWrite(z, h, data)),
            LAMBDA w : [w EXCEPT !.files[h] = Without(@, "ERRED")])

RawWrite(s, h, data) ==
  IfOk(IF Has(s.files[h], "READING") THEN Flush(s, h) ELSE s,
       LAMBDA t : WriteAt([t EXCEPT !.files[h] = AppendedAt(@)], h, data))

(* lfs_file_rawseek.  A file that is not being written stays in its cache  *)
(* if that has the new place too.                                          *)
RawSize(f) == IF Has(f, "WRITING") THEN Greatest(f.pos, f.size) ELSE f.size

SeekTarget(f, off, whence) ==
  CASE whence = "SET" -> off
    [] whence = "CUR" -> f.pos + off
    [] whence = "END" -> RawSize(f) + off

InCache(f, at) ==
  /\ CtzIndex(f.pos).index = at.index
  /\ at.off >= f.cache.off /\ at.off < f.cache.off + f.cache.size

MoveTo(s, h, npos) ==
  IF s.files[h].pos = npos THEN s
  ELSE IF ~Has(s.files[h], "WRITING") /\ InCache(s.files[h], CtzIndex(npos))
  THEN [s EXCEPT !.files[h].pos = npos, !.files[h].off = CtzIndex(npos).off]
  ELSE IfOk(Flush(s, h), LAMBDA t : [t EXCEPT !.files[h].pos = npos])

RawSeek(s, h, off, whence) ==
  IF SeekTarget(s.files[h], off, whence) \notin 0..FileMax THEN Failed(s, "INVAL")
  ELSE MoveTo(s, h, SeekTarget(s.files[h], off, whence))

(* lfs_file_rawtruncate                                                    *)
Grow(s, h, size) == GrownTo(LAMBDA t : RawWrite(t, h, <<0>>), s, h, size)

CutAt(s, h, w, size) ==
  IF w.err # "ok" THEN Failed(s, w.err)
  ELSE [s EXCEPT !.files[h] =
          [With(With(PlacedAt(@, w), "DIRTY"), "READING")
             EXCEPT !.pos = size, !.head = w.block, !.size = size]]

Shorten(s, h, size) ==
  IfOk(Flush(s, h),
       LAMBDA t : CutAt(t, h, CtzFind(t.flash, t.files[h].cache, t.files[h].head,
                                      t.files[h].size, size), size))

Resized(s, h, old, size) ==
  IF size < old THEN Shorten(s, h, size)
  ELSE IF size > old THEN Grow(MoveTo(s, h, old), h, size)
  ELSE s

RawTruncate(s, h, size) ==
  IfOk(Resized(s, h, RawSize(s.files[h]), size), LAMBDA t : MoveTo(t, h, s.files[h].pos))

-----------------------------------------------------------------------------
(* lfs_file_rawopencfg, of an entry that is there; with no attributes.     *)
CacheOf(entry) ==
  IF entry.type = "inline"
  THEN [NoCache EXCEPT !.block = InlineBlock, !.size = CacheSize,
                       !.buf = [k \in DOMAIN @ |-> IF k < entry.size THEN entry.data[k + 1]
                                                   ELSE @[k]]]
  ELSE NoCache

Empty == [type |-> "inline", head |-> NullBlock, size |-> 0, data |-> <<>>]

RawOpen(g, entry, mode) ==
  LET e == IF "TRUNC" \in mode THEN Empty ELSE entry
  IN  [file |-> g, pos |-> 0, off |-> 0, block |-> 0,
       head |-> IF e.type = "inline" THEN InlineBlock ELSE e.head, size |-> e.size,
       cache |-> CacheOf(e),
       flags |-> mode \cup (IF e.type = "inline" THEN {"INLINE"} ELSE {})
                      \cup (IF "TRUNC" \in mode THEN {"DIRTY"} ELSE {})]
=============================================================================
