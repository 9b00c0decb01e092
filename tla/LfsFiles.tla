------------------------------- MODULE LfsFiles -------------------------------
(***************************************************************************)
(* The calls of littlefs on open files, blocks that wear out and losses of *)
(* power.  Together they implement LfsContents.                            *)
(*                                                                         *)
(* A call is one step: what it writes goes to blocks that the entries on   *)
(* disk do not lead to (StoredStaysUntouched), so losing power within it   *)
(* is losing power before it or, once the entry is committed, after it.    *)
(***************************************************************************)
EXTENDS LfsFile

CONSTANTS
  Files, Handles, Modes, Sizes, Places,   \* see LfsContents
  Seeks,           \* offset and whence of the calls of lfs_file_seek
  Avoided,         \* what is kept from happening, as it is not borne: of
                   \* "worn", "shared" and "block end"
  Setup, MaxCalls, \* bound: the calls made first, and how many after them
  MaxWorn, MaxCrashes

VARIABLES
  flash, worn,     \* the words of all blocks; blocks that are worn out
  rc, free,        \* lfs->rcache and the allocator
  disk,            \* the entries of the files
  files,           \* what is in lfs->mlist
  failed,          \* handles a call has failed on
  got, turn,       \* what the last call returned, and its number
  stored, opened,  \* the variables of LfsContents
  spare,           \* blocks that were free when a call found none
  crashes

vars == <<flash, worn, rc, free, disk, files, failed, got, turn, stored, opened, spare, crashes>>

-----------------------------------------------------------------------------
NoEntry == [type |-> "none", head |-> NullBlock, size |-> 0, data |-> <<>>]

Init ==
  /\ flash = [b \in Blocks |-> [k \in 0..BlockSize - 1 |-> Erased]] /\ worn = {}
  /\ rc = NoCache
  /\ free = [off |-> 0, size |-> 0, i |-> 0, ack |-> BlockCount, buffer |-> {}]
  /\ disk = [g \in Files |-> NoEntry] /\ files = [h \in {} |-> 0]
  /\ failed = {} /\ spare = {} /\ got = [res |-> "ok", data |-> <<>>] /\ turn = 0 /\ crashes = 0
  /\ stored = [g \in Files |-> <<>>] /\ opened = [h \in Handles |-> <<>>]

State == [flash |-> flash, worn |-> worn, rc |-> rc, free |-> free, disk |-> disk,
          files |-> files, err |-> "ok", out |-> <<>>, early |-> FALSE,
          taken |-> {}, spare |-> {}]

(* The contents of a list of blocks, by the first pointers alone.          *)
RECURSIVE StartOf(_)
StartOf(i) == IF i = 0 THEN 0
              ELSE StartOf(i - 1) + BlockSize - (IF i = 1 THEN 0 ELSE Ctz(i - 1) + 1)

Header(i) == IF i = 0 THEN 0 ELSE Ctz(i) + 1
BlockOf(pos) == CHOOSE i \in 0..BlockCount : StartOf(i) <= pos /\ pos < StartOf(i + 1)

RECURSIVE Listed(_, _, _, _, _)
Listed(fl, c, head, i, size) ==
  LET here == [k \in 1..size - StartOf(i) |-> Held(fl, c, head, k - 1 + Header(i))]
  IN  IF i = 0 THEN here
      ELSE Listed(fl, c, Held(fl, c, head, 0), i - 1, StartOf(i)) \o here

WordsOf(fl, c, head, size) ==
  IF size = 0 THEN <<>> ELSE Listed(fl, c, head, BlockOf(size - 1), size)

Contents(fl, f) ==
  IF Has(f, "INLINE") THEN [k \in 1..RawSize(f) |-> f.cache.buf[k - 1]]
  ELSE LET new == IF Has(f, "WRITING") THEN WordsOf(fl, f.cache, f.block, f.pos) ELSE <<>>
           old == WordsOf(fl, NoCache, f.head, f.size)
       IN  IF Len(new) >= f.size THEN new
           ELSE new \o SubSeq(old, Len(new) + 1, Len(old))

(* The variables of LfsContents.                                           *)
StoredIn(s) ==
  [g \in Files |->
     LET e == s.disk[g]
     IN  IF e.type = "none" THEN <<>>
         ELSE IF e.type = "inline" THEN <<e.data>>
         ELSE <<WordsOf(s.flash, NoCache, e.head, e.size)>>]

OpenedIn(s, bad) ==
  [h \in Handles |->
     IF h \notin DOMAIN s.files THEN <<>>
     ELSE LET f == s.files[h]
          IN  <<[file |-> f.file, mode |-> f.flags \cap UNION Modes,
                 data |-> IF h \in bad THEN <<>> ELSE Contents(s.flash, f),
                 pos  |-> f.pos, good |-> h \notin bad]>>]

Shows(s) == stored' = StoredIn(s) /\ opened' = OpenedIn(s, failed')

(* The calls of Setup come first, and MaxCalls more after them.            *)
Made(kind, h, arg) == [kind |-> kind, h |-> h, arg |-> arg]

May(kind, h, arg) ==
  /\ turn < Len(Setup) + MaxCalls
  /\ turn < Len(Setup) => Setup[turn + 1] = Made(kind, h, arg)

(* "worn": a block wears out just when the allocator would miss blocks of  *)
(* the file (Early).                                                       *)
Becomes(s) ==
  /\ "worn" \in Avoided => ~s.early
  /\ flash' = s.flash /\ rc' = s.rc /\ free' = s.free
  /\ disk' = s.disk /\ files' = s.files
  /\ turn' = turn + 1
  /\ Shows(s) /\ spare' = s.spare
  /\ UNCHANGED <<worn, crashes>>

Result(e) == IF e \in {"ok", "FBIG", "INVAL"} THEN e ELSE "failed"

Calls(h, s) ==
  /\ failed' = IF Result(s.err) = "failed" THEN failed \cup {h} ELSE failed
  /\ got' = [res |-> Result(s.err), data |-> s.out]
  /\ Becomes(s)

Unopened(s, h) == [s EXCEPT !.files = [e \in DOMAIN @ \ {h} |-> @[e]]]

(* "shared": of two handles on one file each takes the blocks of the other.*)
Alone(g) == \A e \in DOMAIN files : files[e].file # g

-----------------------------------------------------------------------------
FileOpen(h, g, mode) ==
  /\ May("open", h, <<g, mode>>)
  /\ h \notin DOMAIN files
  /\ "shared" \in Avoided => Alone(g)
  /\ failed' = failed \ {h}
  /\ LET new == disk[g].type = "none"
         refused == IF new THEN "CREAT" \notin mode ELSE "EXCL" \in mode
         entry == IF new THEN Empty ELSE disk[g]
     IN  \/ refused /\ Becomes(State) /\ got' = [res |-> "refused", data |-> <<>>]
         \/ ~refused /\ got' = [res |-> "ok", data |-> <<>>]
            /\ Becomes([State EXCEPT
                 !.disk[g] = entry,
                 !.files = [e \in DOMAIN @ \cup {h} |->
                              IF e = h THEN RawOpen(g, entry, mode) ELSE @[e]]])

FileClose(h) ==
  /\ May("close", h, 0)
  /\ failed' = failed \ {h}
  /\ LET s == RawSync(State, h)
     IN  /\ Becomes(Unopened(s, h))
         /\ got' = [res |-> Result(s.err), data |-> <<>>]

FileSync(h) ==
  /\ May("sync", h, 0)
  /\ Calls(h, RawSync(State, h))

FileRead(h, n) ==
  /\ May("read", h, n)
  /\ Has(files[h], "RD")
  /\ Calls(h, RawRead(State, h, n))

Words(t, n) == [k \in 1..n |-> 100 * t + k]

FileWrite(h, n) ==
  /\ May("write", h, n)
  /\ Has(files[h], "WR")
  /\ Calls(h, RawWrite(State, h, Words(turn, n)))

(* "block end": a file that was read to the end of a block is still in     *)
(* that block, though its position is in the next.                         *)
AtEndOfBlock(f) == Has(f, "READING") /\ ~Has(f, "INLINE") /\ f.off = BlockSize

FileSeek(h, off, whence) ==
  /\ May("seek", h, <<off, whence>>)
  /\ "block end" \in Avoided => ~AtEndOfBlock(files[h])
  /\ Calls(h, RawSeek(State, h, off, whence))

(* "block end": a file that is cut there keeps the block behind.           *)
EndsBlock(f, size) ==
  /\ size > 0 /\ size < RawSize(f)
  /\ CtzIndex(size).index # CtzIndex(size - 1).index

FileTruncate(h, size) ==
  /\ May("truncate", h, size)
  /\ Has(files[h], "WR")
  /\ "block end" \in Avoided => ~EndsBlock(files[h], size) /\ ~AtEndOfBlock(files[h])
  /\ Calls(h, RawTruncate(State, h, size))

FileRewind(h) ==
  /\ May("rewind", h, 0)
  /\ "block end" \in Avoided => ~AtEndOfBlock(files[h])
  /\ Calls(h, RawSeek(State, h, 0, "SET"))

WearOut(b) ==
  /\ turn >= Len(Setup) /\ turn < Len(Setup) + MaxCalls
  /\ Cardinality(worn) < MaxWorn
  /\ worn' = worn \cup {b}
  /\ UNCHANGED <<flash, rc, free, disk, files, failed, got, turn, stored, opened, spare, crashes>>

(* The allocator starts at a block that depends on what is on disk.        *)
Crash ==
  /\ turn >= Len(Setup) /\ turn < Len(Setup) + MaxCalls
  /\ crashes < MaxCrashes /\ crashes' = crashes + 1
  /\ rc' = NoCache /\ files' = [h \in {} |-> 0] /\ failed' = {}
  /\ \E b \in Blocks : free' = DroppedWindow([free EXCEPT !.off = b, !.buffer = {}])
  /\ got' = [res |-> "ok", data |-> <<>>] /\ turn' = turn + 1
  /\ opened' = [h \in Handles |-> <<>>]
  /\ UNCHANGED <<flash, worn, disk, stored, spare>>

Next ==
  \/ \E h \in Handles, g \in Files, m \in Modes : FileOpen(h, g, m)
  \/ \E h \in DOMAIN files : FileClose(h)
  \/ \E h \in DOMAIN files : FileSync(h)
  \/ \E h \in DOMAIN files, n \in Sizes : FileRead(h, n)
  \/ \E h \in DOMAIN files, n \in Sizes : FileWrite(h, n)
  \/ \E h \in DOMAIN files, w \in Seeks : FileSeek(h, w[1], w[2])
  \/ \E h \in DOMAIN files, p \in Places : FileTruncate(h, p)
  \/ \E h \in DOMAIN files : FileRewind(h)
  \/ \E b \in Blocks \ {0, 1} : WearOut(b)
  \/ Crash

Spec == Init /\ [][Next]_vars

-----------------------------------------------------------------------------
(* Every call, block that wears out and loss of power is one step of       *)
(* LfsContents or none.                                                    *)
OpenFiles == INSTANCE LfsContents
ContentsKept == OpenFiles!Spec

(* Blocks the entries on disk lead to are never written or erased.         *)
StoredStaysUntouched ==
  [][\A b \in UsedOnDisk(State) : flash'[b] = flash[b]]_vars

(* "LFS_ERR_NOSPC: No space left on device": a call that finds no space    *)
(* has none to find.                                                       *)
FailsOnlyWhenFull == spare = {}

TypeOK ==
  /\ \A b \in Blocks, k \in 0..BlockSize - 1 : flash[b][k] \in Int
  /\ \A h \in DOMAIN files :
       /\ files[h].pos \in 0..FileMax /\ files[h].size \in 0..FileMax
       /\ Used(State) \subseteq Blocks
  /\ free.off \in Blocks /\ free.i \in 0..free.size /\ free.ack \in 0..BlockCount

(* The window of the allocator stays on the device, and the device is full *)
(* when the allocator says so, for as long as no block has worn out: a     *)
(* block to replace a worn one is looked for with no lfs_alloc_ack before, *)
(* behind a part of the window that may be out of date.                    *)
AllocatorKeepsCount ==
  /\ TypeOK /\ Within(free) /\ Ready(free) /\ Trusted(free, Used(State))
  /\ worn = {} => FailsOnlyWhenFull
=============================================================================
