# The MIDI sequencer IO unit in TLA+

The firmware under `src/Firmware` turns an ESP32-S3 into a Bluetooth MIDI
player. A client streams a track over BLE; the unit keeps it in external RAM and
plays it on a MIDI output while the rest is still arriving. This directory
models that program, checks the models with TLC and proves the core of it with
TLAPS. Paths below are relative to `src/Firmware`.

## 1. The system

| Part | Code | State | Operations |
|---|---|---|---|
| Application loop and player | `components/system/system.c` | `isPlayingBack`, `waitingForDeltaTimer`, `midiPlaybackRuntimeData_t` (pointer, running status, delta-time, `bytesToSend`, `totalDataLength`) | take a command off the queue (97-128), play one event (154-331), skip a meta event (335-440), decode a delta-time (490-530) |
| Delta timer and UART | `components/system/systemLowLevel.c` | the gptimer's count and alarm, `deltaTimerFired` | start (31-39), interrupt (16-21) |
| GATT server | `components/blePeripheralServer/gatt_svr.c` | `characteristic_eventBuffer`, `playbackWritePtr`, `playbackPayloadsReceived` | one access callback (100-166) |
| BLE API task | `components/blePeripheralServer/blePeripheralServer.c` | none after its answer | start NimBLE, answer (70-122) |
| GAP callback | same file | held by the NimBLE host: advertising, connection | advertise (221-297), events (314-418), sync and reset (421-452) |
| `app_main` | `main/main.c` | the two queues, the task | boot (29-90) |
| File system component | `components/fileSys/fileSys.c` | `fileSysLocalData`, `fileSysInterfaceData`, `runOnceFlag`, one open `FILE` | init, de-init, open, read, write, rewind, close, delete |
| esp_littlefs | `components/esp_littlefs/src/esp_littlefs.c` | `_efs[]` (a context for each partition), `cache`, `file` list and `fd_count` of a context, directory offsets | register, format, unregister (251-420, 560-745), the VFS callbacks (949-1785) |
| littlefs | `components/esp_littlefs/src/littlefs/lfs.c` | `lfs_t` (caches, lookahead, `gdisk`/`gstate`/`gdelta`, `mlist`), the flash | the block allocator (490-600), metadata logs (605-1737), commits (1738-2385), directories and files (2390-3860), traversal and repair (4245-4560) |

How they interact:

* The **NimBLE host task** (core 1) runs the GATT and GAP callbacks. A write of
  the client to the event-buffer characteristic is a header (flags, opcode) and
  data. Flags 0x20 and 0x10 copy the data into the playback buffer; then an item
  goes onto `blePeriph_bleToAppQueue`. A full queue drops it.
- The **application loop** (core 0) takes at most one item per turn, then gives the
  player one turn, then sleeps a tick. It shares with the host task the playback
  buffer (no lock) and the queue. It does not look at how much has arrived.
- The **timer interrupt** sets `deltaTimerFired`, which the loop clears.
- The **boot** uses the same queue for the BLE task's answer (a dummy item).
- The **file system component** is not called by the application yet; it stands by
  itself over the C library's files, which the VFS hands to **esp_littlefs**: a
  lock for each context around each call, and a call of **littlefs** under it.
  Any task can make such calls, also those that mount, format and unmount.
- **littlefs** is called by one task at a time. It keeps a directory as a chain of
  metadata pairs, each a log of commits in two blocks that take turns; all pairs
  are threaded from the superblock on; a file is a skip-list of blocks. What has to
  change in several pairs is announced in a global state of which each pair holds a
  share. Open files and directories are in a list that every commit puts right.

What is hard here: the host task, the loop and the interrupt interleave over
shared flags and an unlocked buffer; the client can stop, start and restart a
stream at any moment; the byte format has state of its own (running status) that
player and instrument must keep in step; queue overflow and short writes are
silent; library calls fail in the middle of an operation; the unit restarts while
its client goes on; power goes between any two programs of the flash, and a block
wears out while it is written. `PROJECT.json` lists each such place with its line under
`hazards` and the properties aimed at it.

What makes each part correct:

- player: the instrument hears each voice message of the track once, whole and
  in order; the pointer never slips; every wait ends, and not early;
- delta-times: the value and the bytes consumed are those of the MIDI format;
- GATT server: the buffer holds what was streamed, at the offset it belongs;
- whole unit: what is heard is the stream, as long as it keeps ahead; counts agree;
- boot: the loop starts with a published buffer, and without the dummy item unless
  a client's item was taken for it;
- GAP: the unit is connected, advertising, or about to advertise;
- files: nothing but a delete takes bytes away, and the cache is the directory;
- esp_littlefs: a descriptor leads to its file and a prefix to a context that is there;
- littlefs: every call happens at once or not at all, for the names
  (`LfsNamespace`) as for what is in the files (`LfsContents`), whatever wears out
  and whenever power is lost, and what is to be repaired is known and repaired.

## 2. Modules

| Module | Models | Notes |
|---|---|---|
| `MidiTrack` | the byte format as `system.c` reads it; what a track is | pure operators |
| `TrackPlayer` | abstract: a list of events played one after the other | |
| `Playback` | loop, player, timer, interrupt, byte by byte | implements `TrackPlayer` |
| `PlaybackCorrect` | properties of `Playback`, refinement mapping, its inductive invariant `IInv` | |
| `DeltaTime`, `DeltaTimeProofs` | `getMidiDeltaTime` step by step, with its shifts and masks | against `MidiTrack!DeltaLen`/`DeltaValue` |
| `GattServer` | the access callback and the streaming client | |
| `Sequencer` | `Playback` + `GattServer` over one buffer and one queue | the composition |
| `SequencerInv`, `SequencerProofs` | its inductive invariant; theorems about `Playback` and about it | |
| `Recursion` | induction up to a number; recursive functions and folds | lemmas of the proofs |
| `Boot`, `BootProofs` | `app_main`, BLE task, clients during boot, restarts | |
| `GapAdvertising`, `GapProofs` | advertising and GAP events | |
| `FileStore` | abstract: files keep what is in them | |
| `FileSys` | the file system component with failing library calls | implements `FileStore` |
| `FileSysCorrect`, `FileSysProofs` | its properties and the refinement; the proofs | |
| `EspContext` | the table of partitions, registering, formatting, unregistering | several steps each, little of it under a lock |
| `EspFiles` | descriptors, open, close, transfers | extends it |
| `EspLittlefs`, `EspProofs` | calls on paths and directories, all tasks | the composition; theorems about it |
| `LfsNamespace` | abstract: a tree of names | |
| `LfsLog` | the log of a metadata block: search, scan, traversal, compaction; and its replay, for reference | pure operators |
| `LfsDir` | one directory as pairs of logs: append, compact, split, relocate, drop | what a commit is made of |
| `LfsThread` | the tree and the thread of all pairs | pure operators |
| `LfsCommit` | commits as single steps, relocation and repair | |
| `LfsTree` | the calls that change names | implements `LfsNamespace` |
| `LfsAlloc`, `LfsFlash`, `LfsCtz` | the allocator, the caches over the flash, skip-lists | pure operators |
| `LfsProofs` | theorems about `LfsLog` and `LfsAlloc` | |
| `LfsContents` | abstract: open files are copies, stored when synchronised | |
| `LfsFile`, `LfsFiles` | the `lfs_file_raw` functions; calls, worn blocks, loss of power | implements `LfsContents` |
| `TrackBuilder`, `MC*` | tracks and instances for TLC | no model of code; `Boot` and `DeltaTime` run with the constants of their cfg |

Some definitions stand directly before another of the same parameters and are
used nowhere: `DueAlways`, `CopyToNext`, `TakeAnswer`'s `PeekAnswer`, `FreeFdListed` and so on.
They are the mutants of `PROJECT.json`: each is the mistake a property would find.

### Correspondence with the code

**Playback.** One action per stretch of the loop that the interrupt can tell
apart: `ReceiveNothing`/`ReceiveCommand` (`system.c` 97-128), `NotDue` or one of
`PlayMeta`, `PlayVoice`, `FindRunningStatus` (130-330), then for a voice message
with a delta-time `ArmWait` (290-291), `StartTimer` (292 and `startDeltaTimer`),
and `SendMessage` (296-321). The player's fields keep their names; `playbackPtr` is
an offset from `playbackDataBASE`. `bytesToSend` keeps its width (`% 256`). The UART
is an instrument that applies MIDI running status to the bytes it gets (`Wire`).
`TimerTick` counts the alarm down; the alarm is a single shot. Two facts about the
platform are assumed: `gptimer_start` on a running timer changes nothing, and
the initialiser `.playbackDataBASE = playbackDataStore.playbackPtr`
(`system.c` 74) sees the pointer assigned on the line before, as GCC compiles it.

**GattServer.** `Access` is the callback up to the item; `Post` is
`xQueueSendFromISR`, a step of its own because the other core can run in between.
A write of less than four bytes changes only the event buffer. `dataLength` of an
item with other flags is never set: any of `JunkLengths`. The client is external:
it does what the flags and the loop's opcodes ask for, and may change its mind.

**Sequencer.** `LoopStep` is `Playback!Loop` and is followed only while the bytes
of the event the player turns to have arrived (`EventArrived`); otherwise
`Underrun` records that the player has overtaken the stream. `lost` also records
the start of another track under a player that is not at the beginning (a start does
not rewind). What the player does with bytes that are no longer a track's is
outside the properties: they are stated for `lost = "no"`.

**Boot.** Program counters for `app_main` and the BLE task; the pointers are
"nothing" or the buffer; queue items are known by their origin. `broken` fixes
what fails in this unit (queue or task creation, no PSRAM, a host start of more
than five seconds). A copy through a pointer to nothing is `panic`. Clients
write whenever the host runs. `answered` and `hasty` are history variables: whose item
`app_main` took for the answer, and whether a client has written while it waited.
`streaming` remembers whether the client's stream was begun before the last restart,
which it may go on with.

**GapAdvertising.** The radio stops advertising by itself when a central
connects, and reports in a FIFO of events. `Advertise` may be refused (`MayRefuse`;
`refused` is a history variable, and so is `unheard`: a connection has failed with a
status the callback does not know). The callback's branches are `OnConnect`,
`OnDisconnect`, `OnAdvComplete`, `OnOther`. A host reset empties the queue and ends
link and advertising; only `Sync` starts again. NimBLE is not part of the
repository; it is modelled from the callbacks it makes.

**FileSys.** `sys` holds both structures, the `FILE` (`live`, `position`) and
`runOnceFlag`; `disk` maps each file to its size. Every public operation is one
action that runs to its end: a forced close before an open, the refresh before
and after a delete, the close after a write are inside it. `Failing` names the
library calls that can fail. Both `AUTO_CLOSE_*` macros are defined, so those
branches are the ones modelled. The 30-byte `memset` of a 20-byte row
(`fileSys.c` 177) is modelled by what it hits: the beginning of the next row, or,
behind the last row, the ten characters `/littlefs/` of `openFilePath`. Sizes are added
as the code adds them, modulo `Word` (`Sum32`), which stands for 2^32. `failed` is a
history variable: which of stat, write and close have failed so far. After
`fclose` has failed the handle stays and the `FILE` is never used again: what a
second `fclose` or a write through it does is undefined.

**EspContext, EspFiles, EspLittlefs.** A pointer is the context or file it points
to; memory that was freed is `None`, and following it sets `fault`, after which
nothing happens. `esp_littlefs_init` holds the global lock and is part of one step;
`esp_vfs_littlefs_register` goes on without it (`RegisterVfs`), and formatting and
unregistering never take it, so that they are cut where another task can come in
(`FormatBegin`, `FormatErase`, `FormatRemount`). Between the line that puts a new
context into its slot (669) and the end of its mount only a client that manages a
partition somebody else is registering could come in; the model lets that one in after
the mount, while the task is at "register". A call on a file is one step under
the context's lock; `holder` remembers a lock that is not given back. `mishap` is
chosen once: it is the one thing that may go wrong, or that clients do though they
should not, in a behaviour, and the properties name the mishaps they bear; "dont_mount"
is a client that registers a partition unmounted and uses it all the same. littlefs
below is a tree of names; contents are whether something is unwritten (`dirty`). A
directory's `offset` is the glue's own count, `last` littlefs's place.

**LfsLog, LfsDir.** Tags are records and every tag takes one unit. `Lookup` is the
backward search of `lfs_dir_getslice` (`SearchStep`: the id looked for less `gdiff`);
`Match` the forward scan of `lfs_dir_fetchmatch` with `lfs_dir_find_match`
(`ScanStep`); `Left` is `lfs_dir_traverse` with its filter. The code filters one tag at a
time by all those behind it; `Leaving` lets each tag filter all those in front of it,
which is the same in another order. `Replay` is what a log means, for reference. A
call is `Call`, `ForceConsistency`, `Do` (which prepares the commit: `Launch`), then
`AppendCommit` or `AppendUncommitted`, `Compact`, `WriteTail`, `WriteOwn`, or one of
the failures. `Crash` may leave any prefix of the tags being written (`Torn`).
Revisions are kept modulo `RevModulus` and wrap. The directory is the root; its
superblock is never expanded. `Careful` keeps the client from what littlefs does
not bear (section 3).

**LfsThread, LfsCommit, LfsTree.** Here a commit is one step, an entry goes by its
name, and several directories lie in the thread. `FirstWrite` is the commit
proper, with any outcome (in place, compacted, split, relocated); `RelinkParent` and
`RelinkPred` are the two commits that put a relocated pair right, `Scan` one turn of
`lfs_fs_deorphan`. `op` and `pc` follow `lfs_mkdir`, `lfs_remove` and `lfs_rename`
through their commits. `ram` has the copies of pairs a call holds in its local
variables, `hooked` those that are in `lfs->mlist` and so are kept up to date.
Orphans are counted in RAM; what is written of the count is whether there are any
(1838, 2077), so that `Mount` finds one or none.
`tree`, what a mount would show, is the variable of `LfsNamespace`.

**LfsAlloc to LfsFiles.** `free` is `lfs->free`; a try of `Alloc` goes through its window,
the next one (`Again`) refills it by `Advanced` first, until a block is found or `ack`
is 0. `flash` is an array of
words that are programmed through `pcache` and read through `rcache`; a word
programmed without an erase, or in a worn block, is `Junk`. `RawWrite`, `RawRead`,
`RawFlush`, `RawSync`, `RawSeek` and `RawTruncate` are the functions of the source
over the whole state; each call is one step. That losing power within a call is
losing it before or after rests on `StoredStaysUntouched`, which is checked. The
commit that stores an entry is taken from `LfsDir`: it happens or not. No file is
removed here, so that the test for a removed one (3207) is not in `Committed`; `LfsDir`
has open files whose entry is removed.

## 3. Runs

Passing runs:

| Run | Instance and bounds | What it shows |
|---|---|---|
| `play` | two tracks (running status, meta events, delta-times of one to four bytes), queue of 2, start/continue/stop; 13 000 states, under fairness | `PlaysTheTrack` (refinement of `TrackPlayer`), `IInv`, `OnEventBoundary`, `NoLostWakeup`, `SameRunningStatus`, `TrackEnds` |
| `delta` | all combinations of four border bytes | `DecodesDeltaTimes`: the C code's shifts give length and value of `MidiTrack`, and the value of `midiNotes.txt` |
| `sequencer` | payloads of 6 bytes, three tracks of one or two payloads whose events straddle them, with a short first payload and a last one of one byte, queue of 2, 251 000 states, under fairness | `HearsTheStream`; `StreamInPlace`: the buffer holds what was streamed and the next payload fits; `NoWaitCutShort` until a stop has left an alarm; `TotalAccountsForCopies`, `PlaybackComesToAnEnd`, `StartIsHeard` |
| `boot` | every subset of the faults, clients that write at any time, queue of 2, two restarts | `OneAnswer`: one item answers, and if it is not the dummy then a client has written too early; `CopiesHaveABuffer`: once the loop runs no payload goes through an unset pointer, but for a stream that was begun before a restart; `BootEnds` |
| `advertising` | statuses 0, 1 and 2, three other events, five events on their way, calls may be refused | `KeepsAdvertising`: the unit is reachable exactly as long as no call was refused and no status passed over; `ResumesWhenSilent`, `StaysReachable` |
| `files` | three names, room for two files, sizes below 3, a partition of 3, failing register, open, stat, write, close, remove, unregister | `CacheIsTrue`: the cache is the directory, and until a close has failed the file shown is the one that is open; `FilesAreKept` (refinement of `FileStore`); `FilesStayBelowMaximum` until a stat has failed or a write was cut short |
| `vfs` | two tasks, one partition in a table of one or two slots, two contexts, two files, a cache of one that grows; names 1, 2, 1/1; 162 000 states | `DescriptorsHold`: array, list and count of the open files agree and descriptors lead home; `ContextsStand`: the VFS, the table and the contexts are one and no dead pointer is followed; `OffsetTellsPlace`, `KeptUnderItsName` |
| `lfs_dir` | three names, five blocks of twelve tags, a block relocated every second erasure, revisions modulo 16; two or three files are created undisturbed, then two calls, one failing write, power lost anywhere, in a split too; 181 000 states | `CommitsAreAtomic`: a mount shows the directory before or after the call, and after it once it has returned; `LogsReadRight`: searches find what a replay finds, in order, and every log and commit is as the theorems about logs assume (`LogsAreSound`); `OpenFileKeepsEntry`, `ListingKeepsPlace`, `ListedOnce` for what is open meanwhile |
| `lfs_tree` | three names, 13 blocks, directories 1, 2 and 1/1, then two calls with up to two compactions, splits or relocations and one loss of power; 166 000 states | `NamespaceKept` (refinement of `LfsNamespace`), `OrphansAreFlagged`, `NoStaleCommit`, `BlocksStayTaken`; `RepairsAreDone`: the search for orphans ends, and a call leaves none |
| `lfs_files` | eight blocks of eight words, caches of four, a lookahead of three, a stored file of three blocks, then three calls on two handles, a worn block, a loss of power; 23 000 states | `ContentsKept` (refinement of `LfsContents`), `StoredStaysUntouched`; `AllocatorKeepsCount`: the window is as the theorems about `lfs_alloc` assume, and no call finds the device full that is not, while no block has worn out |

Runs that must find a violation, each a place where the code does not do what a
comment or the notes beside it say (details in `PROJECT.json`, `findings`):

| Run | Property | In short |
|---|---|---|
| `running_delta` | `EveryDeltaIsWaitedFor` | the delta-time of an event under running status is not waited for |
| `last_file` | `OpenFileIsShown` | creating the last file wipes `openFilePath` |

Other deviations met while reading and modelling, which bound what the runs and
proofs above can claim. They have no run of their own; where a condition keeps them
out, it is named:

- A stop leaves the alarm of a wait set, and it ends a wait of the next playback
  (`system.c` 116; `midiNotes.txt` 52). Kept out of `NoWaitCutShort` by `stale`.
- A failed connection with a status other than 1 ends advertising for good
  (`blePeripheralServer.c` 336, against the comment at 373). The run has status 2, and
  `KeepsAdvertising` says that this is just when advertising ends (`unheard`).
- A client that writes while `app_main` waits has its item taken for the answer, and
  the loop gets the dummy, whose opcode nobody has set (`main.c` 83). `OneAnswer`
  says when. If it begins a stream, the copy goes through a null pointer: a `panic` in
  the boot, which `CopiesHaveABuffer` leaves out.
- FF 00 (sequence number) is skipped one byte short (`system.c` 363; the comment
  at 351 says the pointer is then at the next event). A text event of 128 bytes or more
  has a two-byte length and one is read (379). FF 7F is logged and not skipped
  (430, against 338). F0 and F7 are taken for running status (322, against 326).
  Kept out by `SupportedAssumption`.
- A stream that goes on after the unit has restarted is copied through a null
  pointer (`gatt_svr.c` 146). Kept out of `CopiesHaveABuffer` by its condition on
  `streaming`.
- A write cut short is not added to the size that is checked (`fileSys.c` 283,
  against 270), and bytes that overwrite others are (284, against 184). The first is
  kept out of `FilesStayBelowMaximum` by its condition, the second errs on the safe side.
- When the directory cannot be read at mount (460), or the partition's size cannot
  (450), the unit goes on with an empty cache, and opening a file for creation cuts
  the one that is there (155). `opendir` and `info` are not in the run's `Failing`.

esp_littlefs (`esp_littlefs.c`); `mishap` names what the properties leave out:

- Registering a partition twice frees its mounted context under the VFS (586-597,
  697; `esp_littlefs.h` 34 promises an error). Formatting, unregistering and
  `esp_littlefs_info` take no lock (299, 318). When `lfs_format` fails, a temporary
  context keeps its slot, or a registered one stays unmounted (375-379).
- `pread` and `pwrite` keep the lock when a seek fails (1119, 1177). A close that
  fails leaks descriptor and structure, and its path stays busy (1232).
- Memory that runs out while registering leaves the context on the heap (626-666).
- A descriptor as large as the cache passes the check, and an entry of the cache is
  followed without looking whether it is NULL (1042 and the other calls).
- `O_APPEND` beside another flag is lost (552). A path spelled another way, or
  whose parent was renamed, is not recognised as open (924, 1411). An offset of
  `telldir` does not allow for entries deleted before it (1608). A directory can be
  renamed to below itself and is lost.

littlefs (`lfs.c`). With `Careful = FALSE`, or one of `Avoided` left out, the model
shows each; the cfg files keep them out:

- `lfs_commitattr` (3864) does not finish a pending move first: after a loss of power
  in the middle of a rename an attribute goes to another entry.
- A rename that fails after `lfs_fs_prepmove` leaves the move in `gstate`. Removing the
  entry an open listing stands at makes its next read fail; an open file that was
  removed can come to be fixed to another's id (2128).
- A loss of power between the two commits of a relocation, then another while it is
  repaired, can drop a directory; a relocation within one can leave entry and thread
  apart and unflagged (2269, 2337); the assertion at 2032 can be reached.
- A block that wears out as its first word is programmed makes the traversal
  leave out a block of the file, which is then handed out ("worn").
- A block to replace a worn one is looked for without `lfs_alloc_ack` (2698, 3032):
  blocks of the window that were freed since it was filled are passed over, and a write
  can fail with `LFS_ERR_NOSPC` while one is free. Once a block has worn out
  `AllocatorKeepsCount` promises the window only; with nine blocks and a lookahead of nine it takes a
  file of three blocks and one of one written twice each, the second longer, and then a worn block.
- Two handles on one file each take the other's blocks for free ("shared").
- A file truncated to the end of a block keeps the block behind as its head, and one
  read to the end of a block is still in it when it seeks ("block end", 3521-3574).

### Why the bounds are enough

- *Tracks.* The player's control depends on the kind of an event, whether its
  delta-time is zero, its number of data bytes and the kind of its neighbours. The
  tracks hold every kind and every pair that matters (running status after three-
  and two-byte messages and across a meta event, a meta event first). The theorems
  cover all tracks of supported events.
- *Delta-times* are a few ticks, so that commands and alarms fall before, between
  and after each other; `delta` deals with large ones.
- *Queue* of 1 or 2 instead of 10: every run fills it, which ten would do later.
- *Payloads* of 6 bytes instead of 510: offsets are multiples of a constant; the
  tracks make a first payload short, and last ones full, partial and of one byte.
  More than two of them are for the theorems (`StreamStaysInPlace`).
- `MaxTotal` caps the announced length, which nothing but its own sum reads.
- *Files.* Two rows show first, last and next row; three names leave one without
  a row. Sizes stay below 3, so that two files can fill a partition of 3.
- *Events* of the radio: at most one of those that matter can be on its way
  (`ResumesWhenSilent`, proved for every bound); five leave room around it.

- *esp_littlefs.* Two tasks are enough for every pair of steps; the cache of one grows
  with the second file; two slots and two contexts let a dead pointer and a live one
  exist together. One mishap a behaviour, since after one the properties say less.
  Among the bounds in the guards, which the theorems share: directories are read
  while no file is open, and none is made in the behaviours in which a partition in
  use is formatted, where all that matters of the tree is that it is emptied.
- *Directory.* Three names in blocks of twelve tags fill a block by their creation, so
  that any call after them appends, compacts or splits, and five blocks leave just
  one pair for a split or a relocation. One failing write and any number of losses of
  power; what a second failing write meets is a state the first one leaves or none.
- *Tree.* A directory in a directory next to another is the smallest tree in which
  parent, predecessor and entry can be three, two or one pair. Two outcomes other
  than an append let one relocation bring about another. Thirteen blocks never run out.
- *Files.* Three blocks need two pointers in the last one; eight blocks leave three
  free ones, fewer than a copy of the file and the metadata needs, so the device is
  full in some behaviours; a lookahead of three wraps round it.

### Fairness

`WF` of the loop (`vTaskDelay` returns, the task has core 0), of the timer (a
hardware counter), of the host task's `Post`, and in `Boot` and `GapAdvertising` of
the tasks and the host's event loop. None on the client, the radio, power or
failures. `TrackEnds` needs no strong fairness: a wait always has a timer running.

No fairness is stated for the file systems: their properties are safety, and that
the search for orphans ends is a bound on what it finds (`RepairsAreDone`).

The deadlock check is off in `MCBoot.cfg`: `app_main` may end in a loop that only
logs, and nothing else need happen then; in `MCEspLittlefs.cfg`, where a fault ends
all; and in `MCDeltaTime.cfg`, `MCLfsDir.cfg`, `MCLfsTree.cfg` and `MCLfsFiles.cfg`,
where the function returns or the bound on the calls is reached.

## 4. Proofs

All constants are arbitrary within the named `ASSUME`s.

**Player** (`SequencerProofs`). `IInv` says: there is an event `i` of the track such
that, between turns, the pointer is at its delta-time or, under running status,
at its data; the remembered status is the one in force and the instrument's; and
within a turn the event is the one being sent, with the right number of bytes
(`Turn`). It also says that the buffer is the track's image and that a wait has a
timer (`WaitInv`). `OnEventBoundary` is not inductive: without the status in
force the length of an event under running status is unknown, and without the steps
within a turn nothing is known after a send. From `Invariance` follow
`TypeCorrect`, `StaysOnBoundary`, `WaitsEnd`, `StatusAgrees`, and `Implements`:
`Playback` implements `TrackPlayer` under the mapping `next <- Position`,
`playing <- isPlayingBack`. Parsing a voice event and a running status map to
stutters, `SendMessage` to `PlayEvent`, `PlayMeta` to `PlayEvent` or `Finish`.
Assumed: every track is laid out as `IsTrack` says and consists of supported events
(`SupportedAssumption`: voice, running status, end, and meta events of a skipped
type with a one-byte length); the first deviations listed in section 3 are why.

**Delta-times** (`DeltaTimeProofs`). `Decodes`: whatever bytes there are, the shifts
and masks of `getMidiDeltaTime` give the length and the value that `MidiTrack` says,
and so does the formula of `midiNotes.txt`. `MidiTrack` adds up groups of seven bits
recursively; the proof unfolds it once for each of the four bytes.

**The whole unit** (`SequencerProofs`, invariant in `SequencerInv`). For all tracks of
supported events, all sizes of payload and buffer and lengths of the queue:

- `StreamStaysInPlace`: what the callback has counted lies in the buffer, byte for
  byte, and the next payload fits behind it. `StreamInv` relates the callback's count
  of payloads to what the client has written, which differ after a last payload of
  one byte: with its header it is too short for the callback, which turns it away.
- `InstrumentHearsStream`: while the player keeps behind the stream and no other
  stream begins under it, the instrument has heard the messages in front of the
  pointer. `PlayerInv` is `Playback`'s `Turn`, and instead of the whole track in the
  buffer that the event of a turn once begun is there whole (`InMem`): its bytes are read over several steps, between which the
  other core copies payloads, but only behind those the callback has counted.
- `WaitsAreWhole`: no wait ends early until a stop has left an alarm. `AlarmInv` says
  where in a turn, and in which of the flags' combinations, an alarm can be set.
- `CopiesAreAccounted`: the loop's total with what the queue will add to it is what the
  callback has copied, unless an item met a full queue. `CountInv` follows the item
  from the callback (`OnItsWay`) on, and a start clears the debt.

`SystemInvariance` has the first three of these invariants with the types. Assumed: the tracks'
assumptions; a payload is of 2 bytes or more, and fits the buffer and 16 bits
(`PayloadAssumption`); the client sends start and continue only with a payload
(`CommandsApart`), since what either does without one is to play old bytes.

**Recursive definitions.** Sums over a queue and layouts of tracks are recursive
functions. `Recursion` has what their proofs need: the least number for which
something fails, taken from a *set* of numbers, in place of an induction rule; and
`TableExists`, by which `CHOOSE` in a recursive function has something to choose.
`FileSysProofs` does the same with sets of files for the sum `UsedBytes`. For a fold
over a sequence, whatever it folds with (`FoldStep`), it has the laws of one element
more, `FoldAppend` and `FoldBackAppend`; `LfsProofs` instantiates it for each fold
of `LfsLog`. Induction over a log is induction up to its length, of membership in a set
of logs (`SeqInduction`), since the provers cannot take a rule over predicates.

**Boot** (`BootProofs`). For every client, whenever it writes, `OneAnswer` is inductive
together with `TypeOK` (`BootInOrder`): the dummy is in the queue at most once, and while
`app_main` waits beside a client's item only if that client was hasty; where `app_main` has gone on it has taken
either the dummy, and then none is left, or such an item. `CopiesLand`
(`CopiesHaveABuffer`) adds `PointersSet`: a stream begun in this boot has set the
pointer it goes on with, unless its first payload ended the unit. There are no
assumptions beyond those on the constants; any of `Faults` may be broken.

**Advertising** (`GapProofs`). For every set of statuses the host may report:
`ResumesWhenSilent` is inductive with `TypeOK`, since the unit never advertises while
connected, which takes the fact that at most one event that resumes advertising is
under way; and with it `KeepsAdvertising`, in both directions: the unit stays reachable
as long as no call was refused and no status passed over, and no longer.

**File system** (`FileSysProofs`). Whatever library calls fail, `FilesGood` is
inductive: a `FILE` that is open belongs to a mounted partition and to a file on it
(`Sound`); what the interface shows as open is that file, until a close fails
(`Shown`); and the bytes counted for it cover the file, with the position inside it,
until a stat fails or a write is cut short (`Counted`). The count is what makes
`FilesStayBelowMaximum` inductive: the component checks it, never the file. From it
follow `SizesStayBelow` and `ShownIsOpen`. If the directory can be opened and the
partition's size be read (`Reliable`), the cache is the directory besides
(`CacheInv`): a listing is one row per name, after a create, a delete or a mount as
after the forced close that precedes them. Hence `CacheIsDirectory`, and
`ImplementsStore`: each operation maps to a step of `FileStore` or a stutter,
whichever of the other calls fail, since it opens, deletes and writes only what the
cache names. `CacheTellsTheTruth` (`CacheIsTrue`) adds the types of all fields: a
listing fits into the rows since there are no more files than rows, which the check of
the cache before a create keeps so. The sums of the check wrap (`Word`), and do not here:
the count is below the maximum size, and `WordAssumption` says that one write behind it
is within a word. Assumed besides: the maximum size of a file is not zero, names and limits as
`LimitsAssumption` and `DisksAssumption` give them.

**esp_littlefs** (`EspProofs`). For any number of tasks, partitions, slots, contexts,
files and names. `EspInductive`: `IInv` is inductive. Its parts beside the types are

- `TaskInv`: who formats a partition finds the context it took empty still, or gone, and
  is alone in it. Without it `FormatRemount` could put an empty cache over open files.
- `SlotInv`: a context in a slot is there and the only one of its partition; a pointer
  of the VFS to a context that is there leads to one in a slot; so does every file's.
- `FdsInv`: array, list and count of a context agree, neither names a file twice, and
  the list holds all files of the context, which makes a file that is not in use new
  to every cache.
- `HandleInv`: a descriptor leads to its file, and no two tasks share one; that
  includes the descriptor `vfs_littlefs_truncate` keeps between its steps.
- `VfsInv`, `FineInv`: what `mishap` rules out, for each of the calls under way. `FineInv`
  says that a context is unmounted only while someone formats it, so that nobody falls,
  if none was registered unmounted.

From these follow `DescriptorsLead` and `ContextsAgree`. `OffsetsTell` adds `PlaceInv`:
the entries up to `last` are as many as `offset` says, or all of them when it says
more, also where the directory itself was removed. `NamesKeep`, an action property, adds `NameInv`: every tree is closed (a path in it leads through directories),
and the entry of an open file is a file in the tree of its partition. That
is what keeps `vfs_littlefs_rmdir`, which asks nobody, away from open files;
`vfs_littlefs_unlink` and `vfs_littlefs_rename` are kept away by the cache. Most of its
proof is that `Move` leaves a tree closed and takes files where their entries go.
Assumed: `None` is none of the other values, the paths that clients name are within
`MaxDepth`, and there is a slot and room for a descriptor (`LimitsAssumption`).

**The log of a metadata block** (`LfsProofs`). Ids are positions: every create or
delete renumbers what the tags in front of it were about. `Replay` reads a log from its
beginning and keeps the list of entries; the code never does that. For every log:

- `SearchIsReplayed`, `GetIsReplayed`: the search backwards finds what the replay has.
  One step (`StepSeen`) either ends at the tag or goes on for the id the entry had
  before the tag, of which the replay up to there knows the same. `CountIsReplayed`: the
  count of a fetch is the number of entries.
- `TraversalShows`: the tags a traversal leaves say of each entry what there is
  (`SaysWhatIs`), all of it (`SaysAll`), once (`SaysOnce`), and its name first
  (`NamesFirst`). These go along the log only together, and with `GoneLast`: a tag that
  removes an attribute is left until the next one comes.
- `CompactedIsReplayed`: a compaction of a log with a commit behind it, for the entries
  from `begin` up to `end`, is a sound log that replays to those entries. A move among the
  tags is replaced by what the traversal of the other log leaves of the struct
  and the attribute there (`MovedIn`). `CompactionKeepsReads` puts it together with `GetIsReplayed`: who read an entry
  before reads the same after.
- `MatchIsReplayed`: the scan for a name ends at it, or between the smaller and the
  greater names. `Tracks` says where it is after each tag: at the name, in front of the
  first greater one, or nowhere, and then all names so far are smaller.

The hypotheses say what littlefs writes. `Sound`: tags speak of entries that are there, a
name of one that has none yet, the rest of one that is named. `Traversable` is that for
a log with a commit behind it, with at most one move, from a sound log to an entry just
named. `Orderly`: names are in order after every tag, one behind the end only comes in a
log without splices, and nothing is deleted next to an entry that has no name as yet. Without
the latter the scan can lose its place. `Typed` says what the values in the tags are, of which
there may be any. That a fetch can rely on this is not proved but checked: `LogsAreSound`, a part
of `LogsReadRight`, says it of every log in the chain and of every commit in each of the
states of `lfs_dir`. `Below` keeps the superblock entry, which has no
name to be looked for, in front of the others. The theorems are about `moved = NoId`; a pending
move that hides an entry (`PastMove`) is in the run.

**The block allocator** (`LfsProofs`). `AllocFinds`, for any device and any lookahead: the
block `lfs_alloc` hands out is not in use and the window can be trusted after it,
the block counted as used; and with an ack before, it fails only if every block is in use. The
first half needs that two places of a window are never one block (`Rounds`). The second
goes along the tries: after each, all blocks from the first refill on, as many as `ack` has
been counted down, were seen in use (`SeenFrom`). It needs `Ready`, for which the code looks
eagerly for the next free place: what is left of the first window was read before the
ack, and is skipped if it is marked, but the place the window is at never is. `Within`
has that `ack`, which is unsigned, never goes below zero. A try more takes at least
one off it, so that the search ends. `AllocatorIsKept`: an ack, a dropped window and a block set
free leave the window so. That `LfsFiles` calls it with such a window and with all
that is in use is `AllocatorKeepsCount`, checked by `lfs_files`.

Only model-checked: all liveness (`TrackEnds`, `PlaybackComesToAnEnd`,
`StartIsHeard`, `BootEnds`, `StaysReachable`), which is out of the prover's reach; and
of littlefs what is said of states: the invariants of `LfsDir` and `LfsTree`, the
allocator's, and the refinements of `LfsNamespace` and `LfsContents`. Their inductive
invariants would have to say of every pair, block and handle how a commit half done
stands to the call it belongs to; the theorems about logs and about the allocator are
the part of that which is about data.

## 5. Not modelled, and why

- esp_littlefs: the times of files, the tables of error numbers, SPIFFS compatibility,
  erasing a partition. To `FileSys` all of it is calls that succeed or fail.
- littlefs: migration from version 1 (not compiled), the superblock's contents and
  its expansion, inline files evicted by a commit of their directory, user
  attributes of open files, block devices with bad blocks under a directory other
  than by wear. Of the caches only their contents matter, not their alignment
  beyond a unit of reading.
- `mklittlefs`: a program for the developer's computer, with a library for its command
  line; one pass, no state that outlives it, not part of the firmware.
- NimBLE, FreeRTOS, ESP-IDF: external; queue, task and timer behave as their
  callers expect.
- `getMicroSecondsPerQuaterNote` (`system.c` 444-486) is never called. Real time
  is abstracted: the alarm counts what it was given, so that the firmware passing
  MIDI ticks as microseconds is listed as a hazard only.
- The BLE API task's loop after its answer, the registration of services, logging,
  peripheral configuration: no state anything else depends on.
- Names longer than the fields that hold them and more files on the partition
  than rows: not states the component itself leads to unless a listing failed.
- The four bytes that `xQueueReceive` writes behind `btQueueItem[20]`
  (`main.c` 58): memory layout.
- `Hardware/`, the partition table, build files.

## 6. Plan

Done, in this order: `MidiTrack`, `Playback` with `TrackPlayer` and its proofs,
`DeltaTime`, `GattServer`, `Sequencer`, `FileSys` with `FileStore` and its proofs,
`Boot` and `GapAdvertising` with their proofs; then `EspContext`, `EspFiles` and
`EspLittlefs`, and littlefs from three sides: `LfsDir`, `LfsTree` with `LfsNamespace`, `LfsFiles`
with `LfsContents`.

Left:

1. Compose the layers: `FileSys` over `EspLittlefs` instead of calls that may fail;
   `LfsTree`'s commits refined by `LfsDir`'s; files in directories whose commits fail.
2. Abstract specifications: a byte stream that `GattServer` implements; a unit
   that plays a stream, implemented by `Sequencer` while `lost = "no"`.
3. Proofs: that `LogsAreSound` and `AllocatorKeepsCount` are inductive.
