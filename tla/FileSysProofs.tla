--------------------------- MODULE FileSysProofs ---------------------------
(***************************************************************************)
(* Theorems about the file system component, for every set of names, every *)
(* limit and whatever library calls can fail.                              *)
(***************************************************************************)
EXTENDS FileSysCorrect, FiniteSetTheorems, Recursion, TLAPS

(* The fields the invariants are about.                                    *)
Fields ==
  { "runOnceFlag", "registered", "isMounted", "partitionTotalBytes",
    "partitionUsedBytes", "localFilenames", "numFiles", "openFilePath",
    "openFileNumBytes", "fileHandle", "live", "position",
    "hasMountedSucessfully", "interfaceNumFiles", "openFilename",
    "isFileOpen", "numBytesInOpenFile", "failed" }

(* A partition d, and structures s whose open file is on it.               *)
SoundDisk(d) ==
  /\ DOMAIN d \subseteq Names
  /\ \A n \in DOMAIN d : d[n] \in Nat

Sound(s, d) ==
  /\ DOMAIN s = Fields
  /\ s.fileHandle \in Names \cup {None}
  /\ s.openFileNumBytes \in Nat
  /\ s.position \in Nat
  /\ s.live => s.isMounted /\ s.fileHandle \in DOMAIN d

(* What is shown as open is open, as long as closing has not failed.       *)
Shown(s) ==
  s.isFileOpen /\ "close" \notin s.failed => s.live /\ s.openFilename = s.fileHandle

(* The bytes counted for the open file are not fewer than it has, and no   *)
(* read or write goes on from behind its end.                              *)
Counted(s, d) ==
  s.failed \cap {"stat", "write"} = {} =>
    /\ s.openFileNumBytes < MaxFileSize
    /\ \A n \in DOMAIN d : d[n] < MaxFileSize
    /\ s.live => s.position <= d[s.fileHandle] /\ d[s.fileHandle] <= s.openFileNumBytes

(* The inductive invariant, of structures and a partition.                 *)
Good(s, d) == SoundDisk(d) /\ Sound(s, d) /\ Shown(s) /\ Counted(s, d)

-----------------------------------------------------------------------------
(* It holds before the component is initialised.                           *)
LEMMA InitGood == Init => Good(sys, disk)
<1> SUFFICES ASSUME Init  PROVE Good(sys, disk)
  OBVIOUS
<1>1. SoundDisk(disk) /\ \A n \in DOMAIN disk : disk[n] < MaxFileSize
  BY DisksAssumption, LimitsAssumption DEF Init, SoundDisk
<1>2. /\ DOMAIN sys = Fields
      /\ sys.fileHandle = None /\ sys.openFileNumBytes = 0 /\ sys.position = 0
      /\ sys.live = FALSE /\ sys.isFileOpen = FALSE
  BY DEF Init, Fields
<1> QED
  BY <1>1, <1>2, LimitsAssumption DEF Good, Sound, Shown, Counted

(* Closing the file leaves it closed, or the handle without a FILE.        *)
LEMMA CloseGood ==
  ASSUME NEW s, NEW d, Good(s, d), NEW t \in AfterClose(s)
  PROVE  /\ Good(t, d)
         /\ s.isMounted => t.live = FALSE \/ (t = s /\ s.fileHandle = None)
         /\ t.isMounted = s.isMounted
         /\ t.localFilenames = s.localFilenames /\ t.numFiles = s.numFiles
         /\ s.failed \subseteq t.failed
         /\ "close" \notin t.failed => ~s.isMounted \/ t.isFileOpen = FALSE \/ t = s
<1>1. \/ t = s /\ (s.fileHandle = None \/ ~s.isMounted)
      \/ t = Closed(s)
      \/ t = [s EXCEPT !.live = FALSE, !.position = 0, !.failed = @ \cup {"close"}]
  BY DEF AfterClose, OrFails
<1>2. CASE t = s /\ (s.fileHandle = None \/ ~s.isMounted)
  BY <1>2
<1>3. CASE t = Closed(s)
  <2>1. /\ DOMAIN t = Fields
        /\ t.fileHandle = None /\ t.live = FALSE /\ t.position = 0
        /\ t.openFileNumBytes = 0 /\ t.isFileOpen = FALSE
        /\ t.isMounted = s.isMounted /\ t.failed = s.failed
        /\ t.localFilenames = s.localFilenames /\ t.numFiles = s.numFiles
    BY <1>3 DEF Closed, Good, Sound, Fields
  <2> QED
    BY <2>1, LimitsAssumption DEF Good, Sound, Shown, Counted
<1>4. CASE t = [s EXCEPT !.live = FALSE, !.position = 0, !.failed = @ \cup {"close"}]
  <2>1. /\ DOMAIN t = Fields
        /\ t.fileHandle = s.fileHandle /\ t.live = FALSE /\ t.position = 0
        /\ t.openFileNumBytes = s.openFileNumBytes
        /\ t.isMounted = s.isMounted /\ t.failed = s.failed \cup {"close"}
        /\ t.localFilenames = s.localFilenames /\ t.numFiles = s.numFiles
    BY <1>4 DEF Good, Sound, Fields
  <2> QED
    BY <2>1 DEF Good, Sound, Shown, Counted
<1> QED
  BY <1>1, <1>2, <1>3, <1>4

(* Listing the directory changes nothing but the cache.                    *)
LEMMA RefreshGood ==
  ASSUME NEW s, NEW d, Good(s, d), NEW t \in Refreshed(s, d)
  PROVE  /\ Good(t, d)
         /\ t.live = s.live /\ t.isMounted = s.isMounted
         /\ t.fileHandle = s.fileHandle
<1>1. \/ t = s
      \/ t = Listed(s, d)
      \/ t = [s EXCEPT !.localFilenames = NoNames]
  BY DEF Refreshed, OrFails
<1>2. /\ DOMAIN t = Fields
      /\ t.fileHandle = s.fileHandle /\ t.live = s.live /\ t.position = s.position
      /\ t.openFileNumBytes = s.openFileNumBytes /\ t.isFileOpen = s.isFileOpen
      /\ t.isMounted = s.isMounted /\ t.failed = s.failed
      /\ t.openFilename = s.openFilename
  <2>1. CASE t = Listed(s, d)
    BY <2>1 DEF Listed, Good, Sound, Fields
  <2>2. CASE t = [s EXCEPT !.localFilenames = NoNames]
    BY <2>2 DEF Good, Sound, Fields
  <2> QED
    BY <1>1, <2>1, <2>2 DEF Good, Sound
<1> QED
  BY <1>2 DEF Good, Sound, Shown, Counted

(* Every operation keeps it: mounting,                                     *)
LEMMA InitFileSystemGood == Good(sys, disk) /\ InitFileSystem => Good(sys', disk')
<1> SUFFICES ASSUME Good(sys, disk), InitFileSystem
             PROVE  Good(sys', disk')
  OBVIOUS
<1>1. disk' = disk
  BY DEF InitFileSystem
<1>2. CASE sys' = sys
  BY <1>1, <1>2
<1> DEFINE s == Cleared(sys)
<1>3. /\ DOMAIN s = Fields
      /\ s.fileHandle = None /\ s.live = FALSE /\ s.position = sys.position
      /\ s.openFileNumBytes = 0 /\ s.isFileOpen = FALSE /\ s.failed = sys.failed
  BY DEF Cleared, Good, Sound, Fields
<1> HIDE DEF s
<1>4. ASSUME NEW total, NEW used  PROVE Good(Mounted(s, total, used), disk)
  <2> DEFINE t == Mounted(s, total, used)
  <2>1. /\ DOMAIN t = Fields
        /\ t.fileHandle = None /\ t.live = FALSE /\ t.position = sys.position
        /\ t.openFileNumBytes = 0 /\ t.isFileOpen = FALSE /\ t.failed = sys.failed
    BY <1>3 DEF Mounted, Fields
  <2> HIDE DEF t
  <2>2. Good(t, disk)
    BY <2>1, LimitsAssumption DEF Good, Sound, Shown, Counted
  <2> QED
    BY <2>2 DEF t
<1>5. ASSUME NEW r, Good(r, disk), NEW t,
             \/ t = [r EXCEPT !.runOnceFlag = FALSE, !.hasMountedSucessfully = TRUE,
                              !.interfaceNumFiles = r.numFiles]
             \/ t = NotMounted(r)
      PROVE  Good(t, disk)
  <2>1. /\ DOMAIN t = Fields
        /\ t.fileHandle = r.fileHandle /\ t.live = r.live /\ t.position = r.position
        /\ t.openFileNumBytes = r.openFileNumBytes /\ t.isFileOpen = r.isFileOpen
        /\ t.isMounted = r.isMounted /\ t.failed = r.failed
        /\ t.openFilename = r.openFilename
    BY <1>5 DEF NotMounted, Good, Sound, Fields
  <2> QED
    BY <1>5, <2>1 DEF Good, Sound, Shown, Counted
<1>6. CASE InitSucceeds(s)
  BY <1>1, <1>4, <1>5, <1>6, RefreshGood DEF InitSucceeds
<1>7. CASE InitFails(s)
  <2>1. Good(s, disk)
    BY <1>3, LimitsAssumption DEF Good, Sound, Shown, Counted
  <2> QED
    BY <1>1, <1>4, <1>5, <1>7, <2>1 DEF InitFails
<1> QED
  BY <1>2, <1>6, <1>7 DEF InitFileSystem, s

(* unmounting, whether or not the file could be closed,                    *)
LEMMA DeInitFileSystemGood == Good(sys, disk) /\ DeInitFileSystem => Good(sys', disk')
<1> SUFFICES ASSUME Good(sys, disk), DeInitFileSystem
             PROVE  Good(sys', disk')
  OBVIOUS
<1>1. PICK s \in AfterClose(sys) :
        \E r \in IF s.fileHandle # None THEN {s}
                 ELSE OrFails("unregister", {Unmounted(s)}, {s}) :
          sys' = [r EXCEPT !.runOnceFlag = FALSE]
  BY DEF DeInitFileSystem
<1>2. PICK r : /\ r = s \/ (s.fileHandle = None /\ r = Unmounted(s))
               /\ sys' = [r EXCEPT !.runOnceFlag = FALSE]
  BY <1>1 DEF OrFails
<1>3. Good(s, disk)
  BY <1>1, CloseGood
<1>4. s.fileHandle = None => ~s.live
  BY <1>3, NamesAssumption DEF Good, Sound, SoundDisk
<1>5. /\ DOMAIN r = Fields
      /\ r.fileHandle = s.fileHandle /\ r.live = s.live /\ r.position = s.position
      /\ r.openFileNumBytes = s.openFileNumBytes /\ r.isFileOpen = s.isFileOpen
      /\ r.failed = s.failed /\ r.openFilename = s.openFilename
      /\ s.live => r.isMounted = s.isMounted
  BY <1>2, <1>3, <1>4 DEF Unmounted, Good, Sound, Fields
<1>6. Good(r, disk)
  BY <1>3, <1>5 DEF Good, Sound, Shown, Counted
<1>7. /\ DOMAIN sys' = Fields
      /\ sys'.fileHandle = r.fileHandle /\ sys'.live = r.live
      /\ sys'.position = r.position
      /\ sys'.openFileNumBytes = r.openFileNumBytes /\ sys'.isFileOpen = r.isFileOpen
      /\ sys'.failed = r.failed /\ sys'.openFilename = r.openFilename
      /\ sys'.isMounted = r.isMounted
  BY <1>2, <1>5 DEF Fields
<1> QED
  BY <1>6, <1>7 DEF Good, Sound, Shown, Counted, DeInitFileSystem

(* What moves the position keeps it in the file.                           *)
LEMMA MoveGood ==
  ASSUME NEW s, NEW d, Good(s, d), s.live, NEW q \in Nat,
         q <= d[s.fileHandle] \/ q <= s.position
  PROVE  Good([s EXCEPT !.position = q], d)
<1> DEFINE t == [s EXCEPT !.position = q]
<1>1. /\ DOMAIN t = Fields
      /\ t.fileHandle = s.fileHandle /\ t.live = s.live /\ t.position = q
      /\ t.openFileNumBytes = s.openFileNumBytes /\ t.isFileOpen = s.isFileOpen
      /\ t.isMounted = s.isMounted /\ t.failed = s.failed
      /\ t.openFilename = s.openFilename
  BY DEF Good, Sound, Fields
<1>2. d[s.fileHandle] \in Nat /\ s.position \in Nat
  BY DEF Good, Sound, SoundDisk
<1> HIDE DEF t
<1>3. Good(t, d)
  BY <1>1, <1>2 DEF Good, Sound, Shown, Counted
<1> QED
  BY <1>3 DEF t

(* going back to the beginning and reading.                                *)
LEMMA ReadGood ==
  Good(sys, disk) /\ (ResetFilePtr \/ \E n \in Writes : ReadFile(n)) => Good(sys', disk')
<1> SUFFICES ASSUME Good(sys, disk), ResetFilePtr \/ \E n \in Writes : ReadFile(n)
             PROVE  Good(sys', disk')
  OBVIOUS
<1>1. sys.live => sys.position \in Nat /\ disk[sys.fileHandle] \in Nat
  BY DEF Good, Sound, SoundDisk
<1>2. CASE ResetFilePtr
  BY <1>1, <1>2, MoveGood DEF ResetFilePtr
<1>3. ASSUME NEW n \in Writes, ReadFile(n)  PROVE Good(sys', disk')
  <2> DEFINE q == GreaterOf(sys.position, LesserOf(sys.position + n, disk[sys.fileHandle]))
  <2>1. sys.live /\ sys' = [sys EXCEPT !.position = q] /\ disk' = disk
    BY <1>3 DEF ReadFile
  <2>2. q \in Nat /\ (q <= disk[sys.fileHandle] \/ q <= sys.position)
    BY <1>1, <2>1, LimitsAssumption DEF GreaterOf, LesserOf
  <2> HIDE DEF q
  <2> QED
    BY <2>1, <2>2, MoveGood
<1> QED
  BY <1>2, <1>3

(* A file that was opened: it is on the partition, it is read from its     *)
(* beginning, and either its size becomes the count or it is empty.        *)
LEMMA StatGood ==
  ASSUME NEW s, NEW d, SoundDisk(d), Sound(s, d), NEW name \in DOMAIN d,
         s.fileHandle = name, s.live, s.position = 0,
         ~s.isFileOpen \/ "close" \in s.failed,
         s.openFilePath = name \/ (s.openFilePath = None /\ d[name] = 0),
         s.failed \cap {"stat", "write"} = {} =>
           s.openFileNumBytes < MaxFileSize /\ \A n \in DOMAIN d : d[n] < MaxFileSize,
         NEW t \in AfterStat(s, d, name)
  PROVE  Good(t, d)
<1>1. \/ t = Sized(s, d, name) /\ s.openFilePath \in DOMAIN d
      \/ t = [s EXCEPT !.failed = @ \cup {"stat"}]
      \/ t = s /\ s.openFilePath \notin DOMAIN d
  BY DEF AfterStat, OrFails
<1>2. d[name] \in Nat /\ None \notin DOMAIN d
  BY NamesAssumption DEF SoundDisk
<1>3. CASE t = Sized(s, d, name) /\ s.openFilePath \in DOMAIN d
  <2>1. s.openFilePath = name
    BY <1>2, <1>3
  <2>2. /\ DOMAIN t = Fields
        /\ t.fileHandle = name /\ t.live = s.live /\ t.position = 0
        /\ t.openFileNumBytes = d[name] /\ t.isMounted = s.isMounted
        /\ t.failed = s.failed /\ t.openFilename = name
    BY <1>3, <2>1 DEF Sized, Sound, Fields
  <2> QED
    BY <1>2, <2>2 DEF Good, Sound, Shown, Counted
<1>4. CASE t = [s EXCEPT !.failed = @ \cup {"stat"}]
  <2>1. /\ DOMAIN t = Fields
        /\ t.fileHandle = name /\ t.live = s.live /\ t.position = 0
        /\ t.openFileNumBytes = s.openFileNumBytes /\ t.isMounted = s.isMounted
        /\ t.failed = s.failed \cup {"stat"} /\ t.openFilename = s.openFilename
        /\ t.isFileOpen = s.isFileOpen
    BY <1>4 DEF Sound, Fields
  <2> QED
    BY <1>2, <2>1 DEF Good, Sound, Shown, Counted
<1>5. CASE t = s /\ s.openFilePath \notin DOMAIN d
  <2>1. d[name] = 0
    BY <1>5
  <2> QED
    BY <1>2, <1>5, <2>1 DEF Good, Sound, Shown, Counted
<1> QED
  BY <1>1, <1>3, <1>4, <1>5

(* After a close that went well nothing is shown as open.                  *)
LEMMA NothingShown ==
  ASSUME Good(sys, disk), sys.isMounted, NEW s \in AfterClose(sys)
  PROVE  /\ Good(s, disk) /\ s.isMounted /\ ~s.live
         /\ ~s.isFileOpen \/ "close" \in s.failed
         /\ s.localFilenames = sys.localFilenames /\ s.numFiles = sys.numFiles
<1>1. /\ Good(s, disk)
      /\ s.live = FALSE \/ (s = sys /\ sys.fileHandle = None)
      /\ s.isMounted = sys.isMounted
      /\ s.localFilenames = sys.localFilenames /\ s.numFiles = sys.numFiles
      /\ "close" \notin s.failed => s.isFileOpen = FALSE \/ s = sys
  BY CloseGood
<1>2. ~s.live
  BY <1>1, NamesAssumption DEF Good, Sound, SoundDisk
<1>3. ~s.isFileOpen \/ "close" \in s.failed
  BY <1>1, <1>2 DEF Good, Shown
<1> QED
  BY <1>1, <1>2, <1>3

(* Both ways to open a file: one that is there, and one that is created.   *)
(* What Handle and WithName make of the structures, field by field.        *)
HandleOf(s, name, t) ==
  /\ DOMAIN t = Fields
  /\ t.fileHandle = name /\ t.live = TRUE /\ t.position = 0
  /\ t.openFileNumBytes = s.openFileNumBytes /\ t.isMounted = s.isMounted
  /\ t.failed = s.failed /\ t.isFileOpen = s.isFileOpen
  /\ t.openFilePath = name
  /\ t.localFilenames = s.localFilenames /\ t.numFiles = s.numFiles

NamedOf(s, name, t) ==
  /\ DOMAIN t = Fields
  /\ t.fileHandle = s.fileHandle /\ t.live = s.live
  /\ t.position = s.position
  /\ t.openFileNumBytes = s.openFileNumBytes /\ t.isMounted = s.isMounted
  /\ t.failed = s.failed /\ t.isFileOpen = s.isFileOpen
  /\ t.openFilePath = None \/ t.openFilePath = s.openFilePath
  /\ t.numFiles = s.numFiles + 1
  /\ t.localFilenames =
       [i \in Rows |-> IF i = s.numFiles + 1 THEN name
                       ELSE IF i = s.numFiles + 1 + 1 THEN None
                       ELSE s.localFilenames[i]]

LEMMA HandleIs ==
  ASSUME NEW s, DOMAIN s = Fields, NEW name
  PROVE  HandleOf(s, name, Handle(s, name))
  BY DEF HandleOf, Handle, Fields

LEMMA WithNameIs ==
  ASSUME NEW s, DOMAIN s = Fields, NEW name
  PROVE  NamedOf(s, name, WithName(s, name))
<1> DEFINE t == WithName(s, name)
           rows == [i \in Rows |-> IF i = s.numFiles + 1 THEN name
                                   ELSE IF i = s.numFiles + 1 + 1 THEN None
                                   ELSE s.localFilenames[i]]
           path == IF s.numFiles + 1 = MaxFiles THEN None ELSE s.openFilePath
<1>1. t = [s EXCEPT !.numFiles = s.numFiles + 1, !.localFilenames = rows,
                    !.openFilePath = path]
  BY DEF WithName, Fields
<1>2. path = None \/ path = s.openFilePath
  OBVIOUS
<1> HIDE DEF path, rows, t
<1>3. /\ DOMAIN t = Fields
      /\ t.fileHandle = s.fileHandle /\ t.live = s.live /\ t.position = s.position
      /\ t.openFileNumBytes = s.openFileNumBytes /\ t.isMounted = s.isMounted
      /\ t.failed = s.failed /\ t.isFileOpen = s.isFileOpen
      /\ t.openFilePath = path /\ t.numFiles = s.numFiles + 1
      /\ t.localFilenames = rows
  BY <1>1 DEF Fields
<1>4. NamedOf(s, name, t)
  BY <1>2, <1>3 DEF NamedOf, rows
<1> QED
  BY <1>4 DEF t

(* Opening a file keeps the invariant, whatever step of it fails,          *)
LEMMA OpenGood ==
  ASSUME Good(sys, disk), NEW name \in Names, NEW createNew, OpenFileRW(name, createNew)
  PROVE  Good(sys', disk')
<1>1. PICK s \in AfterClose(sys) :
        \/ sys' = s /\ disk' = disk
        \/ FopenExisting(s, name)
        \/ FopenNew(s, name)
        \/ FopenFails(s, name)
  BY DEF OpenFileRW
<1>2. /\ Good(s, disk) /\ s.isMounted /\ ~s.live
      /\ ~s.isFileOpen \/ "close" \in s.failed
  BY NothingShown DEF OpenFileRW
<1>3. DOMAIN s = Fields
  BY <1>2 DEF Good, Sound
<1> DEFINE h == Handle(s, name)
<1>4. HandleOf(s, name, h)
  BY <1>3, HandleIs
<1>5. CASE sys' = s /\ disk' = disk
  BY <1>2, <1>5
<1>6. CASE FopenExisting(s, name)
  <2>1. name \in DOMAIN disk /\ sys' \in AfterStat(h, disk, name) /\ disk' = disk
    BY <1>6 DEF FopenExisting
  <2> HIDE DEF h
  <2>2. SoundDisk(disk) /\ Sound(h, disk)
    BY <1>2, <1>4, <2>1 DEF Good, Sound, HandleOf
  <2>3. h.failed \cap {"stat", "write"} = {} =>
          /\ h.openFileNumBytes < MaxFileSize
          /\ \A n \in DOMAIN disk : disk[n] < MaxFileSize
    BY <1>2, <1>4 DEF Good, Counted, HandleOf
  <2>4. Good(sys', disk)
    BY <1>2, <1>4, <2>1, <2>2, <2>3, StatGood DEF HandleOf
  <2> QED
    BY <2>1, <2>4
<1>7. CASE FopenNew(s, name)
  <2> DEFINE w == WithName(h, name)
  <2>1. /\ DOMAIN disk' = DOMAIN disk \cup {name}
        /\ disk'[name] = 0
        /\ \A n \in DOMAIN disk : n # name => disk'[n] = disk[n]
        /\ sys' \in AfterStat(w, disk', name)
    BY <1>7 DEF FopenNew
  <2> HIDE DEF h
  <2>2. NamedOf(h, name, w)
    BY <1>4, WithNameIs DEF HandleOf
  <2> HIDE DEF w
  <2>3. /\ DOMAIN w = Fields
        /\ w.fileHandle = name /\ w.live = TRUE /\ w.position = 0
        /\ w.openFileNumBytes = s.openFileNumBytes /\ w.isMounted = s.isMounted
        /\ w.failed = s.failed /\ w.isFileOpen = s.isFileOpen
        /\ w.openFilePath = None \/ w.openFilePath = name
    BY <1>4, <2>2 DEF HandleOf, NamedOf
  <2>4. SoundDisk(disk') /\ Sound(w, disk')
    BY <1>2, <2>1, <2>3 DEF Good, Sound, SoundDisk
  <2>5. w.failed \cap {"stat", "write"} = {} =>
          /\ w.openFileNumBytes < MaxFileSize
          /\ \A n \in DOMAIN disk' : disk'[n] < MaxFileSize
    BY <1>2, <2>1, <2>3, LimitsAssumption DEF Good, Counted
  <2> QED
    BY <1>2, <2>1, <2>3, <2>4, <2>5, StatGood
<1>8. CASE FopenFails(s, name)
  <2>1. /\ DOMAIN sys' = Fields /\ disk' = disk
        /\ sys'.fileHandle = None /\ sys'.live = FALSE /\ sys'.position = s.position
        /\ sys'.openFileNumBytes = s.openFileNumBytes
        /\ sys'.isFileOpen = s.isFileOpen /\ sys'.failed = s.failed
    BY <1>3, <1>8 DEF FopenFails, Fields
  <2> QED
    BY <1>2, <2>1 DEF Good, Sound, Shown, Counted
<1> QED
  BY <1>1, <1>5, <1>6, <1>7, <1>8

(* and so does deleting one, since an open file is not removed.            *)
LEMMA DeleteGood ==
  ASSUME Good(sys, disk), NEW name, DeleteFile(name)
  PROVE  Good(sys', disk')
<1>1. PICK s \in Refreshed(sys, disk) :
        \/ sys' = s /\ disk' = disk
        \/ RemoveFile(s, name)
  BY DEF DeleteFile, RemoveFails
<1>2. Good(s, disk)
  BY <1>1, RefreshGood
<1>3. ASSUME RemoveFile(s, name)  PROVE Good(sys', disk')
  <2>1. /\ ~(s.live /\ name = s.fileHandle)
        /\ DOMAIN disk' = DOMAIN disk \ {name}
        /\ \A n \in DOMAIN disk' : disk'[n] = disk[n]
        /\ sys' \in Refreshed(s, disk')
    BY <1>3 DEF RemoveFile
  <2>2. Good(s, disk')
    BY <1>2, <2>1 DEF Good, Sound, SoundDisk, Shown, Counted
  <2> QED
    BY <2>1, <2>2, RefreshGood
<1> QED
  BY <1>1, <1>2, <1>3

(* The partition after a write, and what it does to the open file only.    *)
LEMMA WrittenIs ==
  ASSUME Good(sys, disk), sys.live, NEW k \in Nat
  PROVE  LET d == Written(k)
             h == sys.fileHandle
         IN  /\ SoundDisk(d) /\ DOMAIN d = DOMAIN disk /\ h \in DOMAIN disk
             /\ \A n \in DOMAIN d : n # h => d[n] = disk[n]
             /\ d[h] = disk[h] \/ d[h] = sys.position + k
             /\ d[h] >= disk[h] /\ d[h] >= sys.position + k
  BY DEF Good, Sound, SoundDisk, Written, GreaterOf

(* A sum of counts is a count, and does not wrap below the limits.         *)
LEMMA SumIsNat ==
  ASSUME NEW x \in Nat, NEW y \in Nat
  PROVE  Sum32(x, y) \in Nat
BY WordAssumption DEF Sum32

LEMMA SumIs ==
  ASSUME NEW x \in Nat, NEW y \in Nat, x + y < Word
  PROVE  Sum32(x, y) = x + y
BY WordAssumption DEF Sum32

(* The structures after a write of n bytes of which k are written.         *)
WroteOf(n, k, s) ==
  /\ DOMAIN s = Fields /\ s.fileHandle = sys.fileHandle
  /\ s.live = sys.live /\ s.position = sys.position + k
  /\ s.isMounted = sys.isMounted /\ s.isFileOpen = sys.isFileOpen
  /\ s.openFilename = sys.openFilename
  /\ s.localFilenames = sys.localFilenames /\ s.numFiles = sys.numFiles
  /\ \/ /\ k <= n
        /\ s.failed = sys.failed
        /\ s.openFileNumBytes = Sum32(sys.openFileNumBytes, n)
     \/ /\ s.failed = sys.failed \cup {"write"}
        /\ s.openFileNumBytes \in {sys.openFileNumBytes, Sum32(sys.openFileNumBytes, n)}

(* A write that is counted takes the count along with the file; one that   *)
(* is cut short may not, and is remembered as failed.                      *)
LEMMA WroteGood ==
  ASSUME Good(sys, disk), sys.live, NEW n \in Writes, NEW k \in Nat,
         Sum32(sys.openFileNumBytes, n) < MaxFileSize, NEW s, WroteOf(n, k, s)
  PROVE  Good(s, Written(k))
<1> DEFINE d == Written(k)
           h == sys.fileHandle
<1>1. /\ SoundDisk(d) /\ DOMAIN d = DOMAIN disk /\ h \in DOMAIN disk
      /\ \A m \in DOMAIN d : m # h => d[m] = disk[m]
      /\ d[h] = disk[h] \/ d[h] = sys.position + k
      /\ d[h] >= disk[h] /\ d[h] >= sys.position + k
  BY WrittenIs
<1> HIDE DEF d
<1>2. Sound(s, d) /\ Shown(s)
  <2>1. Sum32(sys.openFileNumBytes, n) \in Nat
    BY LimitsAssumption, SumIsNat DEF Good, Sound
  <2> QED
    BY <1>1, <2>1 DEF Good, Sound, Shown, WroteOf
<1>3. ASSUME s.failed \cap {"stat", "write"} = {}
      PROVE  /\ \A m \in DOMAIN d : d[m] < MaxFileSize
             /\ s.position <= d[h] /\ d[h] <= s.openFileNumBytes
             /\ s.openFileNumBytes < MaxFileSize
  <2>1. /\ k <= n /\ s.failed = sys.failed
        /\ s.openFileNumBytes = Sum32(sys.openFileNumBytes, n)
        /\ s.position = sys.position + k
    BY <1>3 DEF WroteOf
  <2>2. /\ \A m \in DOMAIN disk : disk[m] < MaxFileSize
        /\ sys.position <= disk[h] /\ disk[h] <= sys.openFileNumBytes
        /\ sys.openFileNumBytes < MaxFileSize
    BY <1>3, <2>1 DEF Good, Counted
  <2>3. /\ disk[h] \in Nat /\ sys.position \in Nat /\ sys.openFileNumBytes \in Nat
        /\ d[h] \in Nat /\ MaxFileSize \in Nat /\ n \in Nat
    BY <1>1, LimitsAssumption DEF Good, Sound, SoundDisk
  <2>4. d[h] <= sys.openFileNumBytes + n /\ s.position <= d[h]
    BY <1>1, <2>1, <2>2, <2>3
  <2>5. Sum32(sys.openFileNumBytes, n) = sys.openFileNumBytes + n
    <3>1. n + MaxFileSize < Word /\ Word \in Nat
      BY WordAssumption
    <3> QED
      BY <2>2, <2>3, <3>1, SumIs
  <2>6. d[h] < MaxFileSize /\ s.openFileNumBytes < MaxFileSize
    BY <2>1, <2>3, <2>4, <2>5
  <2> QED
    BY <1>1, <2>1, <2>2, <2>4, <2>5, <2>6
<1>4. s.fileHandle = h
  BY DEF WroteOf
<1> HIDE DEF h
<1>5. Good(s, d)
  BY <1>1, <1>2, <1>3, <1>4 DEF Good, Counted
<1> QED
  BY <1>5 DEF d

(* A write leaves the structures one of these, or closes the file after.   *)
LEMMA WriteSteps ==
  ASSUME Good(sys, disk), NEW n \in Writes, NEW closeOnExit, WriteFile(n, closeOnExit)
  PROVE  /\ sys.live /\ Sum32(sys.openFileNumBytes, n) < MaxFileSize
         /\ \E k \in Nat : \E s : /\ WroteOf(n, k, s) /\ disk' = Written(k)
                                  /\ sys' = s \/ sys' \in AfterClose(s)
<1>1. n \in Nat /\ Sum32(sys.openFileNumBytes, n) < MaxFileSize
  BY LimitsAssumption DEF WriteFile, MayWrite
<1>2. DOMAIN sys = Fields
  BY DEF Good, Sound
<1>3. CASE FwriteAll(n, closeOnExit)
  <2>1. PICK s : /\ s = [sys EXCEPT !.openFileNumBytes = Sum32(@, n), !.position = @ + n]
                 /\ sys' \in IF closeOnExit THEN AfterClose(s) ELSE {s}
    BY <1>3 DEF FwriteAll
  <2>2. WroteOf(n, n, s)
    BY <1>1, <1>2, <2>1 DEF WroteOf, Fields
  <2> QED
    BY <1>1, <1>3, <2>1, <2>2 DEF FwriteAll
<1>4. CASE FwriteLess(n)
  <2>1. PICK k \in 0..n : /\ TakesLess(n, k)
                          /\ sys' = [sys EXCEPT !.position = @ + k,
                                                !.failed = @ \cup {"write"}]
    BY <1>4 DEF FwriteLess
  <2>2. WroteOf(n, k, sys')
    BY <1>1, <1>2, <2>1 DEF WroteOf, Fields
  <2> QED
    BY <1>1, <2>1, <2>2 DEF TakesLess
<1>5. CASE FflushLess(n, closeOnExit)
  <2>1. PICK k \in 0..n :
           /\ TakesLess(n, k)
           /\ \E s : /\ s = [sys EXCEPT !.openFileNumBytes = Sum32(@, n), !.position = @ + k,
                                        !.failed = @ \cup {"write"}]
                     /\ sys' \in IF closeOnExit THEN AfterClose(s) ELSE {s}
    BY <1>5 DEF FflushLess
  <2>2. PICK s : /\ s = [sys EXCEPT !.openFileNumBytes = Sum32(@, n), !.position = @ + k,
                                    !.failed = @ \cup {"write"}]
                 /\ sys' \in IF closeOnExit THEN AfterClose(s) ELSE {s}
    BY <2>1
  <2>3. WroteOf(n, k, s)
    BY <1>1, <1>2, <2>2 DEF WroteOf, Fields
  <2> QED
    BY <1>1, <2>1, <2>2, <2>3 DEF TakesLess
<1> QED
  BY <1>3, <1>4, <1>5 DEF WriteFile

(* Writing keeps the invariant, with and without closing the file.         *)
LEMMA WriteGood ==
  ASSUME Good(sys, disk), NEW n \in Writes, NEW closeOnExit, WriteFile(n, closeOnExit)
  PROVE  Good(sys', disk')
<1>0. PICK k \in Nat : \E s : /\ WroteOf(n, k, s) /\ disk' = Written(k)
                              /\ sys' = s \/ sys' \in AfterClose(s)
  BY WriteSteps
<1>1. PICK s : /\ WroteOf(n, k, s) /\ disk' = Written(k)
               /\ sys' = s \/ sys' \in AfterClose(s)
  BY <1>0
<1>2. Good(s, disk')
  BY <1>1, WriteSteps, WroteGood
<1> QED
  BY <1>1, <1>2, CloseGood

-----------------------------------------------------------------------------
(* The invariant is inductive.                                             *)
LEMMA NextGood == Good(sys, disk) /\ [Next]_vars => Good(sys', disk')
<1> SUFFICES ASSUME Good(sys, disk), [Next]_vars  PROVE Good(sys', disk')
  OBVIOUS
<1>1. CASE CloseFile
  BY <1>1, CloseGood DEF CloseFile
<1>2. CASE UNCHANGED vars
  BY <1>2 DEF vars
<1> QED
  BY <1>1, <1>2, InitFileSystemGood, DeInitFileSystemGood, ReadGood, DeleteGood,
     OpenGood, WriteGood DEF Next

(* The invariant of the component.                                         *)
FilesGood == Good(sys, disk)

(* In every reachable state, whatever has failed: the open file is on the  *)
(* mounted partition, what is shown as open is open until a close fails,   *)
(* and until a stat fails or a write is cut short the count covers the     *)
(* file.                                                                   *)
THEOREM Invariance == Spec => []FilesGood
<1>1. Init => FilesGood
  BY InitGood DEF FilesGood
<1>2. FilesGood /\ [Next]_vars => FilesGood'
  BY NextGood DEF FilesGood
<1> QED
  BY <1>1, <1>2, PTL DEF Spec

(* No file reaches the maximum size, as long as sizes can be read and no   *)
(* write is cut short: every write is counted, and reading from the middle *)
(* or opening again never lets the count fall behind the file.             *)
THEOREM SizesStayBelow == Spec => []FilesStayBelowMaximum
<1>1. FilesGood => FilesStayBelowMaximum
  BY DEF FilesGood, Good, Counted, FilesStayBelowMaximum
<1> QED
  BY <1>1, Invariance, PTL

(* The file the interface shows as open is the one that is open, until a   *)
(* close has failed.                                                       *)
THEOREM ShownIsOpen == Spec => []ShownFileIsOpen
<1>1. FilesGood => ShownFileIsOpen
  BY DEF FilesGood, Good, Shown, ShownFileIsOpen
<1> QED
  BY <1>1, Invariance, PTL

-----------------------------------------------------------------------------
(***************************************************************************)
(* The cache.  It is the directory, as long as the directory can be read   *)
(* and the size of the partition too: a mount that fails at the size       *)
(* leaves the partition mounted and the cache empty.                       *)
(***************************************************************************)
Reliable == "opendir" \notin Failing /\ "info" \notin Failing

(* The partition has no more files than the cache has rows.                *)
Few(d) == Cardinality(DOMAIN d) <= MaxFiles

(* The cache s has is the directory of d.                                  *)
Agrees(s, d) ==
  /\ s.numFiles = Cardinality(DOMAIN d)
  /\ \A n : n \in DOMAIN d <=> \E i \in 1..s.numFiles : s.localFilenames[i] = n
  /\ \A i \in Rows : i > s.numFiles => s.localFilenames[i] = None

(* SetToSeq lists a finite set, each member once.                          *)
LEMMA SetToSeqIs ==
  ASSUME NEW S, IsFiniteSet(S)
  PROVE  /\ Cardinality(S) \in Nat
         /\ Len(SetToSeq(S)) = Cardinality(S)
         /\ \A x : x \in S <=> \E i \in 1..Cardinality(S) : SetToSeq(S)[i] = x
<1> DEFINE n == Cardinality(S)
           q == SetToSeq(S)
<1>1. n \in Nat /\ \E f \in [1..n -> S] : IsInjective(f)
  <2>1. n \in Nat /\ ExistsBijection(1..n, S)
    BY FS_CardinalityType
  <2>2. PICK f : f \in Bijection(1..n, S)
    BY <2>1 DEF ExistsBijection
  <2>3. f \in [1..n -> S] /\ IsInjective(f)
    BY <2>2 DEF Bijection, Injection, IsInjective
  <2> QED
    BY <2>1, <2>3
<1>2. q \in [1..n -> S] /\ IsInjective(q)
  BY <1>1 DEF SetToSeq
<1> HIDE DEF q
<1>3. Len(q) = n
  BY <1>1, <1>2
<1>4. q \in Surjection(1..n, S)
  <2>1. q \in Injection(1..n, S)
    BY <1>2 DEF Injection, IsInjective
  <2>2. IsFiniteSet(1..n) /\ Cardinality(1..n) = n
    BY <1>1, FS_Interval
  <2> QED
    BY <2>1, <2>2, FS_Injection
<1>5. \A x : x \in S <=> \E i \in 1..n : q[i] = x
  BY <1>2, <1>4 DEF Surjection
<1> QED
  BY <1>1, <1>3, <1>5 DEF q

(* Listing a directory that can be read makes the cache agree with it.     *)
LEMMA ListedAgrees ==
  ASSUME NEW s, DOMAIN s = Fields, NEW d, SoundDisk(d), Few(d)
  PROVE  Agrees(Listed(s, d), d)
<1> DEFINE found == SetToSeq(DOMAIN d)
           names == [i \in Rows |-> IF i <= Len(found) THEN found[i] ELSE None]
           t == Listed(s, d)
<1>1. t.numFiles = Len(found) /\ t.localFilenames = names
  BY DEF Listed, Fields
<1>2. IsFiniteSet(DOMAIN d)
  BY NamesAssumption, FS_Subset DEF SoundDisk
<1>3. /\ Cardinality(DOMAIN d) \in Nat
      /\ Len(found) = Cardinality(DOMAIN d)
      /\ \A x : x \in DOMAIN d <=> \E i \in 1..Cardinality(DOMAIN d) : found[i] = x
  BY <1>2, SetToSeqIs
<1> HIDE DEF found
<1>4. 1..Len(found) \subseteq Rows
  BY <1>3, LimitsAssumption DEF Few, Rows
<1>5. /\ \A i \in 1..Len(found) : names[i] = found[i]
      /\ \A i \in Rows : i > Len(found) => names[i] = None
  BY <1>3, <1>4, LimitsAssumption DEF Rows
<1> HIDE DEF names, t
<1>6. Agrees(t, d)
  BY <1>1, <1>3, <1>5 DEF Agrees
<1> QED
  BY <1>6 DEF t

(* The part of the invariant that needs a reliable directory.              *)
CacheGood(s, d) == Few(d) /\ (s.isMounted => Agrees(s, d))

(* The cache answers for the directory.                                    *)
LEMMA FoundIsThere ==
  ASSUME NEW s, NEW d, Few(d), Agrees(s, d), SoundDisk(d), NEW name
  PROVE  /\ s.numFiles \in 0..MaxFiles
         /\ Found(s, name) <=> name \in DOMAIN d
<1>1. IsFiniteSet(DOMAIN d)
  BY NamesAssumption, FS_Subset DEF SoundDisk
<1>2. s.numFiles \in Nat /\ s.numFiles <= MaxFiles
  BY <1>1, FS_CardinalityType DEF Agrees, Few
<1> QED
  BY <1>2, LimitsAssumption DEF Agrees, Found, Rows

(* Structures that have the same cache.                                    *)
LEMMA SameCache ==
  ASSUME NEW s, NEW t, NEW d, NEW e, CacheGood(s, d), DOMAIN e = DOMAIN d,
         t.numFiles = s.numFiles, t.localFilenames = s.localFilenames,
         t.isMounted => s.isMounted
  PROVE  CacheGood(t, e)
  BY DEF CacheGood, Few, Agrees

(* Nothing is mounted at first.                                            *)
LEMMA InitCache == Init => CacheGood(sys, disk)
<1> SUFFICES ASSUME Init  PROVE CacheGood(sys, disk)
  OBVIOUS
<1>1. sys.isMounted = FALSE
  BY DEF Init
<1> QED
  BY <1>1, DisksAssumption DEF Init, CacheGood, Few

(* Listing again keeps the cache true; so does every operation:            *)
LEMMA RefreshAgrees ==
  ASSUME Reliable, NEW s, NEW d, Good(s, d), CacheGood(s, d), NEW t \in Refreshed(s, d)
  PROVE  CacheGood(t, d)
<1>1. t = s \/ t = Listed(s, d)
  BY DEF Refreshed, OrFails, Reliable
<1>2. DOMAIN s = Fields /\ SoundDisk(d) /\ Few(d)
  BY DEF Good, Sound, CacheGood
<1> QED
  BY <1>1, <1>2, ListedAgrees DEF CacheGood

(* mounting, which closes what was open,                                   *)
LEMMA InitFileSystemCache ==
  ASSUME Reliable, Good(sys, disk), CacheGood(sys, disk), InitFileSystem
  PROVE  /\ CacheGood(sys', disk') /\ disk' = disk
         /\ sys' = sys \/ sys'.live = FALSE
<1>1. disk' = disk
  BY DEF InitFileSystem
<1>2. CASE sys' = sys
  BY <1>1, <1>2
<1> DEFINE s == Cleared(sys)
<1>3. /\ DOMAIN s = Fields /\ s.live = FALSE /\ s.isMounted = FALSE
  BY DEF Cleared, Good, Sound, Fields
<1> HIDE DEF s
<1>4. CASE InitSucceeds(s)
  <2>1. PICK m, r : /\ m = Mounted(s, Capacity, UsedBytes(disk))
                    /\ r \in Refreshed(m, disk)
                    /\ sys' = [r EXCEPT !.runOnceFlag = FALSE,
                                        !.hasMountedSucessfully = TRUE,
                                        !.interfaceNumFiles = r.numFiles]
    BY <1>4 DEF InitSucceeds
  <2>2. DOMAIN m = Fields /\ m.isMounted = TRUE /\ m.live = FALSE
    BY <1>3, <2>1 DEF Mounted, Fields
  <2>3. r = Listed(m, disk)
    BY <2>1, <2>2 DEF Refreshed, OrFails, Reliable
  <2>4. DOMAIN r = Fields /\ r.live = FALSE
    BY <2>2, <2>3 DEF Listed, Fields
  <2>5. Agrees(r, disk)
    BY <2>2, <2>3, ListedAgrees DEF Good, CacheGood
  <2>6. /\ sys'.numFiles = r.numFiles /\ sys'.localFilenames = r.localFilenames
        /\ sys'.live = FALSE
    BY <2>1, <2>4 DEF Fields
  <2> QED
    BY <1>1, <2>5, <2>6 DEF CacheGood, Agrees
<1>5. CASE InitFails(s)
  <2>1. sys' = NotMounted(s)
    BY <1>5 DEF InitFails, Reliable
  <2>2. sys'.isMounted = FALSE /\ sys'.live = FALSE
    BY <1>3, <2>1 DEF NotMounted, Fields
  <2> QED
    BY <1>1, <2>2 DEF CacheGood
<1> QED
  BY <1>2, <1>4, <1>5 DEF InitFileSystem, s

(* unmounting,                                                             *)
LEMMA DeInitFileSystemCache ==
  ASSUME Good(sys, disk), CacheGood(sys, disk), DeInitFileSystem
  PROVE  CacheGood(sys', disk') /\ disk' = disk /\ ~sys'.live
<1>1. PICK s \in AfterClose(sys) :
        \E r \in IF s.fileHandle # None THEN {s}
                 ELSE OrFails("unregister", {Unmounted(s)}, {s}) :
          sys' = [r EXCEPT !.runOnceFlag = FALSE]
  BY DEF DeInitFileSystem
<1>2. PICK r : /\ r = s \/ r = Unmounted(s)
               /\ sys' = [r EXCEPT !.runOnceFlag = FALSE]
  BY <1>1 DEF OrFails
<1>3. /\ DOMAIN s = Fields /\ ~s.live /\ s.isMounted
      /\ s.localFilenames = sys.localFilenames /\ s.numFiles = sys.numFiles
  BY NothingShown DEF DeInitFileSystem, Good, Sound
<1>4. /\ DOMAIN r = Fields /\ r.live = s.live
      /\ r.localFilenames = s.localFilenames /\ r.numFiles = s.numFiles
  BY <1>2, <1>3 DEF Unmounted, Fields
<1>5. /\ sys'.live = r.live
      /\ sys'.localFilenames = r.localFilenames /\ sys'.numFiles = r.numFiles
  BY <1>2, <1>4 DEF Fields
<1>6. disk' = disk /\ sys.isMounted
  BY DEF DeInitFileSystem
<1> QED
  BY <1>3, <1>4, <1>5, <1>6, SameCache

(* What stat says changes neither the cache nor what is open.              *)
LEMMA StatKeeps ==
  ASSUME NEW s, DOMAIN s = Fields, NEW d, NEW name, NEW t \in AfterStat(s, d, name)
  PROVE  /\ t.live = s.live /\ t.fileHandle = s.fileHandle
         /\ t.isMounted = s.isMounted
         /\ t.localFilenames = s.localFilenames /\ t.numFiles = s.numFiles
<1>1. \/ t = Sized(s, d, name)
      \/ t = [s EXCEPT !.failed = @ \cup {"stat"}]
      \/ t = s
  BY DEF AfterStat, OrFails
<1> QED
  BY <1>1 DEF Sized, Fields

(* A file whose name the cache does not have, which then has it.           *)
LEMMA NameAdded ==
  ASSUME NEW s, NEW d, Few(d), Agrees(s, d), SoundDisk(d),
         NEW name \in Names, ~Found(s, name), s.numFiles < MaxFiles,
         NEW w, NamedOf(s, name, w),
         NEW e, DOMAIN e = DOMAIN d \cup {name}
  PROVE  name \notin DOMAIN d /\ Few(e) /\ Agrees(w, e)
<1> DEFINE row == s.numFiles + 1
<1>1. name \notin DOMAIN d /\ s.numFiles \in Nat /\ MaxFiles \in Nat
  BY FoundIsThere, LimitsAssumption
<1>2. Cardinality(DOMAIN e) = row
  <2>1. IsFiniteSet(DOMAIN d)
    BY NamesAssumption, FS_Subset DEF SoundDisk
  <2> QED
    BY <1>1, <2>1, FS_AddElement DEF Agrees
<1>3. /\ row \in Rows
      /\ w.numFiles = row
      /\ w.localFilenames[row] = name
      /\ \A i \in 1..s.numFiles : w.localFilenames[i] = s.localFilenames[i]
      /\ \A i \in Rows : i > row => w.localFilenames[i] = None
  <2>1. /\ w.numFiles = row
        /\ w.localFilenames = [i \in Rows |-> IF i = row THEN name
                                              ELSE IF i = row + 1 THEN None
                                              ELSE s.localFilenames[i]]
    BY DEF NamedOf
  <2>2. row \in Rows /\ 1..s.numFiles \subseteq Rows
    BY <1>1 DEF Rows
  <2>3. \A i \in Rows : i > s.numFiles => s.localFilenames[i] = None
    BY DEF Agrees
  <2>4. \A i \in Rows : i > row => i > s.numFiles /\ i # row
    BY <1>1 DEF Rows
  <2>5. \A i \in 1..s.numFiles : i # row /\ i # row + 1
    BY <1>1
  <2> HIDE DEF row
  <2> QED
    BY <2>1, <2>2, <2>3, <2>4, <2>5
<1>4. \A n : n \in DOMAIN e <=> \E i \in 1..row : w.localFilenames[i] = n
  <2>1. \A n : n \in DOMAIN d <=> \E i \in 1..s.numFiles : s.localFilenames[i] = n
    BY DEF Agrees
  <2>2. 1..row = 1..s.numFiles \cup {row}
    BY <1>1
  <2> HIDE DEF row
  <2> QED
    BY <1>3, <2>1, <2>2
<1>5. Few(e)
  BY <1>1, <1>2 DEF Few
<1> QED
  BY <1>1, <1>2, <1>3, <1>4, <1>5 DEF Agrees

(* opening: only a file that is not there is created,                      *)
LEMMA OpenCache ==
  ASSUME Good(sys, disk), CacheGood(sys, disk), NEW name \in Names, NEW createNew,
         OpenFileRW(name, createNew)
  PROVE  /\ CacheGood(sys', disk')
         /\ \/ disk' = disk /\ ~sys'.live
            \/ /\ sys'.live /\ sys'.fileHandle = name
               /\ \/ name \in DOMAIN disk /\ disk' = disk
                  \/ /\ name \notin DOMAIN disk
                     /\ disk' = [n \in DOMAIN disk \cup {name} |->
                                   IF n = name THEN 0 ELSE disk[n]]
<1>1. PICK s \in AfterClose(sys) :
        \/ sys' = s /\ disk' = disk
        \/ FopenExisting(s, name)
        \/ ~Found(s, name) /\ s.numFiles < MaxFiles /\ FopenNew(s, name)
        \/ FopenFails(s, name)
  <2>1. PICK s \in AfterClose(sys) :
           \/ /\ MayNotOpen(s, name, createNew)
              /\ sys' = s
              /\ UNCHANGED disk
           \/ /\ ~MayNotOpen(s, name, createNew)
              /\ \/ Found(s, name) /\ FopenExisting(s, name)
                 \/ ~Found(s, name) /\ FopenNew(s, name)
                 \/ FopenFails(s, name)
    BY DEF OpenFileRW
  <2>2. /\ s.numFiles = sys.numFiles /\ s.localFilenames = sys.localFilenames
        /\ sys.isMounted
    BY NothingShown DEF OpenFileRW
  <2>3. s.numFiles \in Nat /\ MaxFiles \in Nat
    BY <2>2, FoundIsThere, LimitsAssumption DEF CacheGood, Good
  <2> QED
    BY <2>1, <2>3 DEF MayNotOpen
<1>2. /\ Good(s, disk) /\ s.isMounted /\ ~s.live
      /\ s.localFilenames = sys.localFilenames /\ s.numFiles = sys.numFiles
      /\ sys.isMounted
  BY NothingShown DEF OpenFileRW
<1>3. DOMAIN s = Fields /\ SoundDisk(disk)
  BY <1>2 DEF Good, Sound
<1>4. CacheGood(s, disk)
  BY <1>2, SameCache
<1> DEFINE h == Handle(s, name)
<1>5. HandleOf(s, name, h)
  BY <1>3, HandleIs
<1>6. CASE sys' = s /\ disk' = disk
  BY <1>2, <1>4, <1>6
<1>7. CASE FopenExisting(s, name)
  <2>1. name \in DOMAIN disk /\ sys' \in AfterStat(h, disk, name) /\ disk' = disk
    BY <1>7 DEF FopenExisting
  <2> HIDE DEF h
  <2>2. /\ h.live = TRUE /\ h.fileHandle = name /\ h.isMounted = s.isMounted
        /\ h.localFilenames = s.localFilenames /\ h.numFiles = s.numFiles
        /\ DOMAIN h = Fields
    BY <1>5 DEF HandleOf
  <2>3. /\ sys'.live = h.live /\ sys'.fileHandle = h.fileHandle
        /\ sys'.isMounted = h.isMounted
        /\ sys'.localFilenames = h.localFilenames /\ sys'.numFiles = h.numFiles
    BY <2>1, <2>2, StatKeeps
  <2>4. CacheGood(sys', disk')
    BY <1>4, <2>1, <2>2, <2>3, SameCache
  <2> QED
    BY <2>1, <2>2, <2>3, <2>4
<1>8. CASE ~Found(s, name) /\ s.numFiles < MaxFiles /\ FopenNew(s, name)
  <2> DEFINE w == WithName(h, name)
  <2>1. /\ disk' = [n \in DOMAIN disk \cup {name} |-> IF n = name THEN 0 ELSE disk[n]]
        /\ sys' \in AfterStat(w, disk', name)
    BY <1>8 DEF FopenNew
  <2> HIDE DEF h
  <2>2. NamedOf(h, name, w)
    BY <1>5, WithNameIs DEF HandleOf
  <2> HIDE DEF w
  <2>3. /\ h.live = TRUE /\ h.fileHandle = name /\ h.isMounted = s.isMounted
        /\ h.localFilenames = s.localFilenames /\ h.numFiles = s.numFiles
    BY <1>5 DEF HandleOf
  <2>4. /\ DOMAIN w = Fields /\ w.live = TRUE /\ w.fileHandle = name
        /\ w.isMounted = s.isMounted
    BY <2>2, <2>3 DEF NamedOf
  <2>5. Agrees(h, disk) /\ ~Found(h, name) /\ h.numFiles < MaxFiles
    BY <1>2, <1>4, <1>8, <2>3 DEF CacheGood, Agrees, Found
  <2>6. name \notin DOMAIN disk /\ Few(disk') /\ Agrees(w, disk')
    <3>1. DOMAIN disk' = DOMAIN disk \cup {name}
      BY <2>1
    <3> QED
      BY <1>3, <1>4, <2>2, <2>5, <3>1, NameAdded DEF CacheGood
  <2>7. /\ sys'.live = w.live /\ sys'.fileHandle = w.fileHandle
        /\ sys'.isMounted = w.isMounted
        /\ sys'.localFilenames = w.localFilenames /\ sys'.numFiles = w.numFiles
    BY <2>1, <2>4, StatKeeps
  <2>8. CacheGood(sys', disk')
    BY <2>6, <2>7 DEF CacheGood, Agrees
  <2> QED
    BY <2>1, <2>4, <2>6, <2>7, <2>8
<1>9. CASE FopenFails(s, name)
  <2>1. /\ disk' = disk /\ sys'.live = FALSE /\ sys'.isMounted = s.isMounted
        /\ sys'.localFilenames = s.localFilenames /\ sys'.numFiles = s.numFiles
    BY <1>3, <1>9 DEF FopenFails, Fields
  <2> QED
    BY <1>4, <2>1, SameCache
<1> QED
  BY <1>1, <1>6, <1>7, <1>8, <1>9

(* deleting: only the file that was named goes, and it is not the open     *)
(* one,                                                                    *)
LEMMA DeleteCache ==
  ASSUME Reliable, Good(sys, disk), CacheGood(sys, disk), NEW name, DeleteFile(name)
  PROVE  /\ CacheGood(sys', disk')
         /\ sys'.live = sys.live /\ sys'.fileHandle = sys.fileHandle
         /\ \/ disk' = disk
            \/ /\ name \in DOMAIN disk /\ ~(sys.live /\ name = sys.fileHandle)
               /\ disk' = [n \in DOMAIN disk \ {name} |-> disk[n]]
<1>1. PICK s \in Refreshed(sys, disk) :
        \/ sys' = s /\ disk' = disk
        \/ RemoveFile(s, name)
  BY DEF DeleteFile, RemoveFails
<1>2. /\ Good(s, disk) /\ CacheGood(s, disk)
      /\ s.live = sys.live /\ s.fileHandle = sys.fileHandle
      /\ s.isMounted = sys.isMounted /\ sys.isMounted
  BY <1>1, RefreshGood, RefreshAgrees DEF DeleteFile
<1>3. CASE sys' = s /\ disk' = disk
  BY <1>2, <1>3
<1>4. CASE RemoveFile(s, name)
  <2>1. /\ name \in DOMAIN disk /\ ~(s.live /\ name = s.fileHandle)
        /\ disk' = [n \in DOMAIN disk \ {name} |-> disk[n]]
        /\ sys' \in Refreshed(s, disk')
    BY <1>4 DEF RemoveFile
  <2>2. sys' = Listed(s, disk') /\ DOMAIN s = Fields
    BY <1>2, <2>1 DEF Refreshed, OrFails, Reliable, Good, Sound
  <2>3. SoundDisk(disk')
    BY <1>2, <2>1 DEF Good, SoundDisk
  <2>4. Few(disk')
    <3>1. IsFiniteSet(DOMAIN disk) /\ DOMAIN disk' \subseteq DOMAIN disk
      BY <2>1, NamesAssumption, FS_Subset DEF Good, SoundDisk
    <3>2. /\ Cardinality(DOMAIN disk) \in Nat /\ Cardinality(DOMAIN disk') \in Nat
          /\ Cardinality(DOMAIN disk') <= Cardinality(DOMAIN disk)
      BY <3>1, FS_Subset, FS_CardinalityType
    <3> QED
      BY <3>2, LimitsAssumption DEF CacheGood, Few
  <2>5. Agrees(sys', disk')
    BY <2>2, <2>3, <2>4, ListedAgrees
  <2>6. sys'.live = s.live /\ sys'.fileHandle = s.fileHandle
    BY <2>2 DEF Listed, Fields
  <2> QED
    BY <1>2, <2>1, <2>4, <2>5, <2>6 DEF CacheGood
<1> QED
  BY <1>1, <1>3, <1>4

(* writing: only the open file changes,                                    *)
LEMMA WriteCache ==
  ASSUME Good(sys, disk), CacheGood(sys, disk), NEW n \in Writes, NEW closeOnExit,
         WriteFile(n, closeOnExit)
  PROVE  /\ CacheGood(sys', disk')
         /\ sys.live
         /\ (sys'.live /\ sys'.fileHandle = sys.fileHandle) \/ ~sys'.live
         /\ \E k \in Nat : disk' = Written(k)
<1>0. PICK k \in Nat : \E s : /\ WroteOf(n, k, s) /\ disk' = Written(k)
                              /\ sys' = s \/ sys' \in AfterClose(s)
  BY WriteSteps
<1>1. PICK s : /\ WroteOf(n, k, s) /\ disk' = Written(k)
               /\ sys' = s \/ sys' \in AfterClose(s)
  BY <1>0
<1>2. Good(s, disk') /\ sys.live
  BY <1>1, WriteSteps, WroteGood
<1>3. DOMAIN disk' = DOMAIN disk
  BY <1>1 DEF Written
<1>4. /\ s.live = sys.live /\ s.fileHandle = sys.fileHandle
      /\ s.isMounted = sys.isMounted
      /\ s.localFilenames = sys.localFilenames /\ s.numFiles = sys.numFiles
  BY <1>1 DEF WroteOf
<1>5. s.isMounted /\ s.fileHandle \in Names
  BY <1>2, <1>4 DEF Good, Sound, SoundDisk
<1>6. /\ sys' = s \/ sys'.live = FALSE
      /\ sys'.isMounted = s.isMounted
      /\ sys'.localFilenames = s.localFilenames /\ sys'.numFiles = s.numFiles
  BY <1>1, <1>2, <1>5, NamesAssumption, CloseGood
<1>7. CacheGood(sys', disk')
  BY <1>3, <1>4, <1>6, SameCache
<1> QED
  BY <1>1, <1>2, <1>4, <1>6, <1>7

(* closing,                                                                *)
LEMMA CloseCache ==
  ASSUME Good(sys, disk), CacheGood(sys, disk), CloseFile
  PROVE  CacheGood(sys', disk') /\ disk' = disk /\ (sys' = sys \/ ~sys'.live)
<1>1. disk' = disk /\ sys' \in AfterClose(sys)
  BY DEF CloseFile
<1>2. /\ sys'.isMounted = sys.isMounted
      /\ sys'.localFilenames = sys.localFilenames /\ sys'.numFiles = sys.numFiles
      /\ sys.isMounted => sys'.live = FALSE \/ sys' = sys
  BY <1>1, CloseGood
<1>3. ~sys.isMounted => sys' = sys
  BY <1>1 DEF AfterClose
<1> QED
  BY <1>1, <1>2, <1>3, SameCache

(* and reading.                                                            *)
LEMMA ReadCache ==
  ASSUME Good(sys, disk), CacheGood(sys, disk),
         ResetFilePtr \/ \E n \in Writes : ReadFile(n)
  PROVE  /\ CacheGood(sys', disk') /\ disk' = disk
         /\ sys'.live = sys.live /\ sys'.fileHandle = sys.fileHandle
<1>1. \E q : sys' = [sys EXCEPT !.position = q] /\ disk' = disk
  BY DEF ResetFilePtr, ReadFile
<1>2. /\ disk' = disk
      /\ sys'.live = sys.live /\ sys'.fileHandle = sys.fileHandle
      /\ sys'.isMounted = sys.isMounted
      /\ sys'.localFilenames = sys.localFilenames /\ sys'.numFiles = sys.numFiles
  BY <1>1 DEF Good, Sound, Fields
<1> QED
  BY <1>2, SameCache

-----------------------------------------------------------------------------
(* The invariant for a directory that can be read.                         *)
CacheInv == FilesGood /\ CacheGood(sys, disk)

(* It is inductive as well.                                                *)
LEMMA NextCache == Reliable /\ CacheInv /\ [Next]_vars => CacheInv'
<1> SUFFICES ASSUME Reliable, Good(sys, disk), CacheGood(sys, disk), [Next]_vars
             PROVE  Good(sys', disk') /\ CacheGood(sys', disk')
  BY DEF CacheInv, FilesGood
<1>1. Good(sys', disk')
  BY NextGood
<1>2. CASE UNCHANGED vars
  BY <1>2 DEF vars
<1> QED
  BY <1>1, <1>2, InitFileSystemCache, DeInitFileSystemCache, CloseCache, ReadCache,
     DeleteCache, OpenCache, WriteCache DEF Next

(* Every step of the component is a step of the store, or none.            *)
LEMMA StepStores ==
  Reliable /\ CacheInv /\ [Next]_vars => [Store!Next]_(Store!vars)
<1> SUFFICES ASSUME Reliable, Good(sys, disk), CacheGood(sys, disk), [Next]_vars
             PROVE  [Store!Next]_(Store!vars)
  BY DEF CacheInv, FilesGood
<1>1. DOMAIN disk \subseteq Names /\ None \notin DOMAIN disk
  BY NamesAssumption DEF Good, SoundDisk
<1>2. CASE InitFileSystem \/ DeInitFileSystem \/ CloseFile
  <2>1. disk' = disk /\ (sys' = sys \/ ~sys'.live)
    BY <1>2, InitFileSystemCache, DeInitFileSystemCache, CloseCache
  <2> QED
    BY <2>1 DEF Store!Next, Store!Close, Store!vars
<1>3. CASE ResetFilePtr \/ \E n \in Writes : ReadFile(n)
  <2>1. disk' = disk /\ sys'.live = sys.live /\ sys'.fileHandle = sys.fileHandle
    BY <1>3, ReadCache
  <2> QED
    BY <2>1 DEF Store!vars
<1>4. ASSUME NEW name \in Names, DeleteFile(name)  PROVE [Store!Next]_(Store!vars)
  <2>1. /\ sys'.live = sys.live /\ sys'.fileHandle = sys.fileHandle
        /\ \/ disk' = disk
           \/ /\ name \in DOMAIN disk /\ ~(sys.live /\ name = sys.fileHandle)
              /\ disk' = [n \in DOMAIN disk \ {name} |-> disk[n]]
    BY <1>4, DeleteCache
  <2> QED
    BY <1>1, <2>1 DEF Store!Next, Store!Delete, Store!vars
<1>5. ASSUME NEW name \in Names, NEW createNew \in BOOLEAN, OpenFileRW(name, createNew)
      PROVE  [Store!Next]_(Store!vars)
  <2>1. \/ disk' = disk /\ ~sys'.live
        \/ /\ sys'.live /\ sys'.fileHandle = name
           /\ \/ name \in DOMAIN disk /\ disk' = disk
              \/ /\ name \notin DOMAIN disk
                 /\ disk' = [n \in DOMAIN disk \cup {name} |->
                               IF n = name THEN 0 ELSE disk[n]]
    BY <1>5, OpenCache
  <2> QED
    BY <2>1 DEF Store!Next, Store!Close, Store!Open, Store!Create, Store!vars
<1>6. ASSUME NEW n \in Writes, NEW closeOnExit \in BOOLEAN, WriteFile(n, closeOnExit)
      PROVE  [Store!Next]_(Store!vars)
  <2>1. PICK k \in Nat : disk' = Written(k)
    BY <1>6, WriteCache
  <2>2. /\ sys.live
        /\ (sys'.live /\ sys'.fileHandle = sys.fileHandle) \/ ~sys'.live
    BY <1>6, WriteCache
  <2>3. /\ disk'[sys.fileHandle] >= disk[sys.fileHandle]
        /\ sys.fileHandle \in DOMAIN disk
    BY <2>1, <2>2, WrittenIs
  <2>4. disk' = [m \in DOMAIN disk |->
                   IF m = sys.fileHandle THEN disk'[m] ELSE disk[m]]
    BY <2>1, <2>3 DEF Written
  <2> QED
    BY <1>1, <2>2, <2>3, <2>4 DEF Store!Next, Store!Write, Store!vars
<1>7. CASE UNCHANGED vars
  BY <1>7 DEF vars, Store!vars
<1> QED
  BY <1>2, <1>3, <1>4, <1>5, <1>6, <1>7 DEF Next

(* While the directory can be read, the cache of a mounted partition is    *)
(* the directory.                                                          *)
THEOREM CacheIsDirectory ==
  ASSUME Reliable
  PROVE  Spec => []NamesAgree
<1>1. Init => CacheInv
  BY InitGood, InitCache DEF CacheInv, FilesGood
<1>2. CacheInv /\ [Next]_vars => CacheInv'
  BY NextCache
<1>3. CacheInv => NamesAgree
  <2> SUFFICES ASSUME Agrees(sys, disk)  PROVE NamesAgree
    BY DEF CacheInv, CacheGood, NamesAgree
  <2>1. { sys.localFilenames[i] : i \in 1..sys.numFiles } = DOMAIN disk
    BY DEF Agrees
  <2> QED
    BY <2>1 DEF Agrees, NamesAgree
<1> QED
  BY <1>1, <1>2, <1>3, PTL DEF Spec

(* The component keeps the files there are: it implements the store.       *)
THEOREM ImplementsStore ==
  ASSUME Reliable
  PROVE  Spec => FilesAreKept
<1>1. Init => CacheInv /\ Store!Init
  <2>1. Init => CacheInv
    BY InitGood, InitCache DEF CacheInv, FilesGood
  <2>2. Init => sys.live = FALSE
    BY DEF Init
  <2>3. Init => SoundDisk(disk)
    BY InitGood DEF Good
  <2> QED
    BY <2>1, <2>2, <2>3 DEF SoundDisk, Store!Init
<1>2. CacheInv /\ [Next]_vars => CacheInv'
  BY NextCache
<1>3. CacheInv /\ [Next]_vars => [Store!Next]_(Store!vars)
  BY StepStores
<1> QED
  BY <1>1, <1>2, <1>3, PTL DEF Spec, FilesAreKept, Store!Spec
-----------------------------------------------------------------------------
(***************************************************************************)
(* The bytes in use: a sum over the files, in the order CHOOSE takes them. *)
(***************************************************************************)

(* Some file of T and, by g, the others.                                   *)
Some(T) == CHOOSE n \in T : TRUE

SumBy(g, d, T) == IF T = {} THEN 0 ELSE d[Some(T)] + g[T \ {Some(T)}]

(* g is the sum over every set of at most k files.                         *)
IsSum(g, d, k) ==
  /\ g \in [SUBSET DOMAIN d -> Nat]
  /\ \A T \in SUBSET DOMAIN d : Cardinality(T) <= k => g[T] = SumBy(g, d, T)

(* Taking one file away, and having none.                                 *)
LEMMA FewerFiles ==
  ASSUME NEW S, IsFiniteSet(S)
  PROVE  /\ Cardinality(S) \in Nat
         /\ \A T \in SUBSET S : Cardinality(T) \in Nat /\ Cardinality(T) <= Cardinality(S)
         /\ \A T \in SUBSET S : T # {} =>
              /\ Some(T) \in T /\ T \ {Some(T)} \in SUBSET S
              /\ Cardinality(T) >= 1
              /\ Cardinality(T \ {Some(T)}) = Cardinality(T) - 1
<1>1. Cardinality(S) \in Nat
  BY FS_CardinalityType
<1>2. ASSUME NEW T \in SUBSET S
      PROVE  IsFiniteSet(T) /\ Cardinality(T) \in Nat /\ Cardinality(T) <= Cardinality(S)
  <2>1. IsFiniteSet(T) /\ Cardinality(T) <= Cardinality(S)
    BY FS_Subset
  <2> QED
    BY <2>1, FS_CardinalityType
<1>3. ASSUME NEW T \in SUBSET S, T # {}
      PROVE  /\ Some(T) \in T /\ T \ {Some(T)} \in SUBSET S
             /\ Cardinality(T) >= 1
             /\ Cardinality(T \ {Some(T)}) = Cardinality(T) - 1
  <2>1. Some(T) \in T
    BY <1>3 DEF Some
  <2>2. Cardinality(T \ {Some(T)}) = Cardinality(T) - 1
    BY <1>2, <2>1, FS_RemoveElement
  <2>3. T \ {Some(T)} \in SUBSET S
    OBVIOUS
  <2>4. Cardinality(T) # 0
    BY <1>2, <1>3, FS_EmptySet
  <2>5. Cardinality(T) \in Nat
    BY <1>2
  <2> QED
    BY <2>1, <2>2, <2>3, <2>4, <2>5
<1> QED
  BY <1>1, <1>2, <1>3

LEMMA NoFiles ==
  ASSUME NEW S, IsFiniteSet(S), NEW T \in SUBSET S, Cardinality(T) <= 0
  PROVE  T = {}
<1>1. IsFiniteSet(T)
  BY FS_Subset
<1>2. Cardinality(T) \in Nat
  BY <1>1, FS_CardinalityType
<1>3. Cardinality(T) = 0
  BY <1>2
<1> QED
  BY <1>1, <1>3, FS_EmptySet

LEMMA SumExists ==
  ASSUME NEW d, SoundDisk(d)
  PROVE  \E g : IsSum(g, d, Cardinality(DOMAIN d))
<1> DEFINE S == DOMAIN d
           n == Cardinality(S)
           P == {k \in 0..n : \E g : IsSum(g, d, k)}
<1>1. IsFiniteSet(S) /\ \A x \in S : d[x] \in Nat
  BY NamesAssumption, FS_Subset DEF SoundDisk
<1>2. /\ n \in Nat
      /\ \A T \in SUBSET S : Cardinality(T) \in Nat
      /\ \A T \in SUBSET S : T # {} =>
           /\ Some(T) \in T /\ T \ {Some(T)} \in SUBSET S
           /\ Cardinality(T) >= 1
           /\ Cardinality(T \ {Some(T)}) = Cardinality(T) - 1
  BY <1>1, FewerFiles
<1>3. 0 \in P
  <2> DEFINE g == [T \in SUBSET S |-> 0]
  <2>1. g \in [SUBSET S -> Nat]
    OBVIOUS
  <2>2. ASSUME NEW T \in SUBSET S, Cardinality(T) <= 0
        PROVE  g[T] = SumBy(g, d, T)
    <3>1. T = {}
      BY <1>1, <2>2, NoFiles
    <3>2. g[T] = 0
      OBVIOUS
    <3> QED
      BY <3>1, <3>2 DEF SumBy
  <2> HIDE DEF g
  <2>3. IsSum(g, d, 0)
    BY <2>1, <2>2 DEF IsSum
  <2> QED
    BY <1>2, <2>3
<1>4. ASSUME NEW k \in 1..n, k - 1 \in P
      PROVE  k \in P
  <2>1. PICK g : IsSum(g, d, k - 1)
    BY <1>4
  <2>2. /\ g \in [SUBSET S -> Nat]
        /\ \A T \in SUBSET S : Cardinality(T) <= k - 1 => g[T] = SumBy(g, d, T)
    BY <2>1 DEF IsSum
  <2> DEFINE h == [T \in SUBSET S |-> IF Cardinality(T) <= k - 1 THEN g[T]
                                                                  ELSE SumBy(g, d, T)]
  <2>3. \A T \in SUBSET S : SumBy(g, d, T) \in Nat
    <3> TAKE T \in SUBSET S
    <3>1. CASE T = {}
      BY <3>1 DEF SumBy
    <3>2. CASE T # {}
      <4>1. d[Some(T)] \in Nat /\ g[T \ {Some(T)}] \in Nat
        BY <1>1, <1>2, <2>2, <3>2
      <4> QED
        BY <3>2, <4>1 DEF SumBy
    <3> QED
      BY <3>1, <3>2
  <2>4. h \in [SUBSET S -> Nat]
    BY <2>2, <2>3
  <2>5. ASSUME NEW T \in SUBSET S, Cardinality(T) <= k
        PROVE  h[T] = SumBy(h, d, T)
    <3>1. h[T] = SumBy(g, d, T)
      BY <2>2
    <3>2. SumBy(h, d, T) = SumBy(g, d, T)
      <4>1. CASE T = {}
        BY <4>1 DEF SumBy
      <4>2. CASE T # {}
        <5> DEFINE R == T \ {Some(T)}
        <5>1. R \in SUBSET S /\ Cardinality(R) <= k - 1
          <6>1. R \in SUBSET S /\ Cardinality(R) = Cardinality(T) - 1 /\ Cardinality(T) \in Nat
            BY <1>2, <4>2
          <6> HIDE DEF R
          <6> QED
            BY <2>5, <6>1
        <5>2. h[R] = g[R]
          <6> HIDE DEF R
          <6> QED
            BY <5>1
        <5> QED
          BY <4>2, <5>2 DEF SumBy
      <4> QED
        BY <4>1, <4>2
    <3> QED
      BY <3>1, <3>2
  <2> HIDE DEF h
  <2>6. IsSum(h, d, k)
    BY <2>4, <2>5 DEF IsSum
  <2> QED
    BY <1>2, <2>6
<1>5. \A k \in 0..n : k \in P
  <2> HIDE DEF P, n
  <2> QED
    BY <1>2, <1>3, <1>4, UpTo
<1>6. n \in 0..n
  BY <1>2
<1> QED
  BY <1>5, <1>6

(* They are a number of bytes.                                             *)
LEMMA UsedBytesType ==
  ASSUME NEW d, SoundDisk(d)
  PROVE  UsedBytes(d) \in Nat
<1> DEFINE S == DOMAIN d
           n == Cardinality(S)
           F(g) == [T \in SUBSET S |-> IF T = {} THEN 0
                                       ELSE d[CHOOSE x \in T : TRUE]
                                              + g[T \ {CHOOSE x \in T : TRUE}]]
           u == CHOOSE g : g = F(g)
           P == {k \in 0..n : \A T \in SUBSET S : Cardinality(T) <= k => u[T] \in Nat}
<1>1. IsFiniteSet(S) /\ \A x \in S : d[x] \in Nat
  BY NamesAssumption, FS_Subset DEF SoundDisk
<1>2. /\ n \in Nat
      /\ \A T \in SUBSET S : Cardinality(T) \in Nat /\ Cardinality(T) <= n
      /\ \A T \in SUBSET S : T # {} =>
           /\ Some(T) \in T /\ T \ {Some(T)} \in SUBSET S
           /\ Cardinality(T) >= 1
           /\ Cardinality(T \ {Some(T)}) = Cardinality(T) - 1
  BY <1>1, FewerFiles
<1>3. UsedBytes(d) = u[S]
  BY Zenon DEF UsedBytes, MapThenSumSet, MapThenFoldSet
<1>4. \E g : g = F(g)
  <2>1. PICK g : IsSum(g, d, n)
    BY SumExists
  <2>2. /\ g \in [SUBSET S -> Nat]
        /\ \A T \in SUBSET S : g[T] = SumBy(g, d, T)
    BY <1>2, <2>1 DEF IsSum
  <2>3. \A T \in SUBSET S : g[T] = F(g)[T]
    BY <2>2 DEF SumBy, Some
  <2>4. g = [T \in SUBSET S |-> g[T]]
    BY <2>2
  <2>5. g = F(g)
    BY <2>3, <2>4
  <2> QED
    BY <2>5
<1>5. u = F(u)
  <2> HIDE DEF F
  <2> QED
    BY <1>4, Zenon
<1> HIDE DEF u
<1>6. \A T \in SUBSET S : u[T] = SumBy(u, d, T)
  <2> TAKE T \in SUBSET S
  <2>1. u[T] = F(u)[T]
    BY <1>5, Zenon
  <2> QED
    BY <2>1 DEF SumBy, Some
<1>7. 0 \in P
  <2>1. ASSUME NEW T \in SUBSET S, Cardinality(T) <= 0  PROVE u[T] \in Nat
    <3>1. T = {}
      BY <1>1, <2>1, NoFiles
    <3>2. u[T] = 0
      <4>1. u[T] = SumBy(u, d, T)
        BY <1>6
      <4> HIDE DEF S, n, F, P
      <4> QED
        BY <3>1, <4>1, Zenon DEF SumBy
    <3> QED
      BY <3>2
  <2> QED
    BY <1>2, <2>1
<1>8. ASSUME NEW k \in 1..n, k - 1 \in P  PROVE k \in P
  <2>1. ASSUME NEW T \in SUBSET S, Cardinality(T) <= k  PROVE u[T] \in Nat
    <3>1. CASE T = {}
      <4>1. u[T] = SumBy(u, d, T)
        BY <1>6
      <4>2. u[T] = 0
        <5> HIDE DEF S, n, F, P
        <5> QED
          BY <3>1, <4>1, Zenon DEF SumBy
      <4> QED
        BY <4>2
    <3>2. CASE T # {}
      <4> DEFINE R == T \ {Some(T)}
      <4>1. R \in SUBSET S /\ Cardinality(R) <= k - 1 /\ Some(T) \in S
        <5>1. R \in SUBSET S /\ Cardinality(R) = Cardinality(T) - 1 /\ Cardinality(T) \in Nat
              /\ Some(T) \in S
          BY <1>2, <3>2
        <5> HIDE DEF R
        <5> QED
          BY <2>1, <5>1
      <4>2. u[R] \in Nat
        <5> HIDE DEF R
        <5> QED
          BY <1>8, <4>1
      <4>3. u[T] = d[Some(T)] + u[R]
        BY <1>6, <3>2 DEF SumBy
      <4> HIDE DEF R
      <4> QED
        BY <1>1, <4>1, <4>2, <4>3
    <3> QED
      BY <3>1, <3>2
  <2>2. k \in 0..n
    BY <1>2
  <2> QED
    BY <2>1, <2>2
<1>9. \A k \in 0..n : k \in P
  <2> HIDE DEF P, n
  <2> QED
    BY <1>2, <1>7, <1>8, UpTo
<1>10. u[S] \in Nat
  <2>1. n \in 0..n /\ n <= n /\ S \in SUBSET S
    BY <1>2
  <2> QED
    BY <1>9, <2>1
<1> QED
  BY <1>3, <1>10

-----------------------------------------------------------------------------
(* The structures keep their types: closed,                                *)
LEMMA CloseType ==
  ASSUME NEW s \in Structures, NEW t \in AfterClose(s)
  PROVE  t \in Structures
<1>1. \/ t = s
      \/ t = Closed(s)
      \/ t = [s EXCEPT !.live = FALSE, !.position = 0, !.failed = @ \cup {"close"}]
  BY DEF AfterClose, OrFails
<1>2. Closed(s) \in Structures
  BY DEF Closed, Structures
<1>3. s.failed \cup {"close"} \in SUBSET {"stat", "write", "close"}
  BY DEF Structures
<1>4. [s EXCEPT !.live = FALSE, !.position = 0, !.failed = @ \cup {"close"}] \in Structures
  BY <1>3 DEF Structures
<1> QED
  BY <1>1, <1>2, <1>4

(* with the directory listed again, since it has no more files than there  *)
(* are rows,                                                               *)
LEMMA RefreshType ==
  ASSUME NEW s \in Structures, NEW d, SoundDisk(d), Few(d), NEW t \in Refreshed(s, d)
  PROVE  t \in Structures
<1>1. \/ t = s
      \/ t = Listed(s, d)
      \/ t = [s EXCEPT !.localFilenames = NoNames]
  BY DEF Refreshed, OrFails
<1>2. NoNames \in [Rows -> Names \cup {None}]
  BY DEF NoNames
<1>3. [s EXCEPT !.localFilenames = NoNames] \in Structures
  BY <1>2 DEF Structures
<1>4. Listed(s, d) \in Structures
  <2> DEFINE found == SetToSeq(DOMAIN d)
             names == [i \in Rows |-> IF i <= Len(found) THEN found[i] ELSE None]
  <2>1. IsFiniteSet(DOMAIN d)
    BY NamesAssumption, FS_Subset DEF SoundDisk
  <2>2. /\ Cardinality(DOMAIN d) \in Nat
        /\ Len(found) = Cardinality(DOMAIN d)
        /\ \A x : x \in DOMAIN d <=> \E i \in 1..Cardinality(DOMAIN d) : found[i] = x
    BY <2>1, SetToSeqIs
  <2>3. Listed(s, d) = [s EXCEPT !.localFilenames = names, !.numFiles = Len(found),
                                 !.interfaceNumFiles = Len(found)]
    BY Zenon DEF Listed
  <2> HIDE DEF found
  <2>4. Len(found) \in 0..MaxFiles /\ Len(found) \in Nat
    BY <2>2, LimitsAssumption DEF Few
  <2>5. names \in [Rows -> Names \cup {None}]
    <3>1. ASSUME NEW i \in Rows, i <= Len(found)  PROVE found[i] \in Names
      <4>1. i \in 1..Cardinality(DOMAIN d)
        BY <2>2, <3>1, LimitsAssumption DEF Rows
      <4>2. found[i] \in DOMAIN d
        BY <2>2, <4>1
      <4> QED
        BY <4>2 DEF SoundDisk
    <3> QED
      BY <3>1
  <2> HIDE DEF names
  <2> QED
    BY <2>3, <2>4, <2>5 DEF Structures
<1> QED
  BY <1>1, <1>3, <1>4

(* mounted,                                                                *)
LEMMA InitFileSystemType ==
  ASSUME sys \in Structures, Good(sys, disk), Few(disk), InitFileSystem
  PROVE  sys' \in Structures
<1> DEFINE s == Cleared(sys)
<1>1. s \in Structures
  <2>1. NoNames \in [Rows -> Names \cup {None}] /\ 0 \in 0..MaxFiles
    BY LimitsAssumption DEF NoNames
  <2> QED
    BY <2>1 DEF Cleared, Structures
<1> HIDE DEF s
<1>2. ASSUME NEW total \in Nat, NEW used \in Nat  PROVE Mounted(s, total, used) \in Structures
  BY <1>1 DEF Mounted, Structures
<1>3. ASSUME NEW r \in Structures
      PROVE  /\ NotMounted(r) \in Structures
             /\ [r EXCEPT !.runOnceFlag = FALSE, !.hasMountedSucessfully = TRUE,
                          !.interfaceNumFiles = r.numFiles] \in Structures
  <2>1. r.numFiles \in Nat
    BY LimitsAssumption DEF Structures
  <2> QED
    BY <2>1 DEF NotMounted, Structures
<1>4. CASE InitSucceeds(s)
  <2>1. Capacity \in Nat /\ UsedBytes(disk) \in Nat
    BY LimitsAssumption, UsedBytesType DEF Good
  <2>2. Mounted(s, Capacity, UsedBytes(disk)) \in Structures
    BY <1>2, <2>1
  <2>3. \A r \in Refreshed(Mounted(s, Capacity, UsedBytes(disk)), disk) : r \in Structures
    BY <2>2, RefreshType DEF Good
  <2> QED
    BY <1>3, <1>4, <2>3 DEF InitSucceeds
<1>5. CASE InitFails(s)
  BY <1>1, <1>2, <1>3, <1>5 DEF InitFails
<1> QED
  BY <1>4, <1>5 DEF InitFileSystem, s

(* unmounted,                                                              *)
LEMMA DeInitFileSystemType ==
  ASSUME sys \in Structures, DeInitFileSystem
  PROVE  sys' \in Structures
<1>1. PICK s \in AfterClose(sys) :
        \E r \in IF s.fileHandle # None THEN {s}
                 ELSE OrFails("unregister", {Unmounted(s)}, {s}) :
          sys' = [r EXCEPT !.runOnceFlag = FALSE]
  BY DEF DeInitFileSystem
<1>2. PICK r : /\ r = s \/ r = Unmounted(s)
               /\ sys' = [r EXCEPT !.runOnceFlag = FALSE]
  BY <1>1 DEF OrFails
<1>3. s \in Structures
  BY <1>1, CloseType
<1>4. r \in Structures
  <2>1. Unmounted(s) \in Structures
    BY <1>3 DEF Unmounted, Structures
  <2> QED
    BY <1>2, <1>3, <2>1
<1> QED
  BY <1>2, <1>4 DEF Structures

(* read,                                                                   *)
LEMMA ReadType ==
  ASSUME sys \in Structures, Good(sys, disk),
         ResetFilePtr \/ \E n \in Writes : ReadFile(n)
  PROVE  sys' \in Structures
<1>1. \E q \in Nat : sys' = [sys EXCEPT !.position = q]
  <2>1. CASE ResetFilePtr
    BY <2>1 DEF ResetFilePtr
  <2>2. ASSUME NEW n \in Writes, ReadFile(n)
        PROVE  \E q \in Nat : sys' = [sys EXCEPT !.position = q]
    <3> DEFINE q == GreaterOf(sys.position,
                              LesserOf(sys.position + n, disk[sys.fileHandle]))
    <3>1. sys.live /\ sys' = [sys EXCEPT !.position = q]
      BY <2>2 DEF ReadFile
    <3>2. sys.position \in Nat /\ disk[sys.fileHandle] \in Nat
      BY <3>1 DEF Good, Sound, SoundDisk
    <3>3. q \in Nat
      BY <3>2, LimitsAssumption DEF GreaterOf, LesserOf
    <3> QED
      BY <3>1, <3>3
  <2> QED
    BY <2>1, <2>2
<1> QED
  BY <1>1 DEF Structures

(* with a file removed,                                                    *)
LEMMA DeleteType ==
  ASSUME sys \in Structures, SoundDisk(disk), Few(disk), SoundDisk(disk'), Few(disk'),
         NEW name, DeleteFile(name)
  PROVE  sys' \in Structures
<1>1. PICK s \in Refreshed(sys, disk) :
        sys' = s \/ sys' \in Refreshed(s, disk')
  BY DEF DeleteFile, RemoveFile, RemoveFails
<1>2. s \in Structures
  BY <1>1, RefreshType
<1> QED
  BY <1>1, <1>2, RefreshType

(* with a file opened, that is there or gets a row of its own,             *)
LEMMA OpenType ==
  ASSUME sys \in Structures, SoundDisk(disk), SoundDisk(disk'),
         NEW name \in Names, NEW createNew \in BOOLEAN, OpenFileRW(name, createNew)
  PROVE  sys' \in Structures
<1>1. PICK s \in AfterClose(sys) :
        \/ sys' = s
        \/ /\ ~MayNotOpen(s, name, createNew)
           /\ \/ Found(s, name) /\ FopenExisting(s, name)
              \/ ~Found(s, name) /\ FopenNew(s, name)
              \/ FopenFails(s, name)
  BY DEF OpenFileRW
<1>2. s \in Structures
  BY <1>1, CloseType
<1>3. Handle(s, name) \in Structures
  BY <1>2 DEF Handle, Structures
<1>4. ASSUME NEW t \in Structures, NEW d, SoundDisk(d), NEW u \in AfterStat(t, d, name)
      PROVE  u \in Structures
  <2>1. \/ u = Sized(t, d, name) /\ t.openFilePath \in DOMAIN d
        \/ u = [t EXCEPT !.failed = @ \cup {"stat"}]
        \/ u = t
    BY DEF AfterStat, OrFails
  <2>2. CASE u = Sized(t, d, name) /\ t.openFilePath \in DOMAIN d
    <3>1. d[t.openFilePath] \in Nat
      BY <2>2, <1>4 DEF SoundDisk
    <3> QED
      BY <2>2, <3>1 DEF Sized, Structures
  <2>3. CASE u = [t EXCEPT !.failed = @ \cup {"stat"}]
    <3>1. t.failed \cup {"stat"} \in SUBSET {"stat", "write", "close"}
      BY DEF Structures
    <3> QED
      BY <2>3, <3>1 DEF Structures
  <2> QED
    BY <2>1, <2>2, <2>3
<1>5. CASE FopenExisting(s, name)
  BY <1>3, <1>4, <1>5 DEF FopenExisting
<1>6. CASE ~Found(s, name) /\ ~MayNotOpen(s, name, createNew) /\ FopenNew(s, name)
  <2> DEFINE h == Handle(s, name)
             names == [i \in Rows |-> IF i = h.numFiles + 1 THEN name
                                      ELSE IF i = h.numFiles + 1 + 1 THEN None
                                      ELSE h.localFilenames[i]]
             path == IF h.numFiles + 1 = MaxFiles THEN None ELSE h.openFilePath
  <2>1. h.numFiles = s.numFiles
    BY <1>2 DEF Handle, Structures
  <2>2. s.numFiles \in 0..MaxFiles /\ ~(s.numFiles >= MaxFiles)
    BY <1>2, <1>6 DEF MayNotOpen, Structures
  <2>3. WithName(h, name) = [h EXCEPT !.numFiles = h.numFiles + 1,
                                      !.localFilenames = names, !.openFilePath = path]
    BY DEF WithName
  <2> HIDE DEF h
  <2>4. h \in Structures
    BY <1>3 DEF h
  <2>5. h.numFiles + 1 \in 0..MaxFiles
    BY <2>1, <2>2, LimitsAssumption
  <2>6. names \in [Rows -> Names \cup {None}] /\ path \in Names \cup {None}
    BY <2>4 DEF Structures
  <2> HIDE DEF names, path
  <2>7. WithName(h, name) \in Structures
    BY <2>3, <2>4, <2>5, <2>6 DEF Structures
  <2>8. sys' \in AfterStat(WithName(h, name), disk', name)
    BY <1>6 DEF FopenNew, h
  <2> QED
    BY <1>4, <2>7, <2>8
<1>7. CASE FopenFails(s, name)
  BY <1>2, <1>7 DEF FopenFails, Structures
<1> QED
  BY <1>1, <1>2, <1>5, <1>6, <1>7

(* and written to.                                                         *)
LEMMA WriteType ==
  ASSUME sys \in Structures, NEW n \in Writes, NEW closeOnExit, WriteFile(n, closeOnExit)
  PROVE  sys' \in Structures
<1>1. n \in Nat
  BY LimitsAssumption
<1>2. /\ sys.failed \cup {"write"} \in SUBSET {"stat", "write", "close"}
      /\ sys.openFileNumBytes \in Nat /\ sys.position \in Nat
  BY DEF Structures
<1>3. CASE FwriteAll(n, closeOnExit)
  <2> DEFINE s == [sys EXCEPT !.openFileNumBytes = Sum32(@, n), !.position = @ + n]
  <2>1. s \in Structures
    <3>1. Sum32(sys.openFileNumBytes, n) \in Nat /\ sys.position + n \in Nat
      <4>1. Sum32(sys.openFileNumBytes, n) \in Nat
        BY <1>1, <1>2, SumIsNat
      <4> QED
        BY <1>1, <1>2, <4>1
    <3> QED
      BY <3>1 DEF Structures
  <2>2. sys' = s \/ sys' \in AfterClose(s)
    BY <1>3 DEF FwriteAll
  <2> HIDE DEF s
  <2> QED
    BY <2>1, <2>2, CloseType
<1>4. CASE FwriteLess(n)
  <2>1. PICK k \in 0..n :
          sys' = [sys EXCEPT !.position = @ + k, !.failed = @ \cup {"write"}]
    BY <1>4 DEF FwriteLess
  <2>2. sys.position + k \in Nat
    BY <1>1, <1>2
  <2> QED
    BY <1>2, <2>1, <2>2 DEF Structures
<1>5. CASE FflushLess(n, closeOnExit)
  <2>1. PICK k \in 0..n :
          LET s == [sys EXCEPT !.openFileNumBytes = Sum32(@, n),
                               !.position = @ + k, !.failed = @ \cup {"write"}]
          IN  sys' \in IF closeOnExit THEN AfterClose(s) ELSE {s}
    BY <1>5 DEF FflushLess
  <2> DEFINE s == [sys EXCEPT !.openFileNumBytes = Sum32(@, n),
                              !.position = @ + k, !.failed = @ \cup {"write"}]
  <2>2. s \in Structures
    <3>1. Sum32(sys.openFileNumBytes, n) \in Nat /\ sys.position + k \in Nat
      <4>1. Sum32(sys.openFileNumBytes, n) \in Nat
        BY <1>1, <1>2, SumIsNat
      <4> QED
        BY <1>1, <1>2, <4>1
    <3> QED
      BY <1>2, <3>1 DEF Structures
  <2>3. sys' = s \/ sys' \in AfterClose(s)
    BY <2>1
  <2> HIDE DEF s
  <2> QED
    BY <2>2, <2>3, CloseType
<1> QED
  BY <1>3, <1>4, <1>5 DEF WriteFile

(* The cache's invariant with the types.                                   *)
TypedCache == CacheInv /\ sys \in Structures

LEMMA NextType == Reliable /\ TypedCache /\ [Next]_vars => TypedCache'
<1> SUFFICES ASSUME Reliable, CacheInv, sys \in Structures, [Next]_vars
             PROVE  CacheInv' /\ sys' \in Structures
  BY DEF TypedCache
<1>1. CacheInv'
  BY NextCache
<1>2. /\ Good(sys, disk) /\ SoundDisk(disk) /\ Few(disk)
      /\ SoundDisk(disk') /\ Few(disk')
  BY <1>1 DEF CacheInv, FilesGood, CacheGood, Good
<1>3. CASE UNCHANGED vars
  BY <1>1, <1>3 DEF vars
<1>4. CASE CloseFile
  BY <1>1, <1>4, CloseType DEF CloseFile
<1> QED
  BY <1>1, <1>2, <1>3, <1>4, InitFileSystemType, DeInitFileSystemType, ReadType,
     DeleteType, OpenType, WriteType DEF Next

(* The cache tells the truth: while the directory can be read, the rows of *)
(* a mounted partition are its files, every field stays what it is         *)
(* declared as, and the file shown as open is the one that is.             *)
THEOREM CacheTellsTheTruth ==
  ASSUME Reliable
  PROVE  Spec => []CacheIsTrue
<1>1. Init => TypedCache
  <2> SUFFICES ASSUME Init  PROVE CacheInv /\ sys \in Structures
    BY DEF TypedCache
  <2>1. CacheInv
    BY InitGood, InitCache DEF CacheInv, FilesGood
  <2>2. NoNames \in [Rows -> Names \cup {None}] /\ 0 \in 0..MaxFiles
    BY LimitsAssumption DEF NoNames
  <2>3. sys \in Structures
    BY <2>2 DEF Init, Structures
  <2> QED
    BY <2>1, <2>3
<1>2. TypedCache /\ [Next]_vars => TypedCache'
  BY NextType
<1>3. TypedCache => TypeOK
  BY DEF TypedCache, CacheInv, FilesGood, Good, SoundDisk, TypeOK
<1>4. TypeOK /\ NamesAgree /\ ShownFileIsOpen => CacheIsTrue
  BY DEF CacheIsTrue
<1> QED
  BY <1>1, <1>2, <1>3, <1>4, CacheIsDirectory, ShownIsOpen, PTL DEF Spec
=============================================================================
