------------------------------ MODULE FileSys ------------------------------
(***************************************************************************)
(* The file system component: a cache of the directory of a littlefs       *)
(* partition and at most one open file, kept in two global structures, one *)
(* of its own (fileSysLocalData) and one its users look at                 *)
(* (fileSysInterfaceData).  Every operation is called from one task and    *)
(* runs to its end; what makes it hard is that each of the library calls   *)
(* it makes can fail, and that the cache is what it decides by.            *)
(*                                                                         *)
(* A file is its name and its size; a path is the name of the file.  The   *)
(* steps of an operation are functions from the structures to the set of   *)
(* what they can become.                                                   *)
(***************************************************************************)
EXTENDS Integers, FiniteSets, FiniteSetsExt, SequencesExt

CONSTANTS
  Names,          \* file names, of less than MAX_FILENAME_CHARS
  None,           \* the empty string, and the NULL of a handle
  MaxFiles,       \* MAX_NUM_FILES
  MaxFileSize,    \* MAX_FILE_SIZE_IN_BYTES
  Capacity,       \* the size of the partition
  Word,           \* 2^32: where the counts of bytes wrap
  Writes,         \* the lengths that are read and written
  Disks,          \* what may be on the partition at boot
  Failing         \* the library calls that can fail

ASSUME NamesAssumption  == IsFiniteSet(Names) /\ None \notin Names
ASSUME LimitsAssumption == /\ MaxFiles \in Nat \ {0}
                           /\ MaxFileSize \in Nat \ {0} /\ Capacity \in Nat
                           /\ Writes \subseteq Nat
(* Memory and partition are far from 2^32 bytes, and what is written from  *)
(* a buffer is in memory.                                                  *)
ASSUME WordAssumption   == /\ Word \in Nat \ {0}
                           /\ \A n \in Writes : n + MaxFileSize < Word
ASSUME DisksAssumption  ==
  \A d \in Disks : /\ DOMAIN d \subseteq Names
                   /\ Cardinality(DOMAIN d) <= MaxFiles
                   /\ \A n \in DOMAIN d : d[n] \in 0..MaxFileSize - 1
ASSUME FailingAssumption ==
  Failing \subseteq {"register", "info", "open", "stat", "write", "close",
                     "opendir", "remove", "unregister"}

VARIABLES
  disk,     \* the files on the partition, with their sizes
  sys       \* the two structures, the open FILE and runOnceFlag

vars == <<disk, sys>>

Rows == 1..MaxFiles

NoNames == [i \in Rows |-> None]

Structures ==
  [ runOnceFlag : BOOLEAN,
    registered : BOOLEAN,                   \* littlefs knows the partition
    (* fileSysLocalData *)
    isMounted : BOOLEAN,
    partitionTotalBytes : Nat, partitionUsedBytes : Nat,
    localFilenames : [Rows -> Names \cup {None}],
    numFiles : 0..MaxFiles,
    openFilePath : Names \cup {None},
    openFileNumBytes : Nat,
    fileHandle : Names \cup {None},         \* the file it was opened for
    (* the FILE behind the handle: fclose has not been called on it yet *)
    live : BOOLEAN,
    position : Nat,
    (* fileSysInterfaceData, its numFiles as interfaceNumFiles *)
    hasMountedSucessfully : BOOLEAN,
    interfaceNumFiles : Nat,
    openFilename : Names \cup {None},
    isFileOpen : BOOLEAN,
    numBytesInOpenFile : Nat,
    (* history: the calls that have failed *)
    failed : SUBSET {"stat", "write", "close"} ]

TypeOK ==
  /\ DOMAIN disk \subseteq Names
  /\ \A n \in DOMAIN disk : disk[n] \in Nat
  /\ sys \in Structures

Init ==
  /\ disk \in Disks
  /\ sys = [ runOnceFlag |-> TRUE, registered |-> FALSE, isMounted |-> FALSE,
             partitionTotalBytes |-> 0, partitionUsedBytes |-> 0,
             localFilenames |-> NoNames, numFiles |-> 0,
             openFilePath |-> None, openFileNumBytes |-> 0,
             fileHandle |-> None, live |-> FALSE, position |-> 0,
             hasMountedSucessfully |-> FALSE, interfaceNumFiles |-> 0,
             openFilename |-> None, isFileOpen |-> FALSE,
             numBytesInOpenFile |-> 0, failed |-> {} ]

(* The outcome bad comes on top of good when the library call can fail.    *)
OrFails(call, good, bad) == IF call \in Failing THEN good \cup bad ELSE good

UsedBytes(d) == MapThenSumSet(LAMBDA n : d[n], DOMAIN d)

-----------------------------------------------------------------------------
(* fileSys_refreshLocalData: the names are cleared before the directory is *)
(* opened, the number of files is set after it was read.  The result,      *)
(* which no caller looks at, is left out, and closedir's failure with it.  *)
Listed(s, d) ==
  LET found == SetToSeq(DOMAIN d)
  IN  [s EXCEPT !.localFilenames = [i \in Rows |-> IF i <= Len(found)
                                                   THEN found[i] ELSE None],
                !.numFiles = Len(found),
                !.interfaceNumFiles = Len(found)]

Refreshed(s, d) ==
  IF s.isMounted
  THEN OrFails("opendir", {Listed(s, d)}, {[s EXCEPT !.localFilenames = NoNames]})
  ELSE {s}

(* fileSys_closeFile.  The retries are one call of fclose: after the last  *)
(* one has failed the handle is still there, and the FILE is not.          *)
Closed(s) ==
  [s EXCEPT !.fileHandle = None, !.live = FALSE, !.position = 0,
            !.openFilePath = None, !.openFileNumBytes = 0, !.isFileOpen = FALSE,
            !.numBytesInOpenFile = 0, !.openFilename = None]

AfterClose(s) ==
  IF s.fileHandle = None \/ ~s.isMounted THEN {s}
  ELSE OrFails("close", {Closed(s)},
               {[s EXCEPT !.live = FALSE, !.position = 0,
                           !.failed = @ \cup {"close"}]})

CloseFile ==
  /\ sys' \in AfterClose(sys)
  /\ UNCHANGED disk

-----------------------------------------------------------------------------
(* fileSys_mount.  When the partition's size cannot be read, unmounting    *)
(* fails too, since isMounted is not set yet; it is set then.              *)
Mounted(s, total, used) ==
  [s EXCEPT !.registered = TRUE, !.isMounted = TRUE,
            !.partitionTotalBytes = total, !.partitionUsedBytes = used]

(* initFileSystem, with mount's result in hasMountedSucessfully.           *)
Cleared(s) ==
  [s EXCEPT !.fileHandle = None, !.live = FALSE, !.isMounted = FALSE,
            !.openFileNumBytes = 0, !.numFiles = 0, !.partitionTotalBytes = 0,
            !.partitionUsedBytes = 0, !.openFilePath = None,
            !.localFilenames = NoNames, !.openFilename = None,
            !.isFileOpen = FALSE, !.numBytesInOpenFile = 0]

InitSucceeds(s) ==
  /\ ~s.registered
  /\ \E r \in Refreshed(Mounted(s, Capacity, UsedBytes(disk)), disk) :
       sys' = [r EXCEPT !.runOnceFlag = FALSE, !.hasMountedSucessfully = TRUE,
                        !.interfaceNumFiles = r.numFiles]

NotMounted(s) == [s EXCEPT !.hasMountedSucessfully = FALSE, !.interfaceNumFiles = 0]

InitFails(s) ==
  \/ /\ s.registered \/ "register" \in Failing
     /\ sys' = NotMounted(s)
  \/ /\ ~s.registered /\ "info" \in Failing
     /\ sys' = NotMounted(Mounted(s, 0, 0))

InitFileSystem ==
  /\ IF sys.runOnceFlag THEN InitSucceeds(Cleared(sys)) \/ InitFails(Cleared(sys))
                        ELSE UNCHANGED sys
  /\ UNCHANGED disk

(* deInitFileSystem with fileSys_unmount, which closes the file first and  *)
(* gives up when that fails.                                               *)
Unmounted(s) ==
  [s EXCEPT !.isMounted = FALSE, !.registered = FALSE,
            !.partitionTotalBytes = 0, !.partitionUsedBytes = 0]

DeInitFileSystem ==
  /\ sys.isMounted
  /\ \E s \in AfterClose(sys) :
       \E r \in IF s.fileHandle # None THEN {s}
                ELSE OrFails("unregister", {Unmounted(s)}, {s}) :
         sys' = [r EXCEPT !.runOnceFlag = FALSE]
  /\ UNCHANGED disk

-----------------------------------------------------------------------------
(***************************************************************************)
(* fileSys_openFileRW.  An open file is closed first, whatever comes of    *)
(* that; then the cache says whether the file is there.                    *)
(***************************************************************************)
FoundBeforeLast(s, name) ==
  \E i \in Rows : i < s.numFiles /\ s.localFilenames[i] = name

Found(s, name) ==
  \E i \in Rows : i <= s.numFiles /\ s.localFilenames[i] = name

MayNotOpen(s, name, createNew) ==
  ~Found(s, name) /\ (~createNew \/ s.numFiles >= MaxFiles)

(* The new name goes into the next row of the cache, which is cleared with *)
(* MAX_FILEPATH_CHARS bytes, ten more than it has: the beginning of the    *)
(* row behind it goes too, and behind the last row lies openFilePath.      *)
WithName(s, name) ==
  LET row == s.numFiles + 1
  IN  [s EXCEPT !.numFiles = row,
                !.localFilenames = [i \in Rows |-> IF i = row THEN name
                                                   ELSE IF i = row + 1 THEN None
                                                   ELSE s.localFilenames[i]],
                !.openFilePath = IF row = MaxFiles THEN None ELSE @]

Handle(s, name) ==
  [s EXCEPT !.fileHandle = name, !.live = TRUE, !.position = 0,
            !.openFilePath = name]

(* What stat says of openFilePath, and the interface's copy of it.         *)
Sized(s, d, name) ==
  [s EXCEPT !.openFileNumBytes = d[s.openFilePath], !.openFilename = name,
            !.numBytesInOpenFile = d[s.openFilePath], !.isFileOpen = TRUE]

AfterStat(s, d, name) ==
  IF s.openFilePath \in DOMAIN d
  THEN OrFails("stat", {Sized(s, d, name)}, {[s EXCEPT !.failed = @ \cup {"stat"}]})
  ELSE {s}

(* fopen with "r+", or with "w+" for a file the cache does not know: what  *)
(* is there already is cut to nothing.                                     *)
FopenNew(s, name) ==
  /\ disk' = [n \in DOMAIN disk \cup {name} |-> IF n = name THEN 0 ELSE disk[n]]
  /\ sys' \in AfterStat(WithName(Handle(s, name), name), disk', name)

FopenExisting(s, name) ==
  /\ name \in DOMAIN disk
  /\ sys' \in AfterStat(Handle(s, name), disk, name)
  /\ UNCHANGED disk

FopenFails(s, name) ==
  /\ "open" \in Failing \/ (Found(s, name) /\ name \notin DOMAIN disk)
  /\ sys' = [s EXCEPT !.fileHandle = None, !.live = FALSE]
  /\ UNCHANGED disk

OpenFileRW(name, createNew) ==
  /\ sys.isMounted
  /\ \E s \in AfterClose(sys) :
       \/ /\ MayNotOpen(s, name, createNew)
          /\ sys' = s
          /\ UNCHANGED disk
       \/ /\ ~MayNotOpen(s, name, createNew)
          /\ \/ Found(s, name) /\ FopenExisting(s, name)
             \/ ~Found(s, name) /\ FopenNew(s, name)
             \/ FopenFails(s, name)

-----------------------------------------------------------------------------
(* fileSys_resetFilePtr and fileSys_readFile move the position.            *)
ResetFilePtr ==
  /\ sys.fileHandle # None /\ sys.live
  /\ sys' = [sys EXCEPT !.position = 0]
  /\ UNCHANGED disk

LesserOf(a, b) == IF a < b THEN a ELSE b

GreaterOf(a, b) == IF a > b THEN a ELSE b

ReadFile(numBytes) ==
  /\ sys.fileHandle # None /\ sys.isMounted /\ sys.live
  /\ sys' = [sys EXCEPT !.position =
               GreaterOf(@, LesserOf(@ + numBytes, disk[sys.fileHandle]))]
  /\ UNCHANGED disk

(***************************************************************************)
(* fileSys_writeFile.  The space is checked against the bytes that were in *)
(* use when the partition was mounted, the size against the bytes the file *)
(* had when it was opened and those written since.  The sums wrap.         *)
(***************************************************************************)
Sum32(x, y) == (x + y) % Word

MayWriteUncounted(s, numBytes) ==
  /\ s.fileHandle # None
  /\ Sum32(s.partitionUsedBytes, numBytes) < s.partitionTotalBytes
  /\ numBytes < MaxFileSize

MayWrite(s, numBytes) ==
  /\ s.fileHandle # None
  /\ Sum32(s.partitionUsedBytes, numBytes) < s.partitionTotalBytes
  /\ Sum32(s.openFileNumBytes, numBytes) < MaxFileSize

(* The partition with numBytes more written at the position.               *)
Written(numBytes) ==
  [disk EXCEPT ![sys.fileHandle] = GreaterOf(@, sys.position + numBytes)]

(* fwrite writes it all, and the file is closed if that was asked for.     *)
FwriteAll(numBytes, closeOnExit) ==
  /\ sys.live
  /\ UsedBytes(Written(numBytes)) <= Capacity
  /\ disk' = Written(numBytes)
  /\ LET s == [sys EXCEPT !.openFileNumBytes = Sum32(@, numBytes),
                          !.position = @ + numBytes]
     IN  sys' \in IF closeOnExit THEN AfterClose(s) ELSE {s}

(* The partition takes less, as much as there is room for or less still.   *)
TakesLess(numBytes, k) ==
  /\ sys.live
  /\ "write" \in Failing \/ UsedBytes(Written(numBytes)) > Capacity
  /\ k < numBytes /\ UsedBytes(Written(k)) <= Capacity
  /\ disk' = Written(k)

(* fwrite finds out itself, or it fills its buffer and fflush, whose       *)
(* result nobody looks at, loses the rest.                                 *)
FwriteLess(numBytes) ==
  \E k \in 0..numBytes :
    /\ TakesLess(numBytes, k)
    /\ sys' = [sys EXCEPT !.position = @ + k, !.failed = @ \cup {"write"}]

FflushLess(numBytes, closeOnExit) ==
  \E k \in 0..numBytes :
    /\ TakesLess(numBytes, k)
    /\ LET s == [sys EXCEPT !.openFileNumBytes = Sum32(@, numBytes),
                            !.position = @ + k, !.failed = @ \cup {"write"}]
       IN  sys' \in IF closeOnExit THEN AfterClose(s) ELSE {s}

WriteFile(numBytes, closeOnExit) ==
  /\ MayWrite(sys, numBytes)
  /\ \/ FwriteAll(numBytes, closeOnExit)
     \/ FwriteLess(numBytes)
     \/ FflushLess(numBytes, closeOnExit)

-----------------------------------------------------------------------------
(* fileSys_deleteFile.  remove refuses a file that is open.  The variant   *)
(* does not list the directory again.                                      *)
RemoveUnrefreshed(s, name) ==
  /\ name \in DOMAIN disk /\ ~(s.live /\ name = s.fileHandle)
  /\ disk' = [n \in DOMAIN disk \ {name} |-> disk[n]]
  /\ sys' = s

RemoveFile(s, name) ==
  /\ name \in DOMAIN disk /\ ~(s.live /\ name = s.fileHandle)
  /\ disk' = [n \in DOMAIN disk \ {name} |-> disk[n]]
  /\ sys' \in Refreshed(s, disk')

RemoveFails(s, name) ==
  /\ \/ "remove" \in Failing
     \/ name \notin DOMAIN disk
     \/ s.live /\ name = s.fileHandle
  /\ sys' = s
  /\ UNCHANGED disk

MayNotDelete(s, name) ==
  s.numFiles = 0 \/ s.openFilePath = name \/ ~Found(s, name)

DeleteFile(name) ==
  /\ sys.isMounted
  /\ \E s \in Refreshed(sys, disk) :
       \/ /\ MayNotDelete(s, name)
          /\ sys' = s
          /\ UNCHANGED disk
       \/ ~MayNotDelete(s, name) /\ (RemoveFile(s, name) \/ RemoveFails(s, name))

-----------------------------------------------------------------------------
Next ==
  \/ InitFileSystem \/ DeInitFileSystem \/ CloseFile \/ ResetFilePtr
  \/ \E name \in Names : DeleteFile(name)
  \/ \E name \in Names, createNew \in BOOLEAN : OpenFileRW(name, createNew)
  \/ \E numBytes \in Writes : ReadFile(numBytes)
  \/ \E numBytes \in Writes, closeOnExit \in BOOLEAN :
       WriteFile(numBytes, closeOnExit)

Spec == Init /\ [][Next]_vars
=============================================================================
