--------------------------- MODULE FileSysCorrect ---------------------------
(***************************************************************************)
(* What the file system component must get right, stated over FileSys.     *)
(***************************************************************************)
EXTENDS FileSys

Store == INSTANCE FileStore WITH
           dir <- disk, open <- IF sys.live THEN sys.fileHandle ELSE None

(* Files keep what is in them: a file that is opened is never cut, what is *)
(* written only makes it longer, and the one that is deleted is the one    *)
(* that was named, and not the open one.  The component decides all of it  *)
(* by its cache.                                                           *)
FilesAreKept == Store!Spec

(* While the partition is mounted the cache is the directory: its rows are *)
(* the names of the files, each once, and nothing is behind them.          *)
NamesAgree ==
  sys.isMounted =>
    /\ sys.numFiles = Cardinality(DOMAIN disk)
    /\ { sys.localFilenames[i] : i \in 1..sys.numFiles } = DOMAIN disk
    /\ \A i \in Rows : i > sys.numFiles => sys.localFilenames[i] = None

(* The file the interface shows as open is the one that reads and writes   *)
(* go to, as long as files can be closed.                                  *)
ShownFileIsOpen ==
  sys.isFileOpen /\ "close" \notin sys.failed =>
    sys.live /\ sys.openFilename = sys.fileHandle

(* The cache tells the truth about the directory and about the open file.  *)
CacheIsTrue == TypeOK /\ NamesAgree /\ ShownFileIsOpen

(* No file reaches the maximum size, for all that a file is written from   *)
(* its beginning when it is opened, and read in between, as long as its    *)
(* size can be read and no write is cut short: such a write is not counted.*)
FilesStayBelowMaximum ==
  sys.failed \cap {"stat", "write"} = {} =>
    \A n \in DOMAIN disk : disk[n] < MaxFileSize

-----------------------------------------------------------------------------
(* "Update external interface regarding this newly opened file": a file    *)
(* that has been opened is shown as open.                                  *)
OpenFileIsShown == sys.live => sys.isFileOpen
=============================================================================
