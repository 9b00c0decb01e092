------------------------------ MODULE EspFiles ------------------------------
(***************************************************************************)
(* The open files of a context: an array of pointers, whose index is the   *)
(* descriptor, a list of the same files, and their number.  A call takes   *)
(* the lock of the context, does its work and gives it back, which is one  *)
(* step here; only a lock that is never given back shows, as its holder.   *)
(* What littlefs does with a file is abridged to the entry it was opened   *)
(* for, and whether something written is not on the partition yet.         *)
(***************************************************************************)
EXTENDS EspContext

(* A call through the VFS reaches the context c by its pointer.            *)
Reaches(t, l, c) ==
  /\ task[t].pc = "idle"
  /\ vfs[l] = c /\ c # None
  /\ \/ mishap = "format_in_use"
     \/ \A u \in Tasks : task[u].at # c \/ task[u].pc \notin {"erase_mounted", "remount"}

(* The context, its lock and littlefs behind it are there.                 *)
Sound(c) == ctx[c] # None /\ ctx[c].cache # <<>>

(* sem_take, which a task that holds the lock already passes.              *)
Lockable(t, c) == Sound(c) /\ ctx[c].holder \in {None, t}

Enters(t, l, c) == Reaches(t, l, c) /\ Lockable(t, c)

Falls == fault' = TRUE /\ UNCHANGED <<contextVars, file, handle, dir, task>>

(* A call with a pointer to a context that is gone, or not mounted.        *)
Dangling(t, l) == (\E c \in Contexts : Reaches(t, l, c) /\ ~Sound(c)) /\ Falls

-----------------------------------------------------------------------------
(* Descriptors.                                                            *)

(* esp_littlefs_flags_conv, for a set of fcntl flags: appending is only    *)
(* understood when it is asked for alone.                                  *)
FlagsConv(m) == IF m = {"APPEND"} THEN m ELSE m \ {"APPEND"}

CacheSize(c) == Len(ctx[c].cache)

(* The cache with room for one more descriptor: when it is full it grows   *)
(* by CONFIG_LITTLEFS_FD_CACHE_REALLOC_FACTOR.                             *)
Grown(e) ==
  IF e.fd_count + 1 > Len(e.cache) THEN e.cache \o [i \in DOMAIN e.cache |-> None]
                                   ELSE e.cache

(* A slip: the descriptor is the number of open files.                     *)
FirstFreeCount(cache) == Cardinality({i \in DOMAIN cache : cache[i] # None}) + 1

FirstFree(cache) == Min({i \in DOMAIN cache : cache[i] = None})

(* esp_littlefs_allocate_fd                                                *)
AllocateFd(e, f) ==
  LET cache == Grown(e) IN
    [e EXCEPT !.cache = [cache EXCEPT ![FirstFree(cache)] = f],
              !.list = <<f>> \o @,
              !.fd_count = @ + 1]

(* A slip: the file stays in the list.                                     *)
FreeFdListed(e, fd) == [e EXCEPT !.cache[fd + 1] = None, !.fd_count = @ - 1]
(* esp_littlefs_free_fd                                                    *)
FreeFd(e, fd) ==
  [e EXCEPT !.cache[fd + 1] = None,
            !.list = RemoveFirst(@, e.cache[fd + 1]),
            !.fd_count = @ - 1]

(* esp_littlefs_get_fd_by_name compares the paths as they were written.    *)
OpenByName(c, p) ==
  \E i \in DOMAIN ctx[c].cache :
    ctx[c].cache[i] # None /\ file[ctx[c].cache[i]].path = p

-----------------------------------------------------------------------------
(* Opening and closing.                                                    *)

OpenFlags == {{"RDWR"}, {"WRONLY", "CREAT", "APPEND"}}

Room(l) == Cardinality(DOMAIN Tree(l)) <= MaxEntries           \* bound

(* lfs_file_open in the tree of the partition.                             *)
LfsOpens(l, r, flags) ==
  IF r \in DOMAIN Tree(l)
  THEN Tree(l)[r] = "reg" /\ "EXCL" \notin flags
  ELSE "CREAT" \in flags /\ NS!Vacant(Tree(l), r) /\ Room(l)

(* vfs_littlefs_open, with Then for what is done with the descriptor: no   *)
(* memory, before or after the cache has grown, or littlefs fails to open  *)
(* the file, perhaps when it has made its entry, and the descriptor is     *)
(* freed again; or it is open.                                             *)
OpenFile(c, l, p, m, Then(_, _)) ==
  LET flags == FlagsConv(m) IN
    \/ /\ ctx' \in {ctx, [ctx EXCEPT ![c].cache = Grown(ctx[c])]}
       /\ UNCHANGED <<disk, file, handle, dir, task>>
    \/ /\ p[2] \notin DOMAIN Tree(l) /\ LfsOpens(l, p[2], flags)
       /\ ctx' = [ctx EXCEPT ![c].cache = Grown(ctx[c])]
       /\ disk' = [disk EXCEPT ![l] = NS!Insert(Tree(l), p[2], "reg")]
       /\ Watch(l, LAMBDA r : r)
       /\ UNCHANGED <<file, handle, task>>
    \/ /\ LfsOpens(l, p[2], flags)
       /\ \E f \in Files :
            /\ file[f] = None
            /\ ctx' = [ctx EXCEPT ![c] = AllocateFd(ctx[c], f)]
            /\ file' = [file EXCEPT ![f] =
                 [ctx |-> c, path |-> p, entry |-> p[2], dirty |-> FALSE, closed |-> FALSE]]
            /\ disk' = [disk EXCEPT ![l] = NS!Insert(Tree(l), p[2], "reg")]
            /\ Watch(l, LAMBDA r : r)
            /\ Then(FirstFree(Grown(ctx[c])) - 1, f)

Open(t, l, p, m) ==
  \E c \in Contexts :
    /\ Enters(t, l, c)
    /\ Cardinality(handle) < Cardinality(Files)                   \* bound
    /\ OpenFile(c, l, p, m, LAMBDA fd, f :
         handle' = handle \cup {[label |-> l, fd |-> fd, file |-> f]} /\ UNCHANGED task)
    /\ UNCHANGED <<efs, vfs, fault>>

(* The common beginning of the calls on a descriptor: one that is larger   *)
(* than the cache is refused, one as large is not, and what the array has  *)
(* at it is not looked at before it is used.                               *)
InCache(c, fd, f) == fd < CacheSize(c) /\ f # None /\ ctx[c].cache[fd + 1] = f
Refused(c, fd) == fd > CacheSize(c)
Nothing(c, fd) == fd = CacheSize(c) \/ (fd < CacheSize(c) /\ ctx[c].cache[fd + 1] = None)

OnFile(t, h, c, f) == Enters(t, h.label, c) /\ InCache(c, h.fd, f)

(* A call on a descriptor the context has nothing for.                     *)
Stray(t, h) ==
  /\ \E c \in Contexts : Enters(t, h.label, c) /\ Nothing(c, h.fd)
  /\ Falls

(* lfs_file_close syncs the file; when that fails littlefs is done with it *)
(* but the descriptor and the structure stay, which nobody refers to.      *)
CloseFile(c, fd, f) ==
  \/ /\ ctx' = [ctx EXCEPT ![c] = FreeFd(ctx[c], fd)]
     /\ file' = [file EXCEPT ![f] = None]
  \/ /\ mishap = "close_fails" /\ file[f].dirty
     /\ file' = [file EXCEPT ![f].closed = TRUE]
     /\ UNCHANGED ctx

Close(t, h) ==
  /\ \E c \in Contexts, f \in Files : OnFile(t, h, c, f) /\ CloseFile(c, h.fd, f)
  /\ handle' = handle \ {h}
  /\ UNCHANGED <<efs, vfs, disk, dir, task, fault>>

-----------------------------------------------------------------------------
(* Transfers.                                                              *)

Touched(f, d) ==
  /\ file' = [file EXCEPT ![f].dirty = d]
  /\ UNCHANGED <<contextVars, handle, dir, task, fault>>

(* vfs_littlefs_write, which can fail half way.                            *)
Write(t, h) ==
  \E c \in Contexts, f \in Files :
    OnFile(t, h, c, f) /\ Touched(f, TRUE)

(* vfs_littlefs_ftruncate                                                  *)
Ftruncate(t, h) == Write(t, h)

(* Calls that change nothing: vfs_littlefs_read, vfs_littlefs_fstat of the *)
(* path the file was opened by, and vfs_littlefs_fcntl, which alone looks  *)
(* at what the array has before it follows it.                             *)
Read(t, h) == \E c \in Contexts, f \in Files : OnFile(t, h, c, f) /\ UNCHANGED vars
Fstat(t, h) == Read(t, h)
Fcntl(t, h) ==
  \E c \in Contexts : Enters(t, h.label, c) /\ h.fd < CacheSize(c) /\ UNCHANGED vars

(* vfs_littlefs_fsync, and its failure, which leaves the file as it is.    *)
Fsync(t, h) ==
  \E c \in Contexts, f \in Files :
    OnFile(t, h, c, f) /\ file[f].dirty /\ Touched(f, FALSE)

(* vfs_littlefs_lseek: littlefs writes out what it has buffered first.     *)
Lseek(t, h) == \E c \in Contexts, f \in Files : OnFile(t, h, c, f) /\ Touched(f, file[f].dirty)

(* vfs_littlefs_pwrite and vfs_littlefs_pread: seek, transfer, seek back.  *)
(* When a seek before the transfer fails the lock is not given back.       *)
Positioned(t, h, d) ==
  \E c \in Contexts, f \in Files :
    /\ OnFile(t, h, c, f)
    /\ \/ Touched(f, d \/ file[f].dirty)
       \/ /\ mishap = "seek_fails"
          /\ ctx' = [ctx EXCEPT ![c].holder = t]
          /\ UNCHANGED <<efs, vfs, disk, file, handle, dir, task, fault>>

Pwrite(t, h) == Positioned(t, h, TRUE)
Pread(t, h) == Positioned(t, h, FALSE)

(* vfs_littlefs_truncate: open, truncate and close, each with the lock     *)
(* given back in between.                                                  *)
TruncateOpen(t, l, p) ==
  \E c \in Contexts :
    /\ Enters(t, l, c)
    /\ OpenFile(c, l, p, {"RDWR"}, LAMBDA fd, f :
         /\ task' = [task EXCEPT ![t] = [pc |-> "truncate", label |-> l, at |-> c, n |-> fd]]
         /\ UNCHANGED handle)
    /\ UNCHANGED <<efs, vfs, fault>>

TruncateStep(t, c, fd) ==
  \/ /\ Lockable(t, c) /\ Refused(c, fd)
     /\ task' = [task EXCEPT ![t] = Idle]
     /\ UNCHANGED <<contextVars, file, fault>>
  \/ /\ ~Sound(c) \/ (Lockable(t, c) /\ Nothing(c, fd))
     /\ fault' = TRUE /\ UNCHANGED <<contextVars, file, task>>
  \/ \E f \in Files :
       /\ Lockable(t, c) /\ InCache(c, fd, f)
       /\ IF task[t].pc = "truncate"
          THEN /\ file' \in {file, [file EXCEPT ![f].dirty = TRUE]}
               /\ task' = [task EXCEPT ![t].pc = "close"]
               /\ UNCHANGED contextVars
          ELSE /\ CloseFile(c, fd, f)
               /\ task' = [task EXCEPT ![t] = Idle]
               /\ UNCHANGED <<efs, vfs, disk>>
       /\ UNCHANGED fault

Truncate(t) ==
  /\ task[t].pc \in {"truncate", "close"}
  /\ TruncateStep(t, task[t].at, task[t].n)
  /\ UNCHANGED <<handle, dir>>
=============================================================================
