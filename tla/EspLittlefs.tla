----------------------------- MODULE EspLittlefs -----------------------------
(***************************************************************************)
(* The VFS side of littlefs as a whole: the calls that take a path, the    *)
(* directories that are read, and every task doing any of it on one of     *)
(* several partitions.                                                     *)
(***************************************************************************)
EXTENDS EspFiles

(* The tree of a partition becomes t, and what is open follows its entry.  *)
Replant(l, t, Place(_)) ==
  /\ disk' = [disk EXCEPT ![l] = t]
  /\ file' = [f \in Files |->
       IF file[f] # None /\ ctx[file[f].ctx].label = l
       THEN [file[f] EXCEPT !.entry = Place(@)] ELSE file[f]]
  /\ Watch(l, Place)
  /\ UNCHANGED <<efs, ctx, vfs, handle, task, fault>>

(* An entry is gone, or has come from p to q in the place of another.      *)
Without(e, p) == IF e = p THEN None ELSE e
Follow(e, p, q) ==
  IF e = None \/ e = q THEN None
  ELSE IF ~IsPrefix(p, e) THEN e
  ELSE IF IsStrictPrefix(p, q) THEN None
  ELSE NS!Moved(e, p, q)

(* vfs_littlefs_unlink: not what is open by this very path, and no         *)
(* directory.                                                              *)
Unlink(t, l, p) ==
  \E c \in Contexts :
    /\ Enters(t, l, c)
    /\ p[2] \in DOMAIN Tree(l) /\ Tree(l)[p[2]] = "reg"
    /\ ~OpenByName(c, p)
    /\ Replant(l, NS!Delete(Tree(l), p[2]), LAMBDA e : Without(e, p[2]))

(* vfs_littlefs_rmdir                                                      *)
Rmdir(t, l, p) ==
  \E c \in Contexts :
    /\ Enters(t, l, c)
    /\ NS!IsDir(Tree(l), p[2]) /\ NS!Removable(Tree(l), p[2])
    /\ Replant(l, NS!Delete(Tree(l), p[2]), LAMBDA e : Without(e, p[2]))

(* A slip: what the other path is open for is not looked at.               *)
RenameOver(t, l, p, q) ==
  \E c \in Contexts :
    /\ Enters(t, l, c)
    /\ p[2] # q[2] /\ NS!Renamable(Tree(l), p[2], q[2])
    /\ ~OpenByName(c, p)
    /\ DOMAIN NS!Move(Tree(l), p[2], q[2]) \subseteq NS!Paths
    /\ mishap = "rename_below_itself" \/ ~IsStrictPrefix(p[2], q[2])
    /\ Replant(l, NS!Move(Tree(l), p[2], q[2]), LAMBDA e : Follow(e, p[2], q[2]))

(* vfs_littlefs_rename: neither end is open by the path it is called by.   *)
Rename(t, l, p, q) ==
  \E c \in Contexts :
    /\ Enters(t, l, c)
    /\ p[2] # q[2] /\ NS!Renamable(Tree(l), p[2], q[2])
    /\ ~OpenByName(c, p) /\ ~OpenByName(c, q)
    /\ DOMAIN NS!Move(Tree(l), p[2], q[2]) \subseteq NS!Paths
    /\ mishap = "rename_below_itself" \/ ~IsStrictPrefix(p[2], q[2])
    /\ Replant(l, NS!Move(Tree(l), p[2], q[2]), LAMBDA e : Follow(e, p[2], q[2]))

(* vfs_littlefs_stat                                                       *)
Stat(t, l, p) == (\E c \in Contexts : Enters(t, l, c)) /\ UNCHANGED vars

(* vfs_littlefs_mkdir                                                      *)
Mkdir(t, l, p) ==
  \E c \in Contexts :
    /\ Enters(t, l, c)
    /\ NS!Vacant(Tree(l), p[2]) 
    /\ Len(p[2]) < MaxDepth /\ Room(l)                         \* bound
    /\ mishap # "format_in_use"                                \* bound
    /\ Replant(l, NS!Insert(Tree(l), p[2], "dir"), LAMBDA e : e)

-----------------------------------------------------------------------------
(* Directories.  littlefs reads the entries in the order of their names    *)
(* and keeps its place among them when some are added or removed; last is  *)
(* the name it has come to.  offset is vfs_littlefs_dir_t's own count.     *)

Beyond(d) == {n \in Entries(Tree(d.label), d.entry) : n > d.last}

(* vfs_littlefs_readdir_r, after "." and "..": offset counts the end too.  *)
Advanced(d) ==
  [d EXCEPT !.last = IF Beyond(d) = {} THEN @ ELSE Min(Beyond(d)),
            !.offset = @ + 1]

OnDir(t, c) == dir[t] # None /\ Enters(t, dir[t].label, c)

SetDir(t, d) ==
  /\ dir' = [dir EXCEPT ![t] = d]
  /\ UNCHANGED <<contextVars, file, handle, task, fault>>

Opendir(t, l, p) ==
  \E c \in Contexts :
    /\ dir[t] = None /\ Enters(t, l, c)
    /\ handle = {} /\ \A u \in Tasks : dir[u] = None              \* bound
    /\ NS!IsDir(Tree(l), p[2])
    /\ SetDir(t, [label |-> l, entry |-> p[2], last |-> 0, offset |-> 0,
                  goal |-> 0, fresh |-> TRUE])

Closedir(t) == \E c \in Contexts : OnDir(t, c) /\ SetDir(t, None)

Readdir(t) ==
  \E c \in Contexts :
    /\ OnDir(t, c) /\ dir[t].goal = dir[t].offset
    /\ dir[t].offset <= Cardinality(Names)              \* bound
    /\ SetDir(t, [Advanced(dir[t]) EXCEPT !.goal = @ + 1])

(* A slip: offset stays when the directory is rewound.                     *)
SeekdirKept(t, offset) ==
  \E c \in Contexts :
    /\ OnDir(t, c) /\ dir[t].goal = dir[t].offset
    /\ SetDir(t, IF offset < dir[t].offset THEN [dir[t] EXCEPT !.last = 0]
                                           ELSE [dir[t] EXCEPT !.goal = offset])

(* vfs_littlefs_seekdir: back to the beginning when the offset is behind,  *)
(* then forward one entry at a time, with the lock given back in between.  *)
Seekdir(t, offset) ==
  \E c \in Contexts :
    /\ OnDir(t, c) /\ dir[t].goal = dir[t].offset
    /\ SetDir(t, IF offset < dir[t].offset
                 THEN [dir[t] EXCEPT !.last = 0, !.offset = 0, !.goal = offset,
                                              !.fresh = TRUE]
                 ELSE [dir[t] EXCEPT !.goal = offset])

SeekdirStep(t) ==
  \E c \in Contexts :
    /\ OnDir(t, c) /\ dir[t].offset < dir[t].goal
    /\ SetDir(t, Advanced(dir[t]))

Plain == {"plain"} \X Places

ReadDirectory(t) ==
  \/ \E l \in Labels, p \in Plain : Opendir(t, l, p)
  \/ Closedir(t)
  \/ Readdir(t)
  \/ \E offset \in 0..Cardinality(Names) : Seekdir(t, offset)
  \/ SeekdirStep(t)

-----------------------------------------------------------------------------

Init ==
  /\ mishap \in Mishaps
  /\ \E n \in 1..MaxPartitions :
       /\ n = MaxPartitions \/ mishap = "register_again"
       /\ efs = [i \in 1..n |-> None]
  /\ ctx = [c \in Contexts |-> None]
  /\ vfs = [l \in Labels |-> None]
  /\ disk = [l \in Labels |-> None]
  /\ file = [f \in Files |-> None]
  /\ handle = {}
  /\ dir = [t \in Tasks |-> None]
  /\ task = [t \in Tasks |-> Idle]
  /\ fault = FALSE

UseDescriptor(t) ==
  \E h \in handle :
    Close(t, h) \/ Write(t, h) \/ Ftruncate(t, h) \/ Fsync(t, h) \/ Lseek(t, h)
      \/ Pwrite(t, h) \/ Pread(t, h) \/ Stray(t, h)
      \/ Read(t, h) \/ Fstat(t, h) \/ Fcntl(t, h)

(* Bounds: a path is written another way only to unlink it, and no file is *)
(* opened while a directory is read.                                       *)
UsePath(t) ==
  \E l \in Labels :
    \/ Dangling(t, l)
    \/ \E p \in Plain :
         \/ /\ \A u \in Tasks : dir[u] = None
            /\ (\E m \in OpenFlags : Open(t, l, p, m)) \/ TruncateOpen(t, l, p)
         \/ Stat(t, l, p) \/ Rmdir(t, l, p) \/ Mkdir(t, l, p)
         \/ \E q \in Plain : Rename(t, l, p, q)
    \/ \E p \in Spellings \X Places : Unlink(t, l, p)

Step(t) == Manage(t) \/ UseDescriptor(t) \/ Truncate(t) \/ UsePath(t) \/ ReadDirectory(t)

Next == ~fault /\ (\E t \in Tasks : Step(t)) /\ UNCHANGED mishap

Spec == Init /\ [][Next]_vars

-----------------------------------------------------------------------------

TypeOK ==
  /\ efs \in Seq(Contexts \cup {None}) /\ Len(efs) \in 1..MaxPartitions
  /\ ctx \in [Contexts -> ContextType \cup {None}]
  /\ vfs \in [Labels -> Contexts \cup {None}]
  /\ DOMAIN disk = Labels /\ \A l \in Labels : disk[l] # None => NS!IsDir(disk[l], NS!Root)
  /\ file \in [Files -> FileType \cup {None}]
  /\ handle \subseteq [label : Labels, fd : Nat, file : Files \cup {None}]
  /\ dir \in [Tasks -> DirType \cup {None}]
  /\ task \in [Tasks -> [pc : {"idle", "register", "erase", "erase_mounted", "erase_new",
                               "remount", "truncate", "close"},
                         label : Labels \cup {None}, at : Contexts \cup {None}, n : Nat]]
  /\ fault \in BOOLEAN

(* The array, the list and the count of a context agree on the open files  *)
(* whatever was opened, closed or failed, and whichever way the array has  *)
(* grown.                                                                  *)
CacheMatchesList ==
  \A c \in Contexts : ctx[c] # None =>
    LET e == ctx[c]
        taken == {i \in DOMAIN e.cache : e.cache[i] # None}
    IN /\ Cardinality(taken) = e.fd_count /\ Len(e.list) = e.fd_count
       /\ {e.cache[i] : i \in taken} = ToSet(e.list)
       /\ \A f \in ToSet(e.list) : InContext(f, c)

(* A descriptor leads to the file it was given out for, and never to one   *)
(* another task has opened, if nobody formats a partition that is in use.  *)
DescriptorsLeadHome ==
  mishap # "format_in_use" => \A h \in handle : h.file # None =>
    /\ InCache(vfs[h.label], h.fd, h.file) /\ ~file[h.file].closed
    /\ \A k \in handle \ {h} : k.label = h.label => k.fd # h.fd

(* Descriptors hold through every open, close and failure.                 *)
DescriptorsHold == TypeOK /\ CacheMatchesList /\ DescriptorsLeadHome

(* The pointer the VFS was given leads to the context that is registered,  *)
(* if no partition is registered twice.                                    *)
VfsReachesContext ==
  mishap # "register_again" => \A l \in Labels : vfs[l] # None => Registered(l) /\ ByLabel(l) = vfs[l]

(* A slot points to a context that is there, and to one of its own         *)
(* partition.                                                              *)
OneSlotPerPartition ==
  \A i, j \in Slots : efs[i] # None =>
    /\ ctx[efs[i]] # None
    /\ efs[j] # None /\ ctx[efs[i]].label = ctx[efs[j]].label => i = j

(* No call follows a pointer to what is gone: two tasks that manage and    *)
(* use partitions, each only what the other does not, do not meet in a     *)
(* context without a lock, failures of the file calls leave none, and a    *)
(* partition is used mounted.                                              *)
NoFault ==
  fault => mishap \in {"register_again", "format_in_use", "unregister_in_use", "format_fails",
                       "dont_mount"}

(* The table, the VFS and the contexts stay one for whoever uses them.     *)
ContextsStand == VfsReachesContext /\ OneSlotPerPartition /\ NoFault

(* A file that is open under the name it has is neither removed nor        *)
(* replaced, whatever is renamed around it, if one path is written one way *)
(* and no directory is moved into itself.                                  *)
KeptUnderItsName ==
  [][mishap \notin {"rename_below_itself", "other_spelling"} => \A f \in Files :
       file[f] # None /\ file'[f] # None /\ file[f].entry = file[f].path[2] =>
         file'[f].entry # None]_vars

(* While nothing in a directory changes, offset tells the place in it, so  *)
(* that seeking to what telldir returned comes back to the same entry.     *)
OffsetTellsPlace ==
  \A t \in Tasks : dir[t] # None /\ dir[t].fresh /\ dir[t].entry # None =>
    LET all == Entries(Tree(dir[t].label), dir[t].entry) IN
      Cardinality(all \ Beyond(dir[t])) = Min({dir[t].offset, Cardinality(all)})
=============================================================================
