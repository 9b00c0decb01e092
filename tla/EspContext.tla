----------------------------- MODULE EspContext -----------------------------
(***************************************************************************)
(* esp_littlefs's table of partitions: the context each one gets on the    *)
(* heap, the slot of _efs that points to it, and the pointer the VFS was   *)
(* given with the path prefix.  Registering holds the global lock but for  *)
(* its last call; unregistering and formatting hold none.                  *)
(*                                                                         *)
(* A pointer is the context it points to.  Whoever follows one into memory *)
(* that was freed, or into littlefs while it is not mounted, ends in       *)
(* fault, where nothing is said of the program any more.                   *)
(***************************************************************************)
EXTENDS Integers, Sequences, FiniteSets, SequencesExt, FiniteSetsExt, Functions

CONSTANTS
  Tasks,
  Labels,          \* partitions
  MaxPartitions,   \* CONFIG_LITTLEFS_MAX_PARTITIONS
  Contexts,        \* bound: contexts on the heap
  Files,           \* bound: vfs_littlefs_file_t on the heap
  FdCacheMinSize,  \* CONFIG_LITTLEFS_FD_CACHE_MIN_SIZE
  None,            \* NULL
  Names, MaxDepth,
  Places,          \* bound: the paths clients name, as sequences of names
  MaxEntries       \* bound: files and directories on a partition

ASSUME LimitsAssumption == MaxPartitions \in Nat \ {0} /\ FdCacheMinSize \in Nat \ {0}
ASSUME BoundsAssumption == MaxEntries \in Nat /\ MaxDepth \in Nat
ASSUME NamesAssumption  == /\ Names \subseteq Nat \ {0} /\ IsFiniteSet(Names)
                           /\ Places \subseteq Seq(Names)

(* esp_littlefs_t.  cache_size is the length of the cache; it is 0 exactly *)
(* when littlefs is not mounted.                                           *)
ContextType ==
  [ label : Labels, cache : Seq(Files \cup {None}), list : Seq(Files),
    fd_count : Nat, holder : Tasks \cup {None} ]

(* vfs_littlefs_file_t, with the entry in the tree it was opened for.      *)
FileType ==
  [ ctx : Contexts, path : {"plain"} \X Places, entry : Seq(Names) \cup {None},
    dirty : BOOLEAN, closed : BOOLEAN ]

(* vfs_littlefs_dir_t                                                      *)
DirType ==
  [ label : Labels, entry : Seq(Names) \cup {None}, last : Nat, offset : Nat,
    goal : Nat, fresh : BOOLEAN ]

ASSUME NoneAssumption ==
  /\ None \notin Contexts /\ None \notin Labels /\ None \notin Files
  /\ None \notin Seq(Names)
  /\ None \notin ContextType /\ None \notin FileType /\ None \notin DirType

VARIABLES
  efs,      \* _efs: the context in each slot
  ctx,      \* the contexts on the heap
  vfs,      \* the context esp_vfs_register was given for each partition
  disk,     \* what littlefs finds on each partition: a tree, or None
  file,     \* the vfs_littlefs_file_t on the heap
  handle,   \* the descriptors the VFS has given to clients
  dir,      \* the DIR each task has open
  task,     \* where each task is in a call of several steps, with its locals
  mishap,   \* what goes wrong, or what clients do that they should not
  fault     \* a pointer to nothing was followed

contextVars == <<efs, ctx, vfs, disk>>
vars == <<efs, ctx, vfs, disk, file, handle, dir, task, mishap, fault>>

NS == INSTANCE LfsNamespace WITH tree <- disk

(* What can be on a partition.                                             *)
Trees == UNION {[S -> {"reg", "dir"}] : S \in SUBSET NS!Paths}

ASSUME TreesAssumption == Places \subseteq NS!Paths /\ None \notin Trees

Slots == DOMAIN efs

Mishaps == {"none", "register_again", "format_in_use", "unregister_in_use",
            "rename_below_itself", "other_spelling", "format_fails", "seek_fails",
            "close_fails", "dont_mount"}

(* Ways to write a path: plainly, or with "//" or "." in it.               *)
Spellings == IF mishap = "other_spelling" THEN {"plain", "dotted"} ELSE {"plain"}

Idle == [pc |-> "idle", label |-> None, at |-> None, n |-> 0]

NewContext(l) ==
  [label |-> l, cache |-> <<>>, list |-> <<>>, fd_count |-> 0, holder |-> None]

EmptyCache == [i \in 1..FdCacheMinSize |-> None]

Tree(l) == IF disk[l] = None THEN NS!Empty ELSE disk[l]

(* Files and directories that are open go where Place says that their      *)
(* entry goes.  A directory is fresh while nothing in it changes.          *)
Entries(t, r) == {n \in Names : r # None /\ Append(r, n) \in DOMAIN t}

TreeAfter(l) == IF disk'[l] = None THEN NS!Empty ELSE disk'[l]

Watch(l, Place(_)) ==
  dir' = [u \in Tasks |->
    IF dir[u] = None \/ dir[u].label # l THEN dir[u]
    ELSE LET r == Place(dir[u].entry) IN
           [dir[u] EXCEPT !.entry = r,
                          !.fresh = @ /\ Entries(TreeAfter(l), r)
                                         = Entries(Tree(l), dir[u].entry)]]

(* esp_littlefs_by_label: the first slot whose context has the label.      *)
Labelled(l) == {i \in Slots : efs[i] # None /\ ctx[efs[i]].label = l}
Registered(l) == Labelled(l) # {}
ByLabel(l) == efs[Min(Labelled(l))]

(* esp_littlefs_get_empty                                                  *)
Vacancies == {i \in Slots : efs[i] = None}

(* esp_littlefs_free_fds: the file structures go; a descriptor the VFS has *)
(* given out for one no longer stands for any.                             *)
InContext(f, c) == file[f] # None /\ file[f].ctx = c
FreeFds(c) ==
  /\ handle' = {IF h.file # None /\ InContext(h.file, c) THEN [h EXCEPT !.file = None]
                                                        ELSE h : h \in handle}
  /\ file' = [f \in Files |-> IF InContext(f, c) THEN None ELSE file[f]]

(* esp_littlefs_free of slot i: littlefs is unmounted, the lock deleted,   *)
(* the file structures freed, whatever is open.                            *)
FreeSlot(i) ==
  LET c == efs[i] IN
    /\ efs' = [efs EXCEPT ![i] = None]
    /\ IF c = None THEN UNCHANGED <<ctx, handle, file>>
       ELSE ctx' = [ctx EXCEPT ![c] = None] /\ FreeFds(c)

(* esp_littlefs_init up to the allocation of the context: no slot is free, *)
(* or the partition is there already, or it is not in the partition table. *)
(* When it is there already index has come to be that of its slot, and it  *)
(* is that slot that is freed on the way out.                              *)
InitRefused(l) ==
  \/ /\ Vacancies = {}
     /\ UNCHANGED <<efs, ctx, handle, file>>
  \/ /\ Vacancies # {} /\ Registered(l)
     /\ FreeSlot(Min(Labelled(l)))

(* Memory for a context: not what a pointer is left to, since a call with  *)
(* such a pointer is a fault whatever has come there.                      *)
Heap == {c \in Contexts : /\ ctx[c] = None
                          /\ \A l \in Labels : vfs[l] # c
                          /\ \A u \in Tasks : task[u].at # c}

(* esp_littlefs_init when memory runs out: after the lock or the lfs_t the *)
(* context is not in its slot yet, so that it is left on the heap.         *)
InitOutOfMemory(l) ==
  /\ Vacancies # {} /\ ~Registered(l)
  /\ \/ UNCHANGED ctx
     \/ \E c \in Heap : ctx' = [ctx EXCEPT ![c] = NewContext(l)]
  /\ UNCHANGED <<efs, handle, file>>

(* esp_littlefs_init when it succeeds, with the partition mounted or not.  *)
InitContext(l, c, cache) ==
  /\ Vacancies # {} /\ ~Registered(l)
  /\ efs' = [efs EXCEPT ![Min(Vacancies)] = c]
  /\ ctx' = [ctx EXCEPT ![c] = [NewContext(l) EXCEPT !.cache = cache]]
  /\ UNCHANGED <<handle, file>>

(* Somebody is in a call that manages the partition, or has something open *)
(* on it.                                                                  *)
Managed(l) == \E u \in Tasks : task[u].label = l
InUse(l) ==
  \/ Managed(l)
  \/ \E u \in Tasks : dir[u] # None /\ dir[u].label = l
  \/ \E h \in handle : h.label = l

(* esp_vfs_littlefs_register as far as esp_littlefs_init: what cannot be   *)
(* mounted is formatted when the caller asks for it; what cannot be        *)
(* mounted after all gives its context back.  A caller may ask for a       *)
(* context that is not mounted.                                            *)
RegisterInit(t, l) ==
  /\ task[t].pc = "idle"
  /\ mishap = "register_again" \/ (~Registered(l) /\ ~Managed(l))
  /\ \/ /\ InitRefused(l) \/ InitOutOfMemory(l)
        /\ UNCHANGED <<task, disk>>
     \/ /\ Vacancies # {} /\ ~Registered(l)               \* mounting fails
        /\ disk' \in {disk, [disk EXCEPT ![l] = None]}
        /\ UNCHANGED <<efs, ctx, handle, file, task>>
     \/ /\ \/ /\ \E c \in Heap : InitContext(l, c, EmptyCache)
              /\ \/ disk[l] # None /\ UNCHANGED disk
                 \/ disk' = [disk EXCEPT ![l] = NS!Empty] \* format_if_mount_failed
           \/ /\ mishap = "dont_mount"
              /\ \E c \in Heap : InitContext(l, c, <<>>)
              /\ UNCHANGED disk
        /\ task' = [task EXCEPT ![t] = [pc |-> "register", label |-> l, at |-> None, n |-> 0]]
  /\ UNCHANGED <<vfs, dir, fault>>

(* The rest of esp_vfs_littlefs_register, without the lock: the context is *)
(* looked up again, and handed to the VFS or freed.                        *)
RegisterVfs(t) ==
  LET l == task[t].label IN
    /\ task[t].pc = "register"
    /\ \/ ~Registered(l) /\ UNCHANGED <<efs, ctx, handle, file, vfs>>
       \/ /\ Registered(l)                  \* the prefix found first stays
          /\ vfs' = [vfs EXCEPT ![l] = IF @ = None THEN ByLabel(l) ELSE @]
          /\ UNCHANGED <<efs, ctx, handle, file>>
       \/ /\ Registered(l)                  \* esp_vfs_register fails
          /\ FreeSlot(Min(Labelled(l)))
          /\ UNCHANGED vfs
    /\ task' = [task EXCEPT ![t] = Idle]
    /\ UNCHANGED <<disk, dir, fault>>

(* esp_vfs_littlefs_unregister: the VFS forgets the prefix and what it has *)
(* open below it, then the context is freed.  When the VFS refuses, as for *)
(* a prefix it does not have, nothing happens.                             *)
Unregister(t, l) ==
  /\ task[t].pc = "idle" /\ Registered(l) /\ vfs[l] # None
  /\ mishap = "unregister_in_use" \/ ~InUse(l)
  /\ LET c == ByLabel(l) IN
       /\ vfs' = [vfs EXCEPT ![l] = None]
       /\ efs' = [efs EXCEPT ![Min(Labelled(l))] = None]
       /\ ctx' = [ctx EXCEPT ![c] = None]
       /\ file' = [f \in Files |-> IF InContext(f, c) THEN None ELSE file[f]]
       /\ handle' = {h \in handle : h.label # l}
       /\ dir' = [u \in Tasks |-> IF dir[u] # None /\ dir[u].label = l THEN None ELSE dir[u]]
  /\ UNCHANGED <<disk, task, fault>>

(* esp_littlefs_format as far as the erasure: a context made for the       *)
(* occasion, or one that was mounted and is unmounted now.                 *)
FormatBegin(t, l) ==
  /\ task[t].pc = "idle"
  /\ IF Registered(l)
     THEN LET c == ByLabel(l) IN
            /\ \/ ~InUse(l)
               \/ /\ mishap = "format_in_use"
                  /\ \A h \in handle : h.file # None                  \* bound
                  /\ \A u \in Tasks : task[u].at = c => task[u].pc = "truncate"
            /\ ctx' = [ctx EXCEPT ![c] = [NewContext(l) EXCEPT !.holder = ctx[c].holder]]
            /\ FreeFds(c)
            /\ task' = [task EXCEPT ![t] =
                 [pc |-> IF ctx[c].cache = <<>> THEN "erase" ELSE "erase_mounted",
                  label |-> l, at |-> c, n |-> 0]]
            /\ UNCHANGED efs
     ELSE /\ mishap = "register_again" \/ ~Managed(l)
          /\ \/ \E c \in Heap :
                  /\ InitContext(l, c, <<>>)
                  /\ task' = [task EXCEPT ![t] =
                                [pc |-> "erase_new", label |-> l, at |-> c, n |-> Min(Vacancies)]]
             \/ InitRefused(l) /\ UNCHANGED task
             \/ InitOutOfMemory(l) /\ UNCHANGED task
  /\ UNCHANGED <<vfs, disk, dir, fault>>

(* Erasing and lfs_format.  Its failure returns at once, which leaves the  *)
(* context of the occasion in its slot and one that was mounted unmounted. *)
FormatErase(t) ==
  LET l == task[t].label
      c == task[t].at
      pc == task[t].pc
  IN
    /\ pc \in {"erase", "erase_mounted", "erase_new"}
    /\ IF ctx[c] = None \/ ctx[c].label # l
       THEN fault' = TRUE /\ UNCHANGED <<efs, ctx, handle, file, dir, disk, task>>
       ELSE /\ UNCHANGED fault
            /\ \/ /\ mishap = "format_fails"
                  /\ disk' = [disk EXCEPT ![l] = None]
                  /\ task' = [task EXCEPT ![t] = Idle]
                  /\ UNCHANGED <<efs, ctx, handle, file, dir>>
               \/ /\ disk' = [disk EXCEPT ![l] = NS!Empty]
                  /\ Watch(l, LAMBDA r : None)
                  /\ IF pc = "erase_mounted"
                     THEN /\ task' = [task EXCEPT ![t].pc = "remount"]
                          /\ UNCHANGED <<efs, ctx, handle, file>>
                     ELSE /\ task' = [task EXCEPT ![t] = Idle]
                          /\ IF pc = "erase_new"
                             THEN FreeSlot(task[t].n)
                             ELSE UNCHANGED <<efs, ctx, handle, file>>
    /\ UNCHANGED vfs

(* A slip: no cache is made after the remount.                             *)
FormatRemountBare(t) ==
  /\ task[t].pc = "remount"
  /\ task' = [task EXCEPT ![t] = Idle]
  /\ UNCHANGED <<contextVars, file, handle, dir, fault>>

FormatRemount(t) ==
  LET c == task[t].at IN
    /\ task[t].pc = "remount"
    /\ IF ctx[c] = None \/ ctx[c].label # task[t].label
       THEN fault' = TRUE /\ UNCHANGED ctx
       ELSE /\ UNCHANGED fault
            /\ \/ mishap = "format_fails" /\ UNCHANGED ctx
               \/ ctx' = [ctx EXCEPT ![c].cache = EmptyCache]
    /\ task' = [task EXCEPT ![t] = Idle]
    /\ UNCHANGED <<efs, vfs, disk, file, handle, dir>>

(* esp_littlefs_mounted                                                    *)
Mounted(l) == Registered(l) /\ ctx[ByLabel(l)].cache # <<>>

(* esp_littlefs_info asks littlefs for its size whether it is mounted or   *)
(* not.                                                                    *)
Info(t, l) ==
  /\ task[t].pc = "idle" /\ Registered(l) /\ ~Managed(l)
  /\ fault' = ~Mounted(l)
  /\ UNCHANGED <<contextVars, file, handle, dir, task>>

Manage(t) ==
  \/ \E l \in Labels : RegisterInit(t, l) \/ Unregister(t, l) \/ FormatBegin(t, l) \/ Info(t, l)
  \/ RegisterVfs(t) \/ FormatErase(t) \/ FormatRemount(t)
=============================================================================
