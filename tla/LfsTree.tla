------------------------------- MODULE LfsTree -------------------------------
(***************************************************************************)
(* The calls of littlefs that change names, over the commits of LfsCommit. *)
(* Each makes several commits, and power may be lost after any write; the  *)
(* next call that changes names first makes the file system consistent     *)
(* again.  Together they implement LfsNamespace.                           *)
(***************************************************************************)
EXTENDS LfsCommit

CONSTANTS
  Calls, Places,   \* the calls the client makes, and on which paths
  MaxCalls, MaxCrashes   \* bounds: calls behind Setup, and losses of power

VARIABLES
  pc,              \* where it is
  crashes          \* how many there were

vars == <<comVars, calls, op, pc, crashes>>

-----------------------------------------------------------------------------
NoOp == [kind |-> "none"]
Nobody == [r \in {"cwd", "dir", "pred", "old", "pdir"} |-> NoMdir]
NoState == [orphans |-> 0, move |-> <<>>]

Init ==
  /\ disk = [b \in Blocks |-> [rev  |-> IF b \in {0, 1} THEN b + 1 ELSE 0,
                               data |-> NoMdir.data]]
  /\ gdisk = NoState /\ gstate = NoState
  /\ ram = Nobody /\ hooked = {} /\ taken = {} /\ com = NoCommit
  /\ calls = 0 /\ turns = 0 /\ aborted = FALSE
  /\ op = NoOp /\ pc = "idle" /\ crashes = 0
  /\ tree = View(disk, gdisk)

(* Nothing in the code keeps a directory from being renamed to a path below *)
(* itself, which loses it (LfsNamespace); this client does not.  The        *)
(* bound on the depth is the model's.                                      *)
Fits(o) ==
  o.kind = "renamedir" =>
    /\ ~IsStrictPrefix(o.path, o.to)
    /\ \A p \in DOMAIN tree : IsPrefix(o.path, p)
                                => Len(p) - Len(o.path) + Len(o.to) <= MaxDepth

Call ==
  /\ pc = "idle" /\ ~aborted
  /\ \/ /\ calls < Len(Setup)
        /\ op' = Setup[calls + 1]
     \/ /\ calls >= Len(Setup) /\ calls < Len(Setup) + MaxCalls
        /\ \/ \E k \in Calls \ {"rename", "renamedir"}, p \in Places :
                op' = [kind |-> k, path |-> p]
           \/ \E p, q \in Places :
                LET k == IF p \in DOMAIN tree /\ tree[p] = "dir" THEN "renamedir" ELSE "rename"
                IN  k \in Calls /\ op' = [kind |-> k, path |-> p, to |-> q]
  /\ Fits(op')
  /\ calls' = calls + 1 /\ taken' = {}
  /\ pc' = "force"
  /\ UNCHANGED <<disk, gdisk, gstate, ram, hooked, com, turns, aborted, crashes, tree>>

Ready(where) == pc = where /\ com.st = "none" /\ ~aborted

Refused ==
  /\ pc' = "idle" /\ op' = NoOp
  /\ ram' = Nobody
  /\ UNCHANGED <<gstate, hooked, taken, com>>

Orphans(g, n) == [g EXCEPT !.orphans = @ + n]

(* lfs_fs_forceconsistency: a move the disk still has pending is finished, *)
(* and orphans are mended.                                                 *)
Force ==
  /\ Ready("force")
  /\ \/ /\ gdisk.move # <<>>
        /\ gstate' = [gstate EXCEPT !.move = <<>>]
        /\ ram' = [ram EXCEPT !.cwd = Fetch(disk, gdisk.move[1].pair)]
        /\ com' = Commit("cwd", Changes({gdisk.move[1].name}, NoEntries, <<>>))
        /\ pc' = pc
     \/ /\ gdisk.move = <<>> /\ gstate.orphans > 0
        /\ com' = Deorphan(TRUE)
        /\ ram' = [ram EXCEPT !.pdir = Scanned]
        /\ pc' = "do" /\ UNCHANGED gstate
     \/ /\ gdisk.move = <<>> /\ gstate.orphans = 0
        /\ pc' = "do" /\ UNCHANGED <<gstate, ram, com>>
  /\ UNCHANGED <<disk, gdisk, hooked, taken, turns, aborted, calls, op, crashes, tree>>

(* lfs_file_open creates the entry of a file.                              *)
Create(f) ==
  \/ (f = NoPlace \/ f.hit) /\ Refused
  \/ /\ f # NoPlace /\ ~f.hit
     /\ ram' = [ram EXCEPT !.cwd = f.m]
     /\ com' = Commit("cwd", Changes({}, Entry(f.name, File), <<>>))
     /\ pc' = "return"
     /\ UNCHANGED <<gstate, hooked, taken, op>>

(* lfs_mkdir: the new directory takes its place in the thread behind the   *)
(* last pair of its parent, in the commit that names it if that goes to    *)
(* the same pair, and otherwise in one before.                             *)
Mkdir(f) ==
  \/ (f = NoPlace \/ f.hit \/ Fresh(2) = {}) /\ Refused
  \/ /\ f # NoPlace /\ ~f.hit
     /\ \E s \in Fresh(2) :
          LET pred == Last(ChainOf(disk, f.m))
          IN  /\ ram' = [ram EXCEPT !.cwd = f.m, !.pred = pred,
                                    !.dir = [NoMdir EXCEPT !.pair = s]]
              /\ com' = Commit("dir", Changes({}, NoEntries,
                                              TailTo(pred.data.tail, FALSE)))
              /\ taken' = taken \cup ToSet(s)
     /\ pc' = "thread"
     /\ UNCHANGED <<gstate, hooked, op>>

ThreadDir ==
  /\ Ready("thread")
  /\ \/ /\ ram.cwd.data.split
        /\ gstate' = Orphans(gstate, 1)
        /\ hooked' = {"cwd"}
        /\ com' = Commit("pred", Changes({}, NoEntries, TailTo(ram.dir.pair, FALSE)))
     \/ /\ ~ram.cwd.data.split
        /\ UNCHANGED <<gstate, hooked, com>>
  /\ pc' = "name"
  /\ UNCHANGED <<disk, gdisk, ram, taken, turns, aborted, calls, op, crashes, tree>>

NameDir ==
  /\ Ready("name")
  /\ gstate' = IF hooked = {} THEN gstate ELSE Orphans(gstate, -1)
  /\ hooked' = {}
  /\ com' = Commit("cwd", Changes({}, Entry(Last(op.path), ram.dir.pair),
                                  IF ram.cwd.data.split THEN <<>>
                                  ELSE TailTo(ram.dir.pair, FALSE)))
  /\ pc' = "return"
  /\ UNCHANGED <<disk, gdisk, ram, taken, turns, aborted, calls, op, crashes, tree>>

IsEmptyDir(m) == Count(m) = 0 /\ ~m.data.split

(* lfs_remove.  A directory that goes is an orphan until it is dropped     *)
(* from the thread, and kept in mlist until then.                          *)
RemoveEntry(f) ==
  LET dir == Fetch(disk, Struct(f))
      isDir == f.hit /\ Struct(f) # File
  IN  IF ~f.hit \/ (isDir /\ ~IsEmptyDir(dir)) THEN Refused
      ELSE
         /\ ram' = [ram EXCEPT !.cwd = f.m, !.dir = IF isDir THEN dir ELSE NoMdir]
         /\ hooked' = IF isDir THEN {"dir"} ELSE {}
         /\ gstate' = IF isDir THEN Orphans(gstate, 1) ELSE gstate
         /\ com' = Commit("cwd", Changes({f.name}, NoEntries, <<>>))
         /\ pc' = "drop"
         /\ UNCHANGED <<taken, op>>

(* Between pairs the entry is announced as moved (lfs_fs_prepmove).        *)
NeverAnnounced(f, same) == gstate.move

Announced(f, same) ==
  IF same THEN gstate.move ELSE <<[pair |-> f.m.pair, name |-> f.name]>>

(* lfs_rename.  Between pairs the entry is added in the one and deleted in *)
(* the other later; a directory that is there already goes as in lfs_remove. *)
Rename(f, g) ==
  LET same == SamePair(f.m.pair, g.m.pair)
      isDir == g.hit /\ Struct(g) # File
      dir == Fetch(disk, Struct(g))
      refused == \/ ~f.hit \/ g = NoPlace
                 \/ g.hit /\ (Struct(f) = File) # (Struct(g) = File)
                 \/ g.hit /\ same /\ g.name = f.name
                 \/ isDir /\ ~IsEmptyDir(dir)
  IN  IF refused THEN Refused
      ELSE
         /\ ram' = [ram EXCEPT !.cwd = g.m, !.old = f.m, !.dir = IF isDir THEN dir ELSE NoMdir]
         /\ hooked' = IF isDir THEN {"dir"} ELSE {}
         /\ gstate' = [Orphans(gstate, IF isDir THEN 1 ELSE 0) EXCEPT
                         !.move = Announced(f, same)]
         /\ com' = Commit("cwd", Changes((IF g.hit THEN {g.name} ELSE {})
                                            \cup (IF same THEN {f.name} ELSE {}),
                                         Entry(g.name, Struct(f)), <<>>))
         /\ pc' = IF same THEN "drop" ELSE "clear"
         /\ UNCHANGED <<taken, op>>

Do ==
  /\ Ready("do")
  /\ \E f \in {Find(disk, gdisk, op.path)} :
         \/ op.kind = "create" /\ Create(f)
         \/ op.kind = "mkdir" /\ Mkdir(f)
         \/ op.kind = "remove" /\ RemoveEntry(f)
         \/ op.kind \in {"rename", "renamedir"} /\ Rename(f, Find(disk, gdisk, op.to))
  /\ UNCHANGED <<disk, gdisk, turns, aborted, calls, crashes, tree>>

(* The old entry is deleted, unless a pair that was put right has done so. *)
ClearOld ==
  /\ Ready("clear")
  /\ \/ /\ gstate.move # <<>>
        /\ gstate' = [gstate EXCEPT !.move = <<>>]
        /\ com' = Commit("old", Changes({Last(op.path)}, NoEntries, <<>>))
     \/ /\ gstate.move = <<>>
        /\ UNCHANGED <<gstate, com>>
  /\ pc' = "drop"
  /\ UNCHANGED <<disk, gdisk, ram, hooked, taken, turns, aborted, calls, op, crashes, tree>>

(* The directory that has gone is taken out of the thread.                 *)
DropDir ==
  /\ Ready("drop") /\ hooked # {}
  /\ hooked' = {}
  /\ gstate' = Orphans(gstate, -1)
  /\ \E q \in ToSet(Pred(disk, ram.dir.pair)) :
       /\ ram' = [ram EXCEPT !.cwd = q]
       /\ com' = Commit("cwd", Changes({}, NoEntries,
                                       TailTo(ram.dir.data.tail, ram.dir.data.split)))
  /\ pc' = "return"
  /\ UNCHANGED <<disk, gdisk, taken, turns, aborted, calls, op, crashes, tree>>

Return ==
  /\ \/ Ready("return")
     \/ Ready("drop") /\ hooked = {}
  /\ pc' = "idle" /\ op' = NoOp
  /\ ram' = Nobody
  /\ UNCHANGED <<disk, gdisk, gstate, hooked, taken, com, turns, aborted, calls, crashes, tree>>

Within(A) == ~aborted /\ A /\ UNCHANGED <<calls, op, pc, crashes>>

(* Power is lost, and the device mounts again; an assertion that fails     *)
(* restarts it as well.  On disk there is a flag and no count of orphans:  *)
(* a mount finds one or none.                                              *)
Mount ==
  /\ gdisk' = [gdisk EXCEPT !.orphans = IF @ > 0 THEN 1 ELSE 0]
  /\ gstate' = gdisk'
  /\ ram' = Nobody /\ hooked' = {} /\ taken' = {} /\ com' = NoCommit
  /\ op' = NoOp /\ pc' = "idle" /\ aborted' = FALSE
  /\ UNCHANGED <<disk, calls, turns, tree>>

Crash ==
  /\ pc # "idle" /\ calls > Len(Setup) /\ ~aborted
  /\ crashes < MaxCrashes /\ crashes' = crashes + 1
  /\ Mount

Restart == aborted /\ Mount /\ crashes' = crashes + 1

Next ==
  \/ Call \/ Force \/ Do
  \/ ThreadDir \/ NameDir \/ ClearOld \/ DropDir \/ Return
  \/ Within(FirstWrite)
  \/ Within(RelinkParent) \/ Within(RelinkPred)
  \/ Within(RelinkAborts) \/ Within(RelinkNothing)
  \/ Within(Scan)
  \/ Crash \/ Restart

Spec == Init /\ [][Next]_vars

-----------------------------------------------------------------------------
(* Every call, commit, repair and loss of power shows in the names as one  *)
(* step of LfsNamespace or as none.                                        *)
Namespace == INSTANCE LfsNamespace
NamespaceKept == Namespace!Spec

(* The copy of a pair a commit starts from is what is in the flash.        *)
NoStaleCommit ==
  com.st = "commit" =>
    LET m == ram[com.who]
        now == Fetch(disk, m.pair)
    IN  m.erased => now.pair[1] = m.pair[1] /\ now.data = m.data

(* Where the directories differ from the thread the disk says so: every    *)
(* head on the thread has an entry, every directory its head on the thread. *)
OrphansAreFlagged ==
  gdisk.orphans = 0 =>
    LET th == Thread(disk)
    IN  /\ \A k \in 1..Len(th) :
             th[k].data.tail = NoPair \/ th[k].data.split
               \/ \E p \in ToSet(Parent(disk, gdisk, th[k].data.tail)) :
                     InSync(p.m.data.ents[p.name], th[k].data.tail)
        /\ \A p \in DOMAIN tree \ {<<>>} :
             tree[p] = "dir" =>
               \E m \in ToSet(th) : InSync(HeadOf(disk, gdisk, p), m.data.tail)

(* No block the tree leads to is ever handed out.                          *)
Reached(d, g) ==
  UNION {UNION {ToSet(m.pair) : m \in ToSet(ChainOf(d, Fetch(d, HeadOf(d, g, p))))} :
           p \in {q \in DOMAIN tree : tree[q] = "dir"}}

BlocksStayTaken == [][(taken' \ taken) \cap Reached(disk, gdisk) = {}]_vars

(* A call that has returned leaves nothing to be put right.  That the last *)
(* repairs are done only the next commit writes down.                      *)
NothingLeftOver ==
  pc = "idle" /\ crashes = 0 => gstate = NoState /\ gdisk.move = <<>>

(* The repairs, which start over when they have made new orphans, come to  *)
(* an end: there is no more to mend than there are pairs.                  *)
RepairsEnd == com.found <= Cardinality(Blocks) \div 2

(* What calls and losses of power leave to be repaired is repaired.        *)
RepairsAreDone == RepairsEnd /\ NothingLeftOver
=============================================================================
