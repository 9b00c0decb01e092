------------------------------- MODULE LfsAlloc -------------------------------
(***************************************************************************)
(* The block allocator of littlefs: a window of the device, the lookahead  *)
(* buffer, with the blocks of it that were in use when it was filled.  ack *)
(* counts down the blocks that may still be looked at before what has been *)
(* handed out must be in the file system.                                  *)
(***************************************************************************)
EXTENDS Integers, FiniteSets

CONSTANTS BlockCount, Lookahead      \* blocks, of the device and the window

ASSUME AllocAssumption ==
  BlockCount \in Nat \ {0} /\ Lookahead \in Nat \ {0}

(* The blocks go round: after the last one comes the first.                *)
Around(n) == n % BlockCount

AckedNever(f) == f

Acked(f) == [f EXCEPT !.ack = BlockCount]                    \* lfs_alloc_ack

DroppedWindow(f) == Acked([f EXCEPT !.size = 0, !.i = 0])    \* lfs_alloc_drop

(* lfs_alloc_lookahead, for every block of a traversal.                    *)
Filled(f, used) ==
  [f EXCEPT !.buffer = {k \in 0..f.size - 1 :
                          Around(f.off + k) \in used}]

AdvancedStale(f, used) ==
  [f EXCEPT !.off  = Around(@ + f.size),
            !.size = IF Lookahead < f.ack THEN Lookahead ELSE f.ack,
            !.i    = 0]

(* The next window, as lfs_alloc moves it.                                 *)
Advanced(f, used) ==
  Filled([f EXCEPT !.off  = Around(@ + f.size),
                   !.size = IF Lookahead < f.ack THEN Lookahead ELSE f.ack,
                   !.i    = 0],
         used)

(* From k on, the first free place of the window, or its end.              *)
NextFree(f, k) ==
  CHOOSE j \in k..f.size :
    /\ j = f.size \/ j \notin f.buffer
    /\ \A l \in k..j - 1 : l \in f.buffer

MovedOn(f, k) == [f EXCEPT !.i = k, !.ack = @ - (k - f.i)]

(* lfs_alloc: through the window, and on to the next, until a block is     *)
(* free or all of them have been looked at.                                *)
Taken(f, looked) ==
  LET k == NextFree(f, f.i)
  IN  [free |-> MovedOn(f, NextFree(f, k + 1)), block |-> Around(f.off + k),
       looked |-> looked, err |-> "ok"]

Tried(f, looked) ==
  IF NextFree(f, f.i) < f.size THEN Taken(f, looked)
  ELSE [free |-> MovedOn(f, f.size), block |-> 0, looked |-> looked,
        err |-> IF MovedOn(f, f.size).ack = 0 THEN "NOSPC" ELSE "again"]

Again(a, used) == IF a.err # "again" THEN a ELSE Tried(Advanced(a.free, used), TRUE)

Alloc(f, used) ==
  LET try[n \in 0..BlockCount] ==
        IF n = 0 THEN Tried(f, FALSE) ELSE Again(try[n - 1], used)
  IN  try[BlockCount]

-----------------------------------------------------------------------------
(* What the allocator relies on.  The window is no larger than the device, *)
(* and ack no less than what is left of it; it is at a place that is free, *)
(* or at its end; and no block ahead in it has come into use since it was  *)
(* filled.                                                                 *)
Within(f) ==
  /\ f \in [off : 0..BlockCount - 1, size : 0..BlockCount, i : 0..BlockCount,
            ack : 0..BlockCount, buffer : SUBSET Nat]
  /\ f.i <= f.size /\ f.size - f.i <= f.ack

Ready(f) == f.i = f.size \/ f.i \notin f.buffer

Trusted(f, used) ==
  \A k \in f.i..f.size - 1 : Around(f.off + k) \in used => k \in f.buffer
=============================================================================
