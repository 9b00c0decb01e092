----------------------------- MODULE EspProofs -----------------------------
(***************************************************************************)
(* Theorems about esp_littlefs: the table of partitions, the descriptors   *)
(* and the directories that are read, for any number of tasks, partitions, *)
(* contexts and files.                                                     *)
(***************************************************************************)
EXTENDS EspLittlefs, FiniteSetTheorems, SequenceTheorems, Recursion, TLAPS

Taken(cache) == {i \in DOMAIN cache : cache[i] # None}

(* Whoever formats a partition finds the context it took empty still, and  *)
(* is alone in it, unless it is gone.                                      *)
InFormat(u) == task[u].pc \in {"erase", "erase_mounted", "erase_new", "remount"}

RemountInv ==
  \A u \in Tasks : InFormat(u) /\ ctx[task[u].at] # None =>
    /\ ctx[task[u].at].label = task[u].label /\ ctx[task[u].at].cache = <<>>
    /\ \A v \in Tasks \ {u} : InFormat(v) => task[v].at # task[u].at

TaskInv ==
  /\ \A u \in Tasks :
       /\ task[u].pc # "idle" => task[u].label \in Labels
       /\ task[u].pc \notin {"idle", "register"} => task[u].at \in Contexts
       /\ task[u].pc = "erase_new" => task[u].n \in Slots
  /\ RemountInv

InSlot(c) == \E i \in Slots : efs[i] = c

SlotInv ==
  /\ OneSlotPerPartition
  /\ \A l \in Labels : vfs[l] # None /\ ctx[vfs[l]] # None =>
       ctx[vfs[l]].label = l /\ InSlot(vfs[l])
  /\ \A f \in Files : file[f] # None => InSlot(file[f].ctx)

Agree(e) ==
  /\ Cardinality(Taken(e.cache)) = e.fd_count /\ Len(e.list) = e.fd_count
  /\ {e.cache[i] : i \in Taken(e.cache)} = ToSet(e.list)
  /\ \A i, j \in Taken(e.cache) : e.cache[i] = e.cache[j] => i = j
  /\ \A i, j \in DOMAIN e.list : e.list[i] = e.list[j] => i = j

FdsInv ==
  /\ \A c \in Contexts : ctx[c] # None =>
       Agree(ctx[c]) /\ \A f \in ToSet(ctx[c].list) : InContext(f, c)
  /\ \A f \in Files : file[f] # None =>
       ctx[file[f].ctx] # None /\ f \in ToSet(ctx[file[f].ctx].list)

Truncating(u) == task[u].pc \in {"truncate", "close"}

HandleInv == mishap # "format_in_use" =>
  /\ \A h \in handle :
       /\ vfs[h.label] # None
       /\ h.file = None => ctx[vfs[h.label]] = None
       /\ h.file # None => /\ ctx[vfs[h.label]] # None
                           /\ InCache(vfs[h.label], h.fd, h.file)
                           /\ ~file[h.file].closed
       /\ \A k \in handle : h.label = k.label /\ h.fd = k.fd => h = k
  /\ \A u \in Tasks : Truncating(u) /\ ctx[task[u].at] # None =>
       /\ ctx[task[u].at].label = task[u].label
       /\ task[u].n < CacheSize(task[u].at)
       /\ ctx[task[u].at].cache[task[u].n + 1] # None
       /\ \A h \in handle : vfs[h.label] = task[u].at => h.fd # task[u].n
       /\ \A v \in Tasks \ {u} :
            Truncating(v) /\ task[v].at = task[u].at => task[v].n # task[u].n

VfsInv == mishap # "register_again" =>
  /\ \A l \in Labels : vfs[l] # None => ctx[vfs[l]] # None
  /\ \A u \in Tasks : task[u].pc \in {"register", "erase_new"} =>
       /\ vfs[task[u].label] = None
       /\ \A v \in Tasks \ {u} : task[v].pc \in {"register", "erase_new"} =>
            task[v].label # task[u].label
  /\ \A u \in Tasks : task[u].pc = "erase_new" =>
       /\ task[u].n \in Slots /\ efs[task[u].n] = task[u].at
       /\ ctx[task[u].at] # None /\ ctx[task[u].at].label = task[u].label

Fine == mishap \notin {"register_again", "format_in_use", "unregister_in_use", "format_fails",
                       "dont_mount"}

Formatting(u) == task[u].pc \in {"erase_mounted", "remount", "erase_new"}

FineInv == Fine =>
  /\ fault = FALSE
  /\ \A u \in Tasks : Formatting(u) \/ task[u].pc = "register" =>
       /\ \A v \in Tasks \ {u} : task[v].label # task[u].label
       /\ \A h \in handle : h.label # task[u].label
       /\ \A v \in Tasks : dir[v] # None => dir[v].label # task[u].label
  /\ \A u \in Tasks : Formatting(u) =>
       /\ ctx[task[u].at] # None /\ ctx[task[u].at].label = task[u].label
       /\ InSlot(task[u].at)
  /\ \A u \in Tasks : task[u].pc # "erase"
  /\ \A u \in Tasks : Truncating(u) => vfs[task[u].label] = task[u].at
  /\ \A u \in Tasks : dir[u] # None => vfs[dir[u].label] # None
  /\ \A i \in Slots : efs[i] # None /\ ctx[efs[i]].cache = <<>> =>
       \E u \in Tasks : Formatting(u) /\ task[u].at = efs[i]

IInv == TypeOK /\ TaskInv /\ SlotInv /\ FdsInv /\ HandleInv /\ VfsInv /\ FineInv

-----------------------------------------------------------------------------
(* The least of a set of naturals.                                         *)
LEMMA MinIs ==
  ASSUME NEW S \in SUBSET Nat, S # {}
  PROVE  Min(S) \in S /\ \A y \in S : Min(S) <= y
<1>1. \E x \in S : \A y \in S : x <= y
  BY NatMinimum
<1> QED
  BY <1>1 DEF Min

(* The places 1 to n of a table are n in number.                           *)
LEMMA PlacesFinite ==
  ASSUME NEW n \in Nat
  PROVE  IsFiniteSet(1..n) /\ Cardinality(1..n) = n
<1>1. /\ IsFiniteSet(1..n)
      /\ Cardinality(1..n) = IF 1 > n THEN 0 ELSE n - 1 + 1
  BY FS_Interval
<1>2. (IF 1 > n THEN 0 ELSE n - 1 + 1) = n
  OBVIOUS
<1> QED
  BY <1>1, <1>2

(* The entries of a cache that are taken are finitely many.                *)
LEMMA TakenFinite ==
  ASSUME NEW cache \in Seq(Files \cup {None})
  PROVE  /\ Taken(cache) \subseteq 1..Len(cache)
         /\ IsFiniteSet(Taken(cache)) /\ Cardinality(Taken(cache)) \in Nat
         /\ Cardinality(Taken(cache)) <= Len(cache)
         /\ Taken(cache) # 1..Len(cache) => Cardinality(Taken(cache)) < Len(cache)
         /\ Taken(cache) = 1..Len(cache) => Cardinality(Taken(cache)) = Len(cache)
<1> DEFINE D == 1..Len(cache)
<1>1. Len(cache) \in Nat /\ DOMAIN cache = D
  OBVIOUS
<1>2. Taken(cache) \subseteq D
  BY <1>1 DEF Taken
<1>3. IsFiniteSet(D) /\ Cardinality(D) = Len(cache)
  BY <1>1, PlacesFinite
<1> HIDE DEF D
<1>4. /\ IsFiniteSet(Taken(cache)) /\ Cardinality(Taken(cache)) <= Cardinality(D)
      /\ Cardinality(Taken(cache)) = Cardinality(D) => Taken(cache) = D
  BY <1>2, <1>3, FS_Subset
<1>5. Cardinality(Taken(cache)) \in Nat
  BY <1>4, FS_CardinalityType
<1> QED
  BY <1>1, <1>2, <1>3, <1>4, <1>5 DEF D

(* A cache that is full grows to one with room; nothing moves in it.       *)
LEMMA GrownHasRoom ==
  ASSUME NEW e \in ContextType, Agree(e), e.cache # <<>>
  PROVE  /\ Grown(e) \in Seq(Files \cup {None})
         /\ Len(Grown(e)) >= Len(e.cache) /\ Len(e.cache) > 0
         /\ Taken(Grown(e)) = Taken(e.cache)
         /\ \A i \in 1..Len(e.cache) : Grown(e)[i] = e.cache[i]
         /\ FirstFree(Grown(e)) \in 1..Len(Grown(e))
         /\ Grown(e)[FirstFree(Grown(e))] = None
<1>1. /\ e.cache \in Seq(Files \cup {None}) /\ e.fd_count \in Nat
      /\ Len(e.cache) \in Nat /\ DOMAIN e.cache = 1..Len(e.cache)
  BY DEF ContextType
<1>2. Len(e.cache) > 0
  BY <1>1
<1>3. e.fd_count = Cardinality(Taken(e.cache))
  BY DEF Agree
<1> DEFINE more == [i \in DOMAIN e.cache |-> None]
<1>4. /\ more \in Seq(Files \cup {None}) /\ Len(more) = Len(e.cache)
      /\ \A i \in 1..Len(e.cache) : more[i] = None
  BY <1>1
<1> HIDE DEF more
<1> DEFINE big == e.cache \o more
<1>5. /\ big \in Seq(Files \cup {None}) /\ Len(big) = Len(e.cache) + Len(e.cache)
      /\ \A i \in 1..Len(e.cache) : big[i] = e.cache[i]
      /\ \A i \in Len(e.cache) + 1..Len(big) : big[i] = None
  BY <1>1, <1>4
<1> HIDE DEF big
<1>6. CASE e.fd_count + 1 > Len(e.cache)
  <2>1. Grown(e) = big
    BY <1>6 DEF Grown, big, more
  <2>2. Taken(big) = Taken(e.cache)
    BY <1>1, <1>5 DEF Taken
  <2>3. Len(e.cache) + 1 \in {i \in DOMAIN big : big[i] = None}
    BY <1>1, <1>2, <1>5
  <2>4. FirstFree(big) \in {i \in DOMAIN big : big[i] = None}
    <3>1. {i \in DOMAIN big : big[i] = None} \in SUBSET Nat
      BY <1>5
    <3> QED
      BY <2>3, <3>1, MinIs DEF FirstFree
  <2> QED
    BY <1>1, <1>2, <1>5, <2>1, <2>2, <2>4
<1>7. CASE ~(e.fd_count + 1 > Len(e.cache))
  <2>1. Grown(e) = e.cache
    BY <1>7 DEF Grown
  <2>2. Taken(e.cache) # 1..Len(e.cache)
    BY <1>1, <1>3, <1>7, TakenFinite
  <2>3. {i \in DOMAIN e.cache : e.cache[i] = None} # {}
    BY <1>1, <2>2, TakenFinite DEF Taken
  <2>4. FirstFree(e.cache) \in {i \in DOMAIN e.cache : e.cache[i] = None}
    <3>1. {i \in DOMAIN e.cache : e.cache[i] = None} \in SUBSET Nat
      BY <1>1
    <3> QED
      BY <2>3, <3>1, MinIs DEF FirstFree
  <2> QED
    BY <1>1, <1>2, <2>1, <2>4
<1> QED
  BY <1>6, <1>7

(* esp_littlefs_allocate_fd                                                *)
LEMMA Allocated ==
  ASSUME NEW e \in ContextType, Agree(e), e.cache # <<>>,
         NEW f \in Files, f \notin ToSet(e.list)
  PROVE  /\ AllocateFd(e, f) \in ContextType /\ Agree(AllocateFd(e, f))
         /\ AllocateFd(e, f).label = e.label
         /\ AllocateFd(e, f).cache = [Grown(e) EXCEPT ![FirstFree(Grown(e))] = f]
         /\ ToSet(AllocateFd(e, f).list) = ToSet(e.list) \cup {f}
<1> DEFINE g == AllocateFd(e, f)
           n == FirstFree(Grown(e))
           q == [Grown(e) EXCEPT ![n] = f]
<1>0. /\ e.cache \in Seq(Files \cup {None}) /\ e.fd_count \in Nat
      /\ e.list \in Seq(Files) /\ None \notin Files
  BY NoneAssumption DEF ContextType
<1>1. /\ Grown(e) \in Seq(Files \cup {None})
      /\ Taken(Grown(e)) = Taken(e.cache)
      /\ \A i \in 1..Len(e.cache) : Grown(e)[i] = e.cache[i]
      /\ n \in 1..Len(Grown(e)) /\ Grown(e)[n] = None
      /\ Len(Grown(e)) >= Len(e.cache)
  BY GrownHasRoom
<1> DEFINE p == <<f>> \o e.list
<1>2. g = [e EXCEPT !.cache = q, !.list = p, !.fd_count = e.fd_count + 1]
  BY DEF AllocateFd
<1> HIDE DEF n
<1>3. /\ q \in Seq(Files \cup {None}) /\ Len(q) = Len(Grown(e)) /\ q[n] = f
      /\ DOMAIN q = 1..Len(Grown(e))
      /\ \A i \in 1..Len(Grown(e)) : i # n => q[i] = Grown(e)[i]
  BY <1>1
<1>4. /\ p \in Seq(Files) /\ Len(p) = Len(e.list) + 1 /\ p[1] = f
      /\ DOMAIN p = 1..Len(e.list) + 1
      /\ \A i \in 1..Len(e.list) : p[i + 1] = e.list[i]
      /\ \A i \in 2..Len(e.list) + 1 : p[i] = e.list[i - 1] /\ i - 1 \in 1..Len(e.list)
  BY <1>0
<1> HIDE DEF q, p, g
<1>5. /\ g \in ContextType /\ g.label = e.label
      /\ g.cache = q /\ g.list = p /\ g.fd_count = e.fd_count + 1
  <2>1. e.fd_count + 1 \in Nat
    BY <1>0
  <2> QED
    BY <1>2, <1>3, <1>4, <2>1 DEF ContextType
<1>6. Taken(q) = Taken(e.cache) \cup {n} /\ n \notin Taken(e.cache)
  BY <1>0, <1>1, <1>3 DEF Taken
<1>7. Cardinality(Taken(q)) = e.fd_count + 1
  <2>1. IsFiniteSet(Taken(e.cache)) /\ Cardinality(Taken(e.cache)) = e.fd_count
    BY <1>0, TakenFinite DEF Agree
  <2> QED
    BY <1>6, <2>1, FS_AddElement
<1>8. ToSet(p) = ToSet(e.list) \cup {f}
  <2>1. ASSUME NEW i \in DOMAIN p  PROVE p[i] \in ToSet(e.list) \cup {f}
    <3>1. i = 1 \/ i \in 2..Len(e.list) + 1
      BY <1>0, <1>4
    <3> QED
      BY <1>0, <1>4, <3>1 DEF ToSet
  <2>2. ASSUME NEW i \in DOMAIN e.list  PROVE e.list[i] \in ToSet(p)
    <3>1. i \in 1..Len(e.list) /\ i + 1 \in DOMAIN p
      BY <1>0, <1>4
    <3> QED
      BY <1>4, <3>1 DEF ToSet
  <2>3. 1 \in DOMAIN p
    BY <1>0, <1>4
  <2>4. ToSet(p) \subseteq ToSet(e.list) \cup {f}
    BY <2>1 DEF ToSet
  <2>5. ToSet(e.list) \subseteq ToSet(p)
    BY <2>2 DEF ToSet
  <2>6. f \in ToSet(p)
    BY <1>4, <2>3 DEF ToSet
  <2> QED
    BY <2>4, <2>5, <2>6
<1>9. \A i \in Taken(e.cache) : q[i] = e.cache[i] /\ e.cache[i] \in ToSet(e.list)
  BY <1>0, <1>1, <1>3, <1>6, TakenFinite DEF Agree
<1>10. {q[i] : i \in Taken(q)} = ToSet(p)
  <2>1. {q[i] : i \in Taken(q)} = {q[i] : i \in Taken(e.cache)} \cup {f}
    BY <1>3, <1>6
  <2>2. {q[i] : i \in Taken(e.cache)} = ToSet(e.list)
    BY <1>9 DEF Agree
  <2> QED
    BY <1>8, <2>1, <2>2
<1>11. \A i, j \in Taken(q) : q[i] = q[j] => i = j
  BY <1>3, <1>6, <1>9 DEF Agree
<1>12. \A i, j \in DOMAIN p : p[i] = p[j] => i = j
  <2>1. \A i \in 2..Len(e.list) + 1 : p[i] \in ToSet(e.list)
    <3>1. \A j \in DOMAIN e.list : e.list[j] \in ToSet(e.list)
      BY DEF ToSet
    <3>2. DOMAIN e.list = 1..Len(e.list)
      BY <1>0
    <3> QED
      BY <1>4, <3>1, <3>2
  <2>2. \A i, j \in 2..Len(e.list) + 1 : p[i] = p[j] => i = j
    BY <1>0, <1>4 DEF Agree
  <2> QED
    BY <1>0, <1>4, <2>1, <2>2
<1>13. Agree(g)
  BY <1>0, <1>4, <1>5, <1>7, <1>10, <1>11, <1>12 DEF Agree
<1> QED
  BY <1>5, <1>8, <1>13 DEF g, q, n

(* The cache that has only grown.                                          *)
LEMMA GrownAgrees ==
  ASSUME NEW e \in ContextType, Agree(e), e.cache # <<>>
  PROVE  /\ [e EXCEPT !.cache = Grown(e)] \in ContextType
         /\ Agree([e EXCEPT !.cache = Grown(e)])
<1> DEFINE g == [e EXCEPT !.cache = Grown(e)]
<1>1. /\ Grown(e) \in Seq(Files \cup {None})
      /\ Taken(Grown(e)) = Taken(e.cache)
      /\ \A i \in 1..Len(e.cache) : Grown(e)[i] = e.cache[i]
  BY GrownHasRoom
<1>2. /\ g \in ContextType /\ g.cache = Grown(e)
      /\ g.list = e.list /\ g.fd_count = e.fd_count
  BY <1>1 DEF ContextType
<1>3. \A i \in Taken(e.cache) : Grown(e)[i] = e.cache[i]
  BY <1>1, TakenFinite DEF ContextType
<1>4. {Grown(e)[i] : i \in Taken(e.cache)} = {e.cache[i] : i \in Taken(e.cache)}
  BY <1>3
<1> HIDE DEF g
<1>5. Agree(g)
  BY <1>1, <1>2, <1>3, <1>4 DEF Agree
<1> QED
  BY <1>2, <1>5 DEF g

(* The second part of a sequence made of two.                              *)
LEMMA ConcatRight ==
  ASSUME NEW S, NEW a \in Seq(S), NEW b \in Seq(S),
         NEW i \in Nat, i > Len(a), i <= Len(a) + Len(b)
  PROVE  (a \o b)[i] = b[i - Len(a)]
<1>1. i \in 1..Len(a) + Len(b) /\ ~(i <= Len(a))
  OBVIOUS
<1> QED
  BY <1>1, ConcatProperties

(* Taking the only occurrence of an element out of a list.                 *)
LEMMA RemovedFirst ==
  ASSUME NEW S, NEW q \in Seq(S), NEW k \in DOMAIN q,
         \A i, j \in DOMAIN q : q[i] = q[j] => i = j
  PROVE  /\ RemoveFirst(q, q[k]) \in Seq(S)
         /\ Len(RemoveFirst(q, q[k])) = Len(q) - 1
         /\ ToSet(RemoveFirst(q, q[k])) = ToSet(q) \ {q[k]}
         /\ \A i, j \in DOMAIN RemoveFirst(q, q[k]) :
              RemoveFirst(q, q[k])[i] = RemoveFirst(q, q[k])[j] => i = j
<1> DEFINE I == {i \in 1..Len(q) : q[i] = q[k]}
           r == SubSeq(q, 1, k - 1) \o SubSeq(q, k + 1, Len(q))
<1>0. Len(q) \in Nat /\ DOMAIN q = 1..Len(q) /\ k \in 1..Len(q)
  OBVIOUS
<1>1. I = {k}
  BY <1>0
<1>2. Min(I) = k
  <2>1. I \in SUBSET Nat /\ I # {}
    BY <1>0, <1>1
  <2>2. Min(I) \in I
    BY <2>1, MinIs
  <2> QED
    BY <1>1, <2>2
<1>3. RemoveFirst(q, q[k]) = r
  <2>1. \E i \in 1..Len(q) : q[i] = q[k]
    BY <1>0
  <2>2. SelectInSeq(q, LAMBDA v : v = q[k]) = k
    BY <1>1, <1>2 DEF SelectInSeq
  <2> QED
    BY <2>1, <2>2 DEF RemoveFirst, RemoveAt
<1> DEFINE a == SubSeq(q, 1, k - 1)
           b == SubSeq(q, k + 1, Len(q))
<1>4. /\ a \in Seq(S) /\ Len(a) = k - 1
      /\ \A i \in 1..k - 1 : a[i] = q[i]
  BY <1>0
<1>5. /\ b \in Seq(S) /\ Len(b) = Len(q) - k
      /\ \A i \in 1..Len(q) - k : b[i] = q[k + i]
  <2>1. k + 1 \in Nat /\ Len(q) \in Nat /\ \A i \in k + 1..Len(q) : q[i] \in S
    BY <1>0
  <2>2. b \in Seq(S)
    BY <1>0, <2>1
  <2>3. Len(b) = Len(q) - k
    BY <1>0
  <2>4. ASSUME NEW i \in 1..Len(q) - k  PROVE b[i] = q[k + i]
    BY <1>0, <2>4
  <2> QED
    BY <2>2, <2>3, <2>4
<1> HIDE DEF a, b
<1>6. /\ r \in Seq(S) /\ Len(r) = Len(q) - 1 /\ DOMAIN r = 1..Len(q) - 1
      /\ \A i \in 1..Len(q) - 1 : r[i] = IF i < k THEN q[i] ELSE q[i + 1]
  <2>1. r = a \o b
    BY DEF a, b
  <2>2. r \in Seq(S) /\ Len(r) = Len(q) - 1 /\ DOMAIN r = 1..Len(q) - 1
    <3>1. a \in Seq(S) /\ b \in Seq(S)
      BY <1>4, <1>5
    <3>2. Len(a) + Len(b) = Len(q) - 1
      BY <1>0, <1>4, <1>5
    <3> HIDE DEF r
    <3>3. r \in Seq(S) /\ Len(r) = Len(a) + Len(b) /\ DOMAIN r = 1..Len(r)
      BY <2>1, <3>1
    <3>4. Len(r) = Len(q) - 1
      BY <3>2, <3>3
    <3> QED
      BY <3>3, <3>4
  <2>3. ASSUME NEW i \in 1..Len(q) - 1, i < k  PROVE r[i] = q[i]
    BY <1>0, <1>4, <1>5, <2>1, <2>3
  <2>4. ASSUME NEW i \in 1..Len(q) - 1, ~(i < k)  PROVE r[i] = q[i + 1]
    <3>1. i - (k - 1) \in 1..Len(q) - k /\ k + (i - (k - 1)) = i + 1
      BY <1>0, <2>4
    <3>2. r[i] = b[i - (k - 1)]
      <4>1. /\ Len(a) = k - 1 /\ Len(a) \in Nat /\ Len(b) \in Nat
            /\ i > Len(a) /\ i <= Len(a) + Len(b) /\ i \in Nat
        BY <1>0, <1>4, <1>5, <2>4
      <4>2. (a \o b)[i] = b[i - Len(a)]
        <5>1. a \in Seq(S) /\ b \in Seq(S)
          BY <1>4, <1>5
        <5> QED
          BY <4>1, <5>1, ConcatRight
      <4> QED
        BY <2>1, <4>1, <4>2
    <3>3. b[i - (k - 1)] = q[k + (i - (k - 1))]
      BY <1>5, <3>1
    <3> QED
      BY <3>1, <3>2, <3>3
  <2> QED
    BY <2>2, <2>3, <2>4
<1> HIDE DEF r
<1>7. ToSet(r) = ToSet(q) \ {q[k]}
  <2>1. ASSUME NEW i \in DOMAIN r  PROVE r[i] \in ToSet(q) \ {q[k]}
    <3>1. CASE i < k
      <4>1. i \in DOMAIN q /\ i # k /\ r[i] = q[i]
        BY <1>0, <1>6, <3>1
      <4> QED
        BY <4>1 DEF ToSet
    <3>2. CASE ~(i < k)
      <4>1. i + 1 \in DOMAIN q /\ i + 1 # k /\ r[i] = q[i + 1]
        BY <1>0, <1>6, <3>2
      <4> QED
        BY <4>1 DEF ToSet
    <3> QED
      BY <3>1, <3>2
  <2>2. ASSUME NEW i \in DOMAIN q, q[i] # q[k]  PROVE q[i] \in ToSet(r)
    <3>1. CASE i < k
      <4>1. i \in DOMAIN r /\ r[i] = q[i]
        BY <1>0, <1>6, <3>1
      <4> QED
        BY <4>1 DEF ToSet
    <3>2. CASE i > k
      <4>1. i - 1 \in DOMAIN r /\ r[i - 1] = q[i]
        BY <1>0, <1>6, <3>2
      <4> QED
        BY <4>1 DEF ToSet
    <3> QED
      BY <1>0, <2>2, <3>1, <3>2
  <2> QED
    BY <2>1, <2>2 DEF ToSet
<1>8. ASSUME NEW i \in DOMAIN r, NEW j \in DOMAIN r, r[i] = r[j]
      PROVE  i = j
  <2>1. i \in DOMAIN q /\ j \in DOMAIN q /\ i + 1 \in DOMAIN q /\ j + 1 \in DOMAIN q
        /\ i \in Nat /\ j \in Nat
    BY <1>0, <1>6
  <2>2. /\ r[i] = IF i < k THEN q[i] ELSE q[i + 1]
        /\ r[j] = IF j < k THEN q[j] ELSE q[j + 1]
    BY <1>6
  <2>3. \A m, n \in DOMAIN q : q[m] = q[n] => m = n
    OBVIOUS
  <2>4. CASE i < k /\ j < k
    BY <1>8, <2>1, <2>2, <2>3, <2>4
  <2>5. CASE i < k /\ ~(j < k)
    <3>1. i = j + 1
      BY <1>8, <2>1, <2>2, <2>3, <2>5
    <3> QED
      BY <1>0, <2>1, <2>5, <3>1
  <2>6. CASE ~(i < k) /\ j < k
    <3>1. i + 1 = j
      BY <1>8, <2>1, <2>2, <2>3, <2>6
    <3> QED
      BY <1>0, <2>1, <2>6, <3>1
  <2>7. CASE ~(i < k) /\ ~(j < k)
    <3>1. i + 1 = j + 1
      BY <1>8, <2>1, <2>2, <2>3, <2>7
    <3> QED
      BY <2>1, <3>1
  <2> QED
    BY <2>4, <2>5, <2>6, <2>7
<1> QED
  BY <1>3, <1>6, <1>7, <1>8

(* esp_littlefs_free_fd                                                    *)
LEMMA Freed ==
  ASSUME NEW e \in ContextType, Agree(e), NEW fd \in Nat, fd < Len(e.cache),
         e.cache[fd + 1] # None
  PROVE  /\ FreeFd(e, fd) \in ContextType /\ Agree(FreeFd(e, fd))
         /\ FreeFd(e, fd).label = e.label
         /\ FreeFd(e, fd).cache = [e.cache EXCEPT ![fd + 1] = None]
         /\ ToSet(FreeFd(e, fd).list) = ToSet(e.list) \ {e.cache[fd + 1]}
<1> DEFINE g == FreeFd(e, fd)
           n == fd + 1
           f == e.cache[n]
           q == [e.cache EXCEPT ![n] = None]
           p == RemoveFirst(e.list, f)
<1>0. /\ e.cache \in Seq(Files \cup {None}) /\ e.fd_count \in Nat
      /\ e.list \in Seq(Files) /\ Len(e.cache) \in Nat
      /\ DOMAIN e.cache = 1..Len(e.cache)
  BY DEF ContextType
<1>1. n \in 1..Len(e.cache) /\ n \in Taken(e.cache)
  BY <1>0 DEF Taken
<1>2. g = [e EXCEPT !.cache = q, !.list = p, !.fd_count = e.fd_count - 1]
  BY DEF FreeFd
<1>3. f \in ToSet(e.list)
  BY <1>1 DEF Agree
<1>4. /\ p \in Seq(Files) /\ Len(p) = Len(e.list) - 1
      /\ ToSet(p) = ToSet(e.list) \ {f}
      /\ \A i, j \in DOMAIN p : p[i] = p[j] => i = j
  <2>1. PICK k \in DOMAIN e.list : e.list[k] = f
    BY <1>3 DEF ToSet
  <2> QED
    <3>1. \A i, j \in DOMAIN e.list : e.list[i] = e.list[j] => i = j
      BY DEF Agree
    <3>2. p = RemoveFirst(e.list, e.list[k])
      BY <2>1
    <3> HIDE DEF p, f
    <3> QED
      BY <1>0, <2>1, <3>1, <3>2, RemovedFirst
<1>5. /\ q \in Seq(Files \cup {None}) /\ Len(q) = Len(e.cache)
      /\ DOMAIN q = 1..Len(e.cache) /\ q[n] = None
      /\ \A i \in 1..Len(e.cache) : i # n => q[i] = e.cache[i]
  BY <1>0, <1>1
<1>6. Taken(q) = Taken(e.cache) \ {n}
  BY <1>0, <1>1, <1>5 DEF Taken
<1>7. Cardinality(Taken(q)) = e.fd_count - 1 /\ e.fd_count - 1 \in Nat
  <2>1. IsFiniteSet(Taken(e.cache)) /\ Cardinality(Taken(e.cache)) = e.fd_count
    BY <1>0, TakenFinite DEF Agree
  <2>2. Cardinality(Taken(q)) = e.fd_count - 1
    BY <1>1, <1>6, <2>1, FS_RemoveElement
  <2>3. Cardinality(Taken(q)) \in Nat
    BY <1>5, TakenFinite
  <2> QED
    BY <2>2, <2>3
<1> HIDE DEF q, p, g, n
<1>8. /\ g \in ContextType /\ g.label = e.label
      /\ g.cache = q /\ g.list = p /\ g.fd_count = e.fd_count - 1
  BY <1>2, <1>4, <1>5, <1>7 DEF ContextType
<1>9. \A i \in Taken(q) : q[i] = e.cache[i]
  BY <1>0, <1>5, <1>6, TakenFinite
<1>10. {q[i] : i \in Taken(q)} = ToSet(p)
  <2>1. {q[i] : i \in Taken(q)} = {e.cache[i] : i \in Taken(e.cache)} \ {f}
    <3>1. \A i \in Taken(e.cache) : i # n => e.cache[i] # f
      BY <1>1 DEF Agree
    <3> QED
      BY <1>1, <1>6, <1>9, <3>1
  <2> QED
    BY <1>4, <2>1 DEF Agree
<1>11. \A i, j \in Taken(q) : q[i] = q[j] => i = j
  BY <1>6, <1>9 DEF Agree
<1>12. Agree(g)
  <2>1. Len(p) = e.fd_count - 1
    BY <1>4 DEF Agree
  <2> HIDE DEF f
  <2> QED
    BY <1>4, <1>7, <1>8, <1>10, <1>11, <2>1 DEF Agree
<1> QED
  BY <1>4, <1>8, <1>12 DEF g, q, p, n

(* The types of what is looked up.                                         *)
Typed ==
  /\ \A i \in Slots : efs[i] \in Contexts \cup {None}
  /\ \A l \in Labels : vfs[l] \in Contexts \cup {None}
  /\ \A c \in Contexts : ctx[c] # None => ctx[c] \in ContextType /\ ctx[c].label \in Labels
  /\ \A f \in Files : file[f] # None => file[f] \in FileType /\ file[f].ctx \in Contexts
  /\ \A h \in handle : h.label \in Labels /\ h.fd \in Nat /\ h.file \in Files \cup {None}
  /\ \A u \in Tasks : dir[u] # None => dir[u].label \in Labels
  /\ \A u \in Tasks : task[u].label \in Labels \cup {None}
                      /\ task[u].at \in Contexts \cup {None} /\ task[u].n \in Nat

LEMMA TypesAre == ASSUME TypeOK PROVE Typed
<1>1. efs \in Seq(Contexts \cup {None})
  BY DEF TypeOK
<1>2. \A i \in Slots : efs[i] \in Contexts \cup {None}
  BY <1>1 DEF Slots
<1>3. \A l \in Labels : vfs[l] \in Contexts \cup {None}
  BY DEF TypeOK
<1>4. \A c \in Contexts : ctx[c] # None => ctx[c] \in ContextType /\ ctx[c].label \in Labels
  BY DEF TypeOK, ContextType
<1>5. \A f \in Files : file[f] # None => file[f] \in FileType /\ file[f].ctx \in Contexts
  BY DEF TypeOK, FileType
<1>6. \A h \in handle : h.label \in Labels /\ h.fd \in Nat /\ h.file \in Files \cup {None}
  BY DEF TypeOK
<1>7. \A u \in Tasks : dir[u] # None => dir[u].label \in Labels
  BY DEF TypeOK, DirType
<1>8. \A u \in Tasks : task[u].label \in Labels \cup {None}
                      /\ task[u].at \in Contexts \cup {None} /\ task[u].n \in Nat
  BY DEF TypeOK
<1> QED
  BY <1>2, <1>3, <1>4, <1>5, <1>6, <1>7, <1>8 DEF Typed

(* What stands in a cache is a file of the context.                        *)
LEMMA InCacheIs ==
  ASSUME TypeOK, FdsInv, NEW c \in Contexts, ctx[c] # None, NEW n \in Nat,
         n < CacheSize(c), ctx[c].cache[n + 1] # None
  PROVE  /\ ctx[c].cache[n + 1] \in Files /\ InContext(ctx[c].cache[n + 1], c)
         /\ ctx[c].cache[n + 1] \in ToSet(ctx[c].list)
         /\ n + 1 \in Taken(ctx[c].cache)
<1>1. ctx[c] \in ContextType /\ Agree(ctx[c])
  BY TypesAre DEF Typed, FdsInv
<1>2. /\ ctx[c].cache \in Seq(Files \cup {None}) /\ ctx[c].list \in Seq(Files)
      /\ n + 1 \in DOMAIN ctx[c].cache
  BY <1>1 DEF ContextType, CacheSize
<1>3. n + 1 \in Taken(ctx[c].cache)
  BY <1>2 DEF Taken
<1>4. ctx[c].cache[n + 1] \in ToSet(ctx[c].list)
  BY <1>1, <1>3 DEF Agree
<1>5. InContext(ctx[c].cache[n + 1], c)
  BY <1>4 DEF FdsInv
<1>6. ctx[c].cache[n + 1] \in Files
  BY <1>2
<1> QED
  BY <1>3, <1>4, <1>5, <1>6

-----------------------------------------------------------------------------
(* Steps that leave the table of partitions and the tasks that manage it   *)
(* as they are.                                                            *)

Kept ==
  /\ UNCHANGED <<efs, vfs, mishap>>
  /\ \A c \in Contexts :
       /\ ctx'[c] = None <=> ctx[c] = None
       /\ ctx[c] # None => /\ ctx'[c].label = ctx[c].label
                           /\ ctx'[c].cache = <<>> <=> ctx[c].cache = <<>>

Apart == {"idle", "truncate", "close"}

SameManagers ==
  \A u \in Tasks : task'[u] = task[u] \/ (task[u].pc \in Apart /\ task'[u].pc \in Apart)

(* The partition is there, and nobody is making or formatting it.          *)
Served(l) ==
  /\ vfs[l] # None
  /\ \A u \in Tasks : Formatting(u) \/ task[u].pc = "register" => task[u].label # l

(* What comes to be used is served.                                        *)
UsesServed ==
  /\ fault' = fault
  /\ \A h \in handle' : Served(h.label) \/ \E k \in handle : k.label = h.label
  /\ \A u \in Tasks : dir'[u] # None =>
       Served(dir'[u].label) \/ (dir[u] # None /\ dir'[u].label = dir[u].label)
  /\ \A u \in Tasks : task'[u].label \in {task[u].label, None} \/ Served(task'[u].label)
  /\ \A u \in Tasks : Truncating(u)' =>
       \/ vfs[task'[u].label] = task'[u].at
       \/ Truncating(u) /\ task'[u].label = task[u].label /\ task'[u].at = task[u].at

LEMMA KeptTasks ==
  ASSUME TypeOK, TypeOK', TaskInv, Kept,
         \A u \in Tasks : task'[u] = task[u] \/
           (task'[u].pc \in Apart /\ (task'[u].pc # "idle" =>
              task'[u].label \in Labels /\ task'[u].at \in Contexts))
  PROVE  TaskInv'
<1>1. (\A u \in Tasks :
         /\ task[u].pc # "idle" => task[u].label \in Labels
         /\ task[u].pc \notin {"idle", "register"} => task[u].at \in Contexts
         /\ task[u].pc = "erase_new" => task[u].n \in Slots)'
  BY DEF TaskInv, Apart, Kept, Slots
<1>2. \A u \in Tasks : InFormat(u)' => InFormat(u) /\ task'[u] = task[u]
  BY DEF InFormat, Apart
<1>3. \A u \in Tasks : InFormat(u) => task[u].at \in Contexts
  BY DEF TaskInv, InFormat
<1>4. RemountInv'
  BY <1>2, <1>3 DEF TaskInv, RemountInv, Kept
<1> QED
  BY <1>1, <1>4 DEF TaskInv

(* The contexts stand where they stood.                                    *)
Standing ==
  /\ UNCHANGED <<efs, vfs, mishap>>
  /\ \A c \in Contexts :
       /\ ctx'[c] = None <=> ctx[c] = None
       /\ ctx[c] # None => ctx'[c].label = ctx[c].label

LEMMA KeptStands == ASSUME Kept PROVE Standing
  BY DEF Kept, Standing

LEMMA StandingSlots ==
  ASSUME TypeOK, TypeOK', SlotInv, Standing,
         \A f \in Files : file'[f] # None => InSlot(file'[f].ctx)
  PROVE  SlotInv'
<1>0. Typed
  BY TypesAre
<1>1. OneSlotPerPartition'
  BY <1>0 DEF Typed, OneSlotPerPartition, SlotInv, Standing, Slots
<1>2. (\A l \in Labels : vfs[l] # None /\ ctx[vfs[l]] # None =>
         ctx[vfs[l]].label = l /\ InSlot(vfs[l]))'
  BY <1>0 DEF Typed, SlotInv, Standing, InSlot, Slots
<1>3. (\A f \in Files : file[f] # None => InSlot(file[f].ctx))'
  BY DEF Standing, InSlot, Slots
<1> QED
  BY <1>1, <1>2, <1>3 DEF SlotInv

LEMMA KeptSlots ==
  ASSUME TypeOK, TypeOK', SlotInv, Kept,
         \A f \in Files : file'[f] # None => InSlot(file'[f].ctx)
  PROVE  SlotInv'
  BY KeptStands, StandingSlots

LEMMA StandingVfs ==
  ASSUME TypeOK, TypeOK', TaskInv, VfsInv, Standing,
         \A u \in Tasks : task'[u].pc \in {"register", "erase_new"} => task'[u] = task[u]
  PROVE  VfsInv'
<1> SUFFICES ASSUME mishap # "register_again"
             PROVE  VfsInv'
  BY DEF VfsInv, Standing
<1>0. \A u \in Tasks : task'[u].pc \in {"register", "erase_new"} => task'[u] = task[u]
  OBVIOUS
<1>1. Typed
  BY TypesAre
<1>2. ASSUME NEW l \in Labels, vfs'[l] # None
      PROVE  ctx'[vfs'[l]] # None
  BY <1>1, <1>2 DEF Typed, VfsInv, Standing
<1>3. ASSUME NEW u \in Tasks, task'[u].pc \in {"register", "erase_new"}
      PROVE  /\ vfs'[task'[u].label] = None
             /\ \A v \in Tasks \ {u} : task'[v].pc \in {"register", "erase_new"} =>
                  task'[v].label # task'[u].label
  <2>1. task'[u] = task[u]
    BY <1>0, <1>3
  <2>2. vfs'[task'[u].label] = None
    BY <1>3, <2>1 DEF VfsInv, Standing
  <2>3. ASSUME NEW v \in Tasks \ {u}, task'[v].pc \in {"register", "erase_new"}
        PROVE  task'[v].label # task'[u].label
    <3>1. task'[v] = task[v]
      BY <1>0, <2>3
    <3> QED
      BY <1>3, <2>1, <2>3, <3>1 DEF VfsInv
  <2> QED
    BY <2>2, <2>3
<1>4. ASSUME NEW u \in Tasks, task'[u].pc = "erase_new"
      PROVE  /\ task'[u].n \in Slots' /\ efs'[task'[u].n] = task'[u].at
             /\ ctx'[task'[u].at] # None /\ ctx'[task'[u].at].label = task'[u].label
  <2>1. task'[u] = task[u] /\ task[u].pc = "erase_new"
    BY <1>0, <1>4
  <2>2. task[u].at \in Contexts
    BY <2>1 DEF TaskInv
  <2>3. /\ task[u].n \in Slots /\ efs[task[u].n] = task[u].at
        /\ ctx[task[u].at] # None /\ ctx[task[u].at].label = task[u].label
    BY <2>1 DEF VfsInv
  <2> QED
    BY <2>1, <2>2, <2>3 DEF Standing, Slots
<1> QED
  BY <1>2, <1>3, <1>4 DEF VfsInv

LEMMA KeptVfs ==
  ASSUME TypeOK, TypeOK', TaskInv, VfsInv, Kept, SameManagers
  PROVE  VfsInv'
<1>1. \A u \in Tasks : task'[u].pc \in {"register", "erase_new"} => task'[u] = task[u]
  BY DEF SameManagers, Apart
<1> QED
  BY <1>1, KeptStands, StandingVfs

LEMMA KeptFine ==
  ASSUME TypeOK, TypeOK', TaskInv, TaskInv', SlotInv, FineInv, Kept, SameManagers,
         Fine => UsesServed
  PROVE  FineInv'
<1> SUFFICES ASSUME Fine
             PROVE  FineInv'
  BY DEF FineInv, Fine, Kept
<1> DEFINE Busy(u) == Formatting(u) \/ task[u].pc = "register"
<1>0. \A u \in Tasks : Busy(u)' => task'[u] = task[u] /\ Busy(u) /\ task[u].label \in Labels
  BY DEF SameManagers, Apart, Formatting, TaskInv
<1>00. None \notin Labels
  BY NoneAssumption
<1>1. fault' = FALSE
  BY DEF UsesServed, FineInv
<1>2. ASSUME NEW u \in Tasks, Busy(u)'
      PROVE  /\ \A v \in Tasks \ {u} : task'[v].label # task'[u].label
             /\ \A h \in handle' : h.label # task'[u].label
             /\ \A v \in Tasks : dir'[v] # None => dir'[v].label # task'[u].label
  <2>1. Busy(u) /\ task'[u] = task[u] /\ task[u].label \in Labels
    BY <1>0, <1>2
  <2>2. ~Served(task[u].label)
    BY <2>1 DEF Served
  <2>3. /\ \A v \in Tasks \ {u} : task[v].label # task[u].label
        /\ \A h \in handle : h.label # task[u].label
        /\ \A v \in Tasks : dir[v] # None => dir[v].label # task[u].label
    BY <2>1 DEF FineInv
  <2> QED
    BY <1>00, <2>1, <2>2, <2>3 DEF UsesServed
<1>3. (\A u \in Tasks : Formatting(u) =>
       /\ ctx[task[u].at] # None /\ ctx[task[u].at].label = task[u].label
       /\ InSlot(task[u].at))'
  <2> SUFFICES ASSUME NEW u \in Tasks, Formatting(u)'
               PROVE  /\ ctx'[task'[u].at] # None /\ ctx'[task'[u].at].label = task'[u].label
                      /\ InSlot(task[u].at)'
    OBVIOUS
  <2>1. task'[u] = task[u] /\ Formatting(u)
    BY <1>0 DEF Formatting
  <2>2. task[u].at \in Contexts
    BY <2>1 DEF TaskInv, Formatting
  <2>3. /\ ctx[task[u].at] # None /\ ctx[task[u].at].label = task[u].label
        /\ InSlot(task[u].at)
    BY <2>1 DEF FineInv
  <2> QED
    BY <2>1, <2>2, <2>3 DEF Kept, InSlot, Slots
<1>4. (\A u \in Tasks : task[u].pc # "erase")'
  BY DEF FineInv, SameManagers, Apart
<1>5. (\A u \in Tasks : Truncating(u) => vfs[task[u].label] = task[u].at)'
  BY DEF FineInv, UsesServed, Kept
<1>6. (\A u \in Tasks : dir[u] # None => vfs[dir[u].label] # None)'
  BY DEF FineInv, UsesServed, Kept, Served
<1>7. (\A i \in Slots : efs[i] # None /\ ctx[efs[i]].cache = <<>> =>
       \E u \in Tasks : Formatting(u) /\ task[u].at = efs[i])'
  <2> SUFFICES ASSUME NEW i \in Slots, efs[i] # None, ctx'[efs[i]].cache = <<>>
               PROVE  \E u \in Tasks : Formatting(u)' /\ task'[u].at = efs[i]
    BY DEF Kept, Slots
  <2>0. ctx[efs[i]] # None
    BY DEF SlotInv, OneSlotPerPartition
  <2>1. efs[i] \in Contexts
    BY TypesAre DEF Typed
  <2>2. ctx[efs[i]] # None /\ ctx[efs[i]].cache = <<>>
    BY <2>0, <2>1 DEF Kept
  <2>3. PICK u \in Tasks : Formatting(u) /\ task[u].at = efs[i]
    BY <2>2 DEF FineInv
  <2>4. task'[u] = task[u]
    BY <2>3 DEF SameManagers, Apart, Formatting
  <2> QED
    BY <2>3, <2>4 DEF Formatting
<1> QED
  BY <1>1, <1>2, <1>3, <1>4, <1>5, <1>6, <1>7 DEF FineInv

(* The descriptors are what they were, and so is what they stand for.      *)
SameFiles ==
  /\ UNCHANGED handle
  /\ \A c \in Contexts : ctx[c] # None =>
       /\ ctx'[c].cache = ctx[c].cache /\ ctx'[c].list = ctx[c].list
       /\ ctx'[c].fd_count = ctx[c].fd_count
  /\ \A f \in Files :
       /\ file'[f] = None <=> file[f] = None
       /\ file[f] # None => file'[f].ctx = file[f].ctx /\ file'[f].closed = file[f].closed
  /\ \A u \in Tasks : Truncating(u)' =>
       /\ Truncating(u) /\ task'[u].label = task[u].label
       /\ task'[u].at = task[u].at /\ task'[u].n = task[u].n

LEMMA SameFds ==
  ASSUME TypeOK, TypeOK', FdsInv, Kept, SameFiles
  PROVE  FdsInv'
<1>0. Typed
  BY TypesAre
<1>1. ASSUME NEW c \in Contexts, ctx'[c] # None
      PROVE  Agree(ctx'[c]) /\ \A f \in ToSet(ctx'[c].list) : InContext(f, c)'
  <2>1. /\ ctx[c] # None /\ ctx'[c].cache = ctx[c].cache /\ ctx'[c].list = ctx[c].list
        /\ ctx'[c].fd_count = ctx[c].fd_count
    BY <1>1 DEF Kept, SameFiles
  <2>2. Agree(ctx[c]) /\ \A f \in ToSet(ctx[c].list) : InContext(f, c)
    BY <2>1 DEF FdsInv
  <2>3. Agree(ctx'[c])
    BY <2>1, <2>2 DEF Agree
  <2>4. ToSet(ctx[c].list) \subseteq Files
    BY <1>0, <2>1 DEF Typed, ContextType, ToSet
  <2>5. \A f \in ToSet(ctx'[c].list) : InContext(f, c)'
    BY <2>1, <2>2, <2>4 DEF InContext, SameFiles
  <2> QED
    BY <2>3, <2>5
<1>2. ASSUME NEW f \in Files, file'[f] # None
      PROVE  ctx'[file'[f].ctx] # None /\ f \in ToSet(ctx'[file'[f].ctx].list)
  <2>1. file[f] # None /\ file'[f].ctx = file[f].ctx /\ file[f].ctx \in Contexts
    BY <1>0, <1>2 DEF Typed, SameFiles
  <2>2. ctx[file[f].ctx] # None /\ f \in ToSet(ctx[file[f].ctx].list)
    BY <2>1 DEF FdsInv
  <2> QED
    BY <2>1, <2>2 DEF Kept, SameFiles
<1> QED
  BY <1>1, <1>2 DEF FdsInv

LEMMA SameHandles ==
  ASSUME TypeOK, TypeOK', TaskInv, FdsInv, HandleInv, Kept, SameFiles
  PROVE  HandleInv'
<1> SUFFICES ASSUME mishap # "format_in_use"
             PROVE  HandleInv'
  BY DEF HandleInv, Kept
<1>0. Typed
  BY TypesAre
<1>1. ASSUME NEW h \in handle'
      PROVE  /\ vfs'[h.label] # None
             /\ h.file = None => ctx'[vfs'[h.label]] = None
             /\ h.file # None => /\ ctx'[vfs'[h.label]] # None
                                 /\ InCache(vfs[h.label], h.fd, h.file)'
                                 /\ ~file'[h.file].closed
             /\ \A k \in handle' : h.label = k.label /\ h.fd = k.fd => h = k
  <2>1. h \in handle /\ handle' = handle /\ vfs[h.label] # None
    BY <1>1 DEF SameFiles, HandleInv
  <2>3. PICK c \in Contexts : vfs[h.label] = c /\ vfs'[h.label] = c
    BY <1>0, <2>1 DEF Typed, Kept
  <2>2. /\ c # None
        /\ h.file = None => ctx[c] = None
        /\ h.file # None => /\ ctx[c] # None
                            /\ InCache(c, h.fd, h.file)
                            /\ ~file[h.file].closed
        /\ \A k \in handle : h.label = k.label /\ h.fd = k.fd => h = k
    BY <2>1, <2>3 DEF HandleInv
  <2>4. ctx'[c] = None <=> ctx[c] = None
    BY <2>3 DEF Kept
  <2>5. ASSUME h.file # None
        PROVE  InCache(c, h.fd, h.file)' /\ ~file'[h.file].closed
    <3>1. ctx[c] # None /\ InCache(c, h.fd, h.file) /\ ctx'[c].cache = ctx[c].cache
      BY <2>2, <2>3, <2>5 DEF SameFiles
    <3>2. InCache(c, h.fd, h.file)'
      BY <3>1 DEF InCache, CacheSize
    <3>3. h.file \in Files
      BY <1>0, <2>1, <2>5 DEF Typed
    <3>4. file[h.file] # None
      <4>1. h.fd \in Nat
        BY <1>0, <2>1 DEF Typed
      <4> QED
        BY <2>5, <3>1, <4>1, InCacheIs DEF InCache, InContext
    <3>5. ~file'[h.file].closed
      BY <2>2, <2>5, <3>3, <3>4 DEF SameFiles
    <3> QED
      BY <3>2, <3>5
  <2> QED
    BY <2>1, <2>2, <2>3, <2>4, <2>5 DEF InCache, CacheSize
<1>2. ASSUME NEW u \in Tasks, Truncating(u)', ctx'[task'[u].at] # None
      PROVE  /\ ctx'[task'[u].at].label = task'[u].label
             /\ task'[u].n < CacheSize(task[u].at)'
             /\ ctx'[task'[u].at].cache[task'[u].n + 1] # None
             /\ \A h \in handle' : vfs'[h.label] = task'[u].at => h.fd # task'[u].n
             /\ \A v \in Tasks \ {u} :
                  Truncating(v)' /\ task'[v].at = task'[u].at => task'[v].n # task'[u].n
  <2>1. /\ Truncating(u) /\ task'[u].label = task[u].label
        /\ task'[u].at = task[u].at /\ task'[u].n = task[u].n
    BY <1>2 DEF SameFiles
  <2>2. task[u].at \in Contexts
    BY <2>1 DEF TaskInv, Truncating
  <2>3. ctx[task[u].at] # None /\ ctx'[task[u].at].cache = ctx[task[u].at].cache
        /\ ctx'[task[u].at].label = ctx[task[u].at].label
    BY <1>2, <2>1, <2>2 DEF Kept, SameFiles
  <2>4. /\ ctx[task[u].at].label = task[u].label
        /\ task[u].n < CacheSize(task[u].at)
        /\ ctx[task[u].at].cache[task[u].n + 1] # None
        /\ \A h \in handle : vfs[h.label] = task[u].at => h.fd # task[u].n
        /\ \A v \in Tasks \ {u} :
             Truncating(v) /\ task[v].at = task[u].at => task[v].n # task[u].n
    BY <2>1, <2>3 DEF HandleInv
  <2>5. \A h \in handle' : vfs'[h.label] = task'[u].at => h.fd # task'[u].n
    BY <2>1, <2>4 DEF SameFiles, Kept
  <2>6. \A v \in Tasks \ {u} :
          Truncating(v)' /\ task'[v].at = task'[u].at => task'[v].n # task'[u].n
    BY <2>1, <2>4 DEF SameFiles
  <2> QED
    BY <2>1, <2>3, <2>4, <2>5, <2>6 DEF CacheSize
<1> QED
  BY <1>1, <1>2 DEF HandleInv

(* Steps that only read and write, or change the tree of a partition.      *)
LEMMA QuietStep ==
  ASSUME IInv, TypeOK', Kept, SameFiles, UNCHANGED task, Fine => UsesServed
  PROVE  IInv'
<1> USE DEF IInv
<1>1. TaskInv'
  BY KeptTasks
<1>2. \A f \in Files : file'[f] # None => InSlot(file'[f].ctx)
  BY DEF SlotInv, SameFiles
<1>3. SlotInv'
  BY <1>2, KeptSlots
<1>4. FdsInv' /\ HandleInv'
  BY SameFds, SameHandles
<1>5. SameManagers
  BY DEF SameManagers
<1>6. VfsInv' /\ FineInv'
  BY <1>1, <1>5, KeptVfs, KeptFine
<1> QED
  BY <1>1, <1>3, <1>4, <1>6

(* Where a call enters a partition, nobody manages it.                     *)
LEMMA EntersServed ==
  ASSUME IInv, NEW t \in Tasks, NEW l \in Labels, NEW c \in Contexts, Reaches(t, l, c)
  PROVE  /\ vfs[l] = c /\ c # None
         /\ ctx[c] # None => ctx[c].label = l /\ InSlot(c)
         /\ Fine => Served(l) /\ ctx[c] # None /\ ctx[c].cache # <<>>
<1> USE DEF IInv
<1>1. vfs[l] = c /\ c # None
  BY DEF Reaches
<1>2. ctx[c] # None => ctx[c].label = l /\ InSlot(c)
  BY <1>1 DEF SlotInv
<1>3. ASSUME Fine
      PROVE  Served(l) /\ ctx[c] # None /\ ctx[c].cache # <<>>
  <2>1. mishap # "register_again" /\ mishap # "format_in_use"
    BY <1>3 DEF Fine
  <2>2. ctx[c] # None
    BY <1>1, <2>1 DEF VfsInv
  <2>3. \A u \in Tasks : task[u].at # c \/ task[u].pc \notin {"erase_mounted", "remount"}
    BY <2>1 DEF Reaches
  <2>4. PICK i \in Slots : efs[i] = c
    BY <1>2, <2>2 DEF InSlot
  <2>5. ASSUME NEW u \in Tasks, Formatting(u), task[u].label = l
        PROVE  FALSE
    <3>1. /\ ctx[task[u].at] # None /\ ctx[task[u].at].label = l
          /\ InSlot(task[u].at)
      BY <1>3, <2>5 DEF FineInv
    <3>2. PICK j \in Slots : efs[j] = task[u].at
      BY <3>1 DEF InSlot
    <3>3. task[u].at \in Contexts /\ task[u].at # None
      BY <2>5, NoneAssumption DEF TaskInv, Formatting
    <3>4. i = j
      BY <1>1, <1>2, <2>2, <2>4, <3>1, <3>2, <3>3 DEF SlotInv, OneSlotPerPartition
    <3>5. task[u].pc = "erase_new"
      BY <2>3, <2>4, <2>5, <3>2, <3>4 DEF Formatting
    <3>6. vfs[l] = None
      BY <2>1, <2>5, <3>5 DEF VfsInv
    <3> QED
      BY <1>1, <3>6
  <2>6. ASSUME NEW u \in Tasks, task[u].pc = "register", task[u].label = l
        PROVE  FALSE
    BY <1>1, <2>1, <2>6 DEF VfsInv
  <2>7. Served(l)
    BY <1>1, <2>5, <2>6 DEF Served
  <2>8. ASSUME ctx[c].cache = <<>>
        PROVE  FALSE
    <3>1. PICK u \in Tasks : Formatting(u) /\ task[u].at = c
      BY <1>1, <1>3, <2>4, <2>8 DEF FineInv
    <3>2. ctx[c].label = task[u].label
      BY <1>3, <3>1 DEF FineInv
    <3> QED
      BY <1>2, <2>2, <2>5, <3>1, <3>2
  <2> QED
    BY <2>2, <2>7, <2>8
<1> QED
  BY <1>1, <1>2, <1>3

(* The root of a tree stays through every change.                          *)
LEMMA RootStands ==
  ASSUME TypeOK, NEW l \in Labels
  PROVE  NS!IsDir(Tree(l), NS!Root)
<1>1. NS!IsDir(NS!Empty, NS!Root)
  BY DEF NS!IsDir, NS!Empty
<1>2. disk[l] # None => NS!IsDir(disk[l], NS!Root)
  BY DEF TypeOK
<1> QED
  BY <1>1, <1>2 DEF Tree

LEMMA InsertRoot ==
  ASSUME NEW t, NEW p, NEW k, NS!IsDir(t, NS!Root), p # NS!Root
  PROVE  NS!IsDir(NS!Insert(t, p, k), NS!Root)
  BY DEF NS!IsDir, NS!Insert

LEMMA DeleteRoot ==
  ASSUME NEW t, NEW p, NS!IsDir(t, NS!Root), p # NS!Root
  PROVE  NS!IsDir(NS!Delete(t, p), NS!Root)
  BY DEF NS!IsDir, NS!Delete, NS!Restrict

LEMMA MoveRoot ==
  ASSUME NEW t, NEW p \in Seq(Names), NEW q \in Seq(Names), NS!IsDir(t, NS!Root),
         p # NS!Root, q # NS!Root
  PROVE  NS!IsDir(NS!Move(t, p, q), NS!Root)
<1>1. /\ ~NS!IsPrefix(p, NS!Root) /\ ~NS!IsPrefix(q, NS!Root)
      /\ ~NS!IsStrictPrefix(p, NS!Root)
  BY DEF NS!IsPrefix, NS!IsStrictPrefix, NS!Root
<1> DEFINE rest == DOMAIN t \ ({p, q} \cup NS!Below(t, p))
           to == rest \cup {NS!Moved(s, p, q) : s \in {p} \cup NS!Below(t, p)}
<1>2. NS!Root \in rest
  BY <1>1 DEF NS!Below, NS!IsDir
<1>3. CASE p = q
  BY <1>3 DEF NS!Move
<1>4. CASE p # q /\ NS!IsStrictPrefix(p, q)
  <2>1. NS!Move(t, p, q) = NS!Restrict(t, rest)
    BY <1>4 DEF NS!Move
  <2> HIDE DEF rest
  <2> QED
    BY <1>2, <2>1 DEF NS!Restrict, NS!IsDir
<1>5. CASE p # q /\ ~NS!IsStrictPrefix(p, q)
  <2>1. NS!Move(t, p, q) =
          [r \in to |-> IF NS!IsPrefix(q, r) THEN t[NS!Moved(r, q, p)] ELSE t[r]]
    BY <1>5 DEF NS!Move
  <2>2. NS!Root \in to
    BY <1>2
  <2> HIDE DEF to
  <2> QED
    BY <1>1, <2>1, <2>2 DEF NS!IsDir
<1> QED
  BY <1>3, <1>4, <1>5

-----------------------------------------------------------------------------
(* Calls that change nothing but a file's contents, the tree or the place  *)
(* in a directory.                                                         *)

(* What is open goes where its entry goes.                                 *)
FilesFollow ==
  /\ file' = [f \in Files |-> file'[f]]
  /\ \A f \in Files :
       \/ file'[f] = file[f]
       \/ /\ file[f] # None /\ file'[f] \in FileType
          /\ file'[f].ctx = file[f].ctx /\ file'[f].path = file[f].path
          /\ file'[f].closed = file[f].closed

DirFollows(l, d, e) ==
  /\ e \in DirType /\ e.label = l
  /\ e.last = d.last /\ e.offset = d.offset /\ e.goal = d.goal
  /\ d.entry = None => e.entry = None
  /\ e.fresh => d.fresh /\ Entries(TreeAfter(l), e.entry) = Entries(Tree(l), d.entry)

DirsFollow(l) ==
  /\ dir' = [u \in Tasks |-> dir'[u]]
  /\ \A u \in Tasks :
       \/ dir'[u] = dir[u] /\ (dir[u] = None \/ dir[u].label # l)
       \/ dir[u] # None /\ dir[u].label = l /\ DirFollows(l, dir[u], dir'[u])

LEMMA DirsTyped ==
  ASSUME TypeOK, NEW l, DirsFollow(l)
  PROVE  /\ dir' \in [Tasks -> DirType \cup {None}]
         /\ \A u \in Tasks : dir'[u] # None => dir[u] # None /\ dir'[u].label = dir[u].label
<1>0. \A u \in Tasks : dir[u] \in DirType \cup {None}
  BY DEF TypeOK
<1> QED
  BY <1>0 DEF DirsFollow, DirFollows

LEMMA FilesTyped ==
  ASSUME TypeOK, FilesFollow
  PROVE  /\ file' \in [Files -> FileType \cup {None}]
         /\ \A f \in Files :
              /\ file'[f] = None <=> file[f] = None
              /\ file[f] # None => /\ file'[f].ctx = file[f].ctx /\ file'[f].path = file[f].path
                                   /\ file'[f].closed = file[f].closed
<1>0. \A f \in Files : file[f] \in FileType \cup {None}
  BY DEF TypeOK
<1> QED
  BY <1>0, NoneAssumption DEF FilesFollow

LEMMA Replanted ==
  ASSUME IInv, NEW l \in Labels, NEW t, NS!IsDir(t, NS!Root),
         disk' = [disk EXCEPT ![l] = t], FilesFollow, DirsFollow(l),
         UNCHANGED <<efs, ctx, vfs, handle, task, fault, mishap>>
  PROVE  IInv'
<1> USE DEF IInv
<1>1. DOMAIN disk' = Labels /\ \A k \in Labels : disk'[k] # None => NS!IsDir(disk'[k], NS!Root)
  BY DEF TypeOK
<1>2. TypeOK'
  BY <1>1, DirsTyped, FilesTyped DEF TypeOK
<1>3. Kept
  BY DEF Kept
<1>4. SameFiles
  BY FilesTyped DEF SameFiles, Truncating
<1>5. UsesServed
  BY DirsTyped DEF UsesServed, Truncating
<1> QED
  BY <1>2, <1>3, <1>4, <1>5, QuietStep

LEMMA Resown ==
  ASSUME IInv, FilesFollow, UNCHANGED <<contextVars, handle, dir, task, fault, mishap>>
  PROVE  IInv'
<1> USE DEF IInv, contextVars
<1>1. TypeOK'
  BY FilesTyped DEF TypeOK
<1>2. Kept /\ UsesServed
  BY DEF Kept, UsesServed, Truncating
<1>3. SameFiles
  BY FilesTyped DEF SameFiles, Truncating
<1> QED
  BY <1>1, <1>2, <1>3, QuietStep

LEMMA DirGoes ==
  ASSUME NEW l, NEW d \in DirType, d.label = l,
         NEW r \in Seq(Names) \cup {None}, d.entry = None => r = None,
         NEW e, e = [d EXCEPT !.entry = r,
                       !.fresh = @ /\ Entries(TreeAfter(l), r) = Entries(Tree(l), d.entry)]
  PROVE  DirFollows(l, d, e)
<1> DEFINE same == d.fresh /\ Entries(TreeAfter(l), r) = Entries(Tree(l), d.entry)
<1>1. PICK b \in BOOLEAN : b <=> same
  BY Zenon
<1>2. d.fresh \in BOOLEAN
  BY DEF DirType
<1>3. same = b
  BY <1>1, Zenon
<1>4. e = [d EXCEPT !.entry = r, !.fresh = b]
  BY <1>3, Zenon
<1>5. /\ e \in DirType /\ e.label = d.label /\ e.entry = r
      /\ e.last = d.last /\ e.offset = d.offset /\ e.goal = d.goal
  BY <1>4 DEF DirType
<1>6. e.fresh = b
  BY <1>4 DEF DirType
<1>7. e.fresh => same
  BY <1>1, <1>6, Zenon
<1>8. e.fresh => d.fresh /\ Entries(TreeAfter(l), e.entry) = Entries(Tree(l), d.entry)
  BY <1>5, <1>7, Zenon
<1>9. d.entry = None => e.entry = None
  BY <1>5
<1> QED
  BY <1>5, <1>8, <1>9, Zenon DEF DirFollows

(* What is open goes where P says that its entry goes.                     *)
Spots == Seq(Names) \cup {None}

Placed(l, P) ==
  /\ file' = [f \in Files |->
       IF file[f] # None /\ ctx[file[f].ctx].label = l
       THEN [file[f] EXCEPT !.entry = P[@]] ELSE file[f]]
  /\ dir' = [u \in Tasks |->
       IF dir[u] = None \/ dir[u].label # l THEN dir[u]
       ELSE [dir[u] EXCEPT !.entry = P[@],
               !.fresh = @ /\ Entries(TreeAfter(l), P[dir[u].entry])
                                = Entries(Tree(l), dir[u].entry)]]

LEMMA PlacedFollows ==
  ASSUME TypeOK, NEW l, NEW P \in [Spots -> Spots], P[None] = None, Placed(l, P)
  PROVE  FilesFollow /\ DirsFollow(l)
<1>1. FilesFollow
  <2>1. ASSUME NEW f \in Files, file[f] # None
        PROVE  LET g == [file[f] EXCEPT !.entry = P[@]] IN
                 /\ g \in FileType /\ g.ctx = file[f].ctx /\ g.path = file[f].path
                 /\ g.closed = file[f].closed
    <3>1. file[f] \in FileType
      BY <2>1 DEF TypeOK
    <3>2. P[file[f].entry] \in Spots
      BY <3>1 DEF FileType, Spots
    <3> QED
      BY <3>1, <3>2 DEF FileType, Spots
  <2>2. file' = [f \in Files |->
          IF file[f] # None /\ ctx[file[f].ctx].label = l
          THEN [file[f] EXCEPT !.entry = P[@]] ELSE file[f]]
    BY DEF Placed
  <2> QED
    BY <2>1, <2>2 DEF FilesFollow
<1>2. DirsFollow(l)
  <2>1. dir' = [u \in Tasks |->
          IF dir[u] = None \/ dir[u].label # l THEN dir[u]
          ELSE [dir[u] EXCEPT !.entry = P[dir[u].entry],
                  !.fresh = @ /\ Entries(TreeAfter(l), P[dir[u].entry])
                                   = Entries(Tree(l), dir[u].entry)]]
    BY DEF Placed
  <2>2. ASSUME NEW u \in Tasks, dir[u] # None, dir[u].label = l
        PROVE  DirFollows(l, dir[u], dir'[u])
    <3>1. dir[u] \in DirType
      BY <2>2 DEF TypeOK
    <3>2. /\ P[dir[u].entry] \in Seq(Names) \cup {None}
          /\ dir[u].entry = None => P[dir[u].entry] = None
      BY <3>1 DEF DirType, Spots
    <3>3. dir'[u] = [dir[u] EXCEPT !.entry = P[dir[u].entry],
                  !.fresh = @ /\ Entries(TreeAfter(l), P[dir[u].entry])
                                   = Entries(Tree(l), dir[u].entry)]
      BY <2>1, <2>2, Zenon
    <3> QED
      BY <2>2, <3>1, <3>2, <3>3, DirGoes, Zenon
  <2> QED
    BY <2>1, <2>2 DEF DirsFollow
<1> QED
  BY <1>1, <1>2

(* Where an entry goes.                                                    *)
Gone(p) == [e \in Spots |-> Without(e, p)]
Came(p, q) == [e \in Spots |-> Follow(e, p, q)]
Stays == [e \in Spots |-> e]

LEMMA Goes ==
  ASSUME NEW p \in Seq(Names), NEW q \in Seq(Names)
  PROVE  /\ Gone(p) \in [Spots -> Spots] /\ Gone(p)[None] = None
         /\ Came(p, q) \in [Spots -> Spots] /\ Came(p, q)[None] = None
         /\ Stays \in [Spots -> Spots] /\ Stays[None] = None
<1>1. None \in Spots
  BY DEF Spots
<1>2. ASSUME NEW e \in Spots  PROVE Without(e, p) \in Spots
  BY <1>2 DEF Without, Spots
<1>3. ASSUME NEW e \in Spots  PROVE Follow(e, p, q) \in Spots
  <2>1. CASE e = None
    BY <2>1 DEF Follow, Spots
  <2>2. CASE e \in Seq(Names) /\ NS!IsPrefix(p, e)
    <3>1. SubSeq(e, Len(p) + 1, Len(e)) \in Seq(Names)
      BY <2>2, SubSeqProperties
    <3>2. NS!Moved(e, p, q) \in Seq(Names)
      BY <2>2, <3>1 DEF NS!Moved
    <3> QED
      BY <3>2, <2>2 DEF Follow, Spots
  <2>3. CASE e \in Seq(Names) /\ ~NS!IsPrefix(p, e)
    BY <2>3 DEF Follow, Spots, NS!Moved
  <2> QED
    BY <2>1, <2>2, <2>3 DEF Spots
<1>4. Without(None, p) = None /\ Follow(None, p, q) = None
  BY DEF Without, Follow
<1> QED
  BY <1>1, <1>2, <1>3, <1>4 DEF Gone, Came, Stays

LEMMA ReplantPlaces ==
  ASSUME TypeOK, NEW l, NEW t, NEW p, NEW q
  PROVE  /\ Replant(l, t, LAMBDA e : Without(e, p)) => Placed(l, Gone(p))
         /\ Replant(l, t, LAMBDA e : Follow(e, p, q)) => Placed(l, Came(p, q))
         /\ Replant(l, t, LAMBDA e : e) => Placed(l, Stays)
<1>1. \A f \in Files : file[f] # None => file[f].entry \in Spots
  BY DEF TypeOK, FileType, Spots
<1>2. \A u \in Tasks : dir[u] # None => dir[u].entry \in Spots
  BY DEF TypeOK, DirType, Spots
<1>3. ASSUME Replant(l, t, LAMBDA e : Without(e, p))  PROVE Placed(l, Gone(p))
  <2>1. \A e \in Spots : Gone(p)[e] = Without(e, p)
    BY DEF Gone
  <2> QED
    BY <1>1, <1>2, <1>3, <2>1 DEF Replant, Watch, Placed
<1>4. ASSUME Replant(l, t, LAMBDA e : Follow(e, p, q))  PROVE Placed(l, Came(p, q))
  <2>1. \A e \in Spots : Came(p, q)[e] = Follow(e, p, q)
    BY DEF Came
  <2> QED
    BY <1>1, <1>2, <1>4, <2>1 DEF Replant, Watch, Placed
<1>5. ASSUME Replant(l, t, LAMBDA e : e)  PROVE Placed(l, Stays)
  <2>1. \A e \in Spots : Stays[e] = e
    BY DEF Stays
  <2> QED
    BY <1>1, <1>2, <1>5, <2>1 DEF Replant, Watch, Placed
<1> QED
  BY <1>3, <1>4, <1>5

LEMMA TreeStep ==
  ASSUME IInv, UNCHANGED mishap, NEW l \in Labels, NEW t, NS!IsDir(t, NS!Root),
         NEW P \in [Spots -> Spots], P[None] = None, Placed(l, P),
         disk' = [disk EXCEPT ![l] = t],
         UNCHANGED <<efs, ctx, vfs, handle, task, fault>>
  PROVE  IInv'
<1>1. FilesFollow /\ DirsFollow(l)
  BY PlacedFollows DEF IInv
<1> QED
  BY <1>1, Replanted

LEMMA UnlinkStep ==
  ASSUME IInv, UNCHANGED mishap, NEW t \in Tasks, NEW l \in Labels,
         NEW p \in Spellings \X Places, Unlink(t, l, p)
  PROVE  IInv'
<1> DEFINE new == NS!Delete(Tree(l), p[2])
<1>0. p[2] \in Seq(Names) /\ TypeOK
  BY NamesAssumption DEF IInv
<1>1. Replant(l, new, LAMBDA e : Without(e, p[2])) /\ Tree(l)[p[2]] = "reg"
  BY DEF Unlink
<1>2. p[2] # NS!Root
  BY <1>0, <1>1, RootStands DEF NS!IsDir
<1>3. NS!IsDir(new, NS!Root)
  BY <1>0, <1>2, RootStands, DeleteRoot
<1> HIDE DEF new
<1>4. Placed(l, Gone(p[2]))
  BY <1>0, <1>1, ReplantPlaces
<1>5. disk' = [disk EXCEPT ![l] = new] /\ UNCHANGED <<efs, ctx, vfs, handle, task, fault>>
  BY <1>1 DEF Replant
<1> QED
  BY <1>0, <1>3, <1>4, <1>5, Goes, TreeStep

LEMMA RmdirStep ==
  ASSUME IInv, UNCHANGED mishap, NEW t \in Tasks, NEW l \in Labels,
         NEW p \in Plain, Rmdir(t, l, p)
  PROVE  IInv'
<1> DEFINE new == NS!Delete(Tree(l), p[2])
<1>0. p[2] \in Seq(Names) /\ TypeOK
  BY NamesAssumption DEF IInv, Plain
<1>1. Replant(l, new, LAMBDA e : Without(e, p[2])) /\ p[2] # NS!Root
  BY DEF Rmdir, NS!Removable
<1>3. NS!IsDir(new, NS!Root)
  BY <1>0, <1>1, RootStands, DeleteRoot
<1> HIDE DEF new
<1>4. Placed(l, Gone(p[2]))
  BY <1>0, <1>1, ReplantPlaces
<1>5. disk' = [disk EXCEPT ![l] = new] /\ UNCHANGED <<efs, ctx, vfs, handle, task, fault>>
  BY <1>1 DEF Replant
<1> QED
  BY <1>0, <1>3, <1>4, <1>5, Goes, TreeStep

LEMMA RenameStep ==
  ASSUME IInv, UNCHANGED mishap, NEW t \in Tasks, NEW l \in Labels,
         NEW p \in Plain, NEW q \in Plain, Rename(t, l, p, q)
  PROVE  IInv'
<1> DEFINE new == NS!Move(Tree(l), p[2], q[2])
<1>0. p[2] \in Seq(Names) /\ q[2] \in Seq(Names) /\ TypeOK
  BY NamesAssumption DEF IInv, Plain
<1>1. /\ Replant(l, new, LAMBDA e : Follow(e, p[2], q[2]))
      /\ NS!Renamable(Tree(l), p[2], q[2]) /\ p[2] # q[2]
  BY DEF Rename
<1>2. p[2] # NS!Root /\ q[2] # NS!Root
  BY <1>1 DEF NS!Renamable, NS!Vacant
<1>3. NS!IsDir(new, NS!Root)
  BY <1>0, <1>2, RootStands, MoveRoot
<1> HIDE DEF new
<1>4. Placed(l, Came(p[2], q[2]))
  BY <1>0, <1>1, ReplantPlaces
<1>5. disk' = [disk EXCEPT ![l] = new] /\ UNCHANGED <<efs, ctx, vfs, handle, task, fault>>
  BY <1>1 DEF Replant
<1> QED
  BY <1>0, <1>3, <1>4, <1>5, Goes, TreeStep

LEMMA MkdirStep ==
  ASSUME IInv, UNCHANGED mishap, NEW t \in Tasks, NEW l \in Labels,
         NEW p \in Plain, Mkdir(t, l, p)
  PROVE  IInv'
<1> DEFINE new == NS!Insert(Tree(l), p[2], "dir")
<1>0. p[2] \in Seq(Names) /\ TypeOK
  BY NamesAssumption DEF IInv, Plain
<1>1. Replant(l, new, LAMBDA e : e) /\ p[2] # NS!Root
  BY DEF Mkdir, NS!Vacant
<1>3. NS!IsDir(new, NS!Root)
  BY <1>0, <1>1, RootStands, InsertRoot
<1> HIDE DEF new
<1>4. Placed(l, Stays)
  BY <1>0, <1>1, ReplantPlaces
<1>5. disk' = [disk EXCEPT ![l] = new] /\ UNCHANGED <<efs, ctx, vfs, handle, task, fault>>
  BY <1>1 DEF Replant
<1> QED
  BY <1>0, <1>3, <1>4, <1>5, Goes, TreeStep

(* A file that is written, synchronised or moved about in.                 *)
LEMMA TouchedStep ==
  ASSUME IInv, UNCHANGED mishap, NEW f \in Files, NEW d \in BOOLEAN,
         file[f] # None, Touched(f, d)
  PROVE  IInv' /\ FilesFollow
<1>1. \A g \in Files : file[g] # None => file[g] \in FileType
  BY DEF IInv, TypeOK
<1>2. [file[f] EXCEPT !.dirty = d] \in FileType
  BY <1>1 DEF FileType
<1>3. file' = [file EXCEPT ![f] = [file[f] EXCEPT !.dirty = d]]
  BY DEF Touched
<1>4. file \in [Files -> FileType \cup {None}]
  BY DEF IInv, TypeOK
<1>5. FilesFollow
  BY <1>1, <1>2, <1>3, <1>4 DEF FilesFollow, FileType
<1> QED
  BY <1>5, Resown DEF Touched, contextVars

(* The file that a call on a descriptor is about.                          *)
LEMMA OnFileIs ==
  ASSUME IInv, NEW t \in Tasks, NEW h \in handle, NEW c \in Contexts, NEW f \in Files,
         OnFile(t, h, c, f)
  PROVE  /\ ctx[c] # None /\ ctx[c].cache # <<>> /\ vfs[h.label] = c
         /\ h.label \in Labels /\ h.fd \in Nat /\ ctx[c].cache[h.fd + 1] = f
         /\ InContext(f, c) /\ file[f] \in FileType /\ file[f] # None
<1>1. h.label \in Labels /\ h.fd \in Nat /\ TypeOK
  BY TypesAre DEF Typed, IInv
<1>2. /\ ctx[c] # None /\ ctx[c].cache # <<>> /\ vfs[h.label] = c
      /\ h.fd < CacheSize(c) /\ ctx[c].cache[h.fd + 1] = f /\ f # None
  BY DEF OnFile, Enters, Reaches, Lockable, Sound, InCache
<1>3. InContext(f, c)
  BY <1>1, <1>2, InCacheIs DEF IInv
<1>4. file[f] \in FileType /\ file[f] # None
  BY <1>1, <1>3 DEF InContext, TypeOK
<1> QED
  BY <1>1, <1>2, <1>3, <1>4

(* A step that changes nothing the invariant is about.                     *)
LEMMA StutterStep ==
  ASSUME IInv, UNCHANGED vars
  PROVE  IInv'
<1> USE DEF vars
<1>1. TypeOK'
  BY DEF IInv, TypeOK
<1>2. Kept /\ SameFiles /\ UsesServed
  BY DEF Kept, SameFiles, UsesServed, Truncating
<1> QED
  BY <1>1, <1>2, QuietStep

(* A call that follows a pointer to nothing, which is no fine behaviour.   *)
LEMMA FallsStep ==
  ASSUME IInv, UNCHANGED mishap, ~Fine, fault' = TRUE,
         UNCHANGED <<contextVars, file, handle, dir, task>>
  PROVE  IInv'
<1> USE DEF contextVars
<1>1. TypeOK'
  BY DEF IInv, TypeOK
<1>2. Kept /\ SameFiles
  BY DEF Kept, SameFiles, Truncating
<1> QED
  BY <1>1, <1>2, QuietStep

LEMMA DanglingStep ==
  ASSUME IInv, UNCHANGED mishap, NEW t \in Tasks, NEW l \in Labels, Dangling(t, l)
  PROVE  IInv'
<1>1. ~Fine
  BY EntersServed DEF Dangling, Sound
<1> QED
  BY <1>1, FallsStep DEF Dangling, Falls

LEMMA StrayStep ==
  ASSUME IInv, UNCHANGED mishap, NEW t \in Tasks, NEW h \in handle, Stray(t, h)
  PROVE  IInv'
<1>1. PICK c \in Contexts : Enters(t, h.label, c) /\ Nothing(c, h.fd)
  BY DEF Stray
<1>2. h.fd \in Nat /\ h.label \in Labels
  BY TypesAre DEF Typed, IInv
<1>3. vfs[h.label] = c /\ ctx[c] # None
  BY <1>1 DEF Enters, Reaches, Lockable, Sound
<1>4. ASSUME Fine  PROVE FALSE
  <2>1. h.file # None /\ InCache(c, h.fd, h.file)
    BY <1>3, <1>4 DEF IInv, HandleInv, Fine
  <2>2. h.fd < CacheSize(c) /\ ctx[c].cache[h.fd + 1] # None
    BY <2>1 DEF InCache
  <2>3. CacheSize(c) \in Nat
    BY <1>3, TypesAre DEF Typed, IInv, ContextType, CacheSize
  <2> QED
    BY <1>1, <1>2, <2>2, <2>3 DEF Nothing
<1> QED
  BY <1>4, FallsStep DEF Stray, Falls

LEMMA HolderStep ==
  ASSUME IInv, UNCHANGED mishap, NEW t \in Tasks, NEW c \in Contexts, ctx[c] # None,
         ctx' = [ctx EXCEPT ![c].holder = t],
         UNCHANGED <<efs, vfs, disk, file, handle, dir, task, fault>>
  PROVE  IInv'
<1> DEFINE e == [ctx[c] EXCEPT !.holder = t]
<1>0. ctx \in [Contexts -> ContextType \cup {None}] /\ ctx[c] \in ContextType
  BY DEF IInv, TypeOK
<1>1. /\ e \in ContextType /\ e.cache = ctx[c].cache /\ e.list = ctx[c].list
      /\ e.fd_count = ctx[c].fd_count /\ e.label = ctx[c].label /\ e # None
  <2>1. /\ e \in ContextType /\ e.cache = ctx[c].cache /\ e.list = ctx[c].list
        /\ e.fd_count = ctx[c].fd_count /\ e.label = ctx[c].label
    BY <1>0 DEF ContextType
  <2> HIDE DEF e
  <2> QED
    BY <2>1, NoneAssumption
<1>2. ctx' = [ctx EXCEPT ![c] = e]
  BY <1>0
<1> HIDE DEF e
<1>3. TypeOK'
  BY <1>0, <1>1, <1>2 DEF IInv, TypeOK
<1>4. Kept /\ SameFiles /\ UsesServed
  BY <1>0, <1>1, <1>2 DEF Kept, SameFiles, UsesServed, Truncating
<1> QED
  BY <1>3, <1>4, QuietStep

LEMMA DescriptorStep ==
  ASSUME IInv, UNCHANGED mishap, NEW t \in Tasks, NEW h \in handle,
         \/ Write(t, h) \/ Ftruncate(t, h) \/ Fsync(t, h) \/ Lseek(t, h)
         \/ Pwrite(t, h) \/ Pread(t, h) \/ Read(t, h) \/ Fstat(t, h) \/ Fcntl(t, h)
  PROVE  IInv'
<1>1. CASE Write(t, h) \/ Ftruncate(t, h)
  BY <1>1, OnFileIs, TouchedStep DEF Write, Ftruncate
<1>2. CASE Fsync(t, h)
  BY <1>2, OnFileIs, TouchedStep DEF Fsync
<1>3. CASE Lseek(t, h)
  <2>1. PICK c \in Contexts, f \in Files : OnFile(t, h, c, f) /\ Touched(f, file[f].dirty)
    BY <1>3 DEF Lseek
  <2>2. file[f] # None /\ file[f].dirty \in BOOLEAN
    BY <2>1, OnFileIs DEF FileType
  <2> QED
    BY <2>1, <2>2, TouchedStep
<1>4. ASSUME NEW d \in BOOLEAN, Positioned(t, h, d)
      PROVE  IInv'
  <2>1. PICK c \in Contexts, f \in Files :
          /\ OnFile(t, h, c, f)
          /\ \/ Touched(f, d \/ file[f].dirty)
             \/ /\ ctx' = [ctx EXCEPT ![c].holder = t]
                /\ UNCHANGED <<efs, vfs, disk, file, handle, dir, task, fault>>
    BY <1>4 DEF Positioned
  <2>2. file[f] # None /\ ctx[c] # None
    BY <2>1, OnFileIs
  <2>3. CASE Touched(f, d \/ file[f].dirty)
    <3>1. PICK b \in BOOLEAN : b = (d \/ file[f].dirty)
      BY Zenon
    <3>2. Touched(f, b)
      BY <2>3, <3>1, Zenon
    <3> QED
      BY <2>2, <3>2, TouchedStep
  <2>4. CASE /\ ctx' = [ctx EXCEPT ![c].holder = t]
             /\ UNCHANGED <<efs, vfs, disk, file, handle, dir, task, fault>>
    BY <2>2, <2>4, HolderStep
  <2> QED
    BY <2>1, <2>3, <2>4
<1>5. CASE Pwrite(t, h) \/ Pread(t, h)
  BY <1>4, <1>5 DEF Pwrite, Pread
<1>6. CASE Read(t, h) \/ Fstat(t, h) \/ Fcntl(t, h)
  BY <1>6, StutterStep DEF Read, Fstat, Fcntl
<1> QED
  BY <1>1, <1>2, <1>3, <1>5, <1>6

-----------------------------------------------------------------------------
(* Directories.                                                            *)

LEMMA SetDirStep ==
  ASSUME IInv, UNCHANGED mishap, NEW t \in Tasks, NEW d \in DirType \cup {None}, SetDir(t, d),
         Fine /\ d # None => Served(d.label) \/ (dir[t] # None /\ d.label = dir[t].label)
  PROVE  IInv'
<1> USE DEF SetDir, contextVars
<1>0. dir \in [Tasks -> DirType \cup {None}]
  BY DEF IInv, TypeOK
<1>1. TypeOK'
  BY <1>0 DEF IInv, TypeOK
<1>2. Kept /\ SameFiles
  BY DEF Kept, SameFiles, Truncating
<1>3. Fine => UsesServed
  BY <1>0 DEF UsesServed, Truncating
<1> QED
  BY <1>1, <1>2, <1>3, QuietStep

(* Reading goes on with one of the names.                                  *)
LEMMA AdvancedTyped ==
  ASSUME NEW d \in DirType
  PROVE  /\ Advanced(d) \in DirType /\ Advanced(d).label = d.label
         /\ Advanced(d).entry = d.entry /\ Advanced(d).fresh = d.fresh
         /\ Advanced(d).goal = d.goal /\ Advanced(d).offset = d.offset + 1
         /\ Advanced(d).last = IF Beyond(d) = {} THEN d.last ELSE Min(Beyond(d))
<1> DEFINE last == IF Beyond(d) = {} THEN d.last ELSE Min(Beyond(d))
<1>1. Beyond(d) \in SUBSET Nat
  BY NamesAssumption DEF Beyond, Entries
<1>2. last \in Nat
  BY <1>1, MinIs DEF DirType
<1>3. d.offset + 1 \in Nat
  BY DEF DirType
<1>4. Advanced(d) = [d EXCEPT !.last = last, !.offset = d.offset + 1]
  BY DEF Advanced
<1> HIDE DEF last
<1>5. /\ Advanced(d) \in DirType /\ Advanced(d).label = d.label
      /\ Advanced(d).entry = d.entry /\ Advanced(d).fresh = d.fresh
      /\ Advanced(d).goal = d.goal /\ Advanced(d).offset = d.offset + 1
      /\ Advanced(d).last = last
  BY <1>2, <1>3, <1>4 DEF DirType
<1> QED
  BY <1>5 DEF last

LEMMA DirectoryStep ==
  ASSUME IInv, UNCHANGED mishap, NEW t \in Tasks, ReadDirectory(t)
  PROVE  IInv'
<1>0. dir[t] # None => dir[t] \in DirType
  BY DEF IInv, TypeOK
<1>1. ASSUME NEW l \in Labels, NEW p \in Plain, Opendir(t, l, p)
      PROVE  IInv'
  <2> DEFINE d == [label |-> l, entry |-> p[2], last |-> 0, offset |-> 0,
                   goal |-> 0, fresh |-> TRUE]
  <2>1. PICK c \in Contexts : Enters(t, l, c) /\ SetDir(t, d)
    BY <1>1 DEF Opendir
  <2>2. d \in DirType /\ d.label = l
    <3>1. p[2] \in Seq(Names)
      BY NamesAssumption DEF Plain
    <3> QED
      BY <3>1 DEF DirType
  <2> HIDE DEF d
  <2>3. Fine => Served(d.label)
    BY <2>1, <2>2, EntersServed DEF Enters
  <2> QED
    BY <2>1, <2>2, <2>3, SetDirStep
<1>2. CASE Closedir(t)
  BY <1>2, SetDirStep DEF Closedir
<1>3. CASE Readdir(t)
  <2> DEFINE d == [Advanced(dir[t]) EXCEPT !.goal = @ + 1]
  <2>1. SetDir(t, d) /\ dir[t] # None
    BY <1>3 DEF Readdir, OnDir
  <2>2. d \in DirType /\ d.label = dir[t].label
    <3>1. Advanced(dir[t]) \in DirType /\ Advanced(dir[t]).label = dir[t].label
      BY <1>0, <2>1, AdvancedTyped
    <3>2. Advanced(dir[t]).goal + 1 \in Nat
      BY <3>1 DEF DirType
    <3> QED
      BY <3>1, <3>2 DEF DirType
  <2> HIDE DEF d
  <2> QED
    BY <2>1, <2>2, SetDirStep
<1>4. ASSUME NEW offset \in 0..Cardinality(Names), Seekdir(t, offset)
      PROVE  IInv'
  <2> DEFINE d == IF offset < dir[t].offset
                  THEN [dir[t] EXCEPT !.last = 0, !.offset = 0, !.goal = offset,
                                               !.fresh = TRUE]
                  ELSE [dir[t] EXCEPT !.goal = offset]
  <2>1. SetDir(t, d) /\ dir[t] # None
    BY <1>4 DEF Seekdir, OnDir
  <2>2. d \in DirType /\ d.label = dir[t].label
    <3>1. offset \in Nat
      BY NamesAssumption, FS_CardinalityType
    <3> QED
      BY <1>0, <2>1, <3>1 DEF DirType
  <2> HIDE DEF d
  <2> QED
    BY <2>1, <2>2, SetDirStep
<1>5. CASE SeekdirStep(t)
  <2>1. SetDir(t, Advanced(dir[t])) /\ dir[t] # None
    BY <1>5 DEF SeekdirStep, OnDir
  <2>2. Advanced(dir[t]) \in DirType /\ Advanced(dir[t]).label = dir[t].label
    BY <1>0, <2>1, AdvancedTyped
  <2> QED
    BY <2>1, <2>2, SetDirStep
<1> QED
  BY <1>1, <1>2, <1>3, <1>4, <1>5 DEF ReadDirectory

-----------------------------------------------------------------------------
(* Opening.                                                                *)

(* A context that changes, and stays mounted under its label.              *)
LEMMA ContextChanges ==
  ASSUME TypeOK, NEW c \in Contexts, ctx[c] # None, ctx[c].cache # <<>>,
         NEW e \in ContextType, e.label = ctx[c].label, e.cache # <<>>,
         ctx' = [ctx EXCEPT ![c] = e], UNCHANGED <<efs, vfs, mishap>>
  PROVE  /\ Kept /\ ctx' \in [Contexts -> ContextType \cup {None}]
         /\ ctx'[c] = e /\ \A x \in Contexts \ {c} : ctx'[x] = ctx[x]
<1>0. ctx \in [Contexts -> ContextType \cup {None}]
  BY DEF TypeOK
<1>1. e # None
  BY NoneAssumption
<1> QED
  BY <1>0, <1>1 DEF Kept

LEMMA Next1 ==
  ASSUME NEW a \in Nat, NEW b \in Nat
  PROVE  (a < b <=> a + 1 <= b) /\ a + 1 \in Nat \ {0}
  OBVIOUS

LEMMA CacheLength ==
  ASSUME NEW e \in ContextType
  PROVE  e.cache \in Seq(Files \cup {None}) /\ Len(e.cache) \in Nat
<1>1. e.cache \in Seq(Files \cup {None})
  BY DEF ContextType
<1> QED
  BY <1>1

(* What stands in the caches stays where it is.                            *)
CachesExtend ==
  \A c \in Contexts : ctx[c] # None =>
    \A i \in Nat \ {0} : i <= Len(ctx[c].cache) /\ ctx[c].cache[i] # None =>
      i <= Len(ctx'[c].cache) /\ ctx'[c].cache[i] = ctx[c].cache[i]

SameOpen == \A f \in Files : file[f] # None =>
  file'[f] # None /\ file'[f].closed = file[f].closed

LEMMA OldHandles ==
  ASSUME TypeOK, TypeOK', FdsInv, HandleInv, Kept, CachesExtend, SameOpen,
         mishap # "format_in_use", NEW h \in handle
  PROVE  /\ vfs[h.label] # None
         /\ h.file = None => ctx'[vfs[h.label]] = None
         /\ h.file # None => /\ ctx'[vfs[h.label]] # None
                             /\ h.fd < Len(ctx'[vfs[h.label]].cache)
                             /\ ctx'[vfs[h.label]].cache[h.fd + 1] = h.file
                             /\ file'[h.file] # None /\ ~file'[h.file].closed
                             /\ h.fd < CacheSize(vfs[h.label])
                             /\ ctx[vfs[h.label]].cache[h.fd + 1] = h.file
<1>0. Typed /\ Typed'
  <2>1. Typed
    BY TypesAre
  <2>2. TypeOK' => Typed'
    BY TypesAre, PTL
  <2> QED
    BY <2>1, <2>2
<1>1. vfs[h.label] # None /\ vfs[h.label] \in Contexts
  BY <1>0 DEF HandleInv, Typed
<1>2. PICK c \in Contexts : c = vfs[h.label]
  BY <1>1
<1>3. ctx'[c] = None <=> ctx[c] = None
  BY DEF Kept
<1>4. h.file = None => ctx[c] = None
  BY <1>2 DEF HandleInv
<1>5. ASSUME h.file # None
      PROVE  /\ ctx[c] # None
             /\ h.fd < Len(ctx'[c].cache) /\ ctx'[c].cache[h.fd + 1] = h.file
             /\ file'[h.file] # None /\ ~file'[h.file].closed
             /\ h.fd < CacheSize(c) /\ ctx[c].cache[h.fd + 1] = h.file
  <2>1. /\ ctx[c] # None /\ h.fd < CacheSize(c) /\ ctx[c].cache[h.fd + 1] = h.file
        /\ ~file[h.file].closed
    BY <1>2, <1>5 DEF HandleInv, InCache
  <2>2. h.fd \in Nat /\ h.file \in Files /\ ctx[c] \in ContextType
    BY <1>0, <1>5, <2>1 DEF Typed
  <2>3. file[h.file] # None
    BY <1>5, <2>1, <2>2, InCacheIs DEF InContext
  <2>4. h.fd + 1 \in Nat \ {0} /\ h.fd + 1 <= Len(ctx[c].cache)
    BY <2>1, <2>2, CacheLength, Next1 DEF CacheSize
  <2>5. h.fd + 1 <= Len(ctx'[c].cache) /\ ctx'[c].cache[h.fd + 1] = h.file
    BY <1>5, <2>1, <2>4 DEF CachesExtend
  <2>6. ctx'[c] # None /\ ctx'[c] \in ContextType
    BY <1>0, <1>3, <2>1 DEF Typed
  <2>7. Len(ctx'[c].cache) \in Nat
    BY <2>6, CacheLength
  <2>8. h.fd < Len(ctx'[c].cache)
    BY <2>2, <2>5, <2>7, Next1
  <2> QED
    BY <2>1, <2>2, <2>3, <2>5, <2>8 DEF SameOpen
<1> QED
  BY <1>1, <1>2, <1>3, <1>4, <1>5

LEMMA OldTruncating ==
  ASSUME TypeOK, TypeOK', TaskInv, HandleInv, Kept, CachesExtend,
         mishap # "format_in_use", NEW u \in Tasks, Truncating(u), ctx[task[u].at] # None
  PROVE  /\ ctx'[task[u].at].label = task[u].label
         /\ task[u].n < Len(ctx'[task[u].at].cache)
         /\ ctx'[task[u].at].cache[task[u].n + 1] # None
         /\ task[u].n < CacheSize(task[u].at)
         /\ ctx[task[u].at].cache[task[u].n + 1] # None
<1>0. Typed /\ Typed'
  <2>1. Typed
    BY TypesAre
  <2>2. TypeOK' => Typed'
    BY TypesAre, PTL
  <2> QED
    BY <2>1, <2>2
<1>1. PICK c \in Contexts : c = task[u].at
  BY DEF TaskInv, Truncating
<1>2. /\ ctx[c].label = task[u].label
      /\ task[u].n < CacheSize(c) /\ ctx[c].cache[task[u].n + 1] # None
  BY <1>1 DEF HandleInv
<1>3. task[u].n \in Nat /\ ctx[c] \in ContextType
  BY <1>0, <1>1 DEF Typed
<1>4. task[u].n + 1 \in Nat \ {0} /\ task[u].n + 1 <= Len(ctx[c].cache)
  BY <1>2, <1>3, CacheLength, Next1 DEF CacheSize
<1>5. /\ task[u].n + 1 <= Len(ctx'[c].cache)
      /\ ctx'[c].cache[task[u].n + 1] = ctx[c].cache[task[u].n + 1]
  BY <1>1, <1>2, <1>4 DEF CachesExtend
<1>6. ctx'[c] # None /\ ctx'[c].label = ctx[c].label
  BY <1>1 DEF Kept
<1>7. Len(ctx'[c].cache) \in Nat
  <2>1. ctx[c] # None
    BY <1>1
  <2> QED
    BY <1>0, <1>6, <2>1, CacheLength DEF Typed, Kept
<1>8. task[u].n < Len(ctx'[c].cache)
  BY <1>3, <1>5, <1>7, Next1
<1> QED
  BY <1>1, <1>2, <1>5, <1>6, <1>8

(* Growing and allocating leave what is taken where it is.                 *)
LEMMA GrownExtends ==
  ASSUME NEW e \in ContextType, Agree(e), e.cache # <<>>,
         NEW i \in Nat \ {0}, i <= Len(e.cache), e.cache[i] # None
  PROVE  /\ i <= Len(Grown(e)) /\ Grown(e)[i] = e.cache[i]
         /\ i # FirstFree(Grown(e))
<1>1. /\ Grown(e) \in Seq(Files \cup {None}) /\ Len(Grown(e)) >= Len(e.cache)
      /\ \A j \in 1..Len(e.cache) : Grown(e)[j] = e.cache[j]
      /\ Grown(e)[FirstFree(Grown(e))] = None
  BY GrownHasRoom
<1>2. i \in 1..Len(e.cache) /\ Len(e.cache) \in Nat /\ Len(Grown(e)) \in Nat
  BY <1>1, CacheLength
<1> QED
  BY <1>1, <1>2

LEMMA AllocatedPlace ==
  ASSUME NEW e \in ContextType, Agree(e), e.cache # <<>>, NEW f \in Files, f \notin ToSet(e.list)
  PROVE  LET n == FirstFree(Grown(e)) IN
           /\ n \in Nat \ {0} /\ n <= Len(AllocateFd(e, f).cache)
           /\ AllocateFd(e, f).cache[n] = f /\ AllocateFd(e, f).cache # <<>>
           /\ \A i \in Nat \ {0} : i <= Len(e.cache) /\ e.cache[i] # None =>
                /\ i <= Len(AllocateFd(e, f).cache) /\ AllocateFd(e, f).cache[i] = e.cache[i]
                /\ i # n
<1> DEFINE n == FirstFree(Grown(e))
           q == AllocateFd(e, f).cache
<1>1. q = [Grown(e) EXCEPT ![n] = f]
  BY Allocated
<1>2. Grown(e) \in Seq(Files \cup {None}) /\ n \in 1..Len(Grown(e))
  BY GrownHasRoom
<1>3. /\ Len(q) = Len(Grown(e)) /\ q[n] = f /\ Len(Grown(e)) \in Nat
      /\ \A i \in 1..Len(Grown(e)) : i # n => q[i] = Grown(e)[i]
  <2> HIDE DEF n, q
  <2> QED
    BY <1>1, <1>2
<1>4. ASSUME NEW i \in Nat \ {0}, i <= Len(e.cache), e.cache[i] # None
      PROVE  i <= Len(q) /\ q[i] = e.cache[i] /\ i # n
  <2>1. i <= Len(Grown(e)) /\ Grown(e)[i] = e.cache[i] /\ i # n
    BY <1>4, GrownExtends
  <2> HIDE DEF n, q
  <2>2. i \in 1..Len(Grown(e))
    BY <1>3, <2>1
  <2> QED
    BY <1>3, <2>1, <2>2
<1>5. n \in Nat \ {0} /\ n <= Len(q) /\ q # <<>>
  <2> HIDE DEF n, q
  <2> QED
    BY <1>2, <1>3
<1> HIDE DEF q
<1>6. /\ n \in Nat \ {0} /\ n <= Len(q) /\ q[n] = f /\ q # <<>>
      /\ \A i \in Nat \ {0} : i <= Len(e.cache) /\ e.cache[i] # None =>
           i <= Len(q) /\ q[i] = e.cache[i] /\ i # n
  BY <1>3, <1>4, <1>5
<1> QED
  BY <1>6 DEF q

(* What a call enters is a context as it should be.                        *)
LEMMA EntersContext ==
  ASSUME IInv, NEW t \in Tasks, NEW l \in Labels, NEW c \in Contexts, Enters(t, l, c)
  PROVE  /\ ctx[c] # None /\ ctx[c].cache # <<>> /\ ctx[c] \in ContextType /\ Agree(ctx[c])
         /\ vfs[l] = c /\ ctx[c].label = l /\ InSlot(c)
         /\ Fine => Served(l)
<1>1. ctx[c] # None /\ ctx[c].cache # <<>>
  BY DEF Enters, Lockable, Sound
<1>2. ctx[c] \in ContextType /\ Agree(ctx[c])
  BY <1>1, TypesAre DEF IInv, Typed, FdsInv
<1>3. vfs[l] = c /\ ctx[c].label = l /\ InSlot(c) /\ (Fine => Served(l))
  BY <1>1, EntersServed DEF Enters
<1> QED
  BY <1>1, <1>2, <1>3

(* The cache has grown, and at most a tree has an entry more.              *)
LEMMA GrownStep ==
  ASSUME IInv, UNCHANGED mishap, NEW c \in Contexts, ctx[c] # None, ctx[c].cache # <<>>,
         ctx' = [ctx EXCEPT ![c].cache = Grown(ctx[c])],
         NEW l \in Labels,
         \/ UNCHANGED <<disk, dir>>
         \/ /\ \E t : NS!IsDir(t, NS!Root) /\ disk' = [disk EXCEPT ![l] = t]
            /\ DirsFollow(l),
         UNCHANGED <<efs, vfs, file, handle, task, fault>>
  PROVE  IInv'
<1> DEFINE e == [ctx[c] EXCEPT !.cache = Grown(ctx[c])]
<1>0. /\ ctx \in [Contexts -> ContextType \cup {None}] /\ TypeOK
      /\ ctx[c] \in ContextType /\ Agree(ctx[c])
  BY DEF IInv, TypeOK, FdsInv
<1>1. e \in ContextType /\ Agree(e)
  BY <1>0, GrownAgrees
<1>2. e.cache = Grown(ctx[c]) /\ e.list = ctx[c].list /\ e.label = ctx[c].label
  BY <1>0 DEF ContextType
<1>3. e.cache # <<>>
  <2>1. /\ Grown(ctx[c]) \in Seq(Files \cup {None}) /\ Len(Grown(ctx[c])) >= Len(ctx[c].cache)
        /\ Len(ctx[c].cache) > 0
    BY <1>0, GrownHasRoom
  <2>2. Len(Grown(ctx[c])) > 0
    BY <1>0, <2>1, CacheLength
  <2> QED
    BY <1>2, <2>1, <2>2
<1>4. ctx' = [ctx EXCEPT ![c] = e]
  BY <1>0
<1> HIDE DEF e
<1>5. /\ Kept /\ ctx' \in [Contexts -> ContextType \cup {None}]
      /\ ctx'[c] = e /\ \A x \in Contexts \ {c} : ctx'[x] = ctx[x]
  BY <1>0, <1>1, <1>2, <1>3, <1>4, ContextChanges
<1>6. /\ TypeOK'
      /\ \A u \in Tasks : dir'[u] # None => dir[u] # None /\ dir'[u].label = dir[u].label
  <2>1. DOMAIN disk' = Labels /\ \A k \in Labels : disk'[k] # None => NS!IsDir(disk'[k], NS!Root)
    BY <1>0 DEF TypeOK
  <2>2. /\ dir' \in [Tasks -> DirType \cup {None}]
        /\ \A u \in Tasks : dir'[u] # None => dir[u] # None /\ dir'[u].label = dir[u].label
    BY <1>0, DirsTyped DEF TypeOK
  <2> QED
    BY <1>5, <2>1, <2>2 DEF IInv, TypeOK
<1>7. CachesExtend /\ SameOpen
  <2>1. ASSUME NEW i \in Nat \ {0}, i <= Len(ctx[c].cache), ctx[c].cache[i] # None
        PROVE  i <= Len(e.cache) /\ e.cache[i] = ctx[c].cache[i]
    BY <1>0, <1>2, <2>1, GrownExtends
  <2>2. \A x \in Contexts \ {c} : ctx'[x].cache = ctx[x].cache
    BY <1>5
  <2> QED
    BY <1>5, <2>1, <2>2 DEF CachesExtend, SameOpen
<1>8. FdsInv'
  <2>1. ASSUME NEW x \in Contexts, ctx'[x] # None
        PROVE  Agree(ctx'[x]) /\ \A g \in ToSet(ctx'[x].list) : InContext(g, x)'
    <3>1. ctx[x] # None /\ ctx'[x].list = ctx[x].list
      BY <1>2, <1>5, <2>1 DEF Kept
    <3>2. Agree(ctx'[x])
      BY <1>1, <1>5, <3>1 DEF IInv, FdsInv
    <3> QED
      BY <3>1, <3>2 DEF IInv, FdsInv, InContext
  <2>2. ASSUME NEW g \in Files, file[g] # None
        PROVE  ctx'[file[g].ctx] # None /\ g \in ToSet(ctx'[file[g].ctx].list)
    <3>1. file[g].ctx \in Contexts
      BY <1>0, <2>2, TypesAre DEF Typed
    <3>2. ctx[file[g].ctx] # None /\ g \in ToSet(ctx[file[g].ctx].list)
      BY <2>2 DEF IInv, FdsInv
    <3> QED
      BY <1>2, <1>5, <3>1, <3>2 DEF Kept
  <2> QED
    BY <2>1, <2>2 DEF FdsInv
<1>9. HandleInv'
  <2> SUFFICES ASSUME mishap # "format_in_use"
               PROVE  HandleInv'
    BY DEF HandleInv
  <2>1. \A h \in handle :
          /\ vfs[h.label] # None
          /\ h.file = None => ctx'[vfs[h.label]] = None
          /\ h.file # None => /\ ctx'[vfs[h.label]] # None
                              /\ h.fd < Len(ctx'[vfs[h.label]].cache)
                              /\ ctx'[vfs[h.label]].cache[h.fd + 1] = h.file
                              /\ ~file'[h.file].closed
    BY <1>0, <1>5, <1>6, <1>7, OldHandles DEF IInv
  <2>2. \A h \in handle : \A k \in handle : h.label = k.label /\ h.fd = k.fd => h = k
    BY DEF IInv, HandleInv
  <2>3. \A u \in Tasks : Truncating(u) /\ ctx'[task[u].at] # None => ctx[task[u].at] # None
    BY <1>5 DEF IInv, TaskInv, Truncating, Kept
  <2>4. \A u \in Tasks : Truncating(u) /\ ctx[task[u].at] # None =>
          /\ ctx'[task[u].at].label = task[u].label
          /\ task[u].n < Len(ctx'[task[u].at].cache)
          /\ ctx'[task[u].at].cache[task[u].n + 1] # None
    BY <1>0, <1>5, <1>6, <1>7, OldTruncating DEF IInv
  <2>5. \A u \in Tasks : Truncating(u) /\ ctx[task[u].at] # None =>
          /\ \A h \in handle : vfs[h.label] = task[u].at => h.fd # task[u].n
          /\ \A v \in Tasks \ {u} :
               Truncating(v) /\ task[v].at = task[u].at => task[v].n # task[u].n
    BY DEF IInv, HandleInv
  <2>6. \A h \in handle' :
          /\ vfs'[h.label] # None
          /\ h.file = None => ctx'[vfs'[h.label]] = None
          /\ h.file # None => /\ ctx'[vfs'[h.label]] # None
                              /\ InCache(vfs[h.label], h.fd, h.file)'
                              /\ ~file'[h.file].closed
          /\ \A k \in handle' : h.label = k.label /\ h.fd = k.fd => h = k
    BY <2>1, <2>2 DEF InCache, CacheSize
  <2>7. \A u \in Tasks : Truncating(u)' /\ ctx'[task'[u].at] # None =>
          /\ ctx'[task'[u].at].label = task'[u].label
          /\ task'[u].n < CacheSize(task[u].at)'
          /\ ctx'[task'[u].at].cache[task'[u].n + 1] # None
          /\ \A h \in handle' : vfs'[h.label] = task'[u].at => h.fd # task'[u].n
          /\ \A v \in Tasks \ {u} :
               Truncating(v)' /\ task'[v].at = task'[u].at => task'[v].n # task'[u].n
    BY <2>3, <2>4, <2>5 DEF CacheSize, Truncating
  <2> QED
    BY <2>6, <2>7 DEF HandleInv
<1>10. TaskInv' /\ SlotInv'
  BY <1>0, <1>5, <1>6, KeptTasks, KeptSlots DEF IInv, SlotInv
<1>11. SameManagers /\ UsesServed
  BY <1>6 DEF SameManagers, UsesServed, Truncating
<1>12. VfsInv' /\ FineInv'
  BY <1>0, <1>5, <1>6, <1>10, <1>11, KeptVfs, KeptFine DEF IInv
<1> QED
  BY <1>6, <1>8, <1>9, <1>10, <1>12 DEF IInv

(* A file that is opened: a descriptor that stands for nothing yet, given  *)
(* to a client or kept by the call itself.                                 *)
Given(t, l, c, f, fd) ==
  \/ handle' = handle \cup {[label |-> l, fd |-> fd, file |-> f]} /\ UNCHANGED task
  \/ /\ task' = [task EXCEPT ![t] = [pc |-> "truncate", label |-> l, at |-> c, n |-> fd]]
     /\ UNCHANGED handle

LEMMA GivenHandles ==
  ASSUME TypeOK, TypeOK', TaskInv, FdsInv, HandleInv, Kept, CachesExtend, SameOpen,
         NEW t \in Tasks, NEW l \in Labels, NEW c \in Contexts, NEW f \in Files, NEW fd \in Nat,
         task[t].pc = "idle", vfs[l] = c, ctx[c] # None, ctx[c].label = l,
         fd < Len(ctx'[c].cache), ctx'[c].cache[fd + 1] = f,
         file'[f] # None, ~file'[f].closed,
         ~(fd < CacheSize(c) /\ ctx[c].cache[fd + 1] # None),
         Given(t, l, c, f, fd)
  PROVE  HandleInv'
<1> SUFFICES ASSUME mishap # "format_in_use"
             PROVE  HandleInv'
  BY DEF HandleInv, Kept
<1> DEFINE new == [label |-> l, fd |-> fd, file |-> f]
<1>0. f # None /\ c # None /\ UNCHANGED vfs /\ ctx'[c] # None /\ ctx'[c].label = l
  BY NoneAssumption DEF Kept
<1>1. ASSUME NEW h \in handle
      PROVE  /\ vfs[h.label] # None
             /\ h.file = None => ctx'[vfs[h.label]] = None
             /\ h.file # None => /\ ctx'[vfs[h.label]] # None
                                 /\ h.fd < Len(ctx'[vfs[h.label]].cache)
                                 /\ ctx'[vfs[h.label]].cache[h.fd + 1] = h.file
                                 /\ ~file'[h.file].closed
             /\ vfs[h.label] = c => h.fd # fd
  <2>1. /\ vfs[h.label] # None
        /\ h.file = None => ctx'[vfs[h.label]] = None
        /\ h.file # None => /\ ctx'[vfs[h.label]] # None
                            /\ h.fd < Len(ctx'[vfs[h.label]].cache)
                            /\ ctx'[vfs[h.label]].cache[h.fd + 1] = h.file
                            /\ file'[h.file] # None /\ ~file'[h.file].closed
                            /\ h.fd < CacheSize(vfs[h.label])
                            /\ ctx[vfs[h.label]].cache[h.fd + 1] = h.file
    BY OldHandles
  <2>2. vfs[h.label] = c => h.fd # fd
    BY <1>0, <2>1
  <2> QED
    BY <2>1, <2>2
<1>2. \A h, k \in handle : h.label = k.label /\ h.fd = k.fd => h = k
  BY DEF HandleInv
<1>3. ASSUME NEW u \in Tasks, Truncating(u), ctx[task[u].at] # None
      PROVE  /\ ctx'[task[u].at].label = task[u].label
             /\ task[u].n < Len(ctx'[task[u].at].cache)
             /\ ctx'[task[u].at].cache[task[u].n + 1] # None
             /\ \A h \in handle : vfs[h.label] = task[u].at => h.fd # task[u].n
             /\ \A v \in Tasks \ {u} :
                  Truncating(v) /\ task[v].at = task[u].at => task[v].n # task[u].n
             /\ task[u].at = c => task[u].n # fd
  <2>1. /\ ctx'[task[u].at].label = task[u].label
        /\ task[u].n < Len(ctx'[task[u].at].cache)
        /\ ctx'[task[u].at].cache[task[u].n + 1] # None
        /\ task[u].n < CacheSize(task[u].at)
        /\ ctx[task[u].at].cache[task[u].n + 1] # None
    BY <1>3, OldTruncating
  <2>2. /\ \A h \in handle : vfs[h.label] = task[u].at => h.fd # task[u].n
        /\ \A v \in Tasks \ {u} :
             Truncating(v) /\ task[v].at = task[u].at => task[v].n # task[u].n
    BY <1>3 DEF HandleInv
  <2> QED
    BY <2>1, <2>2
<1>4. \A u \in Tasks : Truncating(u) /\ ctx'[task[u].at] # None => ctx[task[u].at] # None
  BY DEF TaskInv, Truncating, Kept
<1>5. CASE handle' = handle \cup {new} /\ UNCHANGED task
  <2>0. new.label = l /\ new.fd = fd /\ new.file = f
    OBVIOUS
  <2> HIDE DEF new
  <2>1. ASSUME NEW h \in handle'
        PROVE  /\ vfs'[h.label] # None
               /\ h.file = None => ctx'[vfs'[h.label]] = None
               /\ h.file # None => /\ ctx'[vfs'[h.label]] # None
                                   /\ InCache(vfs[h.label], h.fd, h.file)'
                                   /\ ~file'[h.file].closed
    <3>1. CASE h \in handle
      BY <1>0, <1>1, <3>1 DEF InCache, CacheSize
    <3>2. CASE h = new
      BY <1>0, <2>0, <3>2 DEF InCache, CacheSize
    <3> QED
      BY <1>5, <3>1, <3>2
  <2>2. ASSUME NEW h \in handle', NEW k \in handle', h.label = k.label, h.fd = k.fd
        PROVE  h = k
    <3>1. CASE h \in handle /\ k \in handle
      BY <1>2, <2>2, <3>1
    <3>2. CASE h = new /\ k \in handle
      BY <1>1, <2>0, <2>2, <3>2
    <3>3. CASE k = new /\ h \in handle
      BY <1>1, <2>0, <2>2, <3>3
    <3> QED
      BY <1>5, <3>1, <3>2, <3>3
  <2>3. ASSUME NEW u \in Tasks, Truncating(u)', ctx'[task'[u].at] # None
        PROVE  /\ ctx'[task'[u].at].label = task'[u].label
               /\ task'[u].n < CacheSize(task[u].at)'
               /\ ctx'[task'[u].at].cache[task'[u].n + 1] # None
               /\ \A h \in handle' : vfs'[h.label] = task'[u].at => h.fd # task'[u].n
               /\ \A v \in Tasks \ {u} :
                    Truncating(v)' /\ task'[v].at = task'[u].at => task'[v].n # task'[u].n
    <3>1. Truncating(u) /\ ctx[task[u].at] # None
      BY <1>4, <1>5, <2>3 DEF Truncating
    <3>2. \A h \in handle' : vfs'[h.label] = task'[u].at => h.fd # task'[u].n
      BY <1>0, <1>3, <1>5, <2>0, <3>1
    <3> QED
      BY <1>3, <1>5, <3>1, <3>2 DEF CacheSize, Truncating
  <2> QED
    BY <2>1, <2>2, <2>3 DEF HandleInv
<1>6. CASE /\ task' = [task EXCEPT ![t] =
                         [pc |-> "truncate", label |-> l, at |-> c, n |-> fd]]
           /\ UNCHANGED handle
  <2>0. /\ task'[t].pc = "truncate" /\ task'[t].label = l
        /\ task'[t].at = c /\ task'[t].n = fd
        /\ \A u \in Tasks \ {t} : task'[u] = task[u]
    BY <1>6 DEF TypeOK
  <2>1. ASSUME NEW h \in handle'
        PROVE  /\ vfs'[h.label] # None
               /\ h.file = None => ctx'[vfs'[h.label]] = None
               /\ h.file # None => /\ ctx'[vfs'[h.label]] # None
                                   /\ InCache(vfs[h.label], h.fd, h.file)'
                                   /\ ~file'[h.file].closed
               /\ \A k \in handle' : h.label = k.label /\ h.fd = k.fd => h = k
    BY <1>0, <1>1, <1>2, <1>6 DEF InCache, CacheSize
  <2>2. ASSUME NEW u \in Tasks, Truncating(u)', ctx'[task'[u].at] # None
        PROVE  /\ ctx'[task'[u].at].label = task'[u].label
               /\ task'[u].n < CacheSize(task[u].at)'
               /\ ctx'[task'[u].at].cache[task'[u].n + 1] # None
               /\ \A h \in handle' : vfs'[h.label] = task'[u].at => h.fd # task'[u].n
               /\ \A v \in Tasks \ {u} :
                    Truncating(v)' /\ task'[v].at = task'[u].at => task'[v].n # task'[u].n
    <3>1. CASE u = t
      <4>1. ASSUME NEW v \in Tasks \ {u}, Truncating(v)', task'[v].at = c
            PROVE  task'[v].n # fd
        <5>1. task'[v] = task[v] /\ Truncating(v) /\ ctx[task[v].at] # None
          BY <2>0, <3>1, <4>1 DEF Truncating
        <5> QED
          BY <1>3, <4>1, <5>1
      <4> QED
        BY <1>0, <1>1, <1>6, <2>0, <3>1, <4>1 DEF CacheSize
    <3>2. CASE u # t
      <4>1. task'[u] = task[u] /\ Truncating(u) /\ ctx[task[u].at] # None
        BY <1>4, <2>0, <2>2, <3>2 DEF Truncating
      <4>2. ASSUME NEW v \in Tasks \ {u}, Truncating(v)', task'[v].at = task[u].at
            PROVE  task'[v].n # task[u].n
        <5>1. CASE v = t
          BY <1>3, <2>0, <4>1, <4>2, <5>1
        <5>2. CASE v # t
          <6>1. task'[v] = task[v] /\ Truncating(v)
            BY <2>0, <4>2, <5>2 DEF Truncating
          <6> QED
            BY <1>3, <4>1, <4>2, <6>1
        <5> QED
          BY <5>1, <5>2
      <4> QED
        BY <1>0, <1>3, <1>6, <4>1, <4>2 DEF CacheSize
    <3> QED
      BY <3>1, <3>2
  <2> QED
    BY <2>1, <2>2 DEF HandleInv
<1> QED
  BY <1>5, <1>6 DEF Given

LEMMA OpenedStep ==
  ASSUME IInv, UNCHANGED mishap, NEW t \in Tasks, NEW l \in Labels, NEW c \in Contexts,
         Enters(t, l, c), NEW p \in Plain, NEW f \in Files, file[f] = None,
         NEW x, NS!IsDir(x, NS!Root), disk' = [disk EXCEPT ![l] = x], DirsFollow(l),
         ctx' = [ctx EXCEPT ![c] = AllocateFd(ctx[c], f)],
         file' = [file EXCEPT ![f] =
           [ctx |-> c, path |-> p, entry |-> p[2], dirty |-> FALSE, closed |-> FALSE]],
         Given(t, l, c, f, FirstFree(Grown(ctx[c])) - 1),
         UNCHANGED <<efs, vfs, fault>>
  PROVE  IInv'
<1> DEFINE e == AllocateFd(ctx[c], f)
           n == FirstFree(Grown(ctx[c]))
           g == [ctx |-> c, path |-> p, entry |-> p[2], dirty |-> FALSE, closed |-> FALSE]
<1>0. /\ TypeOK /\ ctx[c] # None /\ ctx[c].cache # <<>> /\ ctx[c] \in ContextType
      /\ Agree(ctx[c]) /\ vfs[l] = c /\ ctx[c].label = l /\ InSlot(c) /\ (Fine => Served(l))
      /\ task[t].pc = "idle"
  <2>1. TypeOK
    BY DEF IInv
  <2>2. task[t].pc = "idle"
    BY DEF Enters, Reaches
  <2> QED
    BY <2>1, <2>2, EntersContext
<1>1. f \notin ToSet(ctx[c].list)
  BY <1>0 DEF IInv, FdsInv, InContext
<1>2. /\ e \in ContextType /\ Agree(e) /\ e.label = ctx[c].label
      /\ ToSet(e.list) = ToSet(ctx[c].list) \cup {f}
  BY <1>0, <1>1, Allocated
<1>3. /\ n \in Nat \ {0} /\ n <= Len(e.cache) /\ e.cache[n] = f /\ e.cache # <<>>
      /\ \A i \in Nat \ {0} : i <= Len(ctx[c].cache) /\ ctx[c].cache[i] # None =>
           i <= Len(e.cache) /\ e.cache[i] = ctx[c].cache[i] /\ i # n
  BY <1>0, <1>1, AllocatedPlace
<1>4. /\ g \in FileType /\ g.ctx = c /\ ~g.closed /\ g # None
  <2>1. g \in FileType /\ g.ctx = c /\ ~g.closed
    <3>1. p[2] \in Seq(Names) /\ p \in {"plain"} \X Places
      BY NamesAssumption DEF Plain
    <3> QED
      BY <3>1 DEF FileType
  <2> HIDE DEF g
  <2> QED
    BY <2>1, NoneAssumption
<1> HIDE DEF e, n, g
<1>50. ctx' = [ctx EXCEPT ![c] = e]
  BY DEF e
<1>51. file' = [file EXCEPT ![f] = g]
  BY DEF g
<1>52. Given(t, l, c, f, n - 1)
  BY DEF n
<1>53. UNCHANGED <<efs, vfs, mishap>> /\ TypeOK
  BY <1>0
<1>6. /\ Kept /\ ctx' \in [Contexts -> ContextType \cup {None}]
      /\ ctx'[c] = e /\ \A y \in Contexts \ {c} : ctx'[y] = ctx[y]
  <2>1. e \in ContextType /\ e.label = ctx[c].label /\ e.cache # <<>>
    BY <1>2, <1>3
  <2>2. ctx[c] # None /\ ctx[c].cache # <<>>
    BY <1>0
  <2> QED
    BY <1>50, <1>53, <2>1, <2>2, ContextChanges
<1>7. /\ file' \in [Files -> FileType \cup {None}]
      /\ file'[f] = g /\ \A y \in Files \ {f} : file'[y] = file[y]
  <2>1. file \in [Files -> FileType \cup {None}]
    BY <1>53 DEF TypeOK
  <2> QED
    BY <1>4, <1>51, <2>1
<1>8. n - 1 \in Nat /\ n - 1 < Len(e.cache) /\ (n - 1) + 1 = n
  BY <1>2, <1>3, CacheLength
<1>9. TypeOK'
  <2>1. handle' \subseteq [label : Labels, fd : Nat, file : Files \cup {None}]
    <3>1. [label |-> l, fd |-> n - 1, file |-> f]
             \in [label : Labels, fd : Nat, file : Files \cup {None}]
      BY <1>8
    <3>2. handle \subseteq [label : Labels, fd : Nat, file : Files \cup {None}]
      BY <1>0 DEF TypeOK
    <3> QED
      BY <1>52, <3>1, <3>2 DEF Given
  <2>2. task' \in [Tasks -> [pc : {"idle", "register", "erase", "erase_mounted", "erase_new",
                                   "remount", "truncate", "close"},
                             label : Labels \cup {None}, at : Contexts \cup {None}, n : Nat]]
    <3> DEFINE TT == [pc : {"idle", "register", "erase", "erase_mounted", "erase_new",
                            "remount", "truncate", "close"},
                      label : Labels \cup {None}, at : Contexts \cup {None}, n : Nat]
               k == [pc |-> "truncate", label |-> l, at |-> c, n |-> n - 1]
    <3>1. k \in TT
      BY <1>8
    <3>2. task \in [Tasks -> TT]
      BY <1>0 DEF TypeOK
    <3>3. UNCHANGED task \/ task' = [task EXCEPT ![t] = k]
      BY <1>52 DEF Given
    <3> HIDE DEF TT, k
    <3>4. task' \in [Tasks -> TT]
      BY <3>1, <3>2, <3>3
    <3> QED
      BY <3>4 DEF TT
  <2>3. DOMAIN disk' = Labels /\ \A k \in Labels : disk'[k] # None => NS!IsDir(disk'[k], NS!Root)
    BY <1>0 DEF TypeOK
  <2>4. dir' \in [Tasks -> DirType \cup {None}]
    BY <1>0, DirsTyped
  <2>5. UNCHANGED <<efs, vfs, fault>>
    OBVIOUS
  <2> QED
    BY <1>0, <1>6, <1>7, <2>1, <2>2, <2>3, <2>4, <2>5 DEF TypeOK
<1>10. CachesExtend /\ SameOpen
  <2>1. CachesExtend
    BY <1>3, <1>6 DEF CachesExtend
  <2>2. SameOpen
    BY <1>7 DEF SameOpen
  <2> QED
    BY <2>1, <2>2
<1>11. FdsInv'
  <2>1. ASSUME NEW y \in Contexts, ctx'[y] # None
        PROVE  Agree(ctx'[y]) /\ \A h \in ToSet(ctx'[y].list) : InContext(h, y)'
    <3>1. CASE y = c
      <4>1. \A h \in ToSet(ctx[c].list) : InContext(h, c) /\ h # f /\ h \in Files
        BY <1>0, <1>1 DEF IInv, FdsInv, ContextType, ToSet
      <4> QED
        BY <1>2, <1>4, <1>6, <1>7, <3>1, <4>1 DEF InContext
    <3>2. CASE y # c
      <4>1. ctx[y] # None /\ ctx'[y] = ctx[y] /\ ctx[y] \in ContextType
        BY <1>0, <1>6, <2>1, <3>2 DEF TypeOK
      <4>2. \A h \in ToSet(ctx[y].list) : InContext(h, y) /\ h # f /\ h \in Files
        BY <4>1 DEF IInv, FdsInv, InContext, ContextType, ToSet
      <4>3. Agree(ctx'[y])
        BY <4>1 DEF IInv, FdsInv
      <4> QED
        BY <1>7, <4>1, <4>2, <4>3 DEF InContext
    <3> QED
      BY <3>1, <3>2
  <2>2. ASSUME NEW h \in Files, file'[h] # None
        PROVE  ctx'[file'[h].ctx] # None /\ h \in ToSet(ctx'[file'[h].ctx].list)
    <3>1. CASE h = f
      BY <1>0, <1>2, <1>4, <1>6, <1>7, <3>1 DEF Kept
    <3>2. CASE h # f
      <4>1. file'[h] = file[h] /\ file[h].ctx \in Contexts
        BY <1>0, <1>7, <2>2, <3>2, TypesAre DEF Typed
      <4>2. ctx[file[h].ctx] # None /\ h \in ToSet(ctx[file[h].ctx].list)
        BY <2>2, <4>1 DEF IInv, FdsInv
      <4>3. CASE file[h].ctx = c
        BY <1>2, <1>6, <4>1, <4>2, <4>3 DEF Kept
      <4>4. CASE file[h].ctx # c
        BY <1>6, <4>1, <4>2, <4>4
      <4> QED
        BY <4>3, <4>4
    <3> QED
      BY <3>1, <3>2
  <2> QED
    BY <2>1, <2>2 DEF FdsInv
<1>12. HandleInv'
  <2>1. ~(n - 1 < CacheSize(c) /\ ctx[c].cache[(n - 1) + 1] # None)
    <3>1. n - 1 < CacheSize(c) => n <= Len(ctx[c].cache)
      BY <1>0, <1>3, CacheLength DEF CacheSize
    <3> QED
      BY <1>3, <1>8, <3>1
  <2>2. n - 1 < Len(ctx'[c].cache) /\ ctx'[c].cache[(n - 1) + 1] = f
    BY <1>3, <1>6, <1>8
  <2>3. file'[f] # None /\ ~file'[f].closed
    BY <1>4, <1>7
  <2> QED
    BY <1>0, <1>52, <1>6, <1>8, <1>9, <1>10, <2>1, <2>2, <2>3, GivenHandles DEF IInv
<1>13. \A u \in Tasks : task'[u] = task[u] \/
         (task[u].pc = "idle" /\ task'[u].pc = "truncate" /\ task'[u].label = l /\ task'[u].at = c)
  <2> DEFINE k == [pc |-> "truncate", label |-> l, at |-> c, n |-> n - 1]
  <2>1. UNCHANGED task \/ task' = [task EXCEPT ![t] = k]
    BY <1>52 DEF Given
  <2>2. k.pc = "truncate" /\ k.label = l /\ k.at = c /\ DOMAIN task = Tasks
    BY <1>0 DEF TypeOK
  <2> HIDE DEF k
  <2> QED
    BY <1>0, <2>1, <2>2
<1>14. TaskInv' /\ SlotInv'
  <2>1. TaskInv'
    BY <1>0, <1>6, <1>9, <1>13, KeptTasks DEF IInv, Apart
  <2>2. \A h \in Files : file'[h] # None => InSlot(file'[h].ctx)
    BY <1>0, <1>4, <1>7 DEF IInv, SlotInv
  <2> QED
    BY <1>0, <1>6, <1>9, <2>1, <2>2, KeptSlots DEF IInv
<1>15. SameManagers
  BY <1>13 DEF SameManagers, Apart
<1>16. Fine => UsesServed
  <2> SUFFICES ASSUME Fine  PROVE UsesServed
    OBVIOUS
  <2>1. \A h \in handle' : Served(h.label) \/ \E k \in handle : k.label = h.label
    BY <1>0, <1>52 DEF Given
  <2>2. \A u \in Tasks : dir'[u] # None =>
       Served(dir'[u].label) \/ (dir[u] # None /\ dir'[u].label = dir[u].label)
    BY <1>0, DirsTyped
  <2>3. \A u \in Tasks : task'[u].label \in {task[u].label, None} \/ Served(task'[u].label)
    BY <1>0, <1>13
  <2>4. \A u \in Tasks : Truncating(u)' =>
       \/ vfs[task'[u].label] = task'[u].at
       \/ Truncating(u) /\ task'[u].label = task[u].label /\ task'[u].at = task[u].at
    BY <1>0, <1>13 DEF Truncating
  <2> QED
    BY <2>1, <2>2, <2>3, <2>4 DEF UsesServed
<1>17. VfsInv' /\ FineInv'
  BY <1>0, <1>6, <1>9, <1>14, <1>15, <1>16, KeptVfs, KeptFine DEF IInv
<1> QED
  BY <1>9, <1>11, <1>12, <1>14, <1>17 DEF IInv

LEMMA WatchFollows ==
  ASSUME TypeOK, NEW l
  PROVE  /\ Watch(l, LAMBDA r : r) => DirsFollow(l)
         /\ Watch(l, LAMBDA r : None) => DirsFollow(l)
<1>0. \A u \in Tasks : dir[u] # None => dir[u] \in DirType /\ dir[u].entry \in Spots
  BY DEF TypeOK, DirType, Spots
<1>1. ASSUME Watch(l, LAMBDA r : r)
      PROVE  DirsFollow(l)
  <2>1. dir' = [u \in Tasks |->
          IF dir[u] = None \/ dir[u].label # l THEN dir[u]
          ELSE [dir[u] EXCEPT !.entry = dir[u].entry,
                  !.fresh = @ /\ Entries(TreeAfter(l), dir[u].entry)
                                   = Entries(Tree(l), dir[u].entry)]]
    BY <1>1 DEF Watch
  <2>2. ASSUME NEW u \in Tasks, dir[u] # None, dir[u].label = l
        PROVE  DirFollows(l, dir[u], dir'[u])
    <3>1. dir[u] \in DirType /\ dir[u].entry \in Seq(Names) \cup {None}
      BY <1>0, <2>2 DEF Spots
    <3>2. dir'[u] = [dir[u] EXCEPT !.entry = dir[u].entry,
                  !.fresh = @ /\ Entries(TreeAfter(l), dir[u].entry)
                                   = Entries(Tree(l), dir[u].entry)]
      BY <2>1, <2>2, Zenon
    <3> QED
      BY <2>2, <3>1, <3>2, DirGoes, Zenon
  <2> QED
    BY <2>1, <2>2 DEF DirsFollow
<1>2. ASSUME Watch(l, LAMBDA r : None)
      PROVE  DirsFollow(l)
  <2>1. dir' = [u \in Tasks |->
          IF dir[u] = None \/ dir[u].label # l THEN dir[u]
          ELSE [dir[u] EXCEPT !.entry = None,
                  !.fresh = @ /\ Entries(TreeAfter(l), None)
                                   = Entries(Tree(l), dir[u].entry)]]
    BY <1>2 DEF Watch
  <2>2. ASSUME NEW u \in Tasks, dir[u] # None, dir[u].label = l
        PROVE  DirFollows(l, dir[u], dir'[u])
    <3>1. dir[u] \in DirType /\ None \in Seq(Names) \cup {None}
      BY <1>0, <2>2
    <3>2. dir'[u] = [dir[u] EXCEPT !.entry = None,
                  !.fresh = @ /\ Entries(TreeAfter(l), None)
                                   = Entries(Tree(l), dir[u].entry)]
      BY <2>1, <2>2, Zenon
    <3> QED
      BY <2>2, <3>1, <3>2, DirGoes, Zenon
  <2> QED
    BY <2>1, <2>2 DEF DirsFollow
<1> QED
  BY <1>1, <1>2

LEMMA OpensBelowRoot ==
  ASSUME TypeOK, NEW l \in Labels, NEW r, NEW flags, LfsOpens(l, r, flags)
  PROVE  NS!IsDir(NS!Insert(Tree(l), r, "reg"), NS!Root)
<1>1. r # NS!Root
  <2>1. NS!Root \in DOMAIN Tree(l) /\ Tree(l)[NS!Root] = "dir"
    BY RootStands DEF NS!IsDir
  <2> QED
    BY <2>1 DEF LfsOpens
<1> QED
  BY <1>1, RootStands, InsertRoot

(* What a call that opens a file comes to.                                 *)
Opens(t, l, c, p) ==
  \/ /\ ctx' \in {ctx, [ctx EXCEPT ![c].cache = Grown(ctx[c])]}
     /\ UNCHANGED <<disk, file, handle, dir, task>>
  \/ /\ NS!IsDir(NS!Insert(Tree(l), p[2], "reg"), NS!Root)
     /\ ctx' = [ctx EXCEPT ![c].cache = Grown(ctx[c])]
     /\ disk' = [disk EXCEPT ![l] = NS!Insert(Tree(l), p[2], "reg")]
     /\ DirsFollow(l)
     /\ UNCHANGED <<file, handle, task>>
  \/ \E f \in Files :
       /\ file[f] = None
       /\ NS!IsDir(NS!Insert(Tree(l), p[2], "reg"), NS!Root)
       /\ ctx' = [ctx EXCEPT ![c] = AllocateFd(ctx[c], f)]
       /\ file' = [file EXCEPT ![f] =
            [ctx |-> c, path |-> p, entry |-> p[2], dirty |-> FALSE, closed |-> FALSE]]
       /\ disk' = [disk EXCEPT ![l] = NS!Insert(Tree(l), p[2], "reg")]
       /\ DirsFollow(l)
       /\ Given(t, l, c, f, FirstFree(Grown(ctx[c])) - 1)

LEMMA OpensStep ==
  ASSUME IInv, UNCHANGED mishap, NEW t \in Tasks, NEW l \in Labels, NEW c \in Contexts,
         Enters(t, l, c), NEW p \in Plain, Opens(t, l, c, p), UNCHANGED <<efs, vfs, fault>>
  PROVE  IInv'
<1>0. ctx[c] # None /\ ctx[c].cache # <<>>
  BY EntersContext
<1>1. CASE ctx' = ctx /\ UNCHANGED <<disk, file, handle, dir, task>>
  <2>1. UNCHANGED vars
    BY <1>1 DEF vars
  <2> QED
    BY <2>1, StutterStep
<1>2. CASE /\ ctx' = [ctx EXCEPT ![c].cache = Grown(ctx[c])]
           /\ UNCHANGED <<disk, file, handle, dir, task>>
  <2>1. UNCHANGED <<efs, vfs, disk, file, handle, dir, task, fault>>
    BY <1>2
  <2> QED
    BY <1>0, <1>2, <2>1, GrownStep
<1>3. ASSUME NEW f \in Files,
             /\ file[f] = None
             /\ NS!IsDir(NS!Insert(Tree(l), p[2], "reg"), NS!Root)
             /\ ctx' = [ctx EXCEPT ![c] = AllocateFd(ctx[c], f)]
             /\ file' = [file EXCEPT ![f] =
                  [ctx |-> c, path |-> p, entry |-> p[2], dirty |-> FALSE, closed |-> FALSE]]
             /\ disk' = [disk EXCEPT ![l] = NS!Insert(Tree(l), p[2], "reg")]
             /\ DirsFollow(l)
             /\ Given(t, l, c, f, FirstFree(Grown(ctx[c])) - 1)
      PROVE  IInv'
  BY <1>3, OpenedStep
<1>4. CASE /\ NS!IsDir(NS!Insert(Tree(l), p[2], "reg"), NS!Root)
           /\ ctx' = [ctx EXCEPT ![c].cache = Grown(ctx[c])]
           /\ disk' = [disk EXCEPT ![l] = NS!Insert(Tree(l), p[2], "reg")]
           /\ DirsFollow(l)
           /\ UNCHANGED <<file, handle, task>>
  <2>1. UNCHANGED <<efs, vfs, file, handle, task, fault>>
    BY <1>4
  <2>2. \E r : NS!IsDir(r, NS!Root) /\ disk' = [disk EXCEPT ![l] = r]
    BY <1>4
  <2> QED
    BY <1>0, <1>4, <2>1, <2>2, GrownStep
<1> QED
  BY <1>1, <1>2, <1>3, <1>4 DEF Opens

LEMMA OpenStep ==
  ASSUME IInv, UNCHANGED mishap, NEW t \in Tasks, NEW l \in Labels, NEW p \in Plain,
         NEW m, Open(t, l, p, m)
  PROVE  IInv'
<1>0. TypeOK
  BY DEF IInv
<1>1. PICK c \in Contexts :
        /\ Enters(t, l, c)
        /\ OpenFile(c, l, p, m, LAMBDA fd, f :
             handle' = handle \cup {[label |-> l, fd |-> fd, file |-> f]} /\ UNCHANGED task)
        /\ UNCHANGED <<efs, vfs, fault>>
  BY DEF Open
<1>2. Opens(t, l, c, p)
  <2>1. CASE /\ ctx' \in {ctx, [ctx EXCEPT ![c].cache = Grown(ctx[c])]}
             /\ UNCHANGED <<disk, file, handle, dir, task>>
    BY <2>1 DEF Opens
  <2>2. ASSUME LfsOpens(l, p[2], FlagsConv(m)), NEW f \in Files,
               /\ file[f] = None
               /\ ctx' = [ctx EXCEPT ![c] = AllocateFd(ctx[c], f)]
               /\ file' = [file EXCEPT ![f] =
                    [ctx |-> c, path |-> p, entry |-> p[2], dirty |-> FALSE, closed |-> FALSE]]
               /\ disk' = [disk EXCEPT ![l] = NS!Insert(Tree(l), p[2], "reg")]
               /\ Watch(l, LAMBDA r : r)
               /\ handle' = handle \cup
                    {[label |-> l, fd |-> FirstFree(Grown(ctx[c])) - 1, file |-> f]}
               /\ UNCHANGED task
        PROVE  Opens(t, l, c, p)
    <3>1. DirsFollow(l) /\ NS!IsDir(NS!Insert(Tree(l), p[2], "reg"), NS!Root)
      BY <1>0, <2>2, WatchFollows, OpensBelowRoot
    <3>2. Given(t, l, c, f, FirstFree(Grown(ctx[c])) - 1)
      BY <2>2 DEF Given
    <3> QED
      BY <2>2, <3>1, <3>2 DEF Opens
  <2>3. CASE /\ LfsOpens(l, p[2], FlagsConv(m))
             /\ ctx' = [ctx EXCEPT ![c].cache = Grown(ctx[c])]
             /\ disk' = [disk EXCEPT ![l] = NS!Insert(Tree(l), p[2], "reg")]
             /\ Watch(l, LAMBDA r : r)
             /\ UNCHANGED <<file, handle, task>>
    <3>1. DirsFollow(l) /\ NS!IsDir(NS!Insert(Tree(l), p[2], "reg"), NS!Root)
      BY <1>0, <2>3, WatchFollows, OpensBelowRoot
    <3> QED
      BY <2>3, <3>1 DEF Opens
  <2> QED
    BY <1>1, <2>1, <2>2, <2>3 DEF OpenFile
<1> QED
  BY <1>1, <1>2, OpensStep

LEMMA TruncateOpenStep ==
  ASSUME IInv, UNCHANGED mishap, NEW t \in Tasks, NEW l \in Labels, NEW p \in Plain,
         TruncateOpen(t, l, p)
  PROVE  IInv'
<1>0. TypeOK
  BY DEF IInv
<1>1. PICK c \in Contexts :
        /\ Enters(t, l, c)
        /\ OpenFile(c, l, p, {"RDWR"}, LAMBDA fd, f :
             /\ task' = [task EXCEPT ![t] = [pc |-> "truncate", label |-> l, at |-> c, n |-> fd]]
             /\ UNCHANGED handle)
        /\ UNCHANGED <<efs, vfs, fault>>
  BY DEF TruncateOpen
<1>2. Opens(t, l, c, p)
  <2>1. CASE /\ ctx' \in {ctx, [ctx EXCEPT ![c].cache = Grown(ctx[c])]}
             /\ UNCHANGED <<disk, file, handle, dir, task>>
    BY <2>1 DEF Opens
  <2>2. ASSUME LfsOpens(l, p[2], FlagsConv({"RDWR"})), NEW f \in Files,
               /\ file[f] = None
               /\ ctx' = [ctx EXCEPT ![c] = AllocateFd(ctx[c], f)]
               /\ file' = [file EXCEPT ![f] =
                    [ctx |-> c, path |-> p, entry |-> p[2], dirty |-> FALSE, closed |-> FALSE]]
               /\ disk' = [disk EXCEPT ![l] = NS!Insert(Tree(l), p[2], "reg")]
               /\ Watch(l, LAMBDA r : r)
               /\ task' = [task EXCEPT ![t] =
                    [pc |-> "truncate", label |-> l, at |-> c,
                     n |-> FirstFree(Grown(ctx[c])) - 1]]
               /\ UNCHANGED handle
        PROVE  Opens(t, l, c, p)
    <3>1. DirsFollow(l) /\ NS!IsDir(NS!Insert(Tree(l), p[2], "reg"), NS!Root)
      BY <1>0, <2>2, WatchFollows, OpensBelowRoot
    <3>2. Given(t, l, c, f, FirstFree(Grown(ctx[c])) - 1)
      BY <2>2 DEF Given
    <3> QED
      BY <2>2, <3>1, <3>2 DEF Opens
  <2>3. CASE /\ LfsOpens(l, p[2], FlagsConv({"RDWR"}))
             /\ ctx' = [ctx EXCEPT ![c].cache = Grown(ctx[c])]
             /\ disk' = [disk EXCEPT ![l] = NS!Insert(Tree(l), p[2], "reg")]
             /\ Watch(l, LAMBDA r : r)
             /\ UNCHANGED <<file, handle, task>>
    <3>1. DirsFollow(l) /\ NS!IsDir(NS!Insert(Tree(l), p[2], "reg"), NS!Root)
      BY <1>0, <2>3, WatchFollows, OpensBelowRoot
    <3> QED
      BY <2>3, <3>1 DEF Opens
  <2> QED
    BY <1>1, <2>1, <2>2, <2>3 DEF OpenFile
<1> QED
  BY <1>1, <1>2, OpensStep

-----------------------------------------------------------------------------
(* Closing.                                                                *)

Dropped(c, fd) ==
  \/ /\ \E h \in handle : vfs[h.label] = c /\ h.fd = fd /\ handle' = handle \ {h}
     /\ UNCHANGED task
  \/ /\ \E t \in Tasks : /\ Truncating(t) /\ task[t].at = c /\ task[t].n = fd
                         /\ task' = [task EXCEPT ![t] = Idle]
     /\ UNCHANGED handle

(* Who stays does not have the descriptor that goes.                       *)
LEMMA OthersStay ==
  ASSUME IInv, mishap # "format_in_use", NEW c \in Contexts, ctx[c] # None,
         NEW fd \in Nat, Dropped(c, fd)
  PROVE  /\ \A k \in handle' : k \in handle /\ (vfs[k.label] = c => k.fd # fd)
         /\ \A u \in Tasks : Truncating(u)' =>
              Truncating(u) /\ task'[u] = task[u] /\ (task[u].at = c => task[u].n # fd)
<1>0. DOMAIN task = Tasks /\ Typed
  BY TypesAre DEF IInv, TypeOK
<1>1. ASSUME NEW h \in handle, vfs[h.label] = c, h.fd = fd, handle' = handle \ {h},
             UNCHANGED task
      PROVE  /\ \A k \in handle' : k \in handle /\ (vfs[k.label] = c => k.fd # fd)
             /\ \A u \in Tasks : Truncating(u)' =>
                  Truncating(u) /\ task'[u] = task[u] /\ (task[u].at = c => task[u].n # fd)
  <2>1. ASSUME NEW k \in handle \ {h}, vfs[k.label] = c  PROVE k.fd # fd
    <3>1. k.label = h.label
      BY <1>0, <1>1, <2>1, NoneAssumption DEF IInv, SlotInv, Typed
    <3> QED
      BY <1>1, <3>1 DEF IInv, HandleInv
  <2>2. \A u \in Tasks : Truncating(u) /\ task[u].at = c => h.fd # task[u].n
    BY <1>1 DEF IInv, HandleInv
  <2> QED
    BY <1>1, <2>1, <2>2 DEF Truncating
<1>2. ASSUME NEW t \in Tasks, Truncating(t), task[t].at = c, task[t].n = fd,
             task' = [task EXCEPT ![t] = Idle], UNCHANGED handle
      PROVE  /\ \A k \in handle' : k \in handle /\ (vfs[k.label] = c => k.fd # fd)
             /\ \A u \in Tasks : Truncating(u)' =>
                  Truncating(u) /\ task'[u] = task[u] /\ (task[u].at = c => task[u].n # fd)
  <2>1. \A k \in handle : vfs[k.label] = c => k.fd # fd
    BY <1>2 DEF IInv, HandleInv
  <2>2. \A u \in Tasks \ {t} : Truncating(u) /\ task[u].at = c => task[u].n # fd
    BY <1>2 DEF IInv, HandleInv
  <2>3. task'[t].pc = "idle" /\ \A u \in Tasks \ {t} : task'[u] = task[u]
    BY <1>0, <1>2 DEF Idle
  <2> QED
    BY <1>2, <2>1, <2>2, <2>3 DEF Truncating
<1> QED
  BY <1>1, <1>2 DEF Dropped

LEMMA FreedPlace ==
  ASSUME NEW e \in ContextType, Agree(e), NEW fd \in Nat, fd < Len(e.cache),
         e.cache[fd + 1] # None
  PROVE  /\ FreeFd(e, fd).cache # <<>> /\ Len(FreeFd(e, fd).cache) = Len(e.cache)
         /\ \A i \in Nat \ {0} : i <= Len(e.cache) /\ i # fd + 1 =>
              FreeFd(e, fd).cache[i] = e.cache[i]
<1> DEFINE q == FreeFd(e, fd).cache
<1>1. q = [e.cache EXCEPT ![fd + 1] = None]
  BY Freed
<1>2. e.cache \in Seq(Files \cup {None}) /\ Len(e.cache) \in Nat /\ fd + 1 \in 1..Len(e.cache)
  BY CacheLength
<1> HIDE DEF q
<1>3. /\ Len(q) = Len(e.cache) /\ q \in Seq(Files \cup {None})
      /\ \A i \in 1..Len(e.cache) : i # fd + 1 => q[i] = e.cache[i]
  BY <1>1, <1>2
<1>4. q # <<>>
  BY <1>2, <1>3
<1>5. \A i \in Nat \ {0} : i <= Len(e.cache) /\ i # fd + 1 => q[i] = e.cache[i]
  BY <1>2, <1>3
<1> QED
  BY <1>3, <1>4, <1>5 DEF q

(* The descriptors that stay are at home when one is gone.                 *)
LEMMA LeftHandles ==
  ASSUME TypeOK, TypeOK', TaskInv, FdsInv, HandleInv, Kept,
         NEW c \in Contexts, NEW fd \in Nat, NEW f \in Files,
         ctx[c] # None, fd < CacheSize(c), ctx[c].cache[fd + 1] = f,
         \A x \in Contexts : ctx[x] # None => Len(ctx'[x].cache) = Len(ctx[x].cache),
         \A x \in Contexts \ {c} : ctx'[x] = ctx[x],
         \A i \in Nat \ {0} : i <= Len(ctx[c].cache) /\ i # fd + 1 =>
           ctx'[c].cache[i] = ctx[c].cache[i],
         \A g \in Files \ {f} : file'[g] = file[g],
         mishap # "format_in_use" =>
           /\ \A k \in handle' : k \in handle /\ (vfs[k.label] = c => k.fd # fd)
           /\ \A u \in Tasks : Truncating(u)' =>
                Truncating(u) /\ task'[u] = task[u] /\ (task[u].at = c => task[u].n # fd)
  PROVE  HandleInv'
<1> SUFFICES ASSUME mishap # "format_in_use"
             PROVE  HandleInv'
  BY DEF HandleInv, Kept
<1>0. Typed /\ UNCHANGED vfs
  BY TypesAre DEF Kept
<1>1. ASSUME NEW h \in handle'
      PROVE  /\ vfs'[h.label] # None
             /\ h.file = None => ctx'[vfs'[h.label]] = None
             /\ h.file # None => /\ ctx'[vfs'[h.label]] # None
                                 /\ InCache(vfs[h.label], h.fd, h.file)'
                                 /\ ~file'[h.file].closed
             /\ \A k \in handle' : h.label = k.label /\ h.fd = k.fd => h = k
  <2>1. h \in handle /\ (vfs[h.label] = c => h.fd # fd)
    BY <1>1
  <2>2. vfs[h.label] # None /\ vfs[h.label] \in Contexts
    BY <1>0, <2>1 DEF HandleInv, Typed
  <2>3. PICK x \in Contexts : x = vfs[h.label]
    BY <2>2
  <2>4. (ctx'[x] = None <=> ctx[x] = None) /\ (h.file = None => ctx[x] = None)
    BY <2>1, <2>3 DEF Kept, HandleInv
  <2>5. ASSUME h.file # None
        PROVE  /\ ctx[x] # None /\ h.fd < Len(ctx'[x].cache)
               /\ ctx'[x].cache[h.fd + 1] = h.file /\ ~file'[h.file].closed
    <3>1. /\ ctx[x] # None /\ h.fd < CacheSize(x) /\ ctx[x].cache[h.fd + 1] = h.file
          /\ ~file[h.file].closed
      BY <2>1, <2>3, <2>5 DEF HandleInv, InCache
    <3>2. h.fd \in Nat /\ h.file \in Files /\ ctx[x] \in ContextType
      BY <1>0, <2>1, <2>5, <3>1 DEF Typed
    <3>3. h.fd + 1 \in Nat \ {0} /\ h.fd + 1 <= Len(ctx[x].cache) /\ h.fd < Len(ctx[x].cache)
      BY <3>1, <3>2, CacheLength, Next1 DEF CacheSize
    <3>4. InContext(h.file, x) /\ h.fd + 1 \in Taken(ctx[x].cache)
      BY <2>5, <3>1, <3>2, InCacheIs
    <3>5. InContext(f, c) /\ fd + 1 \in Taken(ctx[c].cache)
      BY InCacheIs, NoneAssumption
    <3>6. CASE x = c
      <4>1. h.fd # fd /\ h.fd + 1 # fd + 1
        BY <2>1, <2>3, <3>2, <3>6
      <4>2. h.file # f
        BY <3>1, <3>4, <3>5, <3>6, <4>1 DEF FdsInv, Agree
      <4> QED
        BY <3>1, <3>2, <3>3, <3>6, <4>1, <4>2
    <3>7. CASE x # c
      <4>1. h.file # f
        BY <3>4, <3>5, <3>7 DEF InContext
      <4> QED
        BY <3>1, <3>2, <3>3, <3>7, <4>1
    <3> QED
      BY <3>6, <3>7
  <2>6. \A k \in handle' : h.label = k.label /\ h.fd = k.fd => h = k
    BY <1>1 DEF HandleInv
  <2> QED
    BY <1>0, <2>2, <2>3, <2>4, <2>5, <2>6 DEF InCache, CacheSize
<1>2. ASSUME NEW u \in Tasks, Truncating(u)', ctx'[task'[u].at] # None
      PROVE  /\ ctx'[task'[u].at].label = task'[u].label
             /\ task'[u].n < CacheSize(task[u].at)'
             /\ ctx'[task'[u].at].cache[task'[u].n + 1] # None
             /\ \A h \in handle' : vfs'[h.label] = task'[u].at => h.fd # task'[u].n
             /\ \A v \in Tasks \ {u} :
                  Truncating(v)' /\ task'[v].at = task'[u].at => task'[v].n # task'[u].n
  <2>1. Truncating(u) /\ task'[u] = task[u] /\ (task[u].at = c => task[u].n # fd)
    BY <1>2
  <2>2. PICK x \in Contexts : x = task[u].at
    BY <2>1 DEF TaskInv, Truncating
  <2>3. ctx[x] # None /\ ctx'[x].label = ctx[x].label /\ ctx[x] \in ContextType
    BY <1>0, <1>2, <2>1, <2>2 DEF Kept, Typed
  <2>4. /\ ctx[x].label = task[u].label
        /\ task[u].n < CacheSize(x)
        /\ ctx[x].cache[task[u].n + 1] # None
        /\ \A h \in handle : vfs[h.label] = x => h.fd # task[u].n
        /\ \A v \in Tasks \ {u} :
             Truncating(v) /\ task[v].at = x => task[v].n # task[u].n
    BY <2>1, <2>2, <2>3 DEF HandleInv
  <2>5. task[u].n \in Nat
    BY <1>0 DEF Typed
  <2>6. task[u].n + 1 \in Nat \ {0} /\ task[u].n + 1 <= Len(ctx[x].cache)
    BY <2>3, <2>4, <2>5, CacheLength, Next1 DEF CacheSize
  <2>7. /\ task[u].n < Len(ctx'[x].cache)
        /\ ctx'[x].cache[task[u].n + 1] = ctx[x].cache[task[u].n + 1]
    <3>1. Len(ctx'[x].cache) = Len(ctx[x].cache)
      BY <2>3
    <3>2. CASE x = c
      <4>1. task[u].n + 1 # fd + 1
        BY <2>1, <2>2, <2>5, <3>2
      <4> QED
        BY <2>4, <2>6, <3>1, <3>2, <4>1 DEF CacheSize
    <3>3. CASE x # c
      BY <2>4, <3>3 DEF CacheSize
    <3> QED
      BY <3>2, <3>3
  <2>8. \A h \in handle' : vfs'[h.label] = task'[u].at => h.fd # task'[u].n
    BY <1>0, <2>1, <2>2, <2>4
  <2>9. \A v \in Tasks \ {u} :
          Truncating(v)' /\ task'[v].at = task'[u].at => task'[v].n # task'[u].n
    BY <2>1, <2>2, <2>4
  <2> QED
    BY <2>1, <2>2, <2>3, <2>4, <2>7, <2>8, <2>9 DEF CacheSize
<1> QED
  BY <1>1, <1>2 DEF HandleInv

LEMMA ClosedStep ==
  ASSUME IInv, UNCHANGED mishap, NEW c \in Contexts, NEW fd \in Nat, NEW f \in Files,
         ctx[c] # None, ctx[c].cache # <<>>, fd < CacheSize(c), ctx[c].cache[fd + 1] = f,
         CloseFile(c, fd, f), Dropped(c, fd),
         UNCHANGED <<efs, vfs, disk, dir, fault>>
  PROVE  IInv'
<1> DEFINE e == FreeFd(ctx[c], fd)
           g == [file[f] EXCEPT !.closed = TRUE]
<1>0. /\ TypeOK /\ TaskInv /\ SlotInv /\ FdsInv /\ HandleInv /\ VfsInv /\ FineInv
      /\ ctx[c] \in ContextType /\ Agree(ctx[c]) /\ f # None
      /\ file \in [Files -> FileType \cup {None}] /\ fd < Len(ctx[c].cache)
  BY NoneAssumption DEF IInv, TypeOK, FdsInv, CacheSize
<1>1. InContext(f, c) /\ file[f] # None /\ file[f].ctx = c /\ file[f] \in FileType
  BY <1>0, InCacheIs DEF InContext
<1>2. /\ e \in ContextType /\ Agree(e) /\ e.label = ctx[c].label
      /\ ToSet(e.list) = ToSet(ctx[c].list) \ {f}
      /\ e.cache # <<>> /\ Len(e.cache) = Len(ctx[c].cache)
      /\ \A i \in Nat \ {0} : i <= Len(ctx[c].cache) /\ i # fd + 1 =>
           e.cache[i] = ctx[c].cache[i]
  BY <1>0, Freed, FreedPlace
<1>3. g \in FileType /\ g # None /\ g.ctx = c
  <2>1. g \in FileType /\ g.ctx = c
    BY <1>1 DEF FileType
  <2> HIDE DEF g
  <2> QED
    BY <2>1, NoneAssumption
<1>4. \/ ctx' = [ctx EXCEPT ![c] = e] /\ file' = [file EXCEPT ![f] = None]
      \/ UNCHANGED ctx /\ file' = [file EXCEPT ![f] = g]
  BY DEF CloseFile
<1> HIDE DEF e, g
<1>5. \/ /\ ctx'[c] = e /\ file'[f] = None
      \/ /\ UNCHANGED ctx /\ file'[f] = g
  BY <1>0, <1>4 DEF TypeOK
<1>6. /\ Kept /\ ctx' \in [Contexts -> ContextType \cup {None}]
      /\ \A x \in Contexts \ {c} : ctx'[x] = ctx[x]
  <2>1. CASE ctx' = [ctx EXCEPT ![c] = e]
    <3>1. UNCHANGED <<efs, vfs, mishap>>
      OBVIOUS
    <3> QED
      BY <1>0, <1>2, <2>1, <3>1, ContextChanges
  <2>2. CASE UNCHANGED ctx
    BY <1>0, <2>2 DEF Kept, TypeOK
  <2> QED
    BY <1>4, <2>1, <2>2
<1>7. file' \in [Files -> FileType \cup {None}] /\ \A y \in Files \ {f} : file'[y] = file[y]
  BY <1>0, <1>3, <1>4
<1>8. \A u \in Tasks : task'[u] = task[u] \/ (Truncating(u) /\ task'[u] = Idle)
  BY <1>0 DEF Dropped, TypeOK
<1>9. TypeOK'
  <2>1. handle' \subseteq [label : Labels, fd : Nat, file : Files \cup {None}]
    BY <1>0 DEF Dropped, TypeOK
  <2>2. task' \in [Tasks -> [pc : {"idle", "register", "erase", "erase_mounted", "erase_new",
                                   "remount", "truncate", "close"},
                             label : Labels \cup {None}, at : Contexts \cup {None}, n : Nat]]
    <3> DEFINE TT == [pc : {"idle", "register", "erase", "erase_mounted", "erase_new",
                            "remount", "truncate", "close"},
                      label : Labels \cup {None}, at : Contexts \cup {None}, n : Nat]
    <3>1. Idle \in TT
      BY DEF Idle
    <3>2. task \in [Tasks -> TT]
      BY <1>0 DEF TypeOK
    <3>3. UNCHANGED task \/ \E t \in Tasks : task' = [task EXCEPT ![t] = Idle]
      BY DEF Dropped
    <3> HIDE DEF TT
    <3>4. task' \in [Tasks -> TT]
      BY <3>1, <3>2, <3>3
    <3> QED
      BY <3>4 DEF TT
  <2> QED
    BY <1>0, <1>6, <1>7, <2>1, <2>2 DEF TypeOK
<1>10. FdsInv'
  <2>1. ASSUME NEW y \in Contexts, ctx'[y] # None
        PROVE  Agree(ctx'[y]) /\ \A h \in ToSet(ctx'[y].list) : InContext(h, y)'
    <3>1. \A h \in ToSet(ctx[c].list) : InContext(h, c) /\ h \in Files
      BY <1>0 DEF FdsInv, ContextType, ToSet
    <3>2. CASE ctx'[c] = e /\ file'[f] = None /\ y = c
      BY <1>2, <1>7, <3>1, <3>2 DEF InContext
    <3>3. CASE UNCHANGED ctx /\ file'[f] = g /\ y = c
      BY <1>0, <1>3, <1>7, <3>1, <3>3 DEF InContext
    <3>4. CASE y # c
      <4>1. ctx[y] # None /\ ctx'[y] = ctx[y] /\ ctx[y] \in ContextType
        BY <1>0, <1>6, <2>1, <3>4 DEF TypeOK
      <4>2. \A h \in ToSet(ctx[y].list) : InContext(h, y) /\ h # f /\ h \in Files
        BY <1>0, <1>1, <3>4, <4>1 DEF FdsInv, InContext, ContextType, ToSet
      <4>3. Agree(ctx'[y])
        BY <1>0, <4>1 DEF FdsInv
      <4> QED
        BY <1>7, <4>1, <4>2, <4>3 DEF InContext
    <3> QED
      BY <1>5, <3>2, <3>3, <3>4
  <2>2. ASSUME NEW h \in Files, file'[h] # None
        PROVE  ctx'[file'[h].ctx] # None /\ h \in ToSet(ctx'[file'[h].ctx].list)
    <3>1. CASE h = f
      <4>1. UNCHANGED ctx /\ file'[f].ctx = c
        BY <1>3, <1>5, <2>2, <3>1
      <4> QED
        BY <1>0, <1>1, <3>1, <4>1 DEF FdsInv
    <3>2. CASE h # f
      <4>1. file'[h] = file[h] /\ file[h].ctx \in Contexts
        BY <1>0, <1>7, <2>2, <3>2, TypesAre DEF Typed
      <4>2. ctx[file[h].ctx] # None /\ h \in ToSet(ctx[file[h].ctx].list)
        BY <1>0, <2>2, <4>1 DEF FdsInv
      <4>3. CASE file[h].ctx = c
        BY <1>2, <1>5, <1>6, <3>2, <4>1, <4>2, <4>3 DEF Kept
      <4>4. CASE file[h].ctx # c
        BY <1>6, <4>1, <4>2, <4>4
      <4> QED
        BY <4>3, <4>4
    <3> QED
      BY <3>1, <3>2
  <2> QED
    BY <2>1, <2>2 DEF FdsInv
<1>11. HandleInv'
  <2>1. mishap # "format_in_use" =>
          /\ \A k \in handle' : k \in handle /\ (vfs[k.label] = c => k.fd # fd)
          /\ \A u \in Tasks : Truncating(u)' =>
               Truncating(u) /\ task'[u] = task[u] /\ (task[u].at = c => task[u].n # fd)
    BY OthersStay
  <2>2. /\ \A x \in Contexts : ctx[x] # None => Len(ctx'[x].cache) = Len(ctx[x].cache)
        /\ \A i \in Nat \ {0} : i <= Len(ctx[c].cache) /\ i # fd + 1 =>
             ctx'[c].cache[i] = ctx[c].cache[i]
    BY <1>2, <1>5, <1>6
  <2> QED
    BY <1>0, <1>6, <1>7, <1>9, <2>1, <2>2, LeftHandles
<1>12. TaskInv' /\ SlotInv'
  <2>1. TaskInv'
    BY <1>0, <1>6, <1>8, <1>9, KeptTasks DEF Apart, Idle
  <2>2. \A h \in Files : file'[h] # None => InSlot(file'[h].ctx)
    BY <1>0, <1>1, <1>3, <1>5, <1>7 DEF SlotInv
  <2> QED
    BY <1>0, <1>6, <1>9, <2>1, <2>2, KeptSlots
<1>13. SameManagers
  BY <1>8 DEF SameManagers, Apart, Truncating, Idle
<1>14. UsesServed
  <2>1. handle' \subseteq handle
    BY DEF Dropped
  <2>2. \A u \in Tasks : task'[u].label \in {task[u].label, None}
    BY <1>8 DEF Idle
  <2>3. \A u \in Tasks : Truncating(u)' => Truncating(u) /\ task'[u] = task[u]
    BY <1>8 DEF Truncating, Idle
  <2> QED
    BY <2>1, <2>2, <2>3 DEF UsesServed
<1>15. VfsInv' /\ FineInv'
  BY <1>0, <1>6, <1>9, <1>12, <1>13, <1>14, KeptVfs, KeptFine
<1> QED
  BY <1>9, <1>10, <1>11, <1>12, <1>15 DEF IInv

LEMMA CloseStep ==
  ASSUME IInv, UNCHANGED mishap, NEW t \in Tasks, NEW h \in handle, Close(t, h)
  PROVE  IInv'
<1>1. PICK c \in Contexts, f \in Files : OnFile(t, h, c, f) /\ CloseFile(c, h.fd, f)
  BY DEF Close
<1>2. /\ ctx[c] # None /\ ctx[c].cache # <<>> /\ vfs[h.label] = c
      /\ h.fd \in Nat /\ h.fd < CacheSize(c) /\ ctx[c].cache[h.fd + 1] = f
  BY <1>1, OnFileIs DEF OnFile, InCache
<1>3. Dropped(c, h.fd)
  BY <1>2 DEF Dropped, Close
<1> QED
  BY <1>1, <1>2, <1>3, ClosedStep DEF Close

(* A call to truncate that goes on, or comes to its end.                   *)
LEMMA TruncateGoes ==
  ASSUME IInv, UNCHANGED mishap, NEW t \in Tasks, Truncating(t),
         NEW k, task' = [task EXCEPT ![t] = k],
         \/ k = Idle
         \/ k = [task[t] EXCEPT !.pc = "close"],
         FilesFollow, UNCHANGED <<contextVars, handle, dir, fault>>
  PROVE  IInv'
<1> USE DEF contextVars
<1> DEFINE TT == [pc : {"idle", "register", "erase", "erase_mounted", "erase_new",
                        "remount", "truncate", "close"},
                  label : Labels \cup {None}, at : Contexts \cup {None}, n : Nat]
<1>0. TypeOK /\ TaskInv /\ SlotInv /\ FdsInv /\ HandleInv /\ VfsInv /\ FineInv
      /\ task \in [Tasks -> TT]
  BY DEF IInv, TypeOK
<1>1. task[t] \in TT /\ task[t].at \in Contexts /\ task[t].label \in Labels
  BY <1>0 DEF TaskInv, Truncating
<1>2. /\ k \in TT /\ k.pc \in Apart
      /\ k.pc # "idle" => k.label = task[t].label /\ k.at = task[t].at /\ k.n = task[t].n
      /\ k.label \in {task[t].label, None}
  BY <1>1 DEF Idle, Apart
<1> HIDE DEF TT
<1>3. /\ task' \in [Tasks -> TT] /\ task'[t] = k
      /\ \A u \in Tasks \ {t} : task'[u] = task[u]
  BY <1>0, <1>2
<1>4. TypeOK'
  BY <1>0, <1>3, FilesTyped DEF TypeOK, TT
<1>5. Kept
  BY DEF Kept
<1>6. SameFiles
  <2>1. \A u \in Tasks : Truncating(u)' =>
          /\ Truncating(u) /\ task'[u].label = task[u].label
          /\ task'[u].at = task[u].at /\ task'[u].n = task[u].n
    BY <1>2, <1>3 DEF Truncating
  <2> QED
    BY <1>0, <2>1, FilesTyped DEF SameFiles
<1>7. SameManagers
  BY <1>2, <1>3 DEF SameManagers, Apart, Truncating
<1>8. TaskInv'
  <2>1. \A u \in Tasks : task'[u] = task[u] \/
           (task'[u].pc \in Apart /\ (task'[u].pc # "idle" =>
              task'[u].label \in Labels /\ task'[u].at \in Contexts))
    BY <1>1, <1>2, <1>3
  <2> QED
    BY <1>0, <1>4, <1>5, <2>1, KeptTasks
<1>9. SlotInv' /\ FdsInv' /\ HandleInv'
  <2>1. \A f \in Files : file'[f] # None => InSlot(file'[f].ctx)
    BY <1>0, <1>6 DEF SlotInv, SameFiles
  <2> QED
    BY <1>0, <1>4, <1>5, <1>6, <2>1, KeptSlots, SameFds, SameHandles
<1>10. UsesServed
  <2>1. \A u \in Tasks : task'[u].label \in {task[u].label, None}
    BY <1>2, <1>3
  <2>2. \A u \in Tasks : Truncating(u)' =>
         Truncating(u) /\ task'[u].label = task[u].label /\ task'[u].at = task[u].at
    BY <1>6 DEF SameFiles
  <2> QED
    BY <2>1, <2>2 DEF UsesServed
<1>11. VfsInv' /\ FineInv'
  BY <1>0, <1>4, <1>5, <1>7, <1>8, <1>10, KeptVfs, KeptFine
<1> QED
  BY <1>4, <1>8, <1>9, <1>11 DEF IInv

LEMMA TruncateStepStep ==
  ASSUME IInv, UNCHANGED mishap, NEW t \in Tasks, Truncate(t)
  PROVE  IInv'
<1> DEFINE fd == task[t].n
<1>0. PICK c \in Contexts : c = task[t].at
  BY DEF IInv, TaskInv, Truncate
<1>1. Truncating(t) /\ UNCHANGED <<handle, dir>> /\ fd \in Nat /\ TypeOK
  BY TypesAre DEF Truncate, Truncating, IInv, Typed
<1>2. TruncateStep(t, c, fd)
  BY <1>0 DEF Truncate
<1> HIDE DEF fd
<1>3. CASE /\ task' = [task EXCEPT ![t] = Idle]
           /\ UNCHANGED <<contextVars, file, fault>>
  <2>1. FilesFollow
    BY <1>1, <1>3 DEF FilesFollow, TypeOK
  <2> QED
    BY <1>1, <1>3, <2>1, TruncateGoes
<1>4. CASE /\ ~Sound(c) \/ (Lockable(t, c) /\ Nothing(c, fd))
           /\ fault' = TRUE /\ UNCHANGED <<contextVars, file, task>>
  <2>1. ASSUME Fine  PROVE FALSE
    <3>1. mishap # "register_again" /\ mishap # "format_in_use"
      BY <2>1 DEF Fine
    <3>2. vfs[task[t].label] = c /\ task[t].label \in Labels /\ c # None
      BY <1>0, <1>1, <2>1, NoneAssumption DEF IInv, FineInv, TaskInv, Truncating
    <3>3. ctx[c] # None
      BY <3>1, <3>2 DEF IInv, VfsInv
    <3>4. fd < CacheSize(c) /\ ctx[c].cache[fd + 1] # None
      BY <1>0, <1>1, <3>1, <3>3 DEF IInv, HandleInv, fd
    <3>5. CacheSize(c) \in Nat
      BY <1>1, <3>3, TypesAre, CacheLength DEF Typed, CacheSize
    <3>6. ctx[c].cache # <<>>
      BY <1>1, <3>4, <3>5 DEF CacheSize
    <3> QED
      BY <1>1, <1>4, <3>3, <3>4, <3>5, <3>6 DEF Sound, Nothing
  <2>2. UNCHANGED <<contextVars, file, handle, dir, task>>
    BY <1>1, <1>4 DEF contextVars
  <2> QED
    BY <1>4, <2>1, <2>2, FallsStep
<1>5. ASSUME NEW f \in Files, Lockable(t, c), InCache(c, fd, f),
             IF task[t].pc = "truncate"
             THEN /\ file' \in {file, [file EXCEPT ![f].dirty = TRUE]}
                  /\ task' = [task EXCEPT ![t].pc = "close"]
                  /\ UNCHANGED contextVars
             ELSE /\ CloseFile(c, fd, f)
                  /\ task' = [task EXCEPT ![t] = Idle]
                  /\ UNCHANGED <<efs, vfs, disk>>,
             UNCHANGED fault
      PROVE  IInv'
  <2>0. /\ ctx[c] # None /\ ctx[c].cache # <<>> /\ fd < CacheSize(c)
        /\ ctx[c].cache[fd + 1] = f /\ f # None
    BY <1>5 DEF Lockable, Sound, InCache
  <2>1. CASE task[t].pc = "truncate"
    <3>1. FilesFollow
      <4>0. InContext(f, c)
        BY <1>1, <2>0, InCacheIs DEF IInv
      <4>1. file[f] \in FileType /\ file[f] # None
        BY <1>1, <4>0 DEF InContext, TypeOK
      <4>2. file \in [Files -> FileType \cup {None}]
        BY <1>1 DEF TypeOK
      <4>3. CASE file' = file
        BY <4>2, <4>3 DEF FilesFollow
      <4>4. CASE file' = [file EXCEPT ![f] = [file[f] EXCEPT !.dirty = TRUE]]
        <5>1. [file[f] EXCEPT !.dirty = TRUE] \in FileType
          BY <4>1 DEF FileType
        <5> QED
          BY <4>1, <4>2, <4>4, <5>1 DEF FilesFollow, FileType
      <4> QED
        BY <1>5, <2>1, <4>3, <4>4
    <3>2. task' = [task EXCEPT ![t] = [task[t] EXCEPT !.pc = "close"]] /\ UNCHANGED contextVars
      BY <1>5, <2>1
    <3>3. UNCHANGED <<contextVars, handle, dir, fault>>
      BY <1>1, <1>5, <3>2
    <3> QED
      BY <1>1, <3>1, <3>2, <3>3, TruncateGoes
  <2>2. CASE task[t].pc # "truncate"
    <3>1. /\ CloseFile(c, fd, f) /\ task' = [task EXCEPT ![t] = Idle]
          /\ UNCHANGED <<efs, vfs, disk, dir, fault>>
      BY <1>1, <1>5, <2>2
    <3>2. Dropped(c, fd)
      BY <1>0, <1>1, <3>1 DEF Dropped, fd
    <3> QED
      BY <1>1, <2>0, <3>1, <3>2, ClosedStep
  <2> QED
    BY <2>1, <2>2
<1> QED
  BY <1>2, <1>3, <1>4, <1>5 DEF TruncateStep

-----------------------------------------------------------------------------
(* Calls that manage partitions.                                           *)

(* The context found by its label.                                         *)
LEMMA LabelledIs ==
  ASSUME IInv, NEW l \in Labels, Registered(l)
  PROVE  /\ Min(Labelled(l)) \in Slots /\ efs[Min(Labelled(l))] = ByLabel(l)
         /\ ByLabel(l) \in Contexts /\ ByLabel(l) # None
         /\ ctx[ByLabel(l)] # None /\ ctx[ByLabel(l)].label = l
<1>1. Slots \subseteq Nat
  BY DEF IInv, TypeOK, Slots
<1>2. Labelled(l) \in SUBSET Nat /\ Labelled(l) # {}
  BY <1>1 DEF Labelled, Registered
<1>3. Min(Labelled(l)) \in Labelled(l)
  BY <1>2, MinIs
<1> DEFINE m == Min(Labelled(l))
<1>4. ByLabel(l) = efs[m]
  BY DEF ByLabel
<1> HIDE DEF m
<1>5. m \in Slots /\ efs[m] # None /\ ctx[efs[m]].label = l
  BY <1>3 DEF Labelled, m
<1>6. efs[m] \in Contexts
  BY <1>5, TypesAre DEF Typed, IInv
<1>7. ctx[efs[m]] # None
  BY <1>5 DEF IInv, SlotInv, OneSlotPerPartition
<1> QED
  BY <1>4, <1>5, <1>6, <1>7 DEF m

LEMMA NotRegistered ==
  ASSUME IInv, NEW l \in Labels, ~Registered(l)
  PROVE  /\ \A i \in Slots : efs[i] # None => ctx[efs[i]].label # l
         /\ vfs[l] # None => ctx[vfs[l]] = None
<1>1. \A i \in Slots : efs[i] # None => ctx[efs[i]].label # l
  BY DEF Registered, Labelled
<1>2. ASSUME vfs[l] # None, ctx[vfs[l]] # None
      PROVE  FALSE
  <2>1. ctx[vfs[l]].label = l /\ InSlot(vfs[l])
    BY <1>2 DEF IInv, SlotInv
  <2> QED
    BY <1>1, <1>2, <2>1 DEF InSlot
<1> QED
  BY <1>1, <1>2

(* Memory for a context is nowhere pointed to.                             *)
LEMMA HeapIs ==
  ASSUME IInv, NEW c \in Heap
  PROVE  /\ c \in Contexts /\ c # None /\ ctx[c] = None
         /\ \A l \in Labels : vfs[l] # c
         /\ \A i \in Slots : efs[i] # c
         /\ \A f \in Files : file[f] # None => file[f].ctx # c
         /\ \A u \in Tasks : task[u].at # c
<1>0. None \notin Contexts
  BY NoneAssumption
<1>1. /\ c \in Contexts /\ c # None /\ ctx[c] = None
      /\ \A l \in Labels : vfs[l] # c
      /\ \A u \in Tasks : task[u].at # c
  <2>1. /\ c \in Contexts /\ ctx[c] = None
        /\ \A l \in Labels : vfs[l] # c
        /\ \A u \in Tasks : task[u].at # c
    BY DEF Heap
  <2> QED
    BY <1>0, <2>1
<1>2. \A i \in Slots : efs[i] # c
  BY <1>1 DEF IInv, SlotInv, OneSlotPerPartition
<1>3. \A f \in Files : file[f] # None => file[f].ctx # c
  BY <1>1 DEF IInv, FdsInv
<1> QED
  BY <1>1, <1>2, <1>3

(* A context with nothing open in it.                                      *)
Bare(e, l) == /\ e \in ContextType /\ e.label = l /\ Agree(e)
              /\ e.list = <<>> /\ ToSet(e.list) = {}

LEMMA BareIs ==
  ASSUME NEW l \in Labels, NEW cache \in {<<>>, EmptyCache},
         NEW holder \in Tasks \cup {None}
  PROVE  Bare([label |-> l, cache |-> cache, list |-> <<>>, fd_count |-> 0,
               holder |-> holder], l)
<1>1. cache \in Seq(Files \cup {None}) /\ Taken(cache) = {}
  <2>1. <<>> \in Seq(Files \cup {None}) /\ Taken(<<>>) = {}
    BY DEF Taken
  <2>2. EmptyCache \in Seq(Files \cup {None}) /\ Taken(EmptyCache) = {}
    BY LimitsAssumption DEF Taken, EmptyCache
  <2> QED
    BY <2>1, <2>2
<1>2. Cardinality(Taken(cache)) = 0
  BY <1>1, FS_EmptySet
<1>3. ToSet(<<>>) = {}
  BY DEF ToSet
<1> DEFINE e == [label |-> l, cache |-> cache, list |-> <<>>, fd_count |-> 0,
                 holder |-> holder]
<1>4. e \in ContextType
  BY <1>1 DEF ContextType
<1>5. e.label = l /\ e.cache = cache /\ e.list = <<>> /\ e.fd_count = 0
  OBVIOUS
<1> HIDE DEF e
<1>6. {e.cache[i] : i \in Taken(e.cache)} = {}
  BY <1>1, <1>5
<1>7. Agree(e)
  <2>1. Len(e.list) = 0 /\ DOMAIN e.list = {}
    BY <1>5
  <2>2. ToSet(e.list) = {}
    BY <1>3, <1>5
  <2>3. Cardinality(Taken(e.cache)) = e.fd_count /\ Taken(e.cache) = {}
    BY <1>1, <1>2, <1>5
  <2> QED
    BY <1>5, <1>6, <2>1, <2>2, <2>3 DEF Agree
<1>8. Bare(e, l)
  BY <1>3, <1>4, <1>5, <1>7 DEF Bare
<1> QED
  BY <1>8 DEF e

LEMMA NewContextBare ==
  ASSUME NEW l \in Labels, NEW cache \in {<<>>, EmptyCache}
  PROVE  /\ Bare([NewContext(l) EXCEPT !.cache = cache], l)
         /\ [NewContext(l) EXCEPT !.cache = cache].cache = cache
         /\ NewContext(l) = [NewContext(l) EXCEPT !.cache = <<>>]
  BY BareIs DEF NewContext

(* A context comes that was not there.                                     *)
LEMMA FreshKeeps ==
  ASSUME IInv, TypeOK', NEW c \in Heap, NEW e, NEW l \in Labels, Bare(e, l),
         ctx' = [ctx EXCEPT ![c] = e], UNCHANGED <<handle, file, vfs, mishap>>,
         \A u \in Tasks : Truncating(u)' => Truncating(u) /\ task'[u] = task[u]
  PROVE  FdsInv' /\ HandleInv'
<1> USE DEF IInv
<1>1. /\ c \in Contexts /\ c # None /\ ctx[c] = None
      /\ \A k \in Labels : vfs[k] # c
      /\ \A f \in Files : file[f] # None => file[f].ctx # c
      /\ \A u \in Tasks : task[u].at # c
  BY HeapIs
<1>2. ctx'[c] = e /\ \A d \in Contexts : d # c => ctx'[d] = ctx[d]
  BY <1>1 DEF TypeOK
<1>3. FdsInv'
  <2>1. ASSUME NEW d \in Contexts, ctx'[d] # None
        PROVE  Agree(ctx'[d]) /\ \A f \in ToSet(ctx'[d].list) : InContext(f, d)'
    <3>1. CASE d = c
      BY <1>2, <3>1 DEF Bare
    <3>2. CASE d # c
      BY <1>2, <2>1, <3>2 DEF FdsInv, InContext
    <3> QED
      BY <3>1, <3>2
  <2>2. ASSUME NEW f \in Files, file'[f] # None
        PROVE  ctx'[file'[f].ctx] # None /\ f \in ToSet(ctx'[file'[f].ctx].list)
    <3>1. file[f].ctx \in Contexts /\ file[f].ctx # c
      BY <1>1, <2>2, TypesAre DEF Typed
    <3> QED
      BY <1>2, <2>2, <3>1 DEF FdsInv
  <2> QED
    BY <2>1, <2>2 DEF FdsInv
<1>4. HandleInv'
  <2> SUFFICES ASSUME mishap # "format_in_use"
               PROVE  HandleInv'
    BY DEF HandleInv
  <2>1. ASSUME NEW h \in handle'
        PROVE  /\ vfs'[h.label] # None
               /\ h.file = None => ctx'[vfs'[h.label]] = None
               /\ h.file # None => /\ ctx'[vfs'[h.label]] # None
                                   /\ InCache(vfs[h.label], h.fd, h.file)'
                                   /\ ~file'[h.file].closed
               /\ \A k \in handle' : h.label = k.label /\ h.fd = k.fd => h = k
    <3>1. h \in handle /\ vfs[h.label] # None /\ h.label \in Labels
      BY <2>1, TypesAre DEF HandleInv, Typed
    <3>2. PICK d \in Contexts : vfs[h.label] = d /\ vfs'[h.label] = d
      BY <3>1, TypesAre DEF Typed
    <3>3. d # c /\ ctx'[d] = ctx[d]
      BY <1>1, <1>2, <3>1, <3>2
    <3>4. /\ h.file = None => ctx[d] = None
          /\ h.file # None => /\ ctx[d] # None /\ InCache(d, h.fd, h.file)
                              /\ ~file[h.file].closed
          /\ \A k \in handle : h.label = k.label /\ h.fd = k.fd => h = k
      BY <3>1, <3>2 DEF HandleInv
    <3> QED
      BY <3>1, <3>2, <3>3, <3>4 DEF InCache, CacheSize
  <2>2. ASSUME NEW u \in Tasks, Truncating(u)', ctx'[task'[u].at] # None
        PROVE  /\ ctx'[task'[u].at].label = task'[u].label
               /\ task'[u].n < CacheSize(task[u].at)'
               /\ ctx'[task'[u].at].cache[task'[u].n + 1] # None
               /\ \A h \in handle' : vfs'[h.label] = task'[u].at => h.fd # task'[u].n
               /\ \A v \in Tasks \ {u} :
                    Truncating(v)' /\ task'[v].at = task'[u].at => task'[v].n # task'[u].n
    <3>1. Truncating(u) /\ task'[u] = task[u] /\ task[u].at \in Contexts /\ task[u].at # c
      BY <1>1, <2>2 DEF TaskInv, Truncating
    <3>2. ctx'[task[u].at] = ctx[task[u].at]
      BY <1>2, <3>1
    <3>3. /\ ctx[task[u].at].label = task[u].label
          /\ task[u].n < CacheSize(task[u].at)
          /\ ctx[task[u].at].cache[task[u].n + 1] # None
          /\ \A h \in handle : vfs[h.label] = task[u].at => h.fd # task[u].n
          /\ \A v \in Tasks \ {u} :
               Truncating(v) /\ task[v].at = task[u].at => task[v].n # task[u].n
      BY <2>2, <3>1, <3>2 DEF HandleInv
    <3> QED
      BY <3>1, <3>2, <3>3 DEF CacheSize
  <2> QED
    BY <2>1, <2>2 DEF HandleInv
<1> QED
  BY <1>3, <1>4

(* A context nobody has a pointer to stays behind.                         *)
LEMMA LeakedStep ==
  ASSUME IInv, TypeOK', NEW c \in Heap, NEW e, NEW l \in Labels, Bare(e, l),
         ctx' = [ctx EXCEPT ![c] = e],
         UNCHANGED <<efs, vfs, file, handle, dir, task, mishap, fault>>
  PROVE  IInv'
<1> USE DEF IInv
<1>0. Typed
  BY TypesAre
<1>1. /\ c \in Contexts /\ c # None /\ ctx[c] = None
      /\ \A k \in Labels : vfs[k] # c
      /\ \A i \in Slots : efs[i] # c
      /\ \A f \in Files : file[f] # None => file[f].ctx # c
      /\ \A u \in Tasks : task[u].at # c
  BY HeapIs
<1>2. \A d \in Contexts : d # c => ctx'[d] = ctx[d]
  BY <1>1 DEF TypeOK
<1>3. UNCHANGED <<efs, vfs, file, handle, dir, task, mishap, fault>>
  OBVIOUS
<1>4. TaskInv'
  <2>1. RemountInv'
    BY <1>1, <1>2, <1>3 DEF TaskInv, RemountInv, InFormat
  <2> QED
    BY <1>3, <2>1 DEF TaskInv, Slots
<1>5. SlotInv'
  BY <1>0, <1>1, <1>2, <1>3 DEF Typed, SlotInv, OneSlotPerPartition, InSlot, Slots
<1>6. FdsInv' /\ HandleInv'
  BY <1>3, FreshKeeps DEF Truncating
<1>7. VfsInv'
  BY <1>0, <1>1, <1>2, <1>3 DEF Typed, VfsInv, TaskInv, Slots
<1>8. FineInv'
  <2> SUFFICES ASSUME Fine  PROVE FineInv'
    BY <1>3 DEF FineInv, Fine
  <2>1. (\A u \in Tasks : Formatting(u) =>
          /\ ctx[task[u].at] # None /\ ctx[task[u].at].label = task[u].label
          /\ InSlot(task[u].at))'
    BY <1>1, <1>2, <1>3 DEF FineInv, TaskInv, Formatting, InSlot, Slots
  <2>2. (\A i \in Slots : efs[i] # None /\ ctx[efs[i]].cache = <<>> =>
          \E u \in Tasks : Formatting(u) /\ task[u].at = efs[i])'
    BY <1>0, <1>1, <1>2, <1>3 DEF Typed, FineInv, Formatting, Slots
  <2> QED
    BY <1>3, <2>1, <2>2 DEF FineInv, Formatting, Truncating
<1> QED
  BY <1>4, <1>5, <1>6, <1>7, <1>8

LEMMA CacheMade == EmptyCache # <<>>
<1>1. 1 \in DOMAIN EmptyCache
  BY LimitsAssumption DEF EmptyCache
<1> QED
  BY <1>1

(* esp_littlefs_init has put a context in a slot for a task that goes on.  *)
LEMMA InitStep ==
  ASSUME IInv, TypeOK', UNCHANGED <<vfs, file, handle, dir, mishap, fault>>,
         NEW t \in Tasks, task[t].pc = "idle", NEW l \in Labels, NEW c \in Heap,
         mishap = "register_again" \/ ~Managed(l),
         NEW cache \in {<<>>, EmptyCache}, InitContext(l, c, cache),
         NEW r, task' = [task EXCEPT ![t] = r], r.label = l,
         \/ r.pc = "register" /\ (cache = EmptyCache \/ ~Fine)
         \/ r.pc = "erase_new" /\ cache = <<>> /\ r.at = c /\ r.n = Min(Vacancies)
  PROVE  IInv'
<1> USE DEF IInv
<1>0. Typed /\ None \notin Labels
  BY TypesAre, NoneAssumption
<1> DEFINE i == Min(Vacancies)
           e == [NewContext(l) EXCEPT !.cache = cache]
<1>1. /\ c \in Contexts /\ c # None /\ ctx[c] = None
      /\ \A k \in Labels : vfs[k] # c
      /\ \A j \in Slots : efs[j] # c
      /\ \A f \in Files : file[f] # None => file[f].ctx # c
      /\ \A u \in Tasks : task[u].at # c
  BY HeapIs
<1>2. i \in Slots /\ efs[i] = None
  <2>1. Vacancies \in SUBSET Nat /\ Vacancies # {}
    BY DEF InitContext, Vacancies, TypeOK, Slots
  <2>2. Min(Vacancies) \in Vacancies
    BY <2>1, MinIs
  <2> QED
    BY <2>2 DEF Vacancies
<1>3. Bare(e, l) /\ e.cache = cache
  BY NewContextBare
<1>4. /\ efs' = [efs EXCEPT ![i] = c] /\ ctx' = [ctx EXCEPT ![c] = e]
      /\ ~Registered(l)
  BY DEF InitContext
<1> HIDE DEF i, e
<1>5. /\ UNCHANGED <<vfs, file, handle, dir, mishap, fault>>
      /\ Slots' = Slots /\ efs'[i] = c
      /\ \A j \in Slots : j # i => efs'[j] = efs[j]
      /\ ctx'[c] = e /\ \A d \in Contexts : d # c => ctx'[d] = ctx[d]
  BY <1>1, <1>2, <1>4 DEF TypeOK, Slots
<1>6. e.label = l
  BY <1>3 DEF Bare
<1>7. task'[t] = r /\ \A u \in Tasks : u # t => task'[u] = task[u]
  BY DEF TypeOK
<1>8. /\ \A j \in Slots : efs[j] # None => ctx[efs[j]].label # l
      /\ vfs[l] # None => ctx[vfs[l]] = None
  BY <1>4, NotRegistered
<1>9. r.pc \in {"register", "erase_new"}
  OBVIOUS
<1>10. r.pc = "erase_new" => r.at = c /\ r.n = i
  BY DEF i
<1>11. Fine /\ r.pc = "register" => cache # <<>>
  BY CacheMade
<1>12. mishap = "register_again" \/ \A u \in Tasks : task[u].label # l
  BY DEF Managed
<1>13. TaskInv'
  <2>1. RemountInv'
    <3>1. \A u \in Tasks \ {t} : InFormat(u)' => InFormat(u) /\ task'[u] = task[u]
      BY <1>7 DEF InFormat
    <3>2. \A u \in Tasks : InFormat(u) => task[u].at \in Contexts /\ task[u].at # c
      BY <1>1 DEF TaskInv, InFormat
    <3>3. InFormat(t)' => r.at = c /\ e.cache = <<>> /\ e.label = l /\ task'[t] = r
      BY <1>3, <1>6, <1>7, <1>9, <1>10 DEF InFormat
    <3>4. RemountInv
      BY DEF TaskInv
    <3> SUFFICES ASSUME NEW u \in Tasks, InFormat(u)', ctx'[task'[u].at] # None
                 PROVE  /\ ctx'[task'[u].at].label = task'[u].label
                        /\ ctx'[task'[u].at].cache = <<>>
                        /\ \A v \in Tasks \ {u} : InFormat(v)' => task'[v].at # task'[u].at
      BY DEF RemountInv
    <3>5. CASE u = t
      BY <1>5, <3>1, <3>2, <3>3, <3>5
    <3>6. CASE u # t
      <4>1. /\ InFormat(u) /\ task'[u] = task[u] /\ task[u].at \in Contexts
            /\ task[u].at # c /\ ctx'[task[u].at] = ctx[task[u].at]
        BY <1>5, <3>1, <3>2, <3>6
      <4>2. /\ ctx[task[u].at].label = task[u].label /\ ctx[task[u].at].cache = <<>>
            /\ \A v \in Tasks \ {u} : InFormat(v) => task[v].at # task[u].at
        BY <3>4, <4>1 DEF RemountInv
      <4> QED
        BY <3>1, <3>3, <4>1, <4>2
    <3> QED
      BY <3>5, <3>6
  <2>2. ASSUME NEW u \in Tasks
        PROVE  /\ task'[u].pc # "idle" => task'[u].label \in Labels
               /\ task'[u].pc \notin {"idle", "register"} => task'[u].at \in Contexts
               /\ task'[u].pc = "erase_new" => task'[u].n \in Slots'
    <3>1. CASE u = t
      BY <1>1, <1>2, <1>5, <1>7, <1>9, <1>10, <3>1
    <3>2. CASE u # t
      BY <1>5, <1>7, <3>2 DEF TaskInv
    <3> QED
      BY <3>1, <3>2
  <2> QED
    BY <2>1, <2>2 DEF TaskInv
<1>14. \A j \in Slots : efs[j] # None => efs[j] \in Contexts /\ efs[j] # c /\ j # i
  BY <1>0, <1>1, <1>2 DEF Typed
<1>15. \A d : InSlot(d) /\ d # None => \E j \in Slots' : efs'[j] = d
  BY <1>2, <1>5 DEF InSlot
<1>16. SlotInv'
  <2>1. OneSlotPerPartition'
    <3> SUFFICES ASSUME NEW j \in Slots, NEW k \in Slots, efs'[j] # None
                 PROVE  /\ ctx'[efs'[j]] # None
                        /\ efs'[k] # None /\ ctx'[efs'[j]].label = ctx'[efs'[k]].label
                             => j = k
      BY <1>5 DEF OneSlotPerPartition
    <3>1. e # None
      BY <1>3, NoneAssumption DEF Bare
    <3>2. CASE j = i /\ k = i
      BY <1>5, <3>1, <3>2
    <3>3. CASE j = i /\ k # i
      BY <1>5, <1>6, <1>8, <1>14, <3>1, <3>3
    <3>4. CASE j # i /\ k = i
      <4>1. /\ efs'[j] = efs[j] /\ efs[j] # None /\ efs[j] \in Contexts /\ efs[j] # c
            /\ ctx'[efs[j]] = ctx[efs[j]] /\ ctx[efs[j]].label # l
        BY <1>5, <1>8, <1>14, <3>4
      <4>2. ctx[efs[j]] # None
        BY <4>1 DEF SlotInv, OneSlotPerPartition
      <4> QED
        BY <1>5, <1>6, <3>4, <4>1, <4>2
    <3>5. CASE j # i /\ k # i
      BY <1>5, <1>14, <3>5 DEF SlotInv, OneSlotPerPartition
    <3> QED
      BY <3>2, <3>3, <3>4, <3>5
  <2>2. ASSUME NEW m \in Labels, vfs'[m] # None, ctx'[vfs'[m]] # None
        PROVE  ctx'[vfs'[m]].label = m /\ InSlot(vfs[m])'
    <3>1. /\ vfs'[m] = vfs[m] /\ vfs[m] \in Contexts /\ vfs[m] # c
      BY <1>0, <1>1, <1>5, <2>2 DEF Typed
    <3>2. ctx'[vfs[m]] = ctx[vfs[m]]
      BY <1>5, <3>1
    <3>3. ctx[vfs[m]].label = m /\ InSlot(vfs[m])
      BY <2>2, <3>1, <3>2 DEF SlotInv
    <3>4. InSlot(vfs[m])'
      BY <1>15, <2>2, <3>1, <3>3 DEF InSlot
    <3> QED
      BY <3>1, <3>2, <3>3, <3>4
  <2>3. \A f \in Files : file'[f] # None => InSlot(file[f].ctx)'
    <3> SUFFICES ASSUME NEW f \in Files, file[f] # None
                 PROVE  InSlot(file[f].ctx)'
      BY <1>5
    <3>1. InSlot(file[f].ctx) /\ file[f].ctx \in Contexts
      BY <1>0 DEF SlotInv, Typed
    <3>2. file[f].ctx # None
      BY <3>1, NoneAssumption
    <3>3. \E j \in Slots' : efs'[j] = file[f].ctx
      BY <1>15, <3>1, <3>2
    <3>4. file' = file
      BY <1>5
    <3> QED
      BY <3>3, <3>4 DEF InSlot
  <2> QED
    BY <2>1, <2>2, <2>3 DEF SlotInv
<1>17. FdsInv' /\ HandleInv'
  <2>1. \A u \in Tasks : Truncating(u)' => Truncating(u) /\ task'[u] = task[u]
    BY <1>7, <1>9 DEF Truncating
  <2> QED
    BY <1>3, <1>4, <1>5, <2>1, FreshKeeps
<1>18. VfsInv'
  <2> SUFFICES ASSUME mishap # "register_again"  PROVE VfsInv'
    BY <1>5 DEF VfsInv
  <2>0. \A u \in Tasks : task[u].label # l
    BY <1>12
  <2>1. vfs[l] = None
    BY <1>8 DEF VfsInv
  <2>2. ASSUME NEW m \in Labels, vfs'[m] # None
        PROVE  ctx'[vfs'[m]] # None
    BY <1>0, <1>1, <1>5, <2>2 DEF VfsInv, Typed
  <2>3. ASSUME NEW u \in Tasks, task'[u].pc \in {"register", "erase_new"}
        PROVE  /\ vfs'[task'[u].label] = None
               /\ \A v \in Tasks \ {u} : task'[v].pc \in {"register", "erase_new"} =>
                    task'[v].label # task'[u].label
    <3>1. CASE u = t
      BY <1>5, <1>7, <2>0, <2>1, <3>1
    <3>2. CASE u # t
      <4>1. task'[u] = task[u]
        BY <1>7, <3>2
      <4>2. /\ vfs[task[u].label] = None
            /\ \A v \in Tasks \ {u} : task[v].pc \in {"register", "erase_new"} =>
                 task[v].label # task[u].label
        BY <2>3, <4>1 DEF VfsInv
      <4> QED
        BY <1>5, <1>7, <2>0, <4>1, <4>2
    <3> QED
      BY <3>1, <3>2
  <2>4. ASSUME NEW u \in Tasks, task'[u].pc = "erase_new"
        PROVE  /\ task'[u].n \in Slots' /\ efs'[task'[u].n] = task'[u].at
               /\ ctx'[task'[u].at] # None /\ ctx'[task'[u].at].label = task'[u].label
    <3>0. e # None
      BY <1>3, NoneAssumption DEF Bare
    <3>1. CASE u = t
      BY <1>2, <1>5, <1>6, <1>7, <1>10, <2>4, <3>0, <3>1
    <3>2. CASE u # t
      <4>1. task'[u] = task[u] /\ task[u].pc = "erase_new"
        BY <1>7, <2>4, <3>2
      <4>2. /\ task[u].n \in Slots /\ efs[task[u].n] = task[u].at
            /\ ctx[task[u].at] # None /\ ctx[task[u].at].label = task[u].label
        BY <4>1 DEF VfsInv
      <4>3. task[u].at \in Contexts /\ task[u].at # c
        BY <1>1, <4>1 DEF TaskInv
      <4>4. task[u].n # i
        BY <1>2, <4>2, <4>3, NoneAssumption
      <4> QED
        BY <1>5, <4>1, <4>2, <4>3, <4>4
    <3> QED
      BY <3>1, <3>2
  <2> QED
    BY <2>2, <2>3, <2>4 DEF VfsInv
<1>19. FineInv'
  <2> SUFFICES ASSUME Fine  PROVE FineInv'
    BY <1>5 DEF FineInv, Fine
  <2>0. \A u \in Tasks : task[u].label # l
    BY <1>12 DEF Fine
  <2>1. vfs[l] = None
    BY <1>8 DEF VfsInv, Fine
  <2>2. /\ \A h \in handle : h.label # l
        /\ \A v \in Tasks : dir[v] # None => dir[v].label # l
    BY <2>1 DEF HandleInv, FineInv, Fine
  <2>3. ASSUME NEW u \in Tasks, Formatting(u)' \/ task'[u].pc = "register"
        PROVE  /\ \A v \in Tasks \ {u} : task'[v].label # task'[u].label
               /\ \A h \in handle' : h.label # task'[u].label
               /\ \A v \in Tasks : dir'[v] # None => dir'[v].label # task'[u].label
    <3>1. CASE u = t
      BY <1>5, <1>7, <2>0, <2>2, <3>1
    <3>2. CASE u # t
      <4>1. task'[u] = task[u] /\ (Formatting(u) \/ task[u].pc = "register")
        BY <1>7, <2>3, <3>2 DEF Formatting
      <4>2. /\ \A v \in Tasks \ {u} : task[v].label # task[u].label
            /\ \A h \in handle : h.label # task[u].label
            /\ \A v \in Tasks : dir[v] # None => dir[v].label # task[u].label
        BY <4>1 DEF FineInv
      <4> QED
        BY <1>5, <1>7, <2>0, <4>1, <4>2
    <3> QED
      BY <3>1, <3>2
  <2>4. ASSUME NEW u \in Tasks, Formatting(u)'
        PROVE  /\ ctx'[task'[u].at] # None /\ ctx'[task'[u].at].label = task'[u].label
               /\ InSlot(task[u].at)'
    <3>0. e # None
      BY <1>3, NoneAssumption DEF Bare
    <3>1. CASE u = t
      <4>1. r.at = c
        BY <1>7, <1>9, <1>10, <2>4, <3>1 DEF Formatting
      <4>2. InSlot(c)'
        BY <1>2, <1>5 DEF InSlot
      <4>3. task'[u] = r
        BY <1>7, <3>1
      <4>4. InSlot(task[u].at)'
        BY <4>1, <4>2, <4>3 DEF InSlot
      <4> QED
        BY <1>5, <1>6, <3>0, <4>1, <4>3, <4>4
    <3>2. CASE u # t
      <4>1. task'[u] = task[u] /\ Formatting(u)
        BY <1>7, <2>4, <3>2 DEF Formatting
      <4>2. task[u].at \in Contexts /\ task[u].at # c /\ task[u].at # None
        BY <1>1, <4>1, NoneAssumption DEF TaskInv, Formatting
      <4>3. /\ ctx[task[u].at] # None /\ ctx[task[u].at].label = task[u].label
            /\ InSlot(task[u].at)
        BY <4>1 DEF FineInv
      <4>4. InSlot(task[u].at)'
        BY <1>15, <4>1, <4>2, <4>3 DEF InSlot
      <4> QED
        BY <1>5, <4>1, <4>2, <4>3, <4>4
    <3> QED
      BY <3>1, <3>2
  <2>5. ASSUME NEW j \in Slots', efs'[j] # None, ctx'[efs'[j]].cache = <<>>
        PROVE  \E u \in Tasks : Formatting(u)' /\ task'[u].at = efs'[j]
    <3>1. CASE j = i
      <4>1. cache = <<>>
        BY <1>3, <1>5, <2>5, <3>1
      <4>2. r.pc = "erase_new" /\ r.at = c
        BY <1>9, <1>10, <1>11, <4>1
      <4> QED
        BY <1>5, <1>7, <3>1, <4>2 DEF Formatting
    <3>2. CASE j # i
      <4>1. efs'[j] = efs[j] /\ efs[j] # None /\ j \in Slots
        BY <1>5, <2>5, <3>2
      <4>2. ctx[efs[j]].cache = <<>>
        BY <1>5, <1>14, <2>5, <4>1
      <4>3. PICK u \in Tasks : Formatting(u) /\ task[u].at = efs[j]
        BY <4>1, <4>2 DEF FineInv
      <4>4. u # t
        BY <4>3 DEF Formatting
      <4> QED
        BY <1>7, <4>1, <4>3, <4>4 DEF Formatting
    <3> QED
      BY <3>1, <3>2
  <2>6. fault' = FALSE
    BY <1>5 DEF FineInv
  <2>7. \A u \in Tasks : task'[u].pc # "erase"
    BY <1>7, <1>9 DEF FineInv
  <2>8. \A u \in Tasks : Truncating(u)' => vfs'[task'[u].label] = task'[u].at
    <3>1. \A u \in Tasks : Truncating(u)' => Truncating(u) /\ task'[u] = task[u]
      BY <1>7, <1>9 DEF Truncating
    <3> QED
      BY <1>5, <3>1 DEF FineInv
  <2>9. \A u \in Tasks : dir'[u] # None => vfs'[dir'[u].label] # None
    BY <1>5 DEF FineInv
  <2> QED
    BY <2>3, <2>4, <2>5, <2>6, <2>7, <2>8, <2>9 DEF FineInv
<1> QED
  BY <1>13, <1>16, <1>17, <1>18, <1>19

(* A context loses all that is open in it, and may go itself.              *)
Emptied(c) ==
  /\ \A d \in Contexts : d # c => ctx'[d] = ctx[d]
  /\ ctx'[c] = None \/ Bare(ctx'[c], ctx[c].label)
  /\ \A f \in Files : file'[f] = IF InContext(f, c) THEN None ELSE file[f]

(* Descriptors that are left are as they were, but for the file.           *)
HandlesLeft(c) ==
  \A g \in handle' : \E h \in handle :
    /\ g.label = h.label /\ g.fd = h.fd /\ vfs'[h.label] = vfs[h.label]
    /\ g.file = IF h.file # None /\ InContext(h.file, c) THEN None ELSE h.file

LEMMA FreeFdsLeaves ==
  ASSUME TypeOK, NEW c, FreeFds(c), UNCHANGED vfs
  PROVE  /\ \A f \in Files : file'[f] = IF InContext(f, c) THEN None ELSE file[f]
         /\ HandlesLeft(c)
<1>1. \A f \in Files : file'[f] = IF InContext(f, c) THEN None ELSE file[f]
  BY DEF FreeFds
<1>2. ASSUME NEW g \in handle'
      PROVE  \E h \in handle :
               /\ g.label = h.label /\ g.fd = h.fd /\ vfs'[h.label] = vfs[h.label]
               /\ g.file = IF h.file # None /\ InContext(h.file, c) THEN None ELSE h.file
  <2>1. PICK h \in handle :
          g = IF h.file # None /\ InContext(h.file, c) THEN [h EXCEPT !.file = None] ELSE h
    BY DEF FreeFds
  <2>2. h \in [label : Labels, fd : Nat, file : Files \cup {None}]
    BY DEF TypeOK
  <2>3. /\ g.label = h.label /\ g.fd = h.fd
        /\ g.file = IF h.file # None /\ InContext(h.file, c) THEN None ELSE h.file
    BY <2>1, <2>2
  <2> QED
    BY <2>3
<1> QED
  BY <1>1, <1>2 DEF HandlesLeft

LEMMA EmptiedFds ==
  ASSUME TypeOK, TypeOK', FdsInv, NEW c \in Contexts, ctx[c] # None, Emptied(c)
  PROVE  FdsInv'
<1>1. ASSUME NEW d \in Contexts, ctx'[d] # None
      PROVE  Agree(ctx'[d]) /\ \A f \in ToSet(ctx'[d].list) : InContext(f, d)'
  <2>1. CASE d = c
    BY <1>1, <2>1 DEF Emptied, Bare
  <2>2. CASE d # c
    <3>1. ctx'[d] = ctx[d] /\ ctx[d] # None
      BY <1>1, <2>2 DEF Emptied
    <3>2. Agree(ctx[d]) /\ \A f \in ToSet(ctx[d].list) : InContext(f, d)
      BY <3>1 DEF FdsInv
    <3>3. ToSet(ctx[d].list) \subseteq Files
      BY <3>1, TypesAre DEF Typed, ContextType, ToSet
    <3>4. \A f \in ToSet(ctx[d].list) : InContext(f, d)'
      BY <2>2, <3>2, <3>3 DEF Emptied, InContext
    <3> QED
      BY <3>1, <3>2, <3>4
  <2> QED
    BY <2>1, <2>2
<1>2. ASSUME NEW f \in Files, file'[f] # None
      PROVE  ctx'[file'[f].ctx] # None /\ f \in ToSet(ctx'[file'[f].ctx].list)
  <2>1. file'[f] = file[f] /\ ~InContext(f, c)
    BY <1>2 DEF Emptied
  <2>2. file[f].ctx \in Contexts /\ file[f].ctx # c
    BY <1>2, <2>1, TypesAre DEF InContext, Typed
  <2> QED
    BY <1>2, <2>1, <2>2 DEF FdsInv, Emptied
<1> QED
  BY <1>1, <1>2 DEF FdsInv

LEMMA EmptiedHandles ==
  ASSUME IInv, TypeOK', mishap # "format_in_use", UNCHANGED mishap,
         NEW c \in Contexts, ctx[c] # None, Emptied(c), HandlesLeft(c),
         ctx'[c] = None \/ \A h \in handle : vfs[h.label] # c,
         ctx'[c] = None \/ \A u \in Tasks : Truncating(u) => task[u].at # c,
         \A u \in Tasks : Truncating(u)' => Truncating(u) /\ task'[u] = task[u]
  PROVE  HandleInv'
<1> USE DEF IInv
<1>0. Typed
  BY TypesAre
<1>1. ASSUME NEW g \in handle'
      PROVE  /\ vfs'[g.label] # None
             /\ g.file = None => ctx'[vfs'[g.label]] = None
             /\ g.file # None => /\ ctx'[vfs'[g.label]] # None
                                 /\ InCache(vfs[g.label], g.fd, g.file)'
                                 /\ ~file'[g.file].closed
             /\ \A k \in handle' : g.label = k.label /\ g.fd = k.fd => g = k
  <2>1. PICK h \in handle :
          /\ g.label = h.label /\ g.fd = h.fd /\ vfs'[h.label] = vfs[h.label]
          /\ g.file = IF h.file # None /\ InContext(h.file, c) THEN None ELSE h.file
    BY DEF HandlesLeft
  <2>2. /\ vfs[h.label] # None /\ h.label \in Labels /\ h.fd \in Nat
        /\ h.file \in Files \cup {None}
    BY <1>0 DEF HandleInv, Typed
  <2>3. PICK d \in Contexts : vfs[h.label] = d /\ vfs'[g.label] = d
    BY <1>0, <2>1, <2>2 DEF Typed
  <2>4. /\ d # None
        /\ h.file = None => ctx[d] = None
        /\ h.file # None => /\ ctx[d] # None /\ InCache(d, h.fd, h.file)
                            /\ ~file[h.file].closed
        /\ \A k \in handle : h.label = k.label /\ h.fd = k.fd => h = k
    BY <2>2, <2>3 DEF HandleInv
  <2>5. ASSUME h.file # None  PROVE InContext(h.file, d)
    BY <2>2, <2>4, <2>5, InCacheIs DEF InCache
  <2>6. ASSUME d = c
        PROVE  /\ vfs'[g.label] # None
               /\ g.file = None => ctx'[vfs'[g.label]] = None
               /\ g.file # None => /\ ctx'[vfs'[g.label]] # None
                                   /\ InCache(vfs[g.label], g.fd, g.file)'
                                   /\ ~file'[g.file].closed
    <3>1. ctx'[d] = None
      BY <2>3, <2>6, <2>2
    <3>2. g.file = None
      BY <2>1, <2>5, <2>6
    <3> QED
      BY <2>3, <2>4, <3>1, <3>2
  <2>7. ASSUME d # c
        PROVE  /\ vfs'[g.label] # None
               /\ g.file = None => ctx'[vfs'[g.label]] = None
               /\ g.file # None => /\ ctx'[vfs'[g.label]] # None
                                   /\ InCache(vfs[g.label], g.fd, g.file)'
                                   /\ ~file'[g.file].closed
    <3>1. ctx'[d] = ctx[d]
      BY <2>7 DEF Emptied
    <3>2. g.file = h.file
      BY <2>1, <2>5, <2>7 DEF InContext
    <3>3. ASSUME g.file # None
          PROVE  ctx'[d] # None /\ InCache(d, g.fd, g.file)' /\ ~file'[g.file].closed
      <4>1. file'[h.file] = file[h.file]
        BY <2>2, <2>5, <2>7, <3>2, <3>3 DEF Emptied, InContext
      <4> QED
        BY <2>1, <2>4, <3>1, <3>2, <3>3, <4>1 DEF InCache, CacheSize
    <3>4. g.file = None => ctx'[d] = None
      BY <2>4, <3>1, <3>2
    <3> QED
      BY <2>3, <2>4, <3>3, <3>4 DEF InCache, CacheSize
  <2>8. ASSUME NEW k \in handle', g.label = k.label, g.fd = k.fd  PROVE g = k
    <3>1. PICK j \in handle :
            /\ k.label = j.label /\ k.fd = j.fd
            /\ k.file = IF j.file # None /\ InContext(j.file, c) THEN None ELSE j.file
      BY DEF HandlesLeft
    <3>2. j = h
      BY <2>1, <2>4, <2>8, <3>1
    <3>3. g.file = k.file
      BY <2>1, <3>1, <3>2
    <3>4. /\ g \in [label : Labels, fd : Nat, file : Files \cup {None}]
          /\ k \in [label : Labels, fd : Nat, file : Files \cup {None}]
      BY DEF TypeOK
    <3> QED
      BY <2>8, <3>3, <3>4
  <2> QED
    BY <2>6, <2>7, <2>8
<1>2. ASSUME NEW u \in Tasks, Truncating(u)', ctx'[task'[u].at] # None
      PROVE  /\ ctx'[task'[u].at].label = task'[u].label
             /\ task'[u].n < CacheSize(task[u].at)'
             /\ ctx'[task'[u].at].cache[task'[u].n + 1] # None
             /\ \A h \in handle' : vfs'[h.label] = task'[u].at => h.fd # task'[u].n
             /\ \A v \in Tasks \ {u} :
                  Truncating(v)' /\ task'[v].at = task'[u].at => task'[v].n # task'[u].n
  <2>1. Truncating(u) /\ task'[u] = task[u] /\ task[u].at \in Contexts
    BY <1>2 DEF TaskInv, Truncating
  <2>2. task[u].at # c
    BY <1>2, <2>1
  <2>3. ctx'[task[u].at] = ctx[task[u].at]
    BY <2>1, <2>2 DEF Emptied
  <2>4. /\ ctx[task[u].at].label = task[u].label
        /\ task[u].n < CacheSize(task[u].at)
        /\ ctx[task[u].at].cache[task[u].n + 1] # None
        /\ \A h \in handle : vfs[h.label] = task[u].at => h.fd # task[u].n
        /\ \A v \in Tasks \ {u} :
             Truncating(v) /\ task[v].at = task[u].at => task[v].n # task[u].n
    BY <1>2, <2>1, <2>3 DEF HandleInv
  <2>5. \A h \in handle' : vfs'[h.label] = task'[u].at => h.fd # task'[u].n
    BY <2>1, <2>4 DEF HandlesLeft
  <2> QED
    BY <2>1, <2>3, <2>4, <2>5 DEF CacheSize
<1> QED
  BY <1>1, <1>2 DEF HandleInv

(* A slot is given back, with its context.                                 *)
LEMMA FreedSlots ==
  ASSUME IInv, TypeOK', NEW i \in Slots, efs[i] # None, Emptied(efs[i]),
         efs' = [efs EXCEPT ![i] = None], ctx'[efs[i]] = None,
         \A l \in Labels : vfs'[l] \in {vfs[l], None}
  PROVE  /\ SlotInv' /\ Slots' = Slots
         /\ \A j \in Slots : efs[j] # None /\ j # i =>
              /\ efs[j] \in Contexts /\ efs[j] # efs[i] /\ ctx'[efs[j]] = ctx[efs[j]]
              /\ efs'[j] = efs[j]
         /\ efs'[i] = None
<1> USE DEF IInv
<1>0. Typed
  BY TypesAre
<1> DEFINE c == efs[i]
<1>1. c \in Contexts /\ c # None /\ ctx[c] # None
  BY <1>0 DEF Typed, SlotInv, OneSlotPerPartition
<1>2. Slots' = Slots /\ efs'[i] = None /\ \A j \in Slots : j # i => efs'[j] = efs[j]
  BY DEF TypeOK, Slots
<1>3. \A j \in Slots : efs[j] # None /\ j # i =>
        efs[j] \in Contexts /\ efs[j] # c /\ ctx'[efs[j]] = ctx[efs[j]]
  BY <1>0, <1>1 DEF Typed, SlotInv, OneSlotPerPartition, Emptied
<1> HIDE DEF c
<1>4. OneSlotPerPartition'
  BY <1>2, <1>3 DEF SlotInv, OneSlotPerPartition
<1>5. \A d : InSlot(d) /\ d # None /\ d # c => \E j \in Slots' : efs'[j] = d
  BY <1>2 DEF InSlot, c
<1>6. ctx'[c] = None /\ Emptied(c)
  BY DEF c
<1>7. ASSUME NEW l \in Labels, vfs'[l] # None, ctx'[vfs'[l]] # None
      PROVE  ctx'[vfs'[l]].label = l /\ InSlot(vfs[l])'
  <2>1. vfs'[l] = vfs[l] /\ vfs[l] \in Contexts /\ vfs[l] # c
    BY <1>0, <1>6, <1>7 DEF Typed
  <2>2. ctx'[vfs[l]] = ctx[vfs[l]]
    BY <1>6, <2>1 DEF Emptied
  <2>3. ctx[vfs[l]].label = l /\ InSlot(vfs[l])
    BY <1>7, <2>1, <2>2 DEF SlotInv
  <2>4. InSlot(vfs[l])'
    BY <1>5, <1>7, <2>1, <2>3 DEF InSlot
  <2> QED
    BY <2>1, <2>2, <2>3, <2>4
<1>8. ASSUME NEW f \in Files, file'[f] # None
      PROVE  InSlot(file[f].ctx)'
  <2>1. file'[f] = file[f] /\ ~InContext(f, c)
    BY <1>6, <1>8 DEF Emptied
  <2>2. /\ InSlot(file[f].ctx) /\ file[f].ctx # c /\ file[f].ctx \in Contexts
    BY <1>0, <1>8, <2>1 DEF InContext, SlotInv, Typed
  <2>3. file[f].ctx # None
    BY <2>2, NoneAssumption
  <2> QED
    BY <1>5, <2>1, <2>2, <2>3 DEF InSlot
<1>9. SlotInv'
  BY <1>4, <1>7, <1>8 DEF SlotInv
<1> QED
  BY <1>2, <1>3, <1>9 DEF c

(* A task gives back the slot of a partition it was bringing up, or a slot *)
(* is given back when a partition is registered twice.                     *)
LEMMA FreedStep ==
  ASSUME IInv, TypeOK', UNCHANGED <<vfs, mishap, fault>>,
         NEW i \in Slots, FreeSlot(i),
         NEW t \in Tasks, task'[t] \in {task[t], Idle},
         \A u \in Tasks : u # t => task'[u] = task[u],
         \A u \in Tasks : dir'[u] # None => dir[u] # None /\ dir'[u].label = dir[u].label,
         \/ mishap = "register_again"
         \/ /\ task[t].pc \in {"register", "erase_new"} /\ task'[t] = Idle
            /\ efs[i] # None /\ ctx[efs[i]].label = task[t].label
  PROVE  IInv'
<1> USE DEF IInv
<1>0. Typed /\ None \notin Labels
  BY TypesAre, NoneAssumption
<1>1. /\ Idle.pc = "idle" /\ Idle.label = None
      /\ \A u \in Tasks : task'[u] = task[u] \/ task'[u] = Idle
  BY DEF Idle
<1>2. \A u \in Tasks : Truncating(u)' => Truncating(u) /\ task'[u] = task[u]
  BY <1>1 DEF Truncating
<1>3. CASE efs[i] = None
  <2>1. mishap = "register_again"
    BY <1>3
  <2>2. UNCHANGED <<efs, ctx, handle, file, vfs, mishap>>
    <3>1. efs' = efs
      BY <1>3 DEF FreeSlot, TypeOK, Slots
    <3> QED
      BY <1>3, <3>1 DEF FreeSlot
  <2>3. Kept /\ SameFiles
    BY <1>2, <2>2 DEF Kept, SameFiles
  <2>4. TaskInv'
    BY <1>1, <2>3, KeptTasks DEF Apart
  <2>5. SlotInv'
    BY <2>2, <2>3, KeptSlots DEF SlotInv
  <2>6. FdsInv' /\ HandleInv'
    BY <2>3, SameFds, SameHandles
  <2>7. VfsInv' /\ FineInv'
    BY <2>1, <2>2 DEF VfsInv, FineInv, Fine
  <2> QED
    BY <2>4, <2>5, <2>6, <2>7
<1>4. CASE efs[i] # None
  <2> DEFINE c == efs[i]
  <2>1. c \in Contexts /\ ctx[c] # None
    BY <1>0, <1>4 DEF Typed, SlotInv, OneSlotPerPartition
  <2>2. /\ efs' = [efs EXCEPT ![i] = None] /\ ctx'[c] = None /\ FreeFds(c)
        /\ \A d \in Contexts : d # c => ctx'[d] = ctx[d]
    BY <1>4, <2>1 DEF FreeSlot, TypeOK
  <2>3. Emptied(c) /\ HandlesLeft(c)
    BY <2>2, FreeFdsLeaves DEF Emptied
  <2>4. /\ SlotInv' /\ Slots' = Slots
        /\ \A j \in Slots : efs[j] # None /\ j # i =>
             /\ efs[j] \in Contexts /\ efs[j] # c /\ ctx'[efs[j]] = ctx[efs[j]]
             /\ efs'[j] = efs[j]
        /\ efs'[i] = None
    BY <1>4, <2>2, <2>3, FreedSlots
  <2>5. FdsInv'
    BY <2>1, <2>3, EmptiedFds
  <2>6. HandleInv'
    <3>1. CASE mishap = "format_in_use"
      BY <3>1 DEF HandleInv
    <3>2. CASE mishap # "format_in_use"
      BY <1>2, <2>1, <2>2, <2>3, <3>2, EmptiedHandles
    <3> QED
      BY <3>1, <3>2
  <2>00. c # None
    BY <1>4
  <2> HIDE DEF c
  <2>7. TaskInv'
    <3>1. RemountInv'
      <4>1. \A u \in Tasks : InFormat(u)' => InFormat(u) /\ task'[u] = task[u]
        BY <1>1 DEF InFormat
      <4>2. \A u \in Tasks : InFormat(u) => task[u].at \in Contexts
        BY DEF TaskInv, InFormat
      <4>3. RemountInv
        BY DEF TaskInv
      <4> QED
        BY <2>2, <4>1, <4>2, <4>3 DEF RemountInv
    <3> QED
      BY <1>1, <2>4, <3>1 DEF TaskInv
  <2>8. CASE mishap = "register_again"
    <3>1. VfsInv' /\ FineInv'
      BY <2>8 DEF VfsInv, FineInv, Fine
    <3> QED
      BY <2>4, <2>5, <2>6, <2>7, <3>1
  <2>9. CASE mishap # "register_again"
    <3>1. /\ task[t].pc \in {"register", "erase_new"} /\ task'[t] = Idle
          /\ ctx[c].label = task[t].label /\ task[t].label \in Labels
      BY <2>9 DEF c, TaskInv
    <3>2. vfs[task[t].label] = None
      BY <2>9, <3>1 DEF VfsInv
    <3>3. ASSUME NEW l \in Labels, vfs[l] # None
          PROVE  vfs[l] \in Contexts /\ vfs[l] # c
      <4>1. vfs[l] \in Contexts /\ ctx[vfs[l]] # None
        BY <1>0, <2>9, <3>3 DEF VfsInv, Typed
      <4>2. ctx[vfs[l]].label = l
        BY <3>3, <4>1 DEF SlotInv
      <4> QED
        BY <3>1, <3>2, <3>3, <4>1, <4>2
    <3>4. \A u \in Tasks \ {t} : task[u].pc \in {"register", "erase_new"} =>
            task[u].label # task[t].label
      BY <2>9, <3>1 DEF VfsInv
    <3>5. VfsInv'
      <4>1. ASSUME NEW l \in Labels, vfs'[l] # None
            PROVE  ctx'[vfs'[l]] # None
        BY <2>2, <2>9, <3>3, <4>1 DEF VfsInv
      <4>2. ASSUME NEW u \in Tasks, task'[u].pc \in {"register", "erase_new"}
            PROVE  /\ vfs'[task'[u].label] = None
                   /\ \A v \in Tasks \ {u} : task'[v].pc \in {"register", "erase_new"} =>
                        task'[v].label # task'[u].label
        <5>1. task'[u] = task[u] /\ task[u].pc \in {"register", "erase_new"}
          BY <1>1, <4>2
        <5>2. /\ vfs[task[u].label] = None
              /\ \A v \in Tasks \ {u} : task[v].pc \in {"register", "erase_new"} =>
                   task[v].label # task[u].label
          BY <2>9, <5>1 DEF VfsInv
        <5>3. \A v \in Tasks : task'[v].pc \in {"register", "erase_new"} => task'[v] = task[v]
          BY <1>1
        <5> QED
          BY <5>1, <5>2, <5>3
      <4>3. ASSUME NEW u \in Tasks, task'[u].pc = "erase_new"
            PROVE  /\ task'[u].n \in Slots' /\ efs'[task'[u].n] = task'[u].at
                   /\ ctx'[task'[u].at] # None /\ ctx'[task'[u].at].label = task'[u].label
        <5>1. task'[u] = task[u] /\ task[u].pc = "erase_new" /\ u # t
          BY <1>1, <3>1, <4>3
        <5>2. /\ task[u].n \in Slots /\ efs[task[u].n] = task[u].at
              /\ ctx[task[u].at] # None /\ ctx[task[u].at].label = task[u].label
              /\ task[u].at \in Contexts
          BY <2>9, <5>1 DEF VfsInv, TaskInv
        <5>3. task[u].at # c
          BY <3>1, <3>4, <5>1, <5>2
        <5>4. task[u].n # i /\ efs[task[u].n] # None
          BY <5>2, <5>3, NoneAssumption DEF c
        <5> QED
          BY <2>4, <5>1, <5>2, <5>4
      <4> QED
        BY <4>1, <4>2, <4>3 DEF VfsInv
    <3>6. FineInv'
      <4> SUFFICES ASSUME Fine  PROVE FineInv'
        BY DEF FineInv, Fine
      <4>0. /\ \A v \in Tasks \ {t} : task[v].label # task[t].label
            /\ \A u \in Tasks : Truncating(u) => u # t
        BY <3>1 DEF FineInv, Formatting, Truncating
      <4>1. fault' = FALSE
        BY DEF FineInv
      <4>2. ASSUME NEW u \in Tasks, Formatting(u)' \/ task'[u].pc = "register"
            PROVE  /\ \A v \in Tasks \ {u} : task'[v].label # task'[u].label
                   /\ \A h \in handle' : h.label # task'[u].label
                   /\ \A v \in Tasks : dir'[v] # None => dir'[v].label # task'[u].label
        <5>1. /\ task'[u] = task[u] /\ (Formatting(u) \/ task[u].pc = "register")
              /\ task[u].label \in Labels
          BY <1>1, <4>2 DEF Formatting, TaskInv
        <5>2. /\ \A v \in Tasks \ {u} : task[v].label # task[u].label
              /\ \A h \in handle : h.label # task[u].label
              /\ \A v \in Tasks : dir[v] # None => dir[v].label # task[u].label
          BY <5>1 DEF FineInv
        <5>3. \A h \in handle' : h.label # task'[u].label
          BY <2>3, <5>1, <5>2 DEF HandlesLeft
        <5>4. \A v \in Tasks \ {u} : task'[v].label # task'[u].label
          BY <1>0, <1>1, <5>1, <5>2
        <5> QED
          BY <5>1, <5>2, <5>3, <5>4
      <4>3. ASSUME NEW u \in Tasks, Formatting(u)'
            PROVE  /\ ctx'[task'[u].at] # None /\ ctx'[task'[u].at].label = task'[u].label
                   /\ InSlot(task[u].at)'
        <5>1. task'[u] = task[u] /\ Formatting(u) /\ u # t
          BY <1>1, <3>1, <4>3 DEF Formatting
        <5>2. /\ ctx[task[u].at] # None /\ ctx[task[u].at].label = task[u].label
              /\ InSlot(task[u].at) /\ task[u].at \in Contexts
          BY <5>1 DEF FineInv, TaskInv, Formatting
        <5>3. task[u].at # c
          BY <3>1, <4>0, <5>1, <5>2
        <5>4. PICK j \in Slots : efs[j] = task[u].at
          BY <5>2 DEF InSlot
        <5>5. j # i /\ efs[j] # None
          BY <5>2, <5>3, <5>4, NoneAssumption DEF c
        <5>6. InSlot(task[u].at)'
          BY <2>4, <5>1, <5>4, <5>5 DEF InSlot
        <5> QED
          BY <2>4, <5>1, <5>2, <5>4, <5>5, <5>6
      <4>4. \A u \in Tasks : task'[u].pc # "erase"
        BY <1>1 DEF FineInv
      <4>5. \A u \in Tasks : Truncating(u)' => vfs'[task'[u].label] = task'[u].at
        BY <1>2 DEF FineInv
      <4>6. \A u \in Tasks : dir'[u] # None => vfs'[dir'[u].label] # None
        BY DEF FineInv
      <4>7. ASSUME NEW j \in Slots', efs'[j] # None, ctx'[efs'[j]].cache = <<>>
            PROVE  \E u \in Tasks : Formatting(u)' /\ task'[u].at = efs'[j]
        <5>1. j \in Slots /\ j # i
          BY <2>4, <4>7
        <5>2. efs[j] # None
          BY <2>2, <4>7, <5>1 DEF TypeOK, Slots
        <5>3. efs'[j] = efs[j] /\ ctx'[efs[j]] = ctx[efs[j]] /\ efs[j] # c
          BY <2>4, <5>1, <5>2
        <5>4. PICK u \in Tasks : Formatting(u) /\ task[u].at = efs[j]
          BY <4>7, <5>1, <5>2, <5>3 DEF FineInv
        <5>5. u # t
          <6> SUFFICES ASSUME u = t  PROVE FALSE
            OBVIOUS
          <6>1. ctx[efs[j]] # None /\ ctx[efs[j]].label = ctx[c].label
            BY <3>1, <5>4 DEF FineInv
          <6>2. efs[i] = c
            BY DEF c
          <6> QED
            BY <2>1, <2>00, <5>1, <5>2, <6>1, <6>2 DEF SlotInv, OneSlotPerPartition
        <5> QED
          BY <5>3, <5>4, <5>5 DEF Formatting
      <4> QED
        BY <4>1, <4>2, <4>3, <4>4, <4>5, <4>6, <4>7 DEF FineInv
    <3> QED
      BY <2>4, <2>5, <2>6, <2>7, <3>5, <3>6
  <2> QED
    BY <2>8, <2>9
<1> QED
  BY <1>3, <1>4

(* What calls that manage partitions may make of the state.                *)
TaskRecord ==
  [ pc : {"idle", "register", "erase", "erase_mounted", "erase_new",
          "remount", "truncate", "close"},
    label : Labels \cup {None}, at : Contexts \cup {None}, n : Nat ]

SlotChanges ==
  \/ efs' = efs
  \/ \E i \in Slots, c \in Contexts \cup {None} : efs' = [efs EXCEPT ![i] = c]

CtxChanges ==
  \/ ctx' = ctx
  \/ \E c \in Contexts, e \in ContextType \cup {None} : ctx' = [ctx EXCEPT ![c] = e]

VfsChanges ==
  \/ vfs' = vfs
  \/ \E l \in Labels, c \in Contexts \cup {None} : vfs' = [vfs EXCEPT ![l] = c]

DiskChanges ==
  \/ disk' = disk
  \/ \E l \in Labels, r \in {None, NS!Empty} : disk' = [disk EXCEPT ![l] = r]

FileChanges ==
  \/ file' = file
  \/ \E c \in Contexts : file' = [f \in Files |-> IF InContext(f, c) THEN None ELSE file[f]]

HandleChanges == \A g \in handle' : \E h \in handle : g = h \/ g = [h EXCEPT !.file = None]

TaskChanges ==
  \/ task' = task
  \/ \E t \in Tasks, r \in TaskRecord : task' = [task EXCEPT ![t] = r]

ManageChanges ==
  SlotChanges /\ CtxChanges /\ VfsChanges /\ DiskChanges /\ FileChanges /\ HandleChanges
    /\ TaskChanges

LEMMA ManagedTyped ==
  ASSUME TypeOK, ManageChanges, dir' \in [Tasks -> DirType \cup {None}], fault' \in BOOLEAN
  PROVE  TypeOK'
<1>1. efs' \in Seq(Contexts \cup {None}) /\ Len(efs') \in 1..MaxPartitions
  <2>1. efs \in Seq(Contexts \cup {None}) /\ Len(efs) \in 1..MaxPartitions
    BY DEF TypeOK
  <2>2. ASSUME NEW i \in Slots, NEW c \in Contexts \cup {None}
        PROVE  /\ [efs EXCEPT ![i] = c] \in Seq(Contexts \cup {None})
               /\ Len([efs EXCEPT ![i] = c]) = Len(efs)
    BY <2>1, <2>2 DEF Slots
  <2> QED
    BY <2>1, <2>2 DEF ManageChanges, SlotChanges
<1>2. ctx' \in [Contexts -> ContextType \cup {None}]
  BY DEF ManageChanges, CtxChanges, TypeOK
<1>3. vfs' \in [Labels -> Contexts \cup {None}]
  BY DEF ManageChanges, VfsChanges, TypeOK
<1>4. DOMAIN disk' = Labels /\ \A l \in Labels : disk'[l] # None => NS!IsDir(disk'[l], NS!Root)
  <2>1. NS!IsDir(NS!Empty, NS!Root)
    BY DEF NS!IsDir, NS!Empty
  <2> QED
    BY <2>1 DEF ManageChanges, DiskChanges, TypeOK
<1>5. file' \in [Files -> FileType \cup {None}]
  BY DEF ManageChanges, FileChanges, TypeOK
<1>6. handle' \subseteq [label : Labels, fd : Nat, file : Files \cup {None}]
  <2> SUFFICES ASSUME NEW g \in handle'
               PROVE  g \in [label : Labels, fd : Nat, file : Files \cup {None}]
    OBVIOUS
  <2>1. PICK h \in handle : g = h \/ g = [h EXCEPT !.file = None]
    BY DEF ManageChanges, HandleChanges
  <2>2. h \in [label : Labels, fd : Nat, file : Files \cup {None}]
    BY DEF TypeOK
  <2> QED
    BY <2>1, <2>2
<1>7. task' \in [Tasks -> TaskRecord]
  <2>1. task \in [Tasks -> TaskRecord]
    BY DEF TypeOK, TaskRecord
  <2> QED
    BY <2>1 DEF ManageChanges, TaskChanges
<1>8. (task \in [Tasks -> [pc : {"idle", "register", "erase", "erase_mounted", "erase_new",
                                 "remount", "truncate", "close"},
                           label : Labels \cup {None}, at : Contexts \cup {None}, n : Nat]])'
  BY <1>7 DEF TaskRecord
<1> QED
  BY <1>1, <1>2, <1>3, <1>4, <1>5, <1>6, <1>8 DEF TypeOK

LEMMA IdleTyped == Idle \in TaskRecord
  BY DEF Idle, TaskRecord

LEMMA FreeFdsChanges ==
  ASSUME NEW c \in Contexts, FreeFds(c)
  PROVE  FileChanges /\ HandleChanges
<1>1. FileChanges
  BY DEF FreeFds, FileChanges
<1>2. HandleChanges
  BY DEF FreeFds, HandleChanges
<1> QED
  BY <1>1, <1>2

LEMMA FreeSlotChanges ==
  ASSUME TypeOK, NEW i \in Slots, FreeSlot(i)
  PROVE  SlotChanges /\ CtxChanges /\ FileChanges /\ HandleChanges
<1>1. SlotChanges
  BY DEF FreeSlot, SlotChanges
<1>2. CASE efs[i] = None
  BY <1>1, <1>2 DEF FreeSlot, CtxChanges, FileChanges, HandleChanges
<1>3. CASE efs[i] # None
  <2>1. efs[i] \in Contexts
    BY <1>3, TypesAre DEF Typed
  <2>2. CtxChanges
    BY <1>3, <2>1 DEF FreeSlot, CtxChanges
  <2> QED
    BY <1>1, <1>3, <2>1, <2>2, FreeFdsChanges DEF FreeSlot
<1> QED
  BY <1>2, <1>3

LEMMA InitChanges ==
  ASSUME TypeOK, NEW l \in Labels, NEW c \in Heap, NEW cache \in {<<>>, EmptyCache},
         InitContext(l, c, cache)
  PROVE  /\ SlotChanges /\ CtxChanges /\ FileChanges /\ HandleChanges
         /\ Min(Vacancies) \in Slots
<1>1. Min(Vacancies) \in Slots
  <2>1. Vacancies \in SUBSET Nat /\ Vacancies # {}
    BY DEF InitContext, Vacancies, TypeOK, Slots
  <2>2. Min(Vacancies) \in Vacancies
    BY <2>1, MinIs
  <2> QED
    BY <2>2 DEF Vacancies
<1>2. c \in Contexts
  BY DEF Heap
<1>3. [NewContext(l) EXCEPT !.cache = cache] \in ContextType
  BY NewContextBare DEF Bare
<1>4. SlotChanges
  BY <1>1, <1>2 DEF InitContext, SlotChanges
<1>5. CtxChanges
  BY <1>2, <1>3 DEF InitContext, CtxChanges
<1> QED
  BY <1>1, <1>4, <1>5 DEF InitContext, FileChanges, HandleChanges

LEMMA RegisterInitStep ==
  ASSUME IInv, UNCHANGED mishap, NEW t \in Tasks, NEW l \in Labels, RegisterInit(t, l)
  PROVE  IInv'
<1> USE DEF IInv
<1>1. /\ task[t].pc = "idle" /\ UNCHANGED <<vfs, dir, fault>>
      /\ mishap = "register_again" \/ (~Registered(l) /\ ~Managed(l))
  BY DEF RegisterInit
<1>2. VfsChanges /\ dir' \in [Tasks -> DirType \cup {None}] /\ fault' \in BOOLEAN
  BY <1>1 DEF VfsChanges, TypeOK
<1>3. CASE InitRefused(l) /\ UNCHANGED <<task, disk>>
  <2>1. DiskChanges /\ TaskChanges
    BY <1>3 DEF DiskChanges, TaskChanges
  <2>2. CASE UNCHANGED <<efs, ctx, handle, file>>
    BY <1>1, <1>3, <2>2, StutterStep DEF vars
  <2>3. CASE Registered(l) /\ FreeSlot(Min(Labelled(l)))
    <3>1. Min(Labelled(l)) \in Slots
      BY <2>3, LabelledIs
    <3>2. TypeOK'
      BY <1>2, <2>1, <2>3, <3>1, FreeSlotChanges, ManagedTyped DEF ManageChanges
    <3> QED
      BY <1>1, <1>3, <2>3, <3>1, <3>2, FreedStep
  <2> QED
    BY <1>3, <2>2, <2>3 DEF InitRefused
<1>4. CASE InitOutOfMemory(l) /\ UNCHANGED <<task, disk>>
  <2>1. UNCHANGED <<efs, handle, file>>
    BY <1>4 DEF InitOutOfMemory
  <2>2. CASE UNCHANGED ctx
    BY <1>1, <1>4, <2>1, <2>2, StutterStep DEF vars
  <2>3. ASSUME NEW c \in Heap, ctx' = [ctx EXCEPT ![c] = NewContext(l)]
        PROVE  IInv'
    <3>1. Bare(NewContext(l), l)
      BY NewContextBare
    <3>2. c \in Contexts /\ NewContext(l) \in ContextType
      BY <3>1 DEF Heap, Bare
    <3>3. CtxChanges
      BY <2>3, <3>2 DEF CtxChanges
    <3>4. SlotChanges /\ FileChanges /\ HandleChanges /\ DiskChanges /\ TaskChanges
      BY <1>4, <2>1 DEF SlotChanges, FileChanges, HandleChanges, DiskChanges, TaskChanges
    <3>5. TypeOK'
      BY <1>2, <3>3, <3>4, ManagedTyped DEF ManageChanges
    <3> QED
      BY <1>1, <1>4, <2>1, <2>3, <3>1, <3>5, LeakedStep
  <2> QED
    BY <1>4, <2>2, <2>3 DEF InitOutOfMemory
<1>5. CASE /\ disk' \in {disk, [disk EXCEPT ![l] = None]}
           /\ UNCHANGED <<efs, ctx, handle, file, task>>
  <2>1. UNCHANGED <<efs, ctx, handle, file, task, vfs, dir, fault, mishap>>
    BY <1>1, <1>5
  <2>2. TypeOK'
    <3>1. DiskChanges
      BY <1>5 DEF DiskChanges
    <3>2. SlotChanges /\ CtxChanges /\ FileChanges /\ HandleChanges /\ TaskChanges
      BY <2>1 DEF SlotChanges, CtxChanges, FileChanges, HandleChanges, TaskChanges
    <3> QED
      BY <1>2, <3>1, <3>2, ManagedTyped DEF ManageChanges
  <2>3. Kept /\ SameFiles /\ UsesServed
    BY <2>1 DEF Kept, SameFiles, UsesServed, Truncating
  <2> QED
    BY <2>1, <2>2, <2>3, QuietStep
<1>6. CASE /\ \E c \in Heap, cache \in {<<>>, EmptyCache} :
                InitContext(l, c, cache) /\ (cache = EmptyCache \/ mishap = "dont_mount")
           /\ UNCHANGED disk \/ disk' = [disk EXCEPT ![l] = NS!Empty]
           /\ task' = [task EXCEPT ![t] = [pc |-> "register", label |-> l, at |-> None, n |-> 0]]
  <2>1. PICK c \in Heap, cache \in {<<>>, EmptyCache} :
          InitContext(l, c, cache) /\ (cache = EmptyCache \/ ~Fine)
    BY <1>6 DEF Fine
  <2> DEFINE r == [pc |-> "register", label |-> l, at |-> None, n |-> 0]
  <2>2. r \in TaskRecord /\ r.pc = "register" /\ r.label = l
    BY DEF TaskRecord
  <2>3. task' = [task EXCEPT ![t] = r]
    BY <1>6
  <2> HIDE DEF r
  <2>4. DiskChanges /\ TaskChanges
    BY <1>6, <2>2, <2>3 DEF DiskChanges, TaskChanges
  <2>5. UNCHANGED <<handle, file>>
    BY <2>1 DEF InitContext
  <2>6. TypeOK'
    BY <1>2, <2>1, <2>4, InitChanges, ManagedTyped DEF ManageChanges
  <2>7. mishap = "register_again" \/ ~Managed(l)
    BY <1>1
  <2> QED
    BY <1>1, <2>1, <2>2, <2>3, <2>5, <2>6, <2>7, InitStep
<1> QED
  BY <1>3, <1>4, <1>5, <1>6 DEF RegisterInit

(* A task that manages a partition goes on, or is done, and leaves the     *)
(* contexts and what is open as they are.                                  *)
LEMMA ManagerStep ==
  ASSUME IInv, TypeOK', Kept, SameFiles, fault' = fault \/ ~Fine,
         NEW t \in Tasks, \A u \in Tasks : u # t => task'[u] = task[u],
         \A u \in Tasks : dir'[u] # None => dir[u] # None /\ dir'[u].label = dir[u].label,
         \/ task'[t] = Idle /\ (task[t].pc = "register" \/ ~Fine)
         \/ /\ task[t].pc = "erase_mounted"
            /\ task'[t].pc = "remount" /\ task'[t].label = task[t].label
            /\ task'[t].at = task[t].at
  PROVE  IInv'
<1> USE DEF IInv
<1>0. Typed /\ None \notin Labels
  BY TypesAre, NoneAssumption
<1>1. Idle.pc = "idle" /\ Idle.label = None
  BY DEF Idle
<1>2. UNCHANGED <<efs, vfs, mishap, handle>> /\ Slots' = Slots
  BY DEF Kept, SameFiles, Slots
<1>3. \A u \in Tasks : InFormat(u)' =>
        InFormat(u) /\ task'[u].label = task[u].label /\ task'[u].at = task[u].at
  BY <1>1 DEF InFormat
<1>4. TaskInv'
  <2>1. \A u \in Tasks : InFormat(u) => task[u].at \in Contexts
    BY DEF TaskInv, InFormat
  <2>2. RemountInv
    BY DEF TaskInv
  <2>3. RemountInv'
    BY <1>3, <2>1, <2>2 DEF RemountInv, Kept
  <2> QED
    BY <1>1, <1>2, <2>3 DEF TaskInv
<1>5. SlotInv'
  <2>1. \A f \in Files : file'[f] # None => InSlot(file'[f].ctx)
    BY DEF SlotInv, SameFiles
  <2> QED
    BY <2>1, KeptSlots
<1>6. FdsInv' /\ HandleInv'
  BY SameFds, SameHandles
<1>7. VfsInv'
  <2>1. \A u \in Tasks : task'[u].pc \in {"register", "erase_new"} => task'[u] = task[u]
    BY <1>1
  <2> QED
    BY <2>1, KeptStands, StandingVfs
<1>8. FineInv'
  <2> SUFFICES ASSUME Fine  PROVE FineInv'
    BY <1>2 DEF FineInv, Fine
  <2>1. fault' = FALSE
    BY DEF FineInv
  <2>2. \A u \in Tasks : task'[u].label \in {task[u].label, None}
    BY <1>1
  <2>3. \A u \in Tasks : Formatting(u)' =>
          Formatting(u) /\ task'[u].label = task[u].label /\ task'[u].at = task[u].at
    BY <1>1 DEF Formatting
  <2>4. ASSUME NEW u \in Tasks, Formatting(u)' \/ task'[u].pc = "register"
        PROVE  /\ \A v \in Tasks \ {u} : task'[v].label # task'[u].label
               /\ \A h \in handle' : h.label # task'[u].label
               /\ \A v \in Tasks : dir'[v] # None => dir'[v].label # task'[u].label
    <3>1. /\ task'[u].label = task[u].label /\ (Formatting(u) \/ task[u].pc = "register")
      BY <1>1, <2>3, <2>4
    <3>2. task[u].label \in Labels
      BY <3>1 DEF TaskInv, Formatting
    <3>3. /\ \A v \in Tasks \ {u} : task[v].label # task[u].label
          /\ \A h \in handle : h.label # task[u].label
          /\ \A v \in Tasks : dir[v] # None => dir[v].label # task[u].label
      BY <3>1 DEF FineInv
    <3> QED
      BY <1>0, <1>2, <2>2, <3>1, <3>2, <3>3
  <2>5. ASSUME NEW u \in Tasks, Formatting(u)'
        PROVE  /\ ctx'[task'[u].at] # None /\ ctx'[task'[u].at].label = task'[u].label
               /\ InSlot(task[u].at)'
    <3>1. Formatting(u) /\ task'[u].label = task[u].label /\ task'[u].at = task[u].at
      BY <2>3, <2>5
    <3>2. /\ ctx[task[u].at] # None /\ ctx[task[u].at].label = task[u].label
          /\ InSlot(task[u].at) /\ task[u].at \in Contexts
      BY <3>1 DEF FineInv, TaskInv, Formatting
    <3> QED
      BY <1>2, <3>1, <3>2 DEF Kept, InSlot
  <2>6. \A u \in Tasks : task'[u].pc # "erase"
    BY <1>1 DEF FineInv
  <2>7. \A u \in Tasks : Truncating(u)' => vfs'[task'[u].label] = task'[u].at
    BY <1>2 DEF FineInv, SameFiles
  <2>8. \A u \in Tasks : dir'[u] # None => vfs'[dir'[u].label] # None
    BY <1>2 DEF FineInv
  <2>9. ASSUME NEW i \in Slots', efs'[i] # None, ctx'[efs'[i]].cache = <<>>
        PROVE  \E u \in Tasks : Formatting(u)' /\ task'[u].at = efs'[i]
    <3>1. i \in Slots /\ efs'[i] = efs[i] /\ efs[i] \in Contexts /\ ctx[efs[i]] # None
      BY <1>0, <1>2, <2>9 DEF Typed, SlotInv, OneSlotPerPartition
    <3>2. ctx[efs[i]].cache = <<>>
      BY <2>9, <3>1 DEF Kept
    <3>3. PICK u \in Tasks : Formatting(u) /\ task[u].at = efs[i]
      BY <2>9, <3>1, <3>2 DEF FineInv
    <3>4. Formatting(u)' /\ task'[u].at = task[u].at
      BY <3>3 DEF Formatting
    <3> QED
      BY <3>1, <3>3, <3>4
  <2> QED
    BY <2>1, <2>4, <2>5, <2>6, <2>7, <2>8, <2>9 DEF FineInv
<1> QED
  BY <1>4, <1>5, <1>6, <1>7, <1>8

(* The VFS is given the context of the partition.                          *)
LEMMA GivenToVfs ==
  ASSUME IInv, TypeOK', UNCHANGED <<efs, ctx, file, handle, dir, mishap, fault>>,
         NEW t \in Tasks, task[t].pc = "register",
         task'[t] = Idle, \A u \in Tasks : u # t => task'[u] = task[u],
         NEW l \in Labels, l = task[t].label, vfs[l] = None, Registered(l),
         vfs' = [vfs EXCEPT ![l] = ByLabel(l)]
  PROVE  IInv'
<1> USE DEF IInv
<1>0. Typed /\ None \notin Labels /\ None \notin Contexts
  BY TypesAre, NoneAssumption
<1>1. Idle.pc = "idle" /\ Idle.label = None
  BY DEF Idle
<1> DEFINE b == ByLabel(l)
<1>2. b \in Contexts /\ ctx[b] # None /\ ctx[b].label = l /\ InSlot(b)
  BY LabelledIs DEF InSlot
<1>3. vfs'[l] = b /\ \A m \in Labels : m # l => vfs'[m] = vfs[m]
  BY DEF TypeOK
<1> HIDE DEF b
<1>4. UNCHANGED <<efs, ctx, file, handle, dir, mishap, fault>> /\ Slots' = Slots
  BY DEF Slots
<1>5. \A u \in Tasks : task'[u] = task[u] \/ (task'[u].pc = "idle" /\ task'[u].label = None)
  BY <1>1
<1>6. TaskInv'
  <2>1. RemountInv
    BY DEF TaskInv
  <2>2. RemountInv'
    BY <1>4, <1>5, <2>1 DEF RemountInv, InFormat
  <2> QED
    BY <1>4, <1>5, <2>2 DEF TaskInv
<1>7. SlotInv'
  <2>1. OneSlotPerPartition'
    BY <1>4 DEF SlotInv, OneSlotPerPartition
  <2>2. ASSUME NEW m \in Labels, vfs'[m] # None, ctx'[vfs'[m]] # None
        PROVE  ctx'[vfs'[m]].label = m /\ InSlot(vfs[m])'
    <3>1. CASE m = l
      BY <1>2, <1>3, <1>4, <3>1 DEF InSlot
    <3>2. CASE m # l
      BY <1>3, <1>4, <2>2, <3>2 DEF SlotInv, InSlot
    <3> QED
      BY <3>1, <3>2
  <2>3. \A f \in Files : file'[f] # None => InSlot(file[f].ctx)'
    BY <1>4 DEF SlotInv, InSlot
  <2> QED
    BY <2>1, <2>2, <2>3 DEF SlotInv
<1>8. FdsInv'
  BY <1>4 DEF FdsInv, InContext
<1>9. \A u \in Tasks : Truncating(u)' => Truncating(u) /\ task'[u] = task[u]
  BY <1>5 DEF Truncating
<1>10. HandleInv'
  <2> SUFFICES ASSUME mishap # "format_in_use"  PROVE HandleInv'
    BY <1>4 DEF HandleInv
  <2>1. \A h \in handle : h.label # l /\ vfs'[h.label] = vfs[h.label]
    BY <1>0, <1>3 DEF HandleInv, Typed
  <2>2. ASSUME NEW h \in handle'
        PROVE  /\ vfs'[h.label] # None
               /\ h.file = None => ctx'[vfs'[h.label]] = None
               /\ h.file # None => /\ ctx'[vfs'[h.label]] # None
                                   /\ InCache(vfs[h.label], h.fd, h.file)'
                                   /\ ~file'[h.file].closed
               /\ \A k \in handle' : h.label = k.label /\ h.fd = k.fd => h = k
    <3>1. h \in handle /\ vfs'[h.label] = vfs[h.label]
      BY <1>4, <2>1, <2>2
    <3>2. /\ vfs[h.label] # None
          /\ h.file = None => ctx[vfs[h.label]] = None
          /\ h.file # None => /\ ctx[vfs[h.label]] # None
                              /\ InCache(vfs[h.label], h.fd, h.file)
                              /\ ~file[h.file].closed
          /\ \A k \in handle : h.label = k.label /\ h.fd = k.fd => h = k
      BY <3>1 DEF HandleInv
    <3> QED
      BY <1>4, <3>1, <3>2 DEF InCache, CacheSize
  <2>3. ASSUME NEW u \in Tasks, Truncating(u)', ctx'[task'[u].at] # None
        PROVE  /\ ctx'[task'[u].at].label = task'[u].label
               /\ task'[u].n < CacheSize(task[u].at)'
               /\ ctx'[task'[u].at].cache[task'[u].n + 1] # None
               /\ \A h \in handle' : vfs'[h.label] = task'[u].at => h.fd # task'[u].n
               /\ \A v \in Tasks \ {u} :
                    Truncating(v)' /\ task'[v].at = task'[u].at => task'[v].n # task'[u].n
    <3>1. Truncating(u) /\ task'[u] = task[u] /\ ctx[task[u].at] # None
      BY <1>4, <1>9, <2>3
    <3>2. /\ ctx[task[u].at].label = task[u].label
          /\ task[u].n < CacheSize(task[u].at)
          /\ ctx[task[u].at].cache[task[u].n + 1] # None
          /\ \A h \in handle : vfs[h.label] = task[u].at => h.fd # task[u].n
          /\ \A v \in Tasks \ {u} :
               Truncating(v) /\ task[v].at = task[u].at => task[v].n # task[u].n
      BY <3>1 DEF HandleInv
    <3> QED
      BY <1>4, <1>9, <2>1, <3>1, <3>2 DEF CacheSize
  <2> QED
    BY <2>2, <2>3 DEF HandleInv
<1>11. VfsInv'
  <2> SUFFICES ASSUME mishap # "register_again"  PROVE VfsInv'
    BY <1>4 DEF VfsInv
  <2>1. \A m \in Labels : vfs'[m] # None => ctx'[vfs'[m]] # None
    BY <1>2, <1>3, <1>4 DEF VfsInv
  <2>2. ASSUME NEW u \in Tasks, task'[u].pc \in {"register", "erase_new"}
        PROVE  /\ vfs'[task'[u].label] = None
               /\ \A v \in Tasks \ {u} : task'[v].pc \in {"register", "erase_new"} =>
                    task'[v].label # task'[u].label
    <3>1. task'[u] = task[u] /\ task[u].label \in Labels /\ u # t
      BY <1>1, <1>5, <2>2 DEF TaskInv
    <3>2. /\ vfs[task[u].label] = None
          /\ \A v \in Tasks \ {u} : task[v].pc \in {"register", "erase_new"} =>
               task[v].label # task[u].label
      BY <2>2, <3>1 DEF VfsInv
    <3>3. task[u].label # l
      BY <3>1, <3>2
    <3> QED
      BY <1>3, <1>5, <3>1, <3>2, <3>3
  <2>3. ASSUME NEW u \in Tasks, task'[u].pc = "erase_new"
        PROVE  /\ task'[u].n \in Slots' /\ efs'[task'[u].n] = task'[u].at
               /\ ctx'[task'[u].at] # None /\ ctx'[task'[u].at].label = task'[u].label
    <3>1. task'[u] = task[u]
      BY <1>5, <2>3
    <3> QED
      BY <1>4, <2>3, <3>1 DEF VfsInv
  <2> QED
    BY <2>1, <2>2, <2>3 DEF VfsInv
<1>12. FineInv'
  <2> SUFFICES ASSUME Fine  PROVE FineInv'
    BY <1>4 DEF FineInv, Fine
  <2>1. fault' = FALSE /\ \A u \in Tasks : task'[u].pc # "erase"
    BY <1>4, <1>5 DEF FineInv
  <2>2. ASSUME NEW u \in Tasks, Formatting(u)' \/ task'[u].pc = "register"
        PROVE  /\ \A v \in Tasks \ {u} : task'[v].label # task'[u].label
               /\ \A h \in handle' : h.label # task'[u].label
               /\ \A v \in Tasks : dir'[v] # None => dir'[v].label # task'[u].label
    <3>1. task'[u] = task[u] /\ (Formatting(u) \/ task[u].pc = "register")
      BY <1>5, <2>2 DEF Formatting
    <3>2. task[u].label \in Labels
      BY <3>1 DEF TaskInv, Formatting
    <3>3. /\ \A v \in Tasks \ {u} : task[v].label # task[u].label
          /\ \A h \in handle : h.label # task[u].label
          /\ \A v \in Tasks : dir[v] # None => dir[v].label # task[u].label
      BY <3>1 DEF FineInv
    <3> QED
      BY <1>0, <1>4, <1>5, <3>1, <3>2, <3>3
  <2>3. ASSUME NEW u \in Tasks, Formatting(u)'
        PROVE  /\ ctx'[task'[u].at] # None /\ ctx'[task'[u].at].label = task'[u].label
               /\ InSlot(task[u].at)'
    <3>1. task'[u] = task[u] /\ Formatting(u)
      BY <1>5, <2>3 DEF Formatting
    <3> QED
      BY <1>4, <3>1 DEF FineInv, InSlot
  <2>4. ASSUME NEW u \in Tasks, Truncating(u)'
        PROVE  vfs'[task'[u].label] = task'[u].at
    <3>1. /\ Truncating(u) /\ task'[u] = task[u] /\ task[u].label \in Labels
          /\ task[u].at \in Contexts
      BY <1>9, <2>4 DEF TaskInv, Truncating
    <3>2. vfs[task[u].label] = task[u].at
      BY <3>1 DEF FineInv
    <3> QED
      BY <1>0, <1>3, <3>1, <3>2
  <2>5. \A u \in Tasks : dir'[u] # None => vfs'[dir'[u].label] # None
    BY <1>0, <1>3, <1>4 DEF FineInv, Typed
  <2>6. ASSUME NEW i \in Slots', efs'[i] # None, ctx'[efs'[i]].cache = <<>>
        PROVE  \E u \in Tasks : Formatting(u)' /\ task'[u].at = efs'[i]
    <3>1. PICK u \in Tasks : Formatting(u) /\ task[u].at = efs[i]
      BY <1>4, <2>6 DEF FineInv
    <3>2. u # t
      BY <3>1 DEF Formatting
    <3> QED
      BY <1>4, <3>1, <3>2 DEF Formatting
  <2> QED
    BY <2>1, <2>2, <2>3, <2>4, <2>5, <2>6 DEF FineInv
<1> QED
  BY <1>6, <1>7, <1>8, <1>10, <1>11, <1>12

LEMMA RegisterVfsStep ==
  ASSUME IInv, UNCHANGED mishap, NEW t \in Tasks, RegisterVfs(t)
  PROVE  IInv'
<1> USE DEF IInv
<1> DEFINE l == task[t].label
<1>1. /\ task[t].pc = "register" /\ UNCHANGED <<disk, dir, fault>> /\ l \in Labels
      /\ task' = [task EXCEPT ![t] = Idle]
  BY DEF RegisterVfs, TaskInv
<1>2. task'[t] = Idle /\ \A u \in Tasks : u # t => task'[u] = task[u]
  BY <1>1 DEF TypeOK
<1>3. /\ DiskChanges /\ TaskChanges /\ dir' \in [Tasks -> DirType \cup {None}]
      /\ fault' \in BOOLEAN
  BY <1>1, IdleTyped DEF DiskChanges, TaskChanges, TypeOK
<1>4. ASSUME UNCHANGED <<efs, ctx, handle, file, vfs>>  PROVE IInv'
  <2>1. SlotChanges /\ CtxChanges /\ VfsChanges /\ FileChanges /\ HandleChanges
    BY <1>4 DEF SlotChanges, CtxChanges, VfsChanges, FileChanges, HandleChanges
  <2>2. TypeOK'
    BY <1>3, <2>1, ManagedTyped DEF ManageChanges
  <2>3. \A u \in Tasks : Truncating(u)' => Truncating(u) /\ task'[u] = task[u]
    BY <1>2 DEF Truncating, Idle
  <2>4. Kept /\ SameFiles
    BY <1>4, <2>3 DEF Kept, SameFiles
  <2> QED
    BY <1>1, <1>2, <2>2, <2>4, ManagerStep
<1>5. ASSUME /\ Registered(l) /\ UNCHANGED <<efs, ctx, handle, file>>
             /\ vfs' = [vfs EXCEPT ![l] = IF vfs[l] = None THEN ByLabel(l) ELSE vfs[l]]
      PROVE  IInv'
  <2>1. CASE vfs[l] # None
    <3>1. vfs' = vfs
      BY <1>1, <1>5, <2>1 DEF TypeOK
    <3> QED
      BY <1>4, <1>5, <3>1
  <2>2. CASE vfs[l] = None
    <3>1. vfs' = [vfs EXCEPT ![l] = ByLabel(l)]
      BY <1>5, <2>2
    <3>2. ByLabel(l) \in Contexts
      BY <1>1, <1>5, LabelledIs
    <3>3. VfsChanges
      BY <1>1, <3>1, <3>2 DEF VfsChanges
    <3>4. SlotChanges /\ CtxChanges /\ FileChanges /\ HandleChanges
      BY <1>5 DEF SlotChanges, CtxChanges, FileChanges, HandleChanges
    <3>5. TypeOK'
      BY <1>3, <3>3, <3>4, ManagedTyped DEF ManageChanges
    <3> QED
      BY <1>1, <1>2, <1>5, <2>2, <3>1, <3>5, GivenToVfs
  <2> QED
    BY <2>1, <2>2
<1>6. ASSUME Registered(l), FreeSlot(Min(Labelled(l))), UNCHANGED vfs
      PROVE  IInv'
  <2>1. /\ Min(Labelled(l)) \in Slots /\ efs[Min(Labelled(l))] # None
        /\ ctx[efs[Min(Labelled(l))]].label = l
    BY <1>1, <1>6, LabelledIs
  <2>2. VfsChanges
    BY <1>6 DEF VfsChanges
  <2>3. TypeOK'
    BY <1>3, <1>6, <2>1, <2>2, FreeSlotChanges, ManagedTyped DEF ManageChanges
  <2> QED
    BY <1>1, <1>2, <1>6, <2>1, <2>3, FreedStep
<1> QED
  BY <1>4, <1>5, <1>6 DEF RegisterVfs

LEMMA UnregisterStep ==
  ASSUME IInv, UNCHANGED mishap, NEW t \in Tasks, NEW l \in Labels, Unregister(t, l)
  PROVE  IInv'
<1> USE DEF IInv
<1>0. Typed /\ None \notin Labels /\ None \notin Contexts
  BY TypesAre, NoneAssumption
<1> DEFINE c == ByLabel(l)
           i == Min(Labelled(l))
<1>1. /\ Registered(l) /\ vfs[l] # None
      /\ mishap = "unregister_in_use" \/ ~InUse(l)
      /\ vfs' = [vfs EXCEPT ![l] = None] /\ efs' = [efs EXCEPT ![i] = None]
      /\ ctx' = [ctx EXCEPT ![c] = None]
      /\ file' = [f \in Files |-> IF InContext(f, c) THEN None ELSE file[f]]
      /\ handle' = {h \in handle : h.label # l}
      /\ dir' = [u \in Tasks |-> IF dir[u] # None /\ dir[u].label = l THEN None ELSE dir[u]]
      /\ UNCHANGED <<disk, task, fault, mishap>>
  BY DEF Unregister
<1>2. /\ i \in Slots /\ efs[i] = c /\ c \in Contexts /\ c # None
      /\ ctx[c] # None /\ ctx[c].label = l
  BY <1>1, LabelledIs
<1> HIDE DEF c, i
<1>3. /\ ctx'[c] = None /\ \A d \in Contexts : d # c => ctx'[d] = ctx[d]
      /\ vfs'[l] = None /\ \A m \in Labels : m # l => vfs'[m] = vfs[m]
  BY <1>1, <1>2 DEF TypeOK
<1>4. TypeOK'
  <2>1. SlotChanges /\ CtxChanges /\ VfsChanges /\ FileChanges
    BY <1>1, <1>2 DEF SlotChanges, CtxChanges, VfsChanges, FileChanges
  <2>2. HandleChanges /\ DiskChanges /\ TaskChanges
    BY <1>1 DEF HandleChanges, DiskChanges, TaskChanges
  <2>3. dir' \in [Tasks -> DirType \cup {None}] /\ fault' \in BOOLEAN
    BY <1>1 DEF TypeOK
  <2> QED
    BY <2>1, <2>2, <2>3, ManagedTyped DEF ManageChanges
<1>5. Emptied(c)
  BY <1>1, <1>3 DEF Emptied
<1>6. /\ SlotInv' /\ Slots' = Slots
      /\ \A j \in Slots : efs[j] # None /\ j # i =>
           /\ efs[j] \in Contexts /\ efs[j] # c /\ ctx'[efs[j]] = ctx[efs[j]]
           /\ efs'[j] = efs[j]
      /\ efs'[i] = None
  <2>1. \A m \in Labels : vfs'[m] \in {vfs[m], None}
    BY <1>3
  <2> QED
    <3>1. i \in Slots /\ efs[i] # None /\ Emptied(efs[i]) /\ ctx'[efs[i]] = None
      BY <1>2, <1>3, <1>5
    <3>2. efs' = [efs EXCEPT ![i] = None]
      BY <1>1
    <3>3. efs[i] = c
      BY <1>2
    <3> QED
      BY <1>4, <2>1, <3>1, <3>2, <3>3, FreedSlots
<1>7. FdsInv'
  BY <1>2, <1>4, <1>5, EmptiedFds
<1>8. HandleInv'
  <2> SUFFICES ASSUME mishap # "format_in_use"  PROVE HandleInv'
    BY <1>1 DEF HandleInv
  <2>1. HandlesLeft(c)
    <3> SUFFICES ASSUME NEW h \in handle'
                 PROVE  /\ h \in handle /\ vfs'[h.label] = vfs[h.label]
                        /\ ~(h.file # None /\ InContext(h.file, c))
      BY DEF HandlesLeft
    <3>1. h \in handle /\ h.label # l /\ h.label \in Labels /\ h.fd \in Nat
      BY <1>0, <1>1 DEF Typed
    <3>2. ASSUME h.file # None, InContext(h.file, c)  PROVE FALSE
      <4>1. PICK d \in Contexts : vfs[h.label] = d
        BY <1>0, <3>1, <3>2 DEF HandleInv, Typed
      <4>2. d # None /\ ctx[d] # None /\ InCache(d, h.fd, h.file)
        BY <3>1, <3>2, <4>1 DEF HandleInv
      <4>3. InContext(h.file, d)
        BY <3>1, <4>2, InCacheIs DEF InCache
      <4>4. d = c
        BY <3>2, <4>3 DEF InContext
      <4>5. ctx[d].label = h.label
        BY <3>1, <4>1, <4>2 DEF SlotInv
      <4> QED
        BY <1>2, <3>1, <4>4, <4>5
    <3> QED
      BY <1>3, <3>1, <3>2
  <2>2. \A u \in Tasks : Truncating(u)' => Truncating(u) /\ task'[u] = task[u]
    BY <1>1 DEF Truncating
  <2> QED
    BY <1>1, <1>2, <1>3, <1>4, <1>5, <2>1, <2>2, EmptiedHandles
<1>9. TaskInv'
  <2>1. RemountInv /\ \A u \in Tasks : InFormat(u) => task[u].at \in Contexts
    BY DEF TaskInv, InFormat
  <2>2. RemountInv'
    BY <1>1, <1>3, <2>1 DEF RemountInv, InFormat
  <2> QED
    BY <1>1, <1>6, <2>2 DEF TaskInv
<1>10. VfsInv'
  <2> SUFFICES ASSUME mishap # "register_again"  PROVE VfsInv'
    BY <1>1 DEF VfsInv
  <2>1. ASSUME NEW m \in Labels, vfs'[m] # None
        PROVE  ctx'[vfs'[m]] # None
    <3>1. m # l /\ vfs'[m] = vfs[m]
      BY <1>3, <2>1
    <3>2. vfs[m] \in Contexts /\ ctx[vfs[m]] # None
      BY <1>0, <2>1, <3>1 DEF VfsInv, Typed
    <3>3. ctx[vfs[m]].label = m
      BY <2>1, <3>1, <3>2 DEF SlotInv
    <3>4. vfs[m] # c
      BY <1>2, <3>1, <3>3
    <3> QED
      BY <1>3, <3>1, <3>2, <3>4
  <2>2. ASSUME NEW u \in Tasks, task[u].pc \in {"register", "erase_new"}
        PROVE  /\ vfs'[task[u].label] = None
               /\ \A v \in Tasks \ {u} : task[v].pc \in {"register", "erase_new"} =>
                    task[v].label # task[u].label
    <3>1. vfs[task[u].label] = None /\ task[u].label \in Labels
      BY <2>2 DEF VfsInv, TaskInv
    <3> QED
      BY <1>3, <2>2, <3>1 DEF VfsInv
  <2>3. ASSUME NEW u \in Tasks, task[u].pc = "erase_new"
        PROVE  /\ task[u].n \in Slots' /\ efs'[task[u].n] = task[u].at
               /\ ctx'[task[u].at] # None /\ ctx'[task[u].at].label = task[u].label
    <3>1. /\ task[u].n \in Slots /\ efs[task[u].n] = task[u].at
          /\ ctx[task[u].at] # None /\ ctx[task[u].at].label = task[u].label
          /\ vfs[task[u].label] = None /\ task[u].at \in Contexts
      BY <2>3 DEF VfsInv, TaskInv
    <3>2. task[u].at # c
      BY <1>1, <1>2, <3>1
    <3>3. task[u].n # i /\ efs[task[u].n] # None
      BY <1>0, <1>2, <3>1, <3>2
    <3> QED
      BY <1>6, <3>1, <3>3
  <2> QED
    BY <1>1, <2>1, <2>2, <2>3 DEF VfsInv
<1>11. FineInv'
  <2> SUFFICES ASSUME Fine  PROVE FineInv'
    BY <1>1 DEF FineInv, Fine
  <2>1. /\ \A u \in Tasks : task[u].label # l
        /\ \A u \in Tasks : dir[u] # None => dir[u].label # l
        /\ \A h \in handle : h.label # l
    BY <1>1 DEF Fine, InUse, Managed
  <2>2. handle' = handle /\ dir' = dir /\ task' = task /\ fault' = fault
    BY <1>1, <2>1 DEF TypeOK
  <2>3. ASSUME NEW u \in Tasks, Formatting(u)'
        PROVE  /\ ctx'[task'[u].at] # None /\ ctx'[task'[u].at].label = task'[u].label
               /\ InSlot(task[u].at)'
    <3>1. Formatting(u) /\ task[u].at \in Contexts
      BY <2>2, <2>3 DEF Formatting, TaskInv
    <3>2. /\ ctx[task[u].at] # None /\ ctx[task[u].at].label = task[u].label
          /\ InSlot(task[u].at)
      BY <3>1 DEF FineInv
    <3>3. task[u].at # c
      BY <1>2, <2>1, <3>2
    <3>4. PICK j \in Slots : efs[j] = task[u].at
      BY <3>2 DEF InSlot
    <3>5. j # i /\ efs[j] # None
      BY <1>0, <1>2, <3>1, <3>3, <3>4
    <3>6. InSlot(task[u].at)'
      BY <1>6, <2>2, <3>4, <3>5 DEF InSlot
    <3> QED
      BY <1>6, <2>2, <3>2, <3>4, <3>5, <3>6
  <2>4. ASSUME NEW u \in Tasks, Truncating(u)'
        PROVE  vfs'[task'[u].label] = task'[u].at
    <3>1. Truncating(u) /\ task[u].label \in Labels /\ task[u].label # l
      BY <2>1, <2>2, <2>4 DEF Truncating, TaskInv
    <3> QED
      BY <1>3, <2>2, <3>1 DEF FineInv
  <2>5. ASSUME NEW u \in Tasks, dir'[u] # None
        PROVE  vfs'[dir'[u].label] # None
    <3>1. dir[u] # None /\ dir[u].label \in Labels /\ dir[u].label # l
      BY <1>0, <2>1, <2>2, <2>5 DEF Typed
    <3> QED
      BY <1>3, <2>2, <3>1 DEF FineInv
  <2>6. ASSUME NEW j \in Slots', efs'[j] # None, ctx'[efs'[j]].cache = <<>>
        PROVE  \E u \in Tasks : Formatting(u)' /\ task'[u].at = efs'[j]
    <3>1. j \in Slots /\ j # i
      BY <1>6, <2>6
    <3>2. efs[j] # None
      BY <1>1, <2>6, <3>1 DEF TypeOK, Slots
    <3>3. efs'[j] = efs[j] /\ ctx[efs[j]].cache = <<>>
      BY <1>6, <2>6, <3>1, <3>2
    <3>4. PICK u \in Tasks : Formatting(u) /\ task[u].at = efs[j]
      BY <3>1, <3>2, <3>3 DEF FineInv
    <3> QED
      BY <2>2, <3>3, <3>4 DEF Formatting
  <2>7. \A u \in Tasks : Formatting(u)' \/ task'[u].pc = "register" =>
          /\ \A v \in Tasks \ {u} : task'[v].label # task'[u].label
          /\ \A h \in handle' : h.label # task'[u].label
          /\ \A v \in Tasks : dir'[v] # None => dir'[v].label # task'[u].label
    BY <2>2 DEF FineInv, Formatting
  <2>8. fault' = FALSE /\ \A u \in Tasks : task'[u].pc # "erase"
    BY <2>2 DEF FineInv
  <2> QED
    BY <2>3, <2>4, <2>5, <2>6, <2>7, <2>8 DEF FineInv
<1> QED
  BY <1>4, <1>6, <1>7, <1>8, <1>9, <1>10, <1>11

(* A partition that was registered is about to be formatted.               *)
LEMMA UnmountStep ==
  ASSUME IInv, TypeOK', UNCHANGED <<efs, vfs, dir, fault, mishap>>,
         NEW t \in Tasks, task[t].pc = "idle", NEW l \in Labels, Registered(l),
         NEW c, c = ByLabel(l),
         \/ ~InUse(l)
         \/ mishap = "format_in_use" /\ \A u \in Tasks : task[u].at = c => Truncating(u),
         ctx' = [ctx EXCEPT ![c] = [NewContext(l) EXCEPT !.holder = ctx[c].holder]],
         FreeFds(c),
         NEW r, task' = [task EXCEPT ![t] = r], r.label = l, r.at = c,
         r.pc = IF ctx[c].cache = <<>> THEN "erase" ELSE "erase_mounted"
  PROVE  IInv'
<1> USE DEF IInv
<1>0. Typed /\ None \notin Labels /\ None \notin Contexts
  BY TypesAre, NoneAssumption
<1> DEFINE e == [NewContext(l) EXCEPT !.holder = ctx[c].holder]
<1>1. /\ c \in Contexts /\ c # None /\ ctx[c] # None /\ ctx[c].label = l /\ InSlot(c)
  BY LabelledIs DEF InSlot
<1>2. Bare(e, l) /\ e.cache = <<>> /\ e # None
  <2>1. ctx[c].holder \in Tasks \cup {None}
    BY <1>0, <1>1 DEF Typed, ContextType
  <2>2. e = [label |-> l, cache |-> <<>>, list |-> <<>>, fd_count |-> 0,
             holder |-> ctx[c].holder]
    BY DEF NewContext
  <2>3. Bare(e, l)
    BY <2>1, <2>2, BareIs
  <2>4. e # None
    BY <2>3, NoneAssumption DEF Bare
  <2> QED
    BY <2>2, <2>3, <2>4
<1>3. ctx' = [ctx EXCEPT ![c] = e]
  OBVIOUS
<1> HIDE DEF e
<1>4. ctx'[c] = e /\ \A d \in Contexts : d # c => ctx'[d] = ctx[d]
  BY <1>1, <1>3 DEF TypeOK
<1>5. UNCHANGED <<efs, vfs, dir, fault, mishap>> /\ Slots' = Slots
  BY DEF Slots
<1>6. task'[t] = r /\ \A u \in Tasks : u # t => task'[u] = task[u]
  BY DEF TypeOK
<1>7. r.pc \in {"erase", "erase_mounted"}
  OBVIOUS
<1>8. /\ \A f \in Files : file'[f] = IF InContext(f, c) THEN None ELSE file[f]
      /\ HandlesLeft(c)
  BY <1>5, FreeFdsLeaves
<1>9. Emptied(c)
  BY <1>1, <1>2, <1>4, <1>8 DEF Emptied
<1>10. Standing
  BY <1>1, <1>2, <1>4, <1>5 DEF Standing, Bare
<1>11. SlotInv'
  <2>1. \A f \in Files : file'[f] # None => InSlot(file'[f].ctx)
    BY <1>8 DEF SlotInv
  <2> QED
    BY <1>10, <2>1, StandingSlots
<1>12. FdsInv'
  BY <1>1, <1>9, EmptiedFds
<1>13. HandleInv'
  <2> SUFFICES ASSUME mishap # "format_in_use"  PROVE HandleInv'
    BY <1>5 DEF HandleInv
  <2>1. ~InUse(l)
    OBVIOUS
  <2>2. ASSUME NEW h \in handle  PROVE vfs[h.label] # c
    <3>1. h.label # l /\ h.label \in Labels
      BY <1>0, <2>1 DEF InUse, Typed
    <3> QED
      BY <1>1, <3>1 DEF SlotInv
  <2>3. ASSUME NEW u \in Tasks, Truncating(u)  PROVE task[u].at # c
    <3>1. task[u].label # l
      BY <2>1 DEF InUse, Managed
    <3> QED
      BY <1>1, <2>3, <3>1 DEF HandleInv
  <2>4. \A u \in Tasks : Truncating(u)' => Truncating(u) /\ task'[u] = task[u]
    BY <1>6, <1>7 DEF Truncating
  <2> QED
    BY <1>1, <1>5, <1>8, <1>9, <2>2, <2>3, <2>4, EmptiedHandles
<1>14. TaskInv'
  <2>1. RemountInv /\ \A u \in Tasks : InFormat(u) => task[u].at \in Contexts
    BY DEF TaskInv, InFormat
  <2>2. ASSUME NEW u \in Tasks, InFormat(u)  PROVE task[u].at # c
    <3>1. CASE ~InUse(l)
      BY <1>1, <2>1, <2>2, <3>1 DEF RemountInv, InUse, Managed
    <3>2. CASE \A v \in Tasks : task[v].at = c => Truncating(v)
      BY <2>2, <3>2 DEF Truncating, InFormat
    <3> QED
      BY <3>1, <3>2
  <2>3. RemountInv'
    <3> SUFFICES ASSUME NEW u \in Tasks, InFormat(u)', ctx'[task'[u].at] # None
                 PROVE  /\ ctx'[task'[u].at].label = task'[u].label
                        /\ ctx'[task'[u].at].cache = <<>>
                        /\ \A v \in Tasks \ {u} : InFormat(v)' => task'[v].at # task'[u].at
      BY DEF RemountInv
    <3>1. CASE u = t
      <4>1. \A v \in Tasks \ {u} : InFormat(v)' => task'[v].at # c
        BY <1>6, <2>2, <3>1 DEF InFormat
      <4>2. task'[u].at = c /\ task'[u].label = l
        BY <1>6, <3>1
      <4> QED
        BY <1>2, <1>4, <4>1, <4>2 DEF Bare
    <3>2. CASE u # t
      <4>1. /\ task'[u] = task[u] /\ InFormat(u) /\ task[u].at \in Contexts
            /\ task[u].at # c
        BY <1>6, <2>1, <2>2, <3>2 DEF InFormat
      <4>2. ctx'[task[u].at] = ctx[task[u].at]
        BY <1>4, <4>1
      <4>3. /\ ctx[task[u].at].label = task[u].label /\ ctx[task[u].at].cache = <<>>
            /\ \A v \in Tasks \ {u} : InFormat(v) => task[v].at # task[u].at
        BY <2>1, <4>1, <4>2 DEF RemountInv
      <4>4. ASSUME NEW v \in Tasks \ {u}, InFormat(v)'  PROVE task'[v].at # task[u].at
        BY <1>6, <4>1, <4>3, <4>4 DEF InFormat
      <4> QED
        BY <4>1, <4>2, <4>3, <4>4
    <3> QED
      BY <3>1, <3>2
  <2>4. ASSUME NEW u \in Tasks
        PROVE  /\ task'[u].pc # "idle" => task'[u].label \in Labels
               /\ task'[u].pc \notin {"idle", "register"} => task'[u].at \in Contexts
               /\ task'[u].pc = "erase_new" => task'[u].n \in Slots'
    <3>1. CASE u = t
      BY <1>1, <1>6, <1>7, <3>1
    <3>2. CASE u # t
      BY <1>5, <1>6, <3>2 DEF TaskInv
    <3> QED
      BY <3>1, <3>2
  <2> QED
    BY <2>3, <2>4 DEF TaskInv
<1>15. VfsInv'
  <2>1. \A u \in Tasks : task'[u].pc \in {"register", "erase_new"} => task'[u] = task[u]
    BY <1>6, <1>7
  <2> QED
    BY <1>10, <2>1, StandingVfs
<1>16. FineInv'
  <2> SUFFICES ASSUME Fine  PROVE FineInv'
    BY <1>5 DEF FineInv, Fine
  <2>1. /\ \A u \in Tasks : task[u].label # l
        /\ \A u \in Tasks : dir[u] # None => dir[u].label # l
        /\ \A h \in handle : h.label # l
    BY DEF Fine, InUse, Managed
  <2>2. ctx[c].cache # <<>>
    <3> SUFFICES ASSUME ctx[c].cache = <<>>  PROVE FALSE
      OBVIOUS
    <3>1. PICK i \in Slots : efs[i] = c
      BY <1>1 DEF InSlot
    <3>2. PICK u \in Tasks : Formatting(u) /\ task[u].at = c
      BY <1>1, <3>1 DEF FineInv
    <3>3. task[u].label = l
      BY <1>1, <3>2 DEF FineInv
    <3> QED
      BY <2>1, <3>3
  <2>3. r.pc = "erase_mounted"
    BY <2>2
  <2>4. fault' = FALSE /\ \A u \in Tasks : task'[u].pc # "erase"
    BY <1>5, <1>6, <2>3 DEF FineInv
  <2>5. ASSUME NEW u \in Tasks, Formatting(u)' \/ task'[u].pc = "register"
        PROVE  /\ \A v \in Tasks \ {u} : task'[v].label # task'[u].label
               /\ \A h \in handle' : h.label # task'[u].label
               /\ \A v \in Tasks : dir'[v] # None => dir'[v].label # task'[u].label
    <3>1. CASE u = t
      <4>1. task'[u].label = l
        BY <1>6, <3>1
      <4>2. \A h \in handle' : h.label # l
        BY <1>8, <2>1 DEF HandlesLeft
      <4> QED
        BY <1>5, <1>6, <2>1, <3>1, <4>1, <4>2
    <3>2. CASE u # t
      <4>1. task'[u] = task[u] /\ (Formatting(u) \/ task[u].pc = "register")
        BY <1>6, <2>5, <3>2 DEF Formatting
      <4>2. /\ \A v \in Tasks \ {u} : task[v].label # task[u].label
            /\ \A h \in handle : h.label # task[u].label
            /\ \A v \in Tasks : dir[v] # None => dir[v].label # task[u].label
        BY <4>1 DEF FineInv
      <4>3. \A h \in handle' : h.label # task[u].label
        BY <1>8, <4>2 DEF HandlesLeft
      <4>4. \A v \in Tasks \ {u} : task'[v].label # task[u].label
        BY <1>6, <2>1, <4>2
      <4> QED
        BY <1>5, <4>1, <4>2, <4>3, <4>4
    <3> QED
      BY <3>1, <3>2
  <2>6. ASSUME NEW u \in Tasks, Formatting(u)'
        PROVE  /\ ctx'[task'[u].at] # None /\ ctx'[task'[u].at].label = task'[u].label
               /\ InSlot(task[u].at)'
    <3>1. CASE u = t
      <4>1. task'[u].at = c /\ task'[u].label = l
        BY <1>6, <3>1
      <4>2. InSlot(task[u].at)'
        BY <1>1, <1>5, <4>1 DEF InSlot
      <4> QED
        BY <1>2, <1>4, <4>1, <4>2 DEF Bare
    <3>2. CASE u # t
      <4>1. task'[u] = task[u] /\ Formatting(u) /\ task[u].at \in Contexts
        BY <1>6, <2>6, <3>2 DEF Formatting, TaskInv
      <4>2. /\ ctx[task[u].at] # None /\ ctx[task[u].at].label = task[u].label
            /\ InSlot(task[u].at)
        BY <4>1 DEF FineInv
      <4>3. task[u].at # c
        BY <1>1, <2>1, <4>2
      <4>4. InSlot(task[u].at)'
        BY <1>5, <4>1, <4>2 DEF InSlot
      <4> QED
        BY <1>4, <4>1, <4>2, <4>3, <4>4
    <3> QED
      BY <3>1, <3>2
  <2>7. \A u \in Tasks : Truncating(u)' => vfs'[task'[u].label] = task'[u].at
    <3>1. \A u \in Tasks : Truncating(u)' => Truncating(u) /\ task'[u] = task[u]
      BY <1>6, <1>7 DEF Truncating
    <3> QED
      BY <1>5, <3>1 DEF FineInv
  <2>8. \A u \in Tasks : dir'[u] # None => vfs'[dir'[u].label] # None
    BY <1>5 DEF FineInv
  <2>9. ASSUME NEW j \in Slots', efs'[j] # None, ctx'[efs'[j]].cache = <<>>
        PROVE  \E u \in Tasks : Formatting(u)' /\ task'[u].at = efs'[j]
    <3>1. CASE efs[j] = c
      BY <1>5, <1>6, <2>3, <3>1 DEF Formatting
    <3>2. CASE efs[j] # c
      <4>1. j \in Slots /\ efs[j] # None /\ efs[j] \in Contexts
        BY <1>0, <1>5, <2>9 DEF Typed
      <4>2. ctx[efs[j]].cache = <<>>
        BY <1>4, <1>5, <2>9, <3>2, <4>1
      <4>3. PICK u \in Tasks : Formatting(u) /\ task[u].at = efs[j]
        BY <4>1, <4>2 DEF FineInv
      <4>4. u # t
        BY <4>3 DEF Formatting
      <4> QED
        BY <1>5, <1>6, <4>3, <4>4 DEF Formatting
    <3> QED
      BY <3>1, <3>2
  <2> QED
    BY <2>4, <2>5, <2>6, <2>7, <2>8, <2>9 DEF FineInv
<1> QED
  BY <1>11, <1>12, <1>13, <1>14, <1>15, <1>16

LEMMA FormatBeginStep ==
  ASSUME IInv, UNCHANGED mishap, NEW t \in Tasks, NEW l \in Labels, FormatBegin(t, l)
  PROVE  IInv'
<1> USE DEF IInv
<1>1. task[t].pc = "idle" /\ UNCHANGED <<vfs, disk, dir, fault>>
  BY DEF FormatBegin
<1>2. /\ VfsChanges /\ DiskChanges /\ dir' \in [Tasks -> DirType \cup {None}]
      /\ fault' \in BOOLEAN
  BY <1>1 DEF VfsChanges, DiskChanges, TypeOK
<1>3. CASE Registered(l)
  <2> DEFINE c == ByLabel(l)
             r == [pc |-> IF ctx[c].cache = <<>> THEN "erase" ELSE "erase_mounted",
                   label |-> l, at |-> c, n |-> 0]
             e == [NewContext(l) EXCEPT !.holder = ctx[c].holder]
  <2>1. c \in Contexts /\ ctx[c] # None
    BY <1>3, LabelledIs
  <2>2. /\ ctx' = [ctx EXCEPT ![c] = e] /\ FreeFds(c)
        /\ task' = [task EXCEPT ![t] = r] /\ UNCHANGED efs
    BY <1>3 DEF FormatBegin
  <2>3. \/ ~InUse(l)
        \/ mishap = "format_in_use" /\ \A u \in Tasks : task[u].at = c => Truncating(u)
    BY <1>3 DEF FormatBegin, Truncating
  <2>4. e \in ContextType
    <3>1. ctx[c].holder \in Tasks \cup {None}
      BY <2>1, TypesAre DEF Typed, ContextType
    <3>2. e = [label |-> l, cache |-> <<>>, list |-> <<>>, fd_count |-> 0,
               holder |-> ctx[c].holder]
      BY DEF NewContext
    <3> QED
      BY <3>1, <3>2, BareIs DEF Bare
  <2>5. r \in TaskRecord /\ r.label = l /\ r.at = c
        /\ r.pc = IF ctx[c].cache = <<>> THEN "erase" ELSE "erase_mounted"
    BY <2>1 DEF TaskRecord
  <2> HIDE DEF r
  <2>6. TypeOK'
    <3>1. CtxChanges
      BY <2>1, <2>2, <2>4 DEF CtxChanges
    <3>2. TaskChanges
      BY <2>2, <2>5 DEF TaskChanges
    <3>3. SlotChanges
      BY <2>2 DEF SlotChanges
    <3> QED
      BY <1>2, <2>1, <2>2, <3>1, <3>2, <3>3, FreeFdsChanges, ManagedTyped DEF ManageChanges
  <2>7. UNCHANGED <<efs, vfs, dir, fault, mishap>>
    BY <1>1, <2>2
  <2> HIDE DEF c
  <2> QED
    BY <1>1, <1>3, <2>2, <2>3, <2>5, <2>6, <2>7, UnmountStep DEF c
<1>4. CASE ~Registered(l)
  <2>1. mishap = "register_again" \/ ~Managed(l)
    BY <1>4 DEF FormatBegin
  <2>2. ASSUME NEW c \in Heap, InitContext(l, c, <<>>),
               task' = [task EXCEPT ![t] =
                          [pc |-> "erase_new", label |-> l, at |-> c, n |-> Min(Vacancies)]]
        PROVE  IInv'
    <3> DEFINE r == [pc |-> "erase_new", label |-> l, at |-> c, n |-> Min(Vacancies)]
    <3>1. /\ SlotChanges /\ CtxChanges /\ FileChanges /\ HandleChanges
          /\ Min(Vacancies) \in Slots
      BY <2>2, InitChanges
    <3>2. c \in Contexts /\ Min(Vacancies) \in Nat
      BY <3>1 DEF Heap, TypeOK, Slots
    <3>3. /\ r \in TaskRecord /\ r.pc = "erase_new" /\ r.label = l /\ r.at = c
          /\ r.n = Min(Vacancies)
      BY <3>2 DEF TaskRecord
    <3>4. task' = [task EXCEPT ![t] = r]
      BY <2>2
    <3> HIDE DEF r
    <3>5. TypeOK'
      <4>1. TaskChanges
        BY <3>3, <3>4 DEF TaskChanges
      <4> QED
        BY <1>2, <3>1, <4>1, ManagedTyped DEF ManageChanges
    <3>6. UNCHANGED <<vfs, file, handle, dir, mishap, fault>>
      BY <1>1, <2>2 DEF InitContext
    <3> DEFINE cache == <<>>
    <3>7. cache = <<>> /\ cache \in {<<>>, EmptyCache} /\ InitContext(l, c, cache)
      BY <2>2
    <3> HIDE DEF cache
    <3> QED
      BY <1>1, <2>1, <3>3, <3>4, <3>5, <3>6, <3>7, InitStep
  <2>3. ASSUME InitRefused(l), UNCHANGED task
        PROVE  IInv'
    <3>1. UNCHANGED <<efs, ctx, handle, file>>
      BY <1>4, <2>3 DEF InitRefused
    <3> QED
      BY <1>1, <2>3, <3>1, StutterStep DEF vars
  <2>4. ASSUME InitOutOfMemory(l), UNCHANGED task
        PROVE  IInv'
    <3>1. UNCHANGED <<efs, handle, file>>
      BY <2>4 DEF InitOutOfMemory
    <3>2. CASE UNCHANGED ctx
      BY <1>1, <2>4, <3>1, <3>2, StutterStep DEF vars
    <3>3. ASSUME NEW c \in Heap, ctx' = [ctx EXCEPT ![c] = NewContext(l)]
          PROVE  IInv'
      <4>1. Bare(NewContext(l), l)
        BY NewContextBare
      <4>2. c \in Contexts /\ NewContext(l) \in ContextType
        BY <4>1 DEF Heap, Bare
      <4>3. CtxChanges
        BY <3>3, <4>2 DEF CtxChanges
      <4>4. SlotChanges /\ FileChanges /\ HandleChanges /\ TaskChanges
        BY <2>4, <3>1 DEF SlotChanges, FileChanges, HandleChanges, TaskChanges
      <4>5. TypeOK'
        BY <1>2, <4>3, <4>4, ManagedTyped DEF ManageChanges
      <4> QED
        BY <1>1, <2>4, <3>1, <3>3, <4>1, <4>5, LeakedStep
    <3> QED
      BY <2>4, <3>2, <3>3 DEF InitOutOfMemory
  <2> QED
    BY <1>4, <2>2, <2>3, <2>4 DEF FormatBegin
<1> QED
  BY <1>3, <1>4

LEMMA FormatEraseStep ==
  ASSUME IInv, UNCHANGED mishap, NEW t \in Tasks, FormatErase(t)
  PROVE  IInv'
<1> USE DEF IInv
<1> DEFINE l == task[t].label
           c == task[t].at
<1>1. /\ task[t].pc \in {"erase", "erase_mounted", "erase_new"} /\ UNCHANGED vfs
      /\ l \in Labels /\ c \in Contexts
  BY DEF FormatErase, TaskInv
<1>2. Fine => task[t].pc # "erase" /\ Formatting(t) /\ ctx[c] # None /\ ctx[c].label = l
  BY <1>1 DEF FineInv, Formatting
<1>3. CASE ctx[c] = None \/ ctx[c].label # l
  <2>1. fault' = TRUE /\ UNCHANGED <<efs, ctx, handle, file, dir, disk, task>>
    BY <1>3 DEF FormatErase
  <2> QED
    BY <1>1, <1>2, <1>3, <2>1, FallsStep DEF contextVars
<1>4. CASE ~(ctx[c] = None \/ ctx[c].label # l)
  <2>1. UNCHANGED fault
    BY <1>4 DEF FormatErase
  <2>2. VfsChanges /\ fault' \in BOOLEAN
    BY <1>1, <2>1 DEF VfsChanges, TypeOK
  <2>3. ASSUME mishap = "format_fails", disk' = [disk EXCEPT ![l] = None],
               task' = [task EXCEPT ![t] = Idle], UNCHANGED <<efs, ctx, handle, file, dir>>
        PROVE  IInv'
    <3>1. task'[t] = Idle /\ \A u \in Tasks : u # t => task'[u] = task[u]
      BY <2>3 DEF TypeOK
    <3>2. TypeOK'
      <4>1. DiskChanges /\ TaskChanges
        BY <1>1, <2>3, IdleTyped DEF DiskChanges, TaskChanges
      <4>2. SlotChanges /\ CtxChanges /\ FileChanges /\ HandleChanges
        BY <2>3 DEF SlotChanges, CtxChanges, FileChanges, HandleChanges
      <4>3. dir' \in [Tasks -> DirType \cup {None}]
        BY <2>3 DEF TypeOK
      <4> QED
        BY <2>2, <4>1, <4>2, <4>3, ManagedTyped DEF ManageChanges
    <3>3. \A u \in Tasks : Truncating(u)' => Truncating(u) /\ task'[u] = task[u]
      BY <3>1 DEF Truncating, Idle
    <3>4. Kept /\ SameFiles /\ ~Fine
      BY <1>1, <2>3, <3>3 DEF Kept, SameFiles, Fine
    <3> QED
      BY <2>1, <2>3, <3>1, <3>2, <3>4, ManagerStep
  <2>4. ASSUME disk' = [disk EXCEPT ![l] = NS!Empty], Watch(l, LAMBDA r : None),
               IF task[t].pc = "erase_mounted"
               THEN /\ task' = [task EXCEPT ![t].pc = "remount"]
                    /\ UNCHANGED <<efs, ctx, handle, file>>
               ELSE /\ task' = [task EXCEPT ![t] = Idle]
                    /\ IF task[t].pc = "erase_new"
                       THEN FreeSlot(task[t].n)
                       ELSE UNCHANGED <<efs, ctx, handle, file>>
        PROVE  IInv'
    <3>1. DirsFollow(l)
      BY <2>4, WatchFollows
    <3>2. /\ dir' \in [Tasks -> DirType \cup {None}]
          /\ \A u \in Tasks : dir'[u] # None => dir[u] # None /\ dir'[u].label = dir[u].label
      BY <3>1, DirsTyped
    <3>3. DiskChanges
      BY <1>1, <2>4 DEF DiskChanges
    <3>4. CASE task[t].pc = "erase_mounted"
      <4>1. task' = [task EXCEPT ![t].pc = "remount"] /\ UNCHANGED <<efs, ctx, handle, file>>
        BY <2>4, <3>4
      <4> DEFINE r == [task[t] EXCEPT !.pc = "remount"]
      <4>2. task[t] \in TaskRecord
        BY DEF TypeOK, TaskRecord
      <4>3. /\ r \in TaskRecord /\ r.pc = "remount" /\ r.label = task[t].label
            /\ r.at = task[t].at
        BY <4>2 DEF TaskRecord
      <4>4. task' = [task EXCEPT ![t] = r]
        BY <4>1
      <4> HIDE DEF r
      <4>5. task'[t] = r /\ \A u \in Tasks : u # t => task'[u] = task[u]
        BY <4>4 DEF TypeOK
      <4>6. TypeOK'
        <5>1. TaskChanges
          BY <4>3, <4>4 DEF TaskChanges
        <5>2. SlotChanges /\ CtxChanges /\ FileChanges /\ HandleChanges
          BY <4>1 DEF SlotChanges, CtxChanges, FileChanges, HandleChanges
        <5> QED
          BY <2>2, <3>2, <3>3, <5>1, <5>2, ManagedTyped DEF ManageChanges
      <4>7. \A u \in Tasks : Truncating(u)' => Truncating(u) /\ task'[u] = task[u]
        BY <4>3, <4>5 DEF Truncating
      <4>8. Kept /\ SameFiles
        BY <1>1, <4>1, <4>7 DEF Kept, SameFiles
      <4> QED
        BY <2>1, <3>2, <3>4, <4>3, <4>5, <4>6, <4>8, ManagerStep
    <3>5. CASE task[t].pc # "erase_mounted"
      <4>1. task' = [task EXCEPT ![t] = Idle]
        BY <2>4, <3>5
      <4>2. task'[t] = Idle /\ \A u \in Tasks : u # t => task'[u] = task[u]
        BY <4>1 DEF TypeOK
      <4>3. TaskChanges
        BY <4>1, IdleTyped DEF TaskChanges
      <4>4. CASE task[t].pc = "erase_new"
        <5>1. FreeSlot(task[t].n) /\ task[t].n \in Slots
          BY <2>4, <3>5, <4>4 DEF TaskInv
        <5>2. TypeOK'
          BY <2>2, <3>2, <3>3, <4>3, <5>1, FreeSlotChanges, ManagedTyped DEF ManageChanges
        <5>3. mishap # "register_again" =>
                efs[task[t].n] # None /\ ctx[efs[task[t].n]].label = task[t].label
          BY <1>1, <4>4, NoneAssumption DEF VfsInv
        <5> QED
          BY <1>1, <2>1, <3>2, <4>2, <4>4, <5>1, <5>2, <5>3, FreedStep
      <4>5. CASE task[t].pc # "erase_new"
        <5>1. UNCHANGED <<efs, ctx, handle, file>>
          BY <2>4, <3>5, <4>5
        <5>2. TypeOK'
          <6>1. SlotChanges /\ CtxChanges /\ FileChanges /\ HandleChanges
            BY <5>1 DEF SlotChanges, CtxChanges, FileChanges, HandleChanges
          <6> QED
            BY <2>2, <3>2, <3>3, <4>3, <6>1, ManagedTyped DEF ManageChanges
        <5>3. \A u \in Tasks : Truncating(u)' => Truncating(u) /\ task'[u] = task[u]
          BY <4>2 DEF Truncating, Idle
        <5>4. Kept /\ SameFiles
          BY <1>1, <5>1, <5>3 DEF Kept, SameFiles
        <5>5. ~Fine
          BY <1>1, <1>2, <3>5, <4>5
        <5> QED
          BY <2>1, <3>2, <4>2, <5>2, <5>4, <5>5, ManagerStep
      <4> QED
        BY <4>4, <4>5
    <3> QED
      BY <3>4, <3>5
  <2> QED
    BY <1>4, <2>3, <2>4 DEF FormatErase
<1> QED
  BY <1>3, <1>4

LEMMA FormatRemountStep ==
  ASSUME IInv, UNCHANGED mishap, NEW t \in Tasks, FormatRemount(t)
  PROVE  IInv'
<1> USE DEF IInv
<1>0. Typed /\ None \notin Labels /\ None \notin Contexts
  BY TypesAre, NoneAssumption
<1> DEFINE c == task[t].at
           l == task[t].label
<1>1. /\ task[t].pc = "remount" /\ task' = [task EXCEPT ![t] = Idle]
      /\ UNCHANGED <<efs, vfs, disk, file, handle, dir, mishap>>
      /\ c \in Contexts /\ l \in Labels
  BY DEF FormatRemount, TaskInv
<1>2. Fine => ctx[c] # None /\ ctx[c].label = l
  BY <1>1 DEF FineInv, Formatting
<1>3. task'[t] = Idle /\ \A u \in Tasks : u # t => task'[u] = task[u]
  BY <1>1 DEF TypeOK
<1>4. Idle.pc = "idle" /\ Idle.label = None
  BY DEF Idle
<1>5. \A u \in Tasks : Truncating(u)' => Truncating(u) /\ task'[u] = task[u]
  BY <1>3, <1>4 DEF Truncating
<1>6. /\ SlotChanges /\ VfsChanges /\ DiskChanges /\ FileChanges /\ HandleChanges
      /\ TaskChanges /\ dir' \in [Tasks -> DirType \cup {None}]
  <2>1. SlotChanges /\ VfsChanges /\ DiskChanges /\ FileChanges /\ HandleChanges
    BY <1>1 DEF SlotChanges, VfsChanges, DiskChanges, FileChanges, HandleChanges
  <2>2. TaskChanges /\ dir' \in [Tasks -> DirType \cup {None}]
    BY <1>1, IdleTyped DEF TaskChanges, TypeOK
  <2> QED
    BY <2>1, <2>2
<1>7. ASSUME UNCHANGED ctx, fault' = TRUE \/ UNCHANGED fault, ~Fine
      PROVE  IInv'
  <2>1. CtxChanges /\ fault' \in BOOLEAN
    BY <1>7 DEF CtxChanges, TypeOK
  <2>2. TypeOK'
    BY <1>6, <2>1, ManagedTyped DEF ManageChanges
  <2>3. Kept /\ SameFiles
    BY <1>1, <1>5, <1>7 DEF Kept, SameFiles
  <2> QED
    BY <1>1, <1>3, <1>7, <2>2, <2>3, ManagerStep
<1>8. ASSUME ctx[c] # None, ctx[c].label = l, UNCHANGED fault,
             ctx' = [ctx EXCEPT ![c].cache = EmptyCache]
      PROVE  IInv'
  <2> DEFINE e == [ctx[c] EXCEPT !.cache = EmptyCache]
  <2>1. ctx[c].cache = <<>> /\ RemountInv
        /\ \A v \in Tasks \ {t} : InFormat(v) => task[v].at # c
    BY <1>1, <1>8 DEF TaskInv, RemountInv, InFormat
  <2>2. ctx[c] \in ContextType /\ Agree(ctx[c])
    BY <1>0, <1>1, <1>8 DEF Typed, FdsInv
  <2>3. Bare(e, l) /\ e.cache = EmptyCache /\ e # None
    <3>1. Taken(ctx[c].cache) = {}
      BY <2>1 DEF Taken
    <3>2. Cardinality(Taken(ctx[c].cache)) = 0
      BY <3>1, FS_EmptySet
    <3>3. ctx[c].fd_count = 0 /\ Len(ctx[c].list) = 0
      BY <2>2, <3>2 DEF Agree
    <3>4. ctx[c].list = <<>>
      BY <2>2, <3>3, EmptySeq DEF ContextType
    <3>5. ctx[c].holder \in Tasks \cup {None}
      BY <2>2 DEF ContextType
    <3>6. e = [label |-> l, cache |-> EmptyCache, list |-> <<>>, fd_count |-> 0,
               holder |-> ctx[c].holder]
      BY <1>8, <2>2, <3>3, <3>4 DEF ContextType
    <3>7. Bare(e, l)
      BY <1>1, <3>5, <3>6, BareIs
    <3>8. e # None
      BY <3>7, NoneAssumption DEF Bare
    <3> QED
      BY <3>6, <3>7, <3>8
  <2>4. ctx' = [ctx EXCEPT ![c] = e]
    BY <1>8
  <2> HIDE DEF e
  <2>5. ctx'[c] = e /\ \A d \in Contexts : d # c => ctx'[d] = ctx[d]
    BY <1>1, <2>4 DEF TypeOK
  <2> HIDE DEF c, l
  <2>6. TypeOK'
    <3>1. CtxChanges /\ fault' \in BOOLEAN
      BY <1>1, <1>8, <2>3, <2>4 DEF CtxChanges, TypeOK, Bare
    <3> QED
      BY <1>6, <3>1, ManagedTyped DEF ManageChanges
  <2>7. ToSet(ctx[c].list) = {}
    <3>1. {ctx[c].cache[i] : i \in Taken(ctx[c].cache)} = {}
      BY <2>1 DEF Taken
    <3> QED
      BY <2>2, <3>1 DEF Agree
  <2>8. Emptied(c)
    <3>1. \A f \in Files : ~InContext(f, c)
      BY <2>7 DEF InContext, FdsInv
    <3> QED
      BY <1>1, <1>8, <2>3, <2>5, <3>1 DEF Emptied
  <2>9. FdsInv'
    BY <1>1, <1>8, <2>6, <2>8, EmptiedFds
  <2>10. Standing
    BY <1>1, <1>8, <2>3, <2>5 DEF Standing, Bare
  <2>11. SlotInv'
    <3>1. \A f \in Files : file'[f] # None => InSlot(file'[f].ctx)
      BY <1>1 DEF SlotInv
    <3> QED
      BY <2>6, <2>10, <3>1, StandingSlots
  <2>12. VfsInv'
    <3>1. \A u \in Tasks : task'[u].pc \in {"register", "erase_new"} => task'[u] = task[u]
      BY <1>3, <1>4
    <3> QED
      BY <2>6, <2>10, <3>1, StandingVfs
  <2>13. HandleInv'
    <3> SUFFICES ASSUME mishap # "format_in_use"  PROVE HandleInv'
      BY <1>1 DEF HandleInv
    <3>0. CacheSize(c) = 0
      BY <2>1 DEF CacheSize
    <3>1. ASSUME NEW h \in handle, vfs[h.label] = c  PROVE FALSE
      <4>1. h.fd \in Nat
        BY <1>0 DEF Typed
      <4>2. h.file # None /\ InCache(c, h.fd, h.file)
        BY <1>8, <3>1 DEF HandleInv
      <4> QED
        BY <3>0, <4>1, <4>2 DEF InCache
    <3>2. ASSUME NEW u \in Tasks, Truncating(u), task[u].at = c  PROVE FALSE
      <4>1. task[u].n \in Nat /\ task[u].n < CacheSize(c)
        BY <1>0, <1>8, <3>2 DEF HandleInv, Typed
      <4> QED
        BY <3>0, <4>1
    <3>3. HandlesLeft(c)
      <4>1. \A h \in handle : ~(h.file # None /\ InContext(h.file, c))
        BY <1>0, <2>7 DEF InContext, FdsInv, Typed
      <4> QED
        BY <1>1, <4>1 DEF HandlesLeft
    <3> QED
      BY <1>1, <1>5, <1>8, <2>6, <2>8, <3>1, <3>2, <3>3, EmptiedHandles
  <2>14. TaskInv'
    <3>1. \A u \in Tasks : InFormat(u)' => u # t /\ InFormat(u) /\ task'[u] = task[u]
      BY <1>3, <1>4 DEF InFormat
    <3>2. \A u \in Tasks : InFormat(u) => task[u].at \in Contexts
      BY DEF TaskInv, InFormat
    <3>3. RemountInv'
      BY <2>1, <2>5, <3>1, <3>2 DEF RemountInv
    <3> QED
      BY <1>1, <1>3, <1>4, <3>3 DEF TaskInv, Slots
  <2>15. FineInv'
    <3> SUFFICES ASSUME Fine  PROVE FineInv'
      BY <1>1 DEF FineInv, Fine
    <3>1. fault' = FALSE /\ \A u \in Tasks : task'[u].pc # "erase"
      BY <1>3, <1>4, <1>8 DEF FineInv
    <3>2. ASSUME NEW u \in Tasks, Formatting(u)' \/ task'[u].pc = "register"
          PROVE  /\ \A v \in Tasks \ {u} : task'[v].label # task'[u].label
                 /\ \A h \in handle' : h.label # task'[u].label
                 /\ \A v \in Tasks : dir'[v] # None => dir'[v].label # task'[u].label
      <4>1. task'[u] = task[u] /\ (Formatting(u) \/ task[u].pc = "register")
        BY <1>3, <1>4, <3>2 DEF Formatting
      <4>2. task[u].label \in Labels
        BY <4>1 DEF TaskInv, Formatting
      <4>3. /\ \A v \in Tasks \ {u} : task[v].label # task[u].label
            /\ \A h \in handle : h.label # task[u].label
            /\ \A v \in Tasks : dir[v] # None => dir[v].label # task[u].label
        BY <4>1 DEF FineInv
      <4> QED
        BY <1>0, <1>1, <1>3, <1>4, <4>1, <4>2, <4>3
    <3>3. ASSUME NEW u \in Tasks, Formatting(u)'
          PROVE  /\ ctx'[task'[u].at] # None /\ ctx'[task'[u].at].label = task'[u].label
                 /\ InSlot(task[u].at)'
      <4>1. task'[u] = task[u] /\ Formatting(u) /\ task[u].at \in Contexts
        BY <1>3, <1>4, <3>3 DEF Formatting, TaskInv
      <4>2. /\ ctx[task[u].at] # None /\ ctx[task[u].at].label = task[u].label
            /\ InSlot(task[u].at)
        BY <4>1 DEF FineInv
      <4>3. InSlot(task[u].at)'
        BY <1>1, <4>1, <4>2 DEF InSlot, Slots
      <4> QED
        BY <2>10, <4>1, <4>2, <4>3 DEF Standing
    <3>4. \A u \in Tasks : Truncating(u)' => vfs'[task'[u].label] = task'[u].at
      BY <1>1, <1>5 DEF FineInv
    <3>5. \A u \in Tasks : dir'[u] # None => vfs'[dir'[u].label] # None
      BY <1>1 DEF FineInv
    <3>6. ASSUME NEW j \in Slots', efs'[j] # None, ctx'[efs'[j]].cache = <<>>
          PROVE  \E u \in Tasks : Formatting(u)' /\ task'[u].at = efs'[j]
      <4>1. j \in Slots /\ efs'[j] = efs[j] /\ efs[j] \in Contexts
        BY <1>0, <1>1, <3>6 DEF Typed, Slots
      <4>2. efs[j] # c
        BY <2>3, <2>5, <3>6, <4>1, CacheMade
      <4>3. ctx[efs[j]].cache = <<>>
        BY <2>5, <3>6, <4>1, <4>2
      <4>4. PICK u \in Tasks : Formatting(u) /\ task[u].at = efs[j]
        BY <3>6, <4>1, <4>3 DEF FineInv
      <4>5. u # t
        BY <4>2, <4>4 DEF c
      <4> QED
        BY <1>3, <4>1, <4>4, <4>5 DEF Formatting
    <3> QED
      BY <3>1, <3>2, <3>3, <3>4, <3>5, <3>6 DEF FineInv
  <2> QED
    BY <2>6, <2>9, <2>11, <2>12, <2>13, <2>14, <2>15
<1>9. mishap = "format_fails" => ~Fine
  BY DEF Fine
<1> QED
  BY <1>2, <1>7, <1>8, <1>9 DEF FormatRemount

LEMMA InfoStep ==
  ASSUME IInv, UNCHANGED mishap, NEW t \in Tasks, NEW l \in Labels, Info(t, l)
  PROVE  IInv'
<1> USE DEF IInv
<1>1. /\ Registered(l) /\ ~Managed(l) /\ fault' = ~Mounted(l)
      /\ UNCHANGED <<efs, ctx, vfs, disk, file, handle, dir, task, mishap>>
  BY DEF Info, contextVars
<1>2. ASSUME Fine  PROVE fault' = fault
  <2>1. /\ InSlot(ByLabel(l)) /\ ByLabel(l) # None /\ ctx[ByLabel(l)].label = l
    BY <1>1, LabelledIs DEF InSlot
  <2>2. PICK i \in Slots : efs[i] = ByLabel(l)
    BY <2>1 DEF InSlot
  <2>3. ASSUME ctx[ByLabel(l)].cache = <<>>  PROVE FALSE
    <3>1. PICK u \in Tasks : Formatting(u) /\ task[u].at = ByLabel(l)
      BY <1>2, <2>1, <2>2, <2>3 DEF FineInv
    <3>2. task[u].label = l
      BY <1>2, <2>1, <3>1 DEF FineInv
    <3> QED
      BY <1>1, <3>2 DEF Managed
  <2>4. Mounted(l)
    BY <1>1, <2>3 DEF Mounted
  <2> QED
    BY <1>1, <1>2, <2>4 DEF FineInv
<1>3. TypeOK'
  <2>1. fault' \in BOOLEAN
    BY <1>1
  <2> QED
    BY <1>1, <2>1 DEF TypeOK
<1>4. Kept /\ SameFiles
  BY <1>1 DEF Kept, SameFiles, Truncating
<1>5. Fine => UsesServed
  BY <1>1, <1>2 DEF UsesServed, Truncating
<1> QED
  BY <1>1, <1>3, <1>4, <1>5, QuietStep

LEMMA ManageStep ==
  ASSUME IInv, UNCHANGED mishap, NEW t \in Tasks, Manage(t)
  PROVE  IInv'
  BY RegisterInitStep, UnregisterStep, FormatBeginStep, InfoStep, RegisterVfsStep,
     FormatEraseStep, FormatRemountStep DEF Manage

-----------------------------------------------------------------------------
(* The invariant holds at first, and through every step.                   *)
LEMMA InitInv == Init => IInv
<1> SUFFICES ASSUME Init  PROVE IInv
  OBVIOUS
<1>0. None \notin Labels /\ None \notin Contexts
  BY NoneAssumption
<1>1. PICK n \in 1..MaxPartitions : efs = [i \in 1..n |-> None]
  BY DEF Init
<1>2. \A i \in Slots : efs[i] = None
  BY <1>1 DEF Slots
<1>3. /\ \A c \in Contexts : ctx[c] = None
      /\ \A l \in Labels : vfs[l] = None
      /\ \A f \in Files : file[f] = None
      /\ \A u \in Tasks : dir[u] = None /\ task[u] = Idle
      /\ handle = {} /\ fault = FALSE
  BY DEF Init
<1>4. TypeOK
  <2>1. efs \in Seq(Contexts \cup {None}) /\ Len(efs) \in 1..MaxPartitions
    BY <1>1, LimitsAssumption
  <2>2. task \in [Tasks -> TaskRecord]
    BY IdleTyped DEF Init
  <2>3. task \in [Tasks -> [pc : {"idle", "register", "erase", "erase_mounted", "erase_new",
                                  "remount", "truncate", "close"},
                            label : Labels \cup {None}, at : Contexts \cup {None}, n : Nat]]
    BY <2>2 DEF TaskRecord
  <2>4. DOMAIN disk = Labels /\ \A l \in Labels : disk[l] # None => NS!IsDir(disk[l], NS!Root)
    BY DEF Init
  <2>5. /\ ctx \in [Contexts -> ContextType \cup {None}]
        /\ vfs \in [Labels -> Contexts \cup {None}]
        /\ file \in [Files -> FileType \cup {None}]
        /\ dir \in [Tasks -> DirType \cup {None}]
        /\ handle \subseteq [label : Labels, fd : Nat, file : Files \cup {None}]
        /\ fault \in BOOLEAN
    BY DEF Init
  <2> QED
    BY <2>1, <2>3, <2>4, <2>5 DEF TypeOK
<1>5. Idle.pc = "idle"
  BY DEF Idle
<1>6. TaskInv
  BY <1>3, <1>5 DEF TaskInv, RemountInv, InFormat
<1>7. SlotInv /\ FdsInv
  BY <1>2, <1>3 DEF SlotInv, OneSlotPerPartition, FdsInv
<1>8. HandleInv
  BY <1>3, <1>5 DEF HandleInv, Truncating
<1>9. VfsInv
  BY <1>3, <1>5 DEF VfsInv
<1>10. FineInv
  BY <1>2, <1>3, <1>5 DEF FineInv, Formatting, Truncating
<1> QED
  BY <1>4, <1>6, <1>7, <1>8, <1>9, <1>10 DEF IInv

LEMMA UseStep ==
  ASSUME IInv, UNCHANGED mishap, NEW t \in Tasks, UseDescriptor(t)
  PROVE  IInv'
  BY CloseStep, StrayStep, DescriptorStep DEF UseDescriptor

LEMMA PathStep ==
  ASSUME IInv, UNCHANGED mishap, NEW t \in Tasks, UsePath(t)
  PROVE  IInv'
<1>1. PICK l \in Labels :
        \/ Dangling(t, l)
        \/ \E p \in Plain :
             \/ (\E m \in OpenFlags : Open(t, l, p, m)) \/ TruncateOpen(t, l, p)
             \/ Stat(t, l, p) \/ Rmdir(t, l, p) \/ Mkdir(t, l, p)
             \/ \E q \in Plain : Rename(t, l, p, q)
        \/ \E p \in Spellings \X Places : Unlink(t, l, p)
  BY DEF UsePath
<1>2. ASSUME NEW p \in Plain, Stat(t, l, p)  PROVE IInv'
  BY <1>2, StutterStep DEF Stat
<1> QED
  BY <1>1, <1>2, DanglingStep, OpenStep, TruncateOpenStep, RmdirStep, MkdirStep, RenameStep,
     UnlinkStep

LEMMA NextInv == IInv /\ [Next]_vars => IInv'
<1>1. CASE UNCHANGED vars
  BY <1>1, StutterStep
<1>2. ASSUME IInv, Next  PROVE IInv'
  <2>1. PICK t \in Tasks : Step(t)
    BY <1>2 DEF Next
  <2>2. UNCHANGED mishap
    BY <1>2 DEF Next
  <2> QED
    BY <1>2, <2>1, <2>2, ManageStep, UseStep, TruncateStepStep, PathStep, DirectoryStep
    DEF Step
<1> QED
  BY <1>1, <1>2

(* The invariant is one of esp_littlefs for any number of tasks,           *)
(* partitions, slots, contexts, files and names.                           *)
THEOREM EspInductive == Spec => []IInv
  BY InitInv, NextInv, PTL DEF Spec

(* Through every open, close and failure the array, the list and the       *)
(* count of a context agree, and a descriptor leads to the file it was     *)
(* given out for and to no other's (esp_littlefs_allocate_fd and           *)
(* esp_littlefs_free_fd).                                                  *)
THEOREM DescriptorsLead == Spec => []DescriptorsHold
<1>1. IInv => DescriptorsHold
  <2> SUFFICES ASSUME IInv  PROVE DescriptorsHold
    OBVIOUS
  <2> USE DEF IInv
  <2>1. CacheMatchesList
    <3> SUFFICES ASSUME NEW c \in Contexts, ctx[c] # None
                 PROVE  LET e == ctx[c]
                            taken == {i \in DOMAIN e.cache : e.cache[i] # None}
                        IN /\ Cardinality(taken) = e.fd_count /\ Len(e.list) = e.fd_count
                           /\ {e.cache[i] : i \in taken} = ToSet(e.list)
                           /\ \A f \in ToSet(e.list) : InContext(f, c)
      BY DEF CacheMatchesList
    <3>1. Agree(ctx[c]) /\ \A f \in ToSet(ctx[c].list) : InContext(f, c)
      BY DEF FdsInv
    <3> QED
      BY <3>1 DEF Agree, Taken
  <2>2. DescriptorsLeadHome
    <3> SUFFICES ASSUME mishap # "format_in_use", NEW h \in handle, h.file # None
                 PROVE  /\ InCache(vfs[h.label], h.fd, h.file) /\ ~file[h.file].closed
                        /\ \A k \in handle \ {h} : k.label = h.label => k.fd # h.fd
      BY DEF DescriptorsLeadHome
    <3> QED
      BY DEF HandleInv
  <2> QED
    BY <2>1, <2>2 DEF DescriptorsHold
<1> QED
  BY <1>1, EspInductive, PTL

(* The table of partitions, the pointer the VFS was given and the contexts *)
(* stay one, and nobody follows a pointer to what is gone: whatever the    *)
(* interleaving of esp_vfs_littlefs_register, _unregister, esp_littlefs_-  *)
(* format and the calls of the VFS, unless a partition is registered       *)
(* twice, formatted or unregistered while it is in use, or left half       *)
(* formatted.                                                              *)
THEOREM ContextsAgree == Spec => []ContextsStand
<1>1. IInv => ContextsStand
  <2> SUFFICES ASSUME IInv  PROVE ContextsStand
    OBVIOUS
  <2> USE DEF IInv
  <2>1. VfsReachesContext
    <3> SUFFICES ASSUME mishap # "register_again", NEW l \in Labels, vfs[l] # None
                 PROVE  Registered(l) /\ ByLabel(l) = vfs[l]
      BY DEF VfsReachesContext
    <3>1. ctx[vfs[l]] # None
      BY DEF VfsInv
    <3>2. ctx[vfs[l]].label = l /\ InSlot(vfs[l])
      BY <3>1 DEF SlotInv
    <3>3. PICK i \in Slots : efs[i] = vfs[l]
      BY <3>2 DEF InSlot
    <3>4. Registered(l)
      BY <3>2, <3>3 DEF Registered, Labelled
    <3>5. /\ Min(Labelled(l)) \in Slots /\ efs[Min(Labelled(l))] = ByLabel(l)
          /\ ByLabel(l) # None /\ ctx[ByLabel(l)].label = l
      BY <3>4, LabelledIs
    <3> DEFINE m == Min(Labelled(l))
    <3> HIDE DEF m
    <3>6. m \in Slots /\ efs[m] = ByLabel(l)
      BY <3>5 DEF m
    <3>7. m = i
      BY <3>2, <3>3, <3>5, <3>6 DEF SlotInv, OneSlotPerPartition
    <3> QED
      BY <3>3, <3>4, <3>6, <3>7
  <2>2. OneSlotPerPartition
    BY DEF SlotInv
  <2>3. NoFault
    BY DEF NoFault, FineInv, Fine
  <2> QED
    BY <2>1, <2>2, <2>3 DEF ContextsStand
<1> QED
  BY <1>1, EspInductive, PTL

-----------------------------------------------------------------------------
(* The place in a directory: the names up to the last one read are as many *)
(* as offset says, or all there are.                                       *)
AllOf(u) == Entries(Tree(dir[u].label), dir[u].entry)

Telling(S, last, offset) ==
  Cardinality({n \in S : n <= last}) = Min({offset, Cardinality(S)})

PlaceInv ==
  \A u \in Tasks : dir[u] # None /\ dir[u].fresh =>
    Telling(AllOf(u), dir[u].last, dir[u].offset)

LEMMA LesserOf ==
  ASSUME NEW a \in Nat, NEW b \in Nat
  PROVE  Min({a, b}) = IF a <= b THEN a ELSE b
<1>1. Min({a, b}) \in {a, b} /\ Min({a, b}) <= a /\ Min({a, b}) <= b
  BY MinIs
<1> QED
  BY <1>1

LEMMA NobodyPassed ==
  ASSUME NEW S \in SUBSET Names
  PROVE  Telling(S, 0, 0)
<1>1. IsFiniteSet(S) /\ Cardinality(S) \in Nat
  BY NamesAssumption, FS_Subset, FS_CardinalityType
<1>2. {n \in S : n <= 0} = {}
  <2>1. \A n \in S : n \in Nat /\ n # 0
    BY NamesAssumption
  <2>2. \A n \in S : ~(n <= 0)
    BY <2>1
  <2> QED
    BY <2>2
<1>3. Cardinality({}) = 0
  BY FS_EmptySet
<1>4. Min({0, Cardinality(S)}) = 0
  BY <1>1, LesserOf
<1> QED
  BY <1>2, <1>3, <1>4 DEF Telling

LEMMA NothingToPass ==
  ASSUME NEW last \in Nat, NEW offset \in Nat
  PROVE  Telling({}, last, offset)
<1>1. {n \in {} : n <= last} = {}
  OBVIOUS
<1>2. Cardinality({}) = 0
  BY FS_EmptySet
<1>3. Min({offset, 0}) = 0
  BY LesserOf
<1> QED
  BY <1>1, <1>2, <1>3 DEF Telling

(* Reading passes the least of the entries that are still to come.         *)
LEMMA OnePassed ==
  ASSUME NEW S \in SUBSET Names, NEW last \in Nat, NEW offset \in Nat,
         Telling(S, last, offset),
         NEW next, next = IF {n \in S : n > last} = {} THEN last
                                                       ELSE Min({n \in S : n > last})
  PROVE  Telling(S, next, offset + 1)
<1> DEFINE D == {n \in S : n <= last}
           B == {n \in S : n > last}
<1>1. S \in SUBSET Nat /\ IsFiniteSet(S) /\ Cardinality(S) \in Nat
  BY NamesAssumption, FS_Subset, FS_CardinalityType
<1>2. D \subseteq S /\ IsFiniteSet(D) /\ Cardinality(D) \in Nat
  <2>1. D \subseteq S
    OBVIOUS
  <2> QED
    BY <1>1, <2>1, FS_Subset, FS_CardinalityType
<1>3. Cardinality(D) <= Cardinality(S) /\ (Cardinality(D) = Cardinality(S) => D = S)
  BY <1>1, <1>2, FS_Subset
<1>4. Cardinality(D) = IF offset <= Cardinality(S) THEN offset ELSE Cardinality(S)
  BY <1>1, LesserOf DEF Telling
<1>5. CASE B = {}
  <2>1. D = S /\ next = last
    <3>1. \A n \in S : n \in Nat /\ ~(n > last)
      BY <1>1, <1>5
    <3>2. \A n \in S : n <= last
      BY <3>1
    <3> QED
      BY <1>5, <3>2
  <2>2. {n \in S : n <= next} = S
    BY <2>1
  <2>3. offset >= Cardinality(S)
    BY <1>1, <1>4, <2>1
  <2>4. Min({offset + 1, Cardinality(S)}) = Cardinality(S)
    BY <1>1, <2>3, LesserOf
  <2> QED
    BY <2>2, <2>4 DEF Telling
<1>6. CASE B # {}
  <2>1. next = Min(B) /\ B \in SUBSET Nat
    BY <1>1, <1>6
  <2>2. next \in B /\ \A y \in B : next <= y
    BY <1>6, <2>1, MinIs
  <2>3. next \in S /\ next \in Nat /\ next > last
    BY <1>1, <2>2
  <2>4. ASSUME NEW n \in S  PROVE n <= next <=> n \in D \cup {next}
    <3>1. n \in Nat
      BY <1>1
    <3>2. CASE n <= last
      BY <2>3, <3>1, <3>2
    <3>3. CASE n > last
      BY <2>2, <2>3, <3>1, <3>3
    <3> QED
      BY <3>1, <3>2, <3>3
  <2>5. {n \in S : n <= next} = D \cup {next}
    BY <1>2, <2>3, <2>4
  <2>6. next \notin D
    BY <2>3
  <2> HIDE DEF D, B
  <2>7. Cardinality(D \cup {next}) = Cardinality(D) + 1
    BY <1>2, <2>6, FS_AddElement
  <2>8. Cardinality(D) # Cardinality(S)
    BY <1>3, <2>3, <2>6
  <2>9. Cardinality(D) = offset /\ offset + 1 <= Cardinality(S)
    BY <1>1, <1>2, <1>3, <1>4, <2>8
  <2>10. Min({offset + 1, Cardinality(S)}) = offset + 1
    BY <1>1, <2>9, LesserOf
  <2> QED
    BY <2>5, <2>7, <2>9, <2>10 DEF Telling
<1> QED
  BY <1>5, <1>6

(* What was read of a directory is as it was, or nothing is in it.         *)
DirsKept ==
  \A u \in Tasks : dir'[u] # None /\ dir'[u].fresh =>
    \/ AllOf(u)' = {}
    \/ /\ dir[u] # None /\ dir[u].fresh /\ AllOf(u)' = AllOf(u)
       /\ dir'[u].last = dir[u].last /\ dir'[u].offset = dir[u].offset

LEMMA PlacesKept ==
  ASSUME TypeOK', PlaceInv, DirsKept
  PROVE  PlaceInv'
<1> SUFFICES ASSUME NEW u \in Tasks, dir'[u] # None, dir'[u].fresh
             PROVE  Telling(AllOf(u)', dir'[u].last, dir'[u].offset)
  BY DEF PlaceInv
<1>1. dir'[u].last \in Nat /\ dir'[u].offset \in Nat
  BY DEF TypeOK, DirType
<1>2. CASE AllOf(u)' = {}
  BY <1>1, <1>2, NothingToPass
<1>3. CASE /\ dir[u] # None /\ dir[u].fresh /\ AllOf(u)' = AllOf(u)
           /\ dir'[u].last = dir[u].last /\ dir'[u].offset = dir[u].offset
  <2>1. Telling(AllOf(u), dir[u].last, dir[u].offset)
    BY <1>3 DEF PlaceInv
  <2> QED
    BY <1>3, <2>1
<1> QED
  BY <1>2, <1>3 DEF DirsKept

LEMMA NoEntries ==
  ASSUME NEW r \in Seq(Names) \cup {None}
  PROVE  Entries(NS!Empty, r) = {}
<1>1. DOMAIN NS!Empty = {<<>>}
  BY DEF NS!Empty, NS!Root
<1>2. ASSUME NEW n \in Names, r # None  PROVE Append(r, n) # <<>>
  <2>1. Len(Append(r, n)) = Len(r) + 1 /\ Len(r) \in Nat /\ Len(<<>>) = 0
    BY <1>2
  <2> QED
    BY <2>1
<1> QED
  BY <1>1, <1>2 DEF Entries

LEMMA PlacesStay ==
  ASSUME TypeOK, \A u \in Tasks : dir'[u] \in {dir[u], None},
         \A l \in Labels : disk'[l] = disk[l] \/ disk'[l] \in {None, NS!Empty}
  PROVE  DirsKept
<1> SUFFICES ASSUME NEW u \in Tasks, dir'[u] # None
             PROVE  AllOf(u)' = {} \/ (dir'[u] = dir[u] /\ AllOf(u)' = AllOf(u))
  BY DEF DirsKept
<1>1. dir'[u] = dir[u] /\ dir[u] # None
  OBVIOUS
<1>2. dir[u].label \in Labels /\ dir[u].entry \in Seq(Names) \cup {None}
  BY <1>1 DEF TypeOK, DirType
<1>3. AllOf(u)' = Entries(TreeAfter(dir[u].label), dir[u].entry)
  BY <1>1 DEF AllOf, Entries, Tree, TreeAfter
<1>4. CASE disk'[dir[u].label] = disk[dir[u].label]
  BY <1>1, <1>3, <1>4 DEF AllOf, Tree, TreeAfter
<1>5. CASE disk'[dir[u].label] \in {None, NS!Empty}
  <2>1. TreeAfter(dir[u].label) = NS!Empty
    BY <1>5 DEF TreeAfter
  <2> QED
    BY <1>2, <1>3, <2>1, NoEntries
<1> QED
  BY <1>2, <1>4, <1>5

LEMMA PlacesFollow ==
  ASSUME TypeOK, NEW l \in Labels, DirsFollow(l),
         \A k \in Labels : k # l => disk'[k] = disk[k]
  PROVE  DirsKept
<1> SUFFICES ASSUME NEW u \in Tasks, dir'[u] # None, dir'[u].fresh
             PROVE  /\ dir[u] # None /\ dir[u].fresh /\ AllOf(u)' = AllOf(u)
                    /\ dir'[u].last = dir[u].last /\ dir'[u].offset = dir[u].offset
  BY DEF DirsKept
<1>1. AllOf(u)' = Entries(TreeAfter(dir'[u].label), dir'[u].entry)
  BY DEF AllOf, Entries, Tree, TreeAfter
<1>2. CASE dir'[u] = dir[u] /\ (dir[u] = None \/ dir[u].label # l)
  <2>1. dir[u] # None /\ dir[u].label \in Labels /\ dir[u].label # l
    BY <1>2 DEF TypeOK, DirType
  <2>2. TreeAfter(dir[u].label) = Tree(dir[u].label)
    BY <2>1 DEF Tree, TreeAfter
  <2> QED
    BY <1>1, <1>2, <2>1, <2>2 DEF AllOf
<1>3. CASE dir[u] # None /\ dir[u].label = l /\ DirFollows(l, dir[u], dir'[u])
  <2>1. /\ dir'[u].label = l /\ dir'[u].last = dir[u].last /\ dir'[u].offset = dir[u].offset
        /\ dir[u].fresh
        /\ Entries(TreeAfter(l), dir'[u].entry) = Entries(Tree(l), dir[u].entry)
    BY <1>3 DEF DirFollows
  <2> QED
    BY <1>1, <1>3, <2>1 DEF AllOf
<1> QED
  BY <1>2, <1>3 DEF DirsFollow

LEMMA ReplantKeeps ==
  ASSUME TypeOK, NEW l \in Labels, NEW t, NEW p \in Seq(Names), NEW q \in Seq(Names),
         \/ Replant(l, t, LAMBDA e : Without(e, p))
         \/ Replant(l, t, LAMBDA e : Follow(e, p, q))
         \/ Replant(l, t, LAMBDA e : e)
  PROVE  DirsKept
<1>1. \A k \in Labels : k # l => disk'[k] = disk[k]
  BY DEF Replant, TypeOK
<1>2. \E P \in [Spots -> Spots] : P[None] = None /\ Placed(l, P)
  <2>1. /\ Gone(p) \in [Spots -> Spots] /\ Gone(p)[None] = None
        /\ Came(p, q) \in [Spots -> Spots] /\ Came(p, q)[None] = None
        /\ Stays \in [Spots -> Spots] /\ Stays[None] = None
    BY Goes
  <2>2. Placed(l, Gone(p)) \/ Placed(l, Came(p, q)) \/ Placed(l, Stays)
    BY ReplantPlaces
  <2> QED
    BY <2>1, <2>2
<1> QED
  BY <1>1, <1>2, PlacedFollows, PlacesFollow

(* What manages partitions leaves a directory as it was, forgets it, or    *)
(* empties the partition.                                                  *)
LEMMA ManageKeeps ==
  ASSUME IInv, NEW t \in Tasks, Manage(t)
  PROVE  DirsKept
<1>0. TypeOK
  BY DEF IInv
<1>1. ASSUME UNCHANGED dir,
             \A l \in Labels : disk'[l] = disk[l] \/ disk'[l] \in {None, NS!Empty}
      PROVE  DirsKept
  <2>1. \A u \in Tasks : dir'[u] \in {dir[u], None}
    BY <1>1
  <2> QED
    BY <1>0, <1>1, <2>1, PlacesStay
<1>2. ASSUME NEW l \in Labels, RegisterInit(t, l)  PROVE DirsKept
  <2>1. UNCHANGED dir /\ (\/ UNCHANGED disk
                          \/ disk' = [disk EXCEPT ![l] = None]
                          \/ disk' = [disk EXCEPT ![l] = NS!Empty])
    BY <1>2 DEF RegisterInit
  <2> QED
    BY <1>0, <1>1, <2>1 DEF TypeOK
<1>3. ASSUME NEW l \in Labels, Unregister(t, l)  PROVE DirsKept
  <2>1. /\ UNCHANGED disk
        /\ dir' = [u \in Tasks |-> IF dir[u] # None /\ dir[u].label = l THEN None ELSE dir[u]]
    BY <1>3 DEF Unregister
  <2>2. \A u \in Tasks : dir'[u] \in {dir[u], None}
    BY <2>1
  <2> QED
    BY <1>0, <2>1, <2>2, PlacesStay
<1>4. ASSUME NEW l \in Labels, FormatBegin(t, l) \/ Info(t, l)  PROVE DirsKept
  BY <1>1, <1>4 DEF FormatBegin, Info, contextVars
<1>5. CASE RegisterVfs(t) \/ FormatRemount(t)
  BY <1>1, <1>5 DEF RegisterVfs, FormatRemount
<1>6. CASE FormatErase(t)
  <2> DEFINE l == task[t].label
  <2>1. l \in Labels
    BY <1>6 DEF IInv, TaskInv, FormatErase
  <2>2. \/ UNCHANGED dir /\ (UNCHANGED disk \/ disk' = [disk EXCEPT ![l] = None])
        \/ disk' = [disk EXCEPT ![l] = NS!Empty] /\ Watch(l, LAMBDA r : None)
    BY <1>6 DEF FormatErase
  <2> HIDE DEF l
  <2>3. CASE UNCHANGED dir /\ (UNCHANGED disk \/ disk' = [disk EXCEPT ![l] = None])
    BY <1>0, <1>1, <2>1, <2>3 DEF TypeOK
  <2>4. CASE disk' = [disk EXCEPT ![l] = NS!Empty] /\ Watch(l, LAMBDA r : None)
    <3>1. DirsFollow(l)
      BY <1>0, <2>4, WatchFollows
    <3>2. \A k \in Labels : k # l => disk'[k] = disk[k]
      BY <1>0, <2>4 DEF TypeOK
    <3> QED
      BY <1>0, <2>1, <3>1, <3>2, PlacesFollow
  <2> QED
    BY <2>2, <2>3, <2>4
<1> QED
  BY <1>2, <1>3, <1>4, <1>5, <1>6 DEF Manage

LEMMA UseKeeps ==
  ASSUME TypeOK, NEW t \in Tasks, UseDescriptor(t) \/ Truncate(t)
  PROVE  DirsKept
<1>1. UNCHANGED <<dir, disk>>
  <2>1. CASE UseDescriptor(t)
    BY <2>1 DEF UseDescriptor, Close, Stray, Falls, Touched, Write, Ftruncate, Fsync, Lseek,
                Pwrite, Pread, Positioned, Read, Fstat, Fcntl, contextVars, vars
  <2>2. CASE Truncate(t)
    BY <2>2 DEF Truncate, TruncateStep, contextVars
  <2> QED
    BY <2>1, <2>2
<1>2. \A u \in Tasks : dir'[u] \in {dir[u], None}
  BY <1>1
<1> QED
  BY <1>1, <1>2, PlacesStay

LEMMA OpenKeeps ==
  ASSUME TypeOK, NEW t \in Tasks, NEW l \in Labels, NEW p \in Plain,
         (\E m \in OpenFlags : Open(t, l, p, m)) \/ TruncateOpen(t, l, p)
  PROVE  DirsKept
<1>1. \/ UNCHANGED <<dir, disk>>
      \/ /\ disk' = [disk EXCEPT ![l] = NS!Insert(Tree(l), p[2], "reg")]
         /\ Watch(l, LAMBDA r : r)
  BY DEF Open, TruncateOpen, OpenFile
<1>2. CASE UNCHANGED <<dir, disk>>
  <2>1. \A u \in Tasks : dir'[u] \in {dir[u], None}
    BY <1>2
  <2> QED
    BY <1>2, <2>1, PlacesStay
<1>3. CASE /\ disk' = [disk EXCEPT ![l] = NS!Insert(Tree(l), p[2], "reg")]
           /\ Watch(l, LAMBDA r : r)
  <2>1. DirsFollow(l)
    BY <1>3, WatchFollows
  <2>2. \A k \in Labels : k # l => disk'[k] = disk[k]
    BY <1>3 DEF TypeOK
  <2> QED
    BY <2>1, <2>2, PlacesFollow
<1> QED
  BY <1>1, <1>2, <1>3

LEMMA PathKeeps ==
  ASSUME TypeOK, NEW t \in Tasks, UsePath(t)
  PROVE  DirsKept
<1>1. PICK l \in Labels :
        \/ Dangling(t, l)
        \/ \E p \in Plain :
             \/ (\E m \in OpenFlags : Open(t, l, p, m)) \/ TruncateOpen(t, l, p)
             \/ Stat(t, l, p) \/ Rmdir(t, l, p) \/ Mkdir(t, l, p)
             \/ \E q \in Plain : Rename(t, l, p, q)
        \/ \E p \in Spellings \X Places : Unlink(t, l, p)
  BY DEF UsePath
<1>2. \A p \in Plain : p[2] \in Seq(Names)
  BY NamesAssumption DEF Plain
<1>3. ASSUME UNCHANGED <<dir, disk>>  PROVE DirsKept
  <2>1. \A u \in Tasks : dir'[u] \in {dir[u], None}
    BY <1>3
  <2> QED
    BY <1>3, <2>1, PlacesStay
<1>4. CASE Dangling(t, l)
  BY <1>3, <1>4 DEF Dangling, Falls, contextVars
<1>5. ASSUME NEW p \in Plain, Stat(t, l, p)  PROVE DirsKept
  BY <1>3, <1>5 DEF Stat, vars, contextVars
<1>6. ASSUME NEW p \in Plain, Rmdir(t, l, p)  PROVE DirsKept
  BY <1>2, <1>6, ReplantKeeps DEF Rmdir
<1>7. ASSUME NEW p \in Plain, Mkdir(t, l, p)  PROVE DirsKept
  BY <1>2, <1>7, ReplantKeeps DEF Mkdir
<1>8. ASSUME NEW p \in Plain, NEW q \in Plain, Rename(t, l, p, q)  PROVE DirsKept
  BY <1>2, <1>8, ReplantKeeps DEF Rename
<1>9. ASSUME NEW p \in Spellings \X Places, Unlink(t, l, p)  PROVE DirsKept
  <2>1. p[2] \in Seq(Names)
    BY NamesAssumption
  <2> QED
    BY <1>9, <2>1, ReplantKeeps DEF Unlink
<1> QED
  BY <1>1, <1>4, <1>5, <1>6, <1>7, <1>8, <1>9, OpenKeeps

(* Reading is done by one task; the trees stay as they are.                *)
LEMMA SetDirKeeps ==
  ASSUME TypeOK, PlaceInv, NEW t \in Tasks, NEW d, SetDir(t, d),
         d # None /\ d.fresh =>
           Telling(Entries(Tree(d.label), d.entry), d.last, d.offset)
  PROVE  PlaceInv'
<1>1. dir'[t] = d /\ \A u \in Tasks : u # t => dir'[u] = dir[u]
  BY DEF SetDir, TypeOK
<1>2. disk' = disk
  BY DEF SetDir, contextVars
<1>3. \A u \in Tasks : AllOf(u)' = Entries(Tree(dir'[u].label), dir'[u].entry)
  BY <1>2 DEF AllOf, Entries, Tree
<1> SUFFICES ASSUME NEW u \in Tasks, dir'[u] # None, dir'[u].fresh
             PROVE  Telling(AllOf(u)', dir'[u].last, dir'[u].offset)
  BY DEF PlaceInv
<1>4. CASE u = t
  BY <1>1, <1>3, <1>4
<1>5. CASE u # t
  BY <1>1, <1>3, <1>5 DEF PlaceInv, AllOf
<1> QED
  BY <1>4, <1>5

LEMMA AdvancedTells ==
  ASSUME NEW d \in DirType,
         d.fresh => Telling(Entries(Tree(d.label), d.entry), d.last, d.offset)
  PROVE  Advanced(d).fresh =>
           Telling(Entries(Tree(Advanced(d).label), Advanced(d).entry),
                   Advanced(d).last, Advanced(d).offset)
<1> DEFINE S == Entries(Tree(d.label), d.entry)
<1>1. /\ Advanced(d).label = d.label /\ Advanced(d).entry = d.entry
      /\ Advanced(d).fresh = d.fresh /\ Advanced(d).offset = d.offset + 1
      /\ Advanced(d).last = IF Beyond(d) = {} THEN d.last ELSE Min(Beyond(d))
  BY AdvancedTyped
<1>2. S \in SUBSET Names
  BY DEF Entries
<1>3. Beyond(d) = {n \in S : n > d.last}
  BY DEF Beyond
<1>4. d.last \in Nat /\ d.offset \in Nat
  BY DEF DirType
<1>5. d.fresh => Telling(S, d.last, d.offset)
  OBVIOUS
<1> HIDE DEF S
<1>6. d.fresh => Telling(S, Advanced(d).last, d.offset + 1)
  BY <1>1, <1>2, <1>3, <1>4, <1>5, OnePassed
<1> QED
  BY <1>1, <1>6 DEF S

LEMMA ReadKeeps ==
  ASSUME TypeOK, PlaceInv, NEW t \in Tasks, ReadDirectory(t)
  PROVE  PlaceInv'
<1>0. dir[t] # None =>
        /\ dir[t] \in DirType
        /\ dir[t].fresh => Telling(Entries(Tree(dir[t].label), dir[t].entry),
                                   dir[t].last, dir[t].offset)
  BY DEF TypeOK, PlaceInv, AllOf
<1>1. ASSUME NEW l \in Labels, NEW p \in Plain, Opendir(t, l, p)
      PROVE  PlaceInv'
  <2> DEFINE d == [label |-> l, entry |-> p[2], last |-> 0, offset |-> 0,
                   goal |-> 0, fresh |-> TRUE]
  <2>1. SetDir(t, d)
    BY <1>1 DEF Opendir
  <2>2. d.last = 0 /\ d.offset = 0
    OBVIOUS
  <2> HIDE DEF d
  <2>3. Entries(Tree(d.label), d.entry) \in SUBSET Names
    BY DEF Entries
  <2> QED
    BY <2>1, <2>2, <2>3, NobodyPassed, SetDirKeeps
<1>2. CASE Closedir(t)
  BY <1>2, SetDirKeeps DEF Closedir
<1>3. CASE Readdir(t)
  <2> DEFINE a == Advanced(dir[t])
             d == [a EXCEPT !.goal = @ + 1]
  <2>1. SetDir(t, d) /\ dir[t] # None
    BY <1>3 DEF Readdir, OnDir
  <2>2. a \in DirType
    BY <1>0, <2>1, AdvancedTyped
  <2>3. a.fresh => Telling(Entries(Tree(a.label), a.entry), a.last, a.offset)
    BY <1>0, <2>1, AdvancedTells
  <2> HIDE DEF a
  <2>4. /\ d.label = a.label /\ d.entry = a.entry /\ d.last = a.last
        /\ d.offset = a.offset /\ d.fresh = a.fresh
    BY <2>2 DEF DirType
  <2> HIDE DEF d
  <2> QED
    BY <2>1, <2>3, <2>4, SetDirKeeps
<1>4. ASSUME NEW offset \in 0..Cardinality(Names), Seekdir(t, offset)
      PROVE  PlaceInv'
  <2> DEFINE b == [dir[t] EXCEPT !.last = 0, !.offset = 0, !.goal = offset, !.fresh = TRUE]
             g == [dir[t] EXCEPT !.goal = offset]
  <2>1. dir[t] # None /\ (SetDir(t, b) \/ SetDir(t, g))
    BY <1>4 DEF Seekdir, OnDir
  <2>2. CASE SetDir(t, b)
    <3>1. b.last = 0 /\ b.offset = 0
      BY <1>0, <2>1 DEF DirType
    <3> HIDE DEF b
    <3>2. Entries(Tree(b.label), b.entry) \in SUBSET Names
      BY DEF Entries
    <3> QED
      BY <2>2, <3>1, <3>2, NobodyPassed, SetDirKeeps
  <2>3. CASE SetDir(t, g)
    <3>1. /\ g.label = dir[t].label /\ g.entry = dir[t].entry /\ g.last = dir[t].last
          /\ g.offset = dir[t].offset /\ g.fresh = dir[t].fresh
      BY <1>0, <2>1 DEF DirType
    <3> HIDE DEF g
    <3> QED
      BY <1>0, <2>1, <2>3, <3>1, SetDirKeeps
  <2> QED
    BY <2>1, <2>2, <2>3
<1>5. CASE SeekdirStep(t)
  <2>1. SetDir(t, Advanced(dir[t])) /\ dir[t] # None
    BY <1>5 DEF SeekdirStep, OnDir
  <2> QED
    BY <1>0, <2>1, AdvancedTells, SetDirKeeps
<1> QED
  BY <1>1, <1>2, <1>3, <1>4, <1>5 DEF ReadDirectory

LEMMA PlaceNext == IInv /\ IInv' /\ PlaceInv /\ [Next]_vars => PlaceInv'
<1> SUFFICES ASSUME IInv, IInv', PlaceInv, [Next]_vars  PROVE PlaceInv'
  OBVIOUS
<1>0. TypeOK /\ TypeOK'
  BY DEF IInv
<1>1. CASE UNCHANGED vars
  <2>1. \A u \in Tasks : dir'[u] \in {dir[u], None}
    BY <1>1 DEF vars, contextVars
  <2>2. disk' = disk
    BY <1>1 DEF vars, contextVars
  <2> QED
    BY <1>0, <2>1, <2>2, PlacesStay, PlacesKept
<1>2. CASE Next
  <2>1. PICK t \in Tasks : Step(t)
    BY <1>2 DEF Next
  <2>2. CASE ReadDirectory(t)
    BY <1>0, <2>2, ReadKeeps
  <2>3. CASE Manage(t) \/ UseDescriptor(t) \/ Truncate(t) \/ UsePath(t)
    BY <1>0, <2>3, ManageKeeps, UseKeeps, PathKeeps, PlacesKept
  <2> QED
    BY <2>1, <2>2, <2>3 DEF Step
<1> QED
  BY <1>1, <1>2

(* As long as nothing in a directory changes, the offset that telldir      *)
(* returns is the number of the entries that were read, however often      *)
(* readdir and seekdir went on or back (vfs_littlefs_readdir_r and         *)
(* vfs_littlefs_seekdir, whose offset is their own count).                 *)
THEOREM OffsetsTell == Spec => []OffsetTellsPlace
<1>1. Init => PlaceInv
  BY DEF Init, PlaceInv
<1>2. IInv /\ PlaceInv => OffsetTellsPlace
  <2> SUFFICES ASSUME IInv, PlaceInv, NEW t \in Tasks,
                      dir[t] # None /\ dir[t].fresh /\ dir[t].entry # None
               PROVE  LET all == Entries(Tree(dir[t].label), dir[t].entry) IN
                        Cardinality(all \ Beyond(dir[t])) = Min({dir[t].offset, Cardinality(all)})
    BY DEF OffsetTellsPlace
  <2>1. Telling(AllOf(t), dir[t].last, dir[t].offset) /\ AllOf(t) \in SUBSET Nat
    BY NamesAssumption DEF PlaceInv, AllOf, Entries
  <2>2. dir[t].last \in Nat
    BY DEF IInv, TypeOK, DirType
  <2>3. \A n \in AllOf(t) : n \in Nat /\ (n <= dir[t].last <=> ~(n > dir[t].last))
    BY <2>1, <2>2
  <2>4. AllOf(t) \ Beyond(dir[t]) = {n \in AllOf(t) : n <= dir[t].last}
    BY <2>3 DEF Beyond, AllOf
  <2> QED
    BY <2>1, <2>4 DEF Telling, AllOf
<1> QED
  BY <1>1, <1>2, PlaceNext, EspInductive, PTL DEF Spec

-----------------------------------------------------------------------------
(* Paths and their beginnings.                                             *)

LEMMA UptoIs ==
  ASSUME NEW s \in Seq(Names), NEW n \in 0..Len(s)
  PROVE  /\ SubSeq(s, 1, n) \in Seq(Names) /\ Len(SubSeq(s, 1, n)) = n
         /\ \A i \in 1..n : SubSeq(s, 1, n)[i] = s[i]
<1>1. \A i \in 1..n : s[i] \in Names
  OBVIOUS
<1>2. /\ SubSeq(s, 1, n) \in Seq(Names)
      /\ Len(SubSeq(s, 1, n)) = IF 1 <= n THEN n - 1 + 1 ELSE 0
      /\ \A i \in 1..(n - 1 + 1) : SubSeq(s, 1, n)[i] = s[1 + i - 1]
  BY <1>1, SubSeqProperties
<1> QED
  BY <1>2

LEMMA UptoUpto ==
  ASSUME NEW s \in Seq(Names), NEW m \in 0..Len(s), NEW n \in 0..m
  PROVE  SubSeq(SubSeq(s, 1, m), 1, n) = SubSeq(s, 1, n)
<1> DEFINE a == SubSeq(s, 1, m)
<1>1. /\ a \in Seq(Names) /\ Len(a) = m
      /\ \A i \in 1..m : a[i] = s[i]
  BY UptoIs
<1>2. n \in 0..Len(s) /\ n \in 0..Len(a)
  BY <1>1
<1> HIDE DEF a
<1>3. /\ SubSeq(a, 1, n) \in Seq(Names) /\ Len(SubSeq(a, 1, n)) = n
      /\ \A i \in 1..n : SubSeq(a, 1, n)[i] = a[i]
  BY <1>1, <1>2, UptoIs
<1>4. /\ SubSeq(s, 1, n) \in Seq(Names) /\ Len(SubSeq(s, 1, n)) = n
      /\ \A i \in 1..n : SubSeq(s, 1, n)[i] = s[i]
  BY <1>2, UptoIs
<1>5. SubSeq(a, 1, n) = SubSeq(s, 1, n)
  <2> DEFINE x == SubSeq(a, 1, n)
             y == SubSeq(s, 1, n)
  <2>1. \A i \in 1..n : x[i] = y[i]
    BY <1>1, <1>3, <1>4
  <2>2. x \in Seq(Names) /\ y \in Seq(Names) /\ Len(x) = n /\ Len(y) = n
    BY <1>3, <1>4
  <2> HIDE DEF x, y
  <2>3. x = y
    BY <2>1, <2>2, SeqEqual
  <2> QED
    BY <2>3 DEF x, y
<1> QED
  BY <1>5 DEF a

LEMMA PrefixIs ==
  ASSUME NEW p \in Seq(Names), NEW s \in Seq(Names)
  PROVE  /\ NS!IsPrefix(p, s) <=> Len(p) <= Len(s) /\ SubSeq(s, 1, Len(p)) = p
         /\ NS!IsStrictPrefix(p, s) <=> Len(p) < Len(s) /\ SubSeq(s, 1, Len(p)) = p
         /\ IsPrefix(p, s) <=> NS!IsPrefix(p, s)
         /\ IsStrictPrefix(p, s) <=> NS!IsStrictPrefix(p, s)
<1>1. SubSeq(p, 1, Len(p)) = p /\ SubSeq(s, 1, Len(s)) = s
  BY SubSeqFull
<1>2. NS!IsPrefix(p, s) <=> Len(p) <= Len(s) /\ SubSeq(s, 1, Len(p)) = p
  BY <1>1 DEF NS!IsPrefix
<1>3. NS!IsStrictPrefix(p, s) <=> NS!IsPrefix(p, s) /\ p # s
  BY DEF NS!IsStrictPrefix
<1>4. Len(p) \in Nat /\ Len(s) \in Nat
  OBVIOUS
<1>5. Len(p) = Len(s) /\ SubSeq(s, 1, Len(p)) = p => p = s
  BY <1>1
<1>6. NS!IsStrictPrefix(p, s) <=> Len(p) < Len(s) /\ SubSeq(s, 1, Len(p)) = p
  BY <1>2, <1>3, <1>4, <1>5
<1>7. IsPrefix(p, s) <=> NS!IsPrefix(p, s)
  BY DEF IsPrefix, NS!IsPrefix
<1>8. IsStrictPrefix(p, s) <=> NS!IsStrictPrefix(p, s)
  BY <1>7 DEF IsStrictPrefix, NS!IsStrictPrefix
<1> QED
  BY <1>2, <1>6, <1>7, <1>8

LEMMA UptoConcat ==
  ASSUME NEW q \in Seq(Names), NEW w \in Seq(Names)
  PROVE  /\ q \o w \in Seq(Names) /\ Len(q \o w) = Len(q) + Len(w)
         /\ \A n \in 0..Len(q) : SubSeq(q \o w, 1, n) = SubSeq(q, 1, n)
         /\ \A m \in 0..Len(w) : SubSeq(q \o w, 1, Len(q) + m) = q \o SubSeq(w, 1, m)
<1> DEFINE x == q \o w
<1>1. /\ x \in Seq(Names) /\ Len(x) = Len(q) + Len(w)
      /\ \A i \in 1..(Len(q) + Len(w)) : x[i] = IF i <= Len(q) THEN q[i] ELSE w[i - Len(q)]
  BY ConcatProperties
<1> HIDE DEF x
<1>2. Len(q) \in Nat /\ Len(w) \in Nat
  OBVIOUS
<1>3. ASSUME NEW n \in 0..Len(q)  PROVE SubSeq(x, 1, n) = SubSeq(q, 1, n)
  <2> DEFINE a == SubSeq(x, 1, n)
             b == SubSeq(q, 1, n)
  <2>1. n \in 0..Len(x)
    BY <1>1, <1>2
  <2>2. a \in Seq(Names) /\ Len(a) = n /\ \A i \in 1..n : a[i] = x[i]
    BY <1>1, <2>1, UptoIs
  <2>3. b \in Seq(Names) /\ Len(b) = n /\ \A i \in 1..n : b[i] = q[i]
    BY UptoIs
  <2> HIDE DEF a, b
  <2>4. \A i \in 1..n : a[i] = b[i]
    BY <1>1, <1>2, <2>2, <2>3
  <2>5. a = b
    BY <2>2, <2>3, <2>4, SeqEqual
  <2> QED
    BY <2>5 DEF a, b
<1>4. ASSUME NEW m \in 0..Len(w)  PROVE SubSeq(x, 1, Len(q) + m) = q \o SubSeq(w, 1, m)
  <2> DEFINE k == Len(q) + m
             a == SubSeq(x, 1, k)
             v == SubSeq(w, 1, m)
             b == q \o v
  <2>1. k \in 0..Len(x) /\ k \in Nat
    BY <1>1, <1>2
  <2> HIDE DEF k
  <2>2. a \in Seq(Names) /\ Len(a) = k /\ \A i \in 1..k : a[i] = x[i]
    BY <1>1, <2>1, UptoIs
  <2>3. v \in Seq(Names) /\ Len(v) = m /\ \A i \in 1..m : v[i] = w[i]
    BY UptoIs
  <2> HIDE DEF a, v
  <2>4. /\ b \in Seq(Names) /\ Len(b) = Len(q) + Len(v)
        /\ \A i \in 1..(Len(q) + Len(v)) : b[i] = IF i <= Len(q) THEN q[i] ELSE v[i - Len(q)]
    BY <2>3, ConcatProperties
  <2> HIDE DEF b
  <2>5. k = Len(q) + m /\ Len(b) = k
    BY <2>3, <2>4 DEF k
  <2>6. ASSUME NEW i \in 1..k  PROVE a[i] = b[i]
    <3>1. CASE i <= Len(q)
      <4>1. i \in 1..(Len(q) + Len(w)) /\ i \in 1..(Len(q) + Len(v))
        BY <1>2, <2>3, <3>1
      <4> QED
        BY <1>1, <2>2, <2>4, <3>1, <4>1
    <3>2. CASE ~(i <= Len(q))
      <4>1. i - Len(q) \in 1..m /\ i \in 1..(Len(q) + Len(w)) /\ i \in 1..(Len(q) + Len(v))
        BY <1>2, <2>3, <2>5, <3>2
      <4>2. a[i] = w[i - Len(q)] /\ b[i] = v[i - Len(q)]
        BY <1>1, <2>2, <2>4, <3>2, <4>1
      <4> QED
        BY <2>3, <4>1, <4>2
    <3> QED
      BY <3>1, <3>2
  <2>7. a = b
    BY <2>2, <2>4, <2>5, <2>6, SeqEqual
  <2> QED
    BY <2>7 DEF a, b, v, k
<1> QED
  BY <1>1, <1>3, <1>4 DEF x

LEMMA MovedIs ==
  ASSUME NEW p \in Seq(Names), NEW q \in Seq(Names), NEW w \in Seq(Names)
  PROVE  NS!IsPrefix(p, p \o w) /\ NS!Moved(p \o w, p, q) = q \o w
<1> DEFINE s == p \o w
<1>1. s \in Seq(Names) /\ Len(s) = Len(p) + Len(w) /\ Len(p) \in Nat /\ Len(w) \in Nat
  BY UptoConcat
<1>2. NS!IsPrefix(p, s)
  <2>1. SubSeq(p \o w, 1, Len(p)) = SubSeq(p, 1, Len(p)) /\ SubSeq(p, 1, Len(p)) = p
    BY <1>1, UptoConcat, SubSeqFull
  <2> HIDE DEF s
  <2>2. SubSeq(s, 1, Len(p)) = p
    BY <2>1 DEF s
  <2> QED
    BY <1>1, <2>2, PrefixIs
<1>3. SubSeq(s, Len(p) + 1, Len(s)) = w
  <2>1. CASE Len(w) = 0
    <3>1. w = <<>> /\ Len(s) < Len(p) + 1
      BY <1>1, <2>1
    <3> HIDE DEF s
    <3> QED
      BY <1>1, <3>1, SubSeqEmpty
  <2>2. CASE Len(w) # 0
    <3> DEFINE a == Len(p) + 1
               b == Len(s)
    <3>1. a \in Len(p) + 1 .. Len(p) + Len(w) /\ b \in Len(p) + 1 .. Len(p) + Len(w)
      BY <1>1, <2>2
    <3>2. a - Len(p) = 1 /\ b - Len(p) = Len(w)
      BY <1>1
    <3> HIDE DEF a, b
    <3>3. SubSeq(p \o w, a, b) = SubSeq(w, a - Len(p), b - Len(p))
      BY <3>1, SubSeqOfConcat2
    <3>4. SubSeq(w, 1, Len(w)) = w
      BY SubSeqFull
    <3> QED
      BY <3>2, <3>3, <3>4 DEF a, b
  <2> QED
    BY <2>1, <2>2
<1> HIDE DEF s
<1>4. NS!Moved(s, p, q) = q \o SubSeq(s, Len(p) + 1, Len(s))
  BY <1>2 DEF NS!Moved
<1> QED
  BY <1>2, <1>3, <1>4 DEF s

LEMMA PrefixSplits ==
  ASSUME NEW p \in Seq(Names), NEW s \in Seq(Names), NS!IsPrefix(p, s)
  PROVE  \E w \in Seq(Names) : s = p \o w
<1> DEFINE w == SubSeq(s, Len(p) + 1, Len(s))
<1>1. Len(p) \in Nat /\ Len(s) \in Nat /\ Len(p) <= Len(s) /\ SubSeq(s, 1, Len(p)) = p
  BY PrefixIs
<1>2. \A i \in (Len(p) + 1)..Len(s) : s[i] \in Names
  BY <1>1
<1>3. w \in Seq(Names)
  BY <1>1, <1>2, SubSeqProperties
<1>4. SubSeq(s, 1, Len(p)) \o SubSeq(s, Len(p) + 1, Len(s)) = SubSeq(s, 1, Len(s))
  <2> DEFINE k == Len(p)
             n == Len(s)
  <2>1. 1 \in 1..Len(s) + 1 /\ k \in (1 - 1)..Len(s) /\ n \in k..Len(s)
    BY <1>1
  <2> HIDE DEF k, n
  <2>2. SubSeq(s, 1, k) \o SubSeq(s, k + 1, n) = SubSeq(s, 1, n)
    BY <2>1, ConcatAdjacentSubSeq
  <2> QED
    BY <2>2 DEF k, n
<1>5. SubSeq(s, 1, Len(s)) = s
  BY SubSeqFull
<1>6. s = p \o w
  BY <1>1, <1>4, <1>5
<1> QED
  BY <1>3, <1>6

LEMMA UptoPrefix ==
  ASSUME NEW p \in Seq(Names), NEW s \in Seq(Names), NEW n \in 0..Len(s),
         NS!IsPrefix(p, SubSeq(s, 1, n))
  PROVE  NS!IsPrefix(p, s) /\ Len(p) <= n
<1> DEFINE a == SubSeq(s, 1, n)
<1>1. a \in Seq(Names) /\ Len(a) = n
  BY UptoIs
<1>2. NS!IsPrefix(p, a) /\ Len(s) \in Nat /\ Len(p) \in Nat
  OBVIOUS
<1>3. \A m \in 0..n : SubSeq(a, 1, m) = SubSeq(s, 1, m)
  BY UptoUpto
<1> HIDE DEF a
<1>4. Len(p) <= n /\ SubSeq(a, 1, Len(p)) = p
  BY <1>1, <1>2, PrefixIs
<1>5. SubSeq(s, 1, Len(p)) = p /\ Len(p) <= Len(s)
  BY <1>2, <1>3, <1>4
<1> QED
  BY <1>4, <1>5, PrefixIs

-----------------------------------------------------------------------------
(* Trees: every path in one leads through directories.                     *)

Closed(t) ==
  /\ DOMAIN t \subseteq Seq(Names)
  /\ \A e \in DOMAIN t : \A n \in 0..(Len(e) - 1) : NS!IsDir(t, SubSeq(e, 1, n))

LEMMA EmptyClosed == Closed(NS!Empty)
<1>1. DOMAIN NS!Empty = {<<>>}
  BY DEF NS!Empty, NS!Root
<1>2. \A e \in DOMAIN NS!Empty : e \in Seq(Names) /\ Len(e) = 0
  BY <1>1
<1> QED
  BY <1>2 DEF Closed

LEMMA ParentsThere ==
  ASSUME NEW t, Closed(t), NEW p \in Seq(Names), p \in DOMAIN t \/ NS!Vacant(t, p),
         NEW n \in 0..(Len(p) - 1)
  PROVE  NS!IsDir(t, SubSeq(p, 1, n))
<1>1. CASE p \in DOMAIN t
  BY <1>1 DEF Closed
<1>2. CASE NS!Vacant(t, p)
  <2> DEFINE f == SubSeq(p, 1, Len(p) - 1)
  <2>1. Len(p) \in Nat /\ Len(p) - 1 \in 0..Len(p)
    OBVIOUS
  <2>2. f \in Seq(Names) /\ Len(f) = Len(p) - 1
    BY <2>1, UptoIs
  <2>3. NS!IsDir(t, f)
    BY <1>2 DEF NS!Vacant, NS!Front
  <2>4. CASE n = Len(p) - 1
    BY <2>3, <2>4
  <2>5. CASE n # Len(p) - 1
    <3>1. n \in 0..(Len(p) - 1)
      OBVIOUS
    <3>2. SubSeq(f, 1, n) = SubSeq(p, 1, n)
      BY <2>1, <3>1, UptoUpto
    <3> HIDE DEF f
    <3>3. f \in DOMAIN t /\ n \in 0..(Len(f) - 1)
      BY <2>1, <2>2, <2>3, <2>5, <3>1 DEF NS!IsDir
    <3> QED
      BY <3>2, <3>3 DEF Closed
  <2> QED
    BY <2>4, <2>5
<1> QED
  BY <1>1, <1>2

LEMMA InsertClosed ==
  ASSUME NEW t, Closed(t), NEW p \in Seq(Names), NEW k, NS!Vacant(t, p)
  PROVE  Closed(NS!Insert(t, p, k))
<1> DEFINE u == NS!Insert(t, p, k)
<1>1. DOMAIN u = DOMAIN t \cup {p} /\ \A e \in DOMAIN t : u[e] = t[e]
  BY DEF NS!Insert, NS!Vacant
<1> HIDE DEF u
<1>2. \A x : NS!IsDir(t, x) => NS!IsDir(u, x)
  BY <1>1 DEF NS!IsDir
<1>3. ASSUME NEW e \in DOMAIN u, NEW n \in 0..(Len(e) - 1)
      PROVE  NS!IsDir(u, SubSeq(e, 1, n))
  <2>1. e \in Seq(Names) /\ (e \in DOMAIN t \/ NS!Vacant(t, e))
    BY <1>1 DEF Closed
  <2> QED
    BY <1>2, <2>1, ParentsThere
<1>4. DOMAIN u \subseteq Seq(Names)
  BY <1>1 DEF Closed
<1>5. Closed(u)
  BY <1>3, <1>4 DEF Closed
<1> QED
  BY <1>5 DEF u

(* What goes has nothing below it.                                         *)
LEMMA DeleteClosed ==
  ASSUME NEW t, Closed(t), NEW p \in Seq(Names), p \in DOMAIN t,
         t[p] = "reg" \/ NS!Removable(t, p)
  PROVE  Closed(NS!Delete(t, p))
<1> DEFINE u == NS!Delete(t, p)
<1>1. DOMAIN u = DOMAIN t \ {p} /\ \A e \in DOMAIN u : u[e] = t[e]
  BY DEF NS!Delete, NS!Restrict
<1> HIDE DEF u
<1>2. ASSUME NEW e \in DOMAIN u, NEW n \in 0..(Len(e) - 1)
      PROVE  NS!IsDir(u, SubSeq(e, 1, n))
  <2> DEFINE x == SubSeq(e, 1, n)
  <2>1. e \in DOMAIN t /\ e \in Seq(Names) /\ NS!IsDir(t, x)
    BY <1>1 DEF Closed
  <2>2. Len(e) \in Nat /\ n \in 0..Len(e) /\ n < Len(e)
    BY <2>1
  <2>3. Len(x) = n
    BY <2>1, <2>2, UptoIs
  <2>4. x # p
    <3> SUFFICES ASSUME x = p  PROVE FALSE
      OBVIOUS
    <3>1. Len(p) < Len(e) /\ SubSeq(e, 1, Len(p)) = p
      BY <2>2, <2>3
    <3>2. NS!IsStrictPrefix(p, e)
      BY <2>1, <3>1, PrefixIs
    <3>3. e \in NS!Below(t, p)
      BY <2>1, <3>2 DEF NS!Below
    <3>4. t[p] = "dir"
      BY <2>1 DEF NS!IsDir
    <3> QED
      BY <3>3, <3>4 DEF NS!Removable
  <2> HIDE DEF x
  <2>5. NS!IsDir(u, x)
    BY <1>1, <2>1, <2>4 DEF NS!IsDir
  <2> QED
    BY <2>5 DEF x
<1>3. DOMAIN u \subseteq Seq(Names)
  BY <1>1 DEF Closed
<1>4. Closed(u)
  BY <1>2, <1>3 DEF Closed
<1> QED
  BY <1>4 DEF u

(* What gives way to another has nothing below it.                         *)
LEMMA NothingBelow ==
  ASSUME NEW t, Closed(t), NEW p \in Seq(Names), NEW q \in Seq(Names),
         NS!Renamable(t, p, q), p # q, NEW e \in DOMAIN t, NS!IsPrefix(q, e)
  PROVE  e = q
<1> SUFFICES ASSUME e # q  PROVE FALSE
  OBVIOUS
<1>1. e \in Seq(Names) /\ Len(e) \in Nat /\ Len(q) \in Nat
  BY DEF Closed
<1>2. NS!IsStrictPrefix(q, e)
  BY DEF NS!IsStrictPrefix
<1>3. Len(q) < Len(e) /\ SubSeq(e, 1, Len(q)) = q
  BY <1>1, <1>2, PrefixIs
<1>4. Len(q) \in 0..(Len(e) - 1)
  BY <1>1, <1>3
<1>5. q \in DOMAIN t
  BY <1>3, <1>4 DEF Closed, NS!IsDir
<1>6. e \in NS!Below(t, q)
  BY <1>2 DEF NS!Below
<1> QED
  BY <1>5, <1>6 DEF NS!Renamable, NS!Vacant

(* What is renamed and all below it.                                       *)
Branch(t, p) == {e \in DOMAIN t : NS!IsPrefix(p, e)}

LEMMA BranchIs ==
  ASSUME NEW t, Closed(t), NEW p \in Seq(Names), p \in DOMAIN t
  PROVE  {p} \cup NS!Below(t, p) = Branch(t, p)
<1>1. NS!IsPrefix(p, p)
  <2>1. SubSeq(p, 1, Len(p)) = p /\ Len(p) \in Nat
    BY SubSeqFull
  <2> QED
    BY <2>1, PrefixIs
<1> QED
  BY <1>1 DEF Branch, NS!Below, NS!IsStrictPrefix

(* A tree after something has come from p to q, which is not below p.      *)
LEMMA MoveIs ==
  ASSUME NEW t, Closed(t), NEW p \in Seq(Names), NEW q \in Seq(Names),
         NS!Renamable(t, p, q), p # q, ~NS!IsStrictPrefix(p, q)
  PROVE  /\ \A e \in DOMAIN t : ~NS!IsPrefix(p, e) /\ e # q =>
              e \in DOMAIN NS!Move(t, p, q) /\ NS!Move(t, p, q)[e] = t[e]
         /\ \A w \in Seq(Names) : p \o w \in DOMAIN t =>
              /\ q \o w \in DOMAIN NS!Move(t, p, q)
              /\ NS!Move(t, p, q)[q \o w] = t[p \o w]
         /\ \A r \in DOMAIN NS!Move(t, p, q) :
              \/ r \in DOMAIN t /\ ~NS!IsPrefix(p, r) /\ r # q
              \/ \E w \in Seq(Names) : r = q \o w /\ p \o w \in DOMAIN t
<1> DEFINE u == NS!Move(t, p, q)
           rest == DOMAIN t \ ({p, q} \cup NS!Below(t, p))
           moved == {NS!Moved(s, p, q) : s \in Branch(t, p)}
<1>1. p \in DOMAIN t /\ {p} \cup NS!Below(t, p) = Branch(t, p)
  BY BranchIs DEF NS!Renamable
<1>2. rest = {e \in DOMAIN t : ~NS!IsPrefix(p, e) /\ e # q}
  <2>1. rest = DOMAIN t \ (Branch(t, p) \cup {q})
    BY <1>1
  <2> QED
    BY <2>1 DEF Branch
<1>3. u = [r \in rest \cup moved |->
             IF NS!IsPrefix(q, r) THEN t[NS!Moved(r, q, p)] ELSE t[r]]
  BY <1>1 DEF NS!Move
<1> HIDE DEF u, rest, moved
<1>4. DOMAIN u = rest \cup moved
  BY <1>3
<1>5. ASSUME NEW e \in DOMAIN t, ~NS!IsPrefix(p, e), e # q
      PROVE  e \in DOMAIN u /\ u[e] = t[e]
  <2>1. e \in rest
    BY <1>2, <1>5
  <2>2. ~NS!IsPrefix(q, e)
    BY <1>5, NothingBelow
  <2> QED
    BY <1>3, <1>4, <2>1, <2>2
<1>6. ASSUME NEW w \in Seq(Names), p \o w \in DOMAIN t
      PROVE  q \o w \in DOMAIN u /\ u[q \o w] = t[p \o w]
  <2>1. NS!IsPrefix(p, p \o w) /\ NS!Moved(p \o w, p, q) = q \o w
    BY MovedIs
  <2>2. NS!IsPrefix(q, q \o w) /\ NS!Moved(q \o w, q, p) = p \o w
    BY MovedIs
  <2>3. q \o w \in moved
    BY <1>6, <2>1 DEF moved, Branch
  <2> QED
    BY <1>3, <1>4, <2>2, <2>3
<1>7. ASSUME NEW r \in DOMAIN u, r \notin rest
      PROVE  \E w \in Seq(Names) : r = q \o w /\ p \o w \in DOMAIN t
  <2>1. PICK s \in Branch(t, p) : r = NS!Moved(s, p, q)
    BY <1>4, <1>7 DEF moved
  <2>2. s \in DOMAIN t /\ s \in Seq(Names) /\ NS!IsPrefix(p, s)
    BY <2>1 DEF Branch, Closed
  <2>3. PICK w \in Seq(Names) : s = p \o w
    BY <2>2, PrefixSplits
  <2>4. NS!Moved(p \o w, p, q) = q \o w
    BY MovedIs
  <2> QED
    BY <2>1, <2>2, <2>3, <2>4
<1>8. \A r \in DOMAIN u :
        \/ r \in DOMAIN t /\ ~NS!IsPrefix(p, r) /\ r # q
        \/ \E w \in Seq(Names) : r = q \o w /\ p \o w \in DOMAIN t
  BY <1>2, <1>7
<1> QED
  BY <1>5, <1>6, <1>8 DEF u

LEMMA MoveClosed ==
  ASSUME NEW t, Closed(t), NEW p \in Seq(Names), NEW q \in Seq(Names),
         NS!Renamable(t, p, q), p # q
  PROVE  Closed(NS!Move(t, p, q))
<1> DEFINE u == NS!Move(t, p, q)
<1>0. p \in DOMAIN t
  BY DEF NS!Renamable
<1>1. CASE NS!IsStrictPrefix(p, q)
  <2> DEFINE rest == DOMAIN t \ ({p, q} \cup NS!Below(t, p))
  <2>1. {p} \cup NS!Below(t, p) = Branch(t, p)
    BY <1>0, BranchIs
  <2>2. rest = {e \in DOMAIN t : ~NS!IsPrefix(p, e)}
    <3>1. q \in DOMAIN t => q \in Branch(t, p)
      BY <1>1 DEF NS!IsStrictPrefix, Branch
    <3>2. rest = DOMAIN t \ (Branch(t, p) \cup {q})
      BY <2>1
    <3>3. rest = DOMAIN t \ Branch(t, p)
      BY <3>1, <3>2
    <3> QED
      BY <3>3 DEF Branch
  <2>3. u = [e \in rest |-> t[e]]
    BY <1>1 DEF NS!Move, NS!Restrict
  <2> HIDE DEF u, rest
  <2>4. ASSUME NEW e \in DOMAIN u, NEW n \in 0..(Len(e) - 1)
        PROVE  NS!IsDir(u, SubSeq(e, 1, n))
    <3> DEFINE x == SubSeq(e, 1, n)
    <3>1. e \in DOMAIN t /\ e \in Seq(Names) /\ ~NS!IsPrefix(p, e)
      BY <2>2, <2>3 DEF Closed
    <3>2. NS!IsDir(t, x)
      BY <3>1 DEF Closed
    <3>3. n \in 0..Len(e)
      BY <3>1
    <3>4. ~NS!IsPrefix(p, x)
      BY <3>1, <3>3, UptoPrefix
    <3> HIDE DEF x
    <3>5. NS!IsDir(u, x)
      BY <2>2, <2>3, <3>2, <3>4 DEF NS!IsDir
    <3> QED
      BY <3>5 DEF x
  <2>5. DOMAIN u \subseteq Seq(Names)
    BY <2>2, <2>3 DEF Closed
  <2>6. Closed(u)
    BY <2>4, <2>5 DEF Closed
  <2> QED
    BY <2>6 DEF u
<1>2. CASE ~NS!IsStrictPrefix(p, q)
  <2>1. /\ \A e \in DOMAIN t : ~NS!IsPrefix(p, e) /\ e # q => e \in DOMAIN u /\ u[e] = t[e]
        /\ \A w \in Seq(Names) : p \o w \in DOMAIN t =>
             q \o w \in DOMAIN u /\ u[q \o w] = t[p \o w]
        /\ \A r \in DOMAIN u :
             \/ r \in DOMAIN t /\ ~NS!IsPrefix(p, r) /\ r # q
             \/ \E w \in Seq(Names) : r = q \o w /\ p \o w \in DOMAIN t
    BY <1>2, MoveIs
  <2> HIDE DEF u
  <2>2. ASSUME NEW x, NS!IsDir(t, x), ~NS!IsPrefix(p, x), x # q
        PROVE  NS!IsDir(u, x)
    BY <2>1, <2>2 DEF NS!IsDir
  <2>3. ASSUME NEW e \in DOMAIN u, NEW n \in 0..(Len(e) - 1)
        PROVE  NS!IsDir(u, SubSeq(e, 1, n))
    <3>1. CASE e \in DOMAIN t /\ ~NS!IsPrefix(p, e) /\ e # q
      <4> DEFINE x == SubSeq(e, 1, n)
      <4>1. e \in Seq(Names) /\ Len(e) \in Nat /\ n \in 0..Len(e)
        BY <3>1 DEF Closed
      <4>2. NS!IsDir(t, x)
        BY <3>1 DEF Closed
      <4>3. ~NS!IsPrefix(p, x)
        BY <3>1, <4>1, UptoPrefix
      <4>4. x # q
        <5> SUFFICES ASSUME x = q  PROVE FALSE
          OBVIOUS
        <5>1. Len(x) = n
          BY <4>1, UptoIs
        <5>2. Len(q) <= Len(e) /\ SubSeq(e, 1, Len(q)) = q
          BY <4>1, <5>1
        <5>3. NS!IsPrefix(q, e)
          BY <4>1, <5>2, PrefixIs
        <5> QED
          BY <3>1, <5>3, NothingBelow
      <4> HIDE DEF x
      <4>5. NS!IsDir(u, x)
        BY <2>2, <4>2, <4>3, <4>4
      <4> QED
        BY <4>5 DEF x
    <3>2. ASSUME NEW w \in Seq(Names), e = q \o w, p \o w \in DOMAIN t
          PROVE  NS!IsDir(u, SubSeq(e, 1, n))
      <4>1. /\ Len(e) = Len(q) + Len(w) /\ Len(q) \in Nat /\ Len(w) \in Nat /\ Len(p) \in Nat
            /\ n \in Nat
        BY <3>2, UptoConcat
      <4>2. CASE n < Len(q)
        <5> DEFINE x == SubSeq(q, 1, n)
        <5>1. n \in 0..(Len(q) - 1) /\ n \in 0..Len(q)
          BY <4>1, <4>2
        <5>2. SubSeq(e, 1, n) = x
          BY <3>2, <5>1, UptoConcat
        <5>3. q \in DOMAIN t \/ NS!Vacant(t, q)
          BY DEF NS!Renamable
        <5>4. NS!IsDir(t, x)
          BY <5>1, <5>3, ParentsThere
        <5>5. ~NS!IsPrefix(p, x)
          <6> SUFFICES ASSUME NS!IsPrefix(p, x)  PROVE FALSE
            OBVIOUS
          <6>1. NS!IsPrefix(p, q)
            BY <5>1, UptoPrefix
          <6> QED
            BY <1>2, <6>1 DEF NS!IsStrictPrefix
        <5>6. Len(x) = n
          BY <5>1, UptoIs
        <5>7. x # q
          BY <4>2, <5>6
        <5> HIDE DEF x
        <5>8. NS!IsDir(u, x)
          BY <2>2, <5>4, <5>5, <5>7
        <5> QED
          BY <5>2, <5>8
      <4>3. CASE n >= Len(q)
        <5> DEFINE m == n - Len(q)
                   v == SubSeq(w, 1, m)
        <5>1. m \in 0..Len(w) /\ Len(q) + m = n /\ m \in 0..(Len(w) - 1)
          BY <3>2, <4>1, <4>3
        <5> HIDE DEF m
        <5>2. SubSeq(q \o w, 1, Len(q) + m) = q \o v /\ SubSeq(p \o w, 1, Len(p) + m) = p \o v
          BY <5>1, UptoConcat
        <5>3. v \in Seq(Names)
          BY <5>1, UptoIs
        <5>4. Len(p \o w) = Len(p) + Len(w)
          BY UptoConcat
        <5>5. Len(p) + m \in 0..(Len(p \o w) - 1)
          BY <4>1, <5>1, <5>4
        <5>6. NS!IsDir(t, SubSeq(p \o w, 1, Len(p) + m))
          BY <3>2, <5>5 DEF Closed
        <5> HIDE DEF v
        <5>7. p \o v \in DOMAIN t /\ t[p \o v] = "dir"
          BY <5>2, <5>6 DEF NS!IsDir
        <5>8. NS!IsDir(u, q \o v)
          BY <2>1, <5>3, <5>7 DEF NS!IsDir
        <5> QED
          BY <3>2, <5>1, <5>2, <5>8
      <4> QED
        BY <4>1, <4>2, <4>3
    <3> QED
      BY <2>1, <3>1, <3>2
  <2>4. DOMAIN u \subseteq Seq(Names)
    BY <2>1, UptoConcat DEF Closed
  <2>5. Closed(u)
    BY <2>3, <2>4 DEF Closed
  <2> QED
    BY <2>5 DEF u
<1> QED
  BY <1>1, <1>2

(* A file goes with its entry, whatever is deleted, made or renamed.       *)
LEMMA EntryFollows ==
  ASSUME NEW t, Closed(t), NEW p \in Seq(Names), NEW q \in Seq(Names),
         NS!Renamable(t, p, q), p # q,
         NEW e \in DOMAIN t, t[e] = "reg", Follow(e, p, q) # None
  PROVE  /\ Follow(e, p, q) \in DOMAIN NS!Move(t, p, q)
         /\ NS!Move(t, p, q)[Follow(e, p, q)] = "reg"
<1> DEFINE u == NS!Move(t, p, q)
<1>1. e \in Seq(Names) /\ e # q /\ p \in DOMAIN t
  BY DEF Closed, Follow, NS!Renamable
<1>2. /\ IsPrefix(p, e) <=> NS!IsPrefix(p, e)
      /\ IsStrictPrefix(p, q) <=> NS!IsStrictPrefix(p, q)
  BY <1>1, PrefixIs
<1>3. Follow(e, p, q) = IF ~NS!IsPrefix(p, e) THEN e ELSE NS!Moved(e, p, q)
  BY <1>1, <1>2 DEF Follow
<1>4. CASE NS!IsStrictPrefix(p, q)
  <2> DEFINE rest == DOMAIN t \ ({p, q} \cup NS!Below(t, p))
  <2>1. ~NS!IsPrefix(p, e) /\ Follow(e, p, q) = e
    BY <1>1, <1>2, <1>3, <1>4 DEF Follow
  <2>2. {p} \cup NS!Below(t, p) = Branch(t, p)
    BY <1>1, BranchIs
  <2>3. e \in rest
    BY <1>1, <2>1, <2>2 DEF Branch
  <2>4. u = [x \in rest |-> t[x]]
    BY <1>4 DEF NS!Move, NS!Restrict
  <2> HIDE DEF u, rest
  <2>5. Follow(e, p, q) \in DOMAIN u /\ u[Follow(e, p, q)] = "reg"
    BY <2>1, <2>3, <2>4
  <2> QED
    BY <2>5 DEF u
<1>5. CASE ~NS!IsStrictPrefix(p, q)
  <2>1. /\ \A x \in DOMAIN t : ~NS!IsPrefix(p, x) /\ x # q => x \in DOMAIN u /\ u[x] = t[x]
        /\ \A w \in Seq(Names) : p \o w \in DOMAIN t =>
             q \o w \in DOMAIN u /\ u[q \o w] = t[p \o w]
    BY <1>5, MoveIs
  <2> HIDE DEF u
  <2>2. CASE ~NS!IsPrefix(p, e)
    <3>1. Follow(e, p, q) = e /\ e \in DOMAIN u /\ u[e] = t[e]
      BY <1>1, <1>3, <2>1, <2>2
    <3> QED
      BY <3>1 DEF u
  <2>3. CASE NS!IsPrefix(p, e)
    <3>1. PICK w \in Seq(Names) : e = p \o w
      BY <1>1, <2>3, PrefixSplits
    <3>2. Follow(e, p, q) = q \o w
      BY <1>3, <2>3, <3>1, MovedIs
    <3>3. q \o w \in DOMAIN u /\ u[q \o w] = t[p \o w]
      BY <2>1, <3>1
    <3> QED
      BY <3>1, <3>2, <3>3 DEF u
  <2> QED
    BY <2>2, <2>3
<1> QED
  BY <1>4, <1>5

-----------------------------------------------------------------------------
(* The entries of open files.                                              *)

(* An open file stands in the tree of its partition, unless its entry was  *)
(* removed or replaced, and what is formatted is in its slot.              *)
TreesInv == \A l \in Labels : Closed(Tree(l)) /\ Tree(l) \in Trees

EntriesInv ==
  \A f \in Files : file[f] # None /\ file[f].entry # None =>
    LET t == Tree(ctx[file[f].ctx].label) IN
      file[f].entry \in DOMAIN t /\ t[file[f].entry] = "reg"

FormatSlots ==
  \A u \in Tasks : InFormat(u) /\ ctx[task[u].at] # None => InSlot(task[u].at)

NameInv == TreesInv /\ EntriesInv /\ FormatSlots

(* Whoever formats a context after a step did so before, or finds it in    *)
(* its slot.                                                               *)
FormatsStay ==
  \A u \in Tasks : InFormat(u)' =>
    \/ InFormat(u) /\ task'[u].at = task[u].at
    \/ InSlot(task[u].at)'

(* Contexts that are there before and after a step keep their partition    *)
(* and their slot, and nobody formats one that comes.                      *)
ContextsKeep ==
  /\ \A c \in Contexts : ctx'[c] # None =>
       \/ ctx[c] = None /\ \A u \in Tasks : InFormat(u) => task[u].at # c
       \/ /\ ctx[c] # None /\ ctx'[c].label = ctx[c].label
          /\ InSlot(c) => InSlot(c)'
  /\ FormatsStay

FilesStay ==
  \A f \in Files : file'[f] # None =>
    /\ file[f] # None
    /\ file'[f].entry = file[f].entry /\ file'[f].ctx = file[f].ctx
    /\ TreeAfter(ctx[file[f].ctx].label) = Tree(ctx[file[f].ctx].label)

LEMMA SlotsKept ==
  ASSUME IInv, IInv', FormatSlots, ContextsKeep
  PROVE  FormatSlots'
<1> SUFFICES ASSUME NEW u \in Tasks, InFormat(u)', ctx'[task'[u].at] # None
             PROVE  InSlot(task[u].at)'
  BY DEF FormatSlots
<1>1. task'[u].at \in Contexts
  BY DEF IInv, TaskInv, InFormat
<1>2. CASE InFormat(u) /\ task'[u].at = task[u].at
  <2>1. ctx[task[u].at] # None /\ (InSlot(task[u].at) => \E i \in Slots' : efs'[i] = task[u].at)
    BY <1>1, <1>2 DEF ContextsKeep, InSlot
  <2>2. InSlot(task[u].at)
    BY <1>2, <2>1 DEF FormatSlots
  <2> QED
    BY <1>2, <2>1, <2>2 DEF InSlot
<1> QED
  BY <1>2 DEF ContextsKeep, FormatsStay

LEMMA TreeAfterIs == \A l : Tree(l)' = TreeAfter(l)
  BY DEF Tree, TreeAfter

(* A file that is open is in a context that is there.                      *)
LEMMA FileStands ==
  ASSUME IInv, NEW f \in Files, file[f] # None
  PROVE  /\ file[f].ctx \in Contexts /\ ctx[file[f].ctx] # None
         /\ ctx[file[f].ctx].label \in Labels
<1>1. file[f].ctx \in Contexts /\ ctx[file[f].ctx] # None
  BY TypesAre DEF IInv, Typed, FdsInv
<1> QED
  BY <1>1, TypesAre DEF IInv, Typed

LEMMA EntriesKept ==
  ASSUME IInv, IInv', EntriesInv, ContextsKeep, FilesStay
  PROVE  EntriesInv'
<1> SUFFICES ASSUME NEW f \in Files, file'[f] # None, file'[f].entry # None
             PROVE  LET t == TreeAfter(ctx'[file'[f].ctx].label) IN
                      file'[f].entry \in DOMAIN t /\ t[file'[f].entry] = "reg"
  BY TreeAfterIs DEF EntriesInv
<1> DEFINE c == file[f].ctx
           l == ctx[c].label
<1>1. /\ file[f] # None /\ file'[f].entry = file[f].entry /\ file'[f].ctx = c
      /\ TreeAfter(l) = Tree(l)
  BY DEF FilesStay
<1>2. c \in Contexts /\ ctx[c] # None
  BY <1>1, FileStands
<1>3. ctx'[c] # None
  BY <1>1 DEF IInv, FdsInv
<1>4. ctx'[c].label = l
  BY <1>2, <1>3 DEF ContextsKeep
<1>5. file[f].entry \in DOMAIN Tree(l) /\ Tree(l)[file[f].entry] = "reg"
  BY <1>1 DEF EntriesInv
<1> HIDE DEF c, l
<1> QED
  BY <1>1, <1>4, <1>5

LEMMA NamesKept ==
  ASSUME IInv, IInv', NameInv, ContextsKeep, FilesStay,
         \A l \in Labels : Closed(TreeAfter(l)) /\ TreeAfter(l) \in Trees
  PROVE  NameInv'
<1>1. TreesInv'
  BY TreeAfterIs DEF TreesInv
<1> QED
  BY <1>1, SlotsKept, EntriesKept DEF NameInv

(* One context changes and keeps its partition; one file changes and keeps *)
(* its entry, or is closed.                                                *)
OneContext ==
  \/ ctx' = ctx
  \/ \E c \in Contexts : ctx[c] # None /\
       \E e : e.label = ctx[c].label /\ ctx' = [ctx EXCEPT ![c] = e]

OneFile ==
  \/ file' = file
  \/ \E f \in Files : file[f] # None /\
       \E g : /\ g = None \/ (g.entry = file[f].entry /\ g.ctx = file[f].ctx)
              /\ file' = [file EXCEPT ![f] = g]

LEMMA OneContextKeeps ==
  ASSUME TypeOK, UNCHANGED efs, OneContext, FormatsStay
  PROVE  ContextsKeep
<1>1. \A c \in Contexts : InSlot(c) => InSlot(c)'
  BY DEF InSlot, Slots
<1>3. \A c \in Contexts : ctx'[c] # None => ctx[c] # None /\ ctx'[c].label = ctx[c].label
  BY DEF OneContext, TypeOK
<1> QED
  BY <1>1, <1>3 DEF ContextsKeep

LEMMA QuietNames ==
  ASSUME IInv, IInv', NameInv, UNCHANGED <<efs, disk>>, OneContext, OneFile, SameManagers
  PROVE  NameInv' /\ FilesStay
<1>0. FormatsStay
  BY DEF SameManagers, InFormat, Apart, FormatsStay
<1>1. ContextsKeep
  BY <1>0, OneContextKeeps DEF IInv
<1>2. \A l : TreeAfter(l) = Tree(l)
  BY DEF Tree, TreeAfter
<1>3. FilesStay
  <2>1. \A f \in Files : file'[f] # None =>
          file[f] # None /\ file'[f].entry = file[f].entry /\ file'[f].ctx = file[f].ctx
    BY DEF OneFile, IInv, TypeOK
  <2> QED
    BY <1>2, <2>1 DEF FilesStay
<1> QED
  BY <1>1, <1>2, <1>3, NamesKept DEF NameInv, TreesInv

-----------------------------------------------------------------------------
(* Calls on descriptors and directories leave entries and trees alone.     *)

LEMMA FreeFdLabel ==
  ASSUME NEW e \in ContextType, NEW fd
  PROVE  FreeFd(e, fd).label = e.label
  BY DEF FreeFd, ContextType

LEMMA CloseFileNames ==
  ASSUME IInv, NEW c \in Contexts, NEW f \in Files, NEW fd, ctx[c] # None,
         file[f] \in FileType, file[f] # None, CloseFile(c, fd, f)
  PROVE  OneContext /\ OneFile
<1>1. ctx[c] \in ContextType
  BY TypesAre DEF IInv, Typed
<1>2. CASE ctx' = [ctx EXCEPT ![c] = FreeFd(ctx[c], fd)] /\ file' = [file EXCEPT ![f] = None]
  <2>1. FreeFd(ctx[c], fd).label = ctx[c].label
    BY <1>1, FreeFdLabel
  <2> QED
    BY <1>2, <2>1 DEF OneContext, OneFile
<1>3. CASE file' = [file EXCEPT ![f].closed = TRUE] /\ UNCHANGED ctx
  <2> DEFINE g == [file[f] EXCEPT !.closed = TRUE]
  <2>1. g.entry = file[f].entry /\ g.ctx = file[f].ctx
    BY DEF FileType
  <2>2. file' = [file EXCEPT ![f] = g]
    BY <1>3 DEF IInv, TypeOK
  <2> HIDE DEF g
  <2> QED
    BY <1>3, <2>1, <2>2 DEF OneContext, OneFile
<1> QED
  BY <1>2, <1>3 DEF CloseFile

LEMMA TouchedNames ==
  ASSUME IInv, NEW f \in Files, file[f] \in FileType, file[f] # None, NEW d,
         file' = [file EXCEPT ![f].dirty = d]
  PROVE  OneFile
<1> DEFINE g == [file[f] EXCEPT !.dirty = d]
<1>1. g.entry = file[f].entry /\ g.ctx = file[f].ctx
  BY DEF FileType
<1>2. file' = [file EXCEPT ![f] = g]
  BY DEF IInv, TypeOK
<1> HIDE DEF g
<1> QED
  BY <1>1, <1>2 DEF OneFile

LEMMA UseNames ==
  ASSUME IInv, IInv', NameInv, NEW t \in Tasks, UseDescriptor(t)
  PROVE  NameInv' /\ FilesStay
<1>1. PICK h \in handle :
        Close(t, h) \/ Write(t, h) \/ Ftruncate(t, h) \/ Fsync(t, h) \/ Lseek(t, h)
          \/ Pwrite(t, h) \/ Pread(t, h) \/ Stray(t, h)
          \/ Read(t, h) \/ Fstat(t, h) \/ Fcntl(t, h)
  BY DEF UseDescriptor
<1> SUFFICES /\ UNCHANGED <<efs, disk, task>>
             /\ OneContext /\ OneFile
  BY QuietNames DEF SameManagers
<1>2. CASE Close(t, h)
  <2>1. PICK c \in Contexts, f \in Files : OnFile(t, h, c, f) /\ CloseFile(c, h.fd, f)
    BY <1>2 DEF Close
  <2>2. ctx[c] # None /\ file[f] \in FileType /\ file[f] # None
    BY <2>1, OnFileIs
  <2> QED
    BY <1>2, <2>1, <2>2, CloseFileNames DEF Close
<1>3. ASSUME NEW c \in Contexts, NEW f \in Files, NEW d, OnFile(t, h, c, f), Touched(f, d)
      PROVE  UNCHANGED <<efs, disk, task>> /\ OneContext /\ OneFile
  <2>1. file[f] \in FileType /\ file[f] # None
    BY <1>3, OnFileIs
  <2> QED
    BY <1>3, <2>1, TouchedNames DEF Touched, contextVars, OneContext
<1>4. CASE Write(t, h) \/ Ftruncate(t, h) \/ Fsync(t, h) \/ Lseek(t, h)
  BY <1>3, <1>4 DEF Write, Ftruncate, Fsync, Lseek
<1>5. ASSUME NEW d, Positioned(t, h, d)
      PROVE  UNCHANGED <<efs, disk, task>> /\ OneContext /\ OneFile
  <2>1. PICK c \in Contexts, f \in Files :
          /\ OnFile(t, h, c, f)
          /\ \/ Touched(f, d \/ file[f].dirty)
             \/ /\ ctx' = [ctx EXCEPT ![c].holder = t]
                /\ UNCHANGED <<efs, vfs, disk, file, handle, dir, task, fault>>
    BY <1>5 DEF Positioned
  <2>2. CASE Touched(f, d \/ file[f].dirty)
    BY <1>3, <2>1, <2>2
  <2>3. CASE /\ ctx' = [ctx EXCEPT ![c].holder = t]
             /\ UNCHANGED <<efs, vfs, disk, file, handle, dir, task, fault>>
    <3> DEFINE e == [ctx[c] EXCEPT !.holder = t]
    <3>1. ctx[c] # None /\ ctx[c] \in ContextType
      BY <2>1, OnFileIs, TypesAre DEF IInv, Typed
    <3>2. e.label = ctx[c].label
      BY <3>1 DEF ContextType
    <3>3. ctx' = [ctx EXCEPT ![c] = e]
      BY <2>3 DEF IInv, TypeOK
    <3> HIDE DEF e
    <3> QED
      BY <2>3, <3>1, <3>2, <3>3 DEF OneContext, OneFile
  <2> QED
    BY <2>1, <2>2, <2>3
<1>6. CASE Pwrite(t, h) \/ Pread(t, h)
  BY <1>5, <1>6 DEF Pwrite, Pread
<1>7. CASE Stray(t, h) \/ Read(t, h) \/ Fstat(t, h) \/ Fcntl(t, h)
  BY <1>7 DEF Stray, Falls, Read, Fstat, Fcntl, vars, contextVars, OneContext, OneFile
<1> QED
  BY <1>1, <1>2, <1>4, <1>6, <1>7

LEMMA TruncateNames ==
  ASSUME IInv, IInv', NameInv, NEW t \in Tasks, Truncate(t)
  PROVE  NameInv' /\ FilesStay
<1>0. PICK c \in Contexts : c = task[t].at
  BY DEF IInv, TaskInv, Truncate
<1> DEFINE fd == task[t].n
<1>1. TruncateStep(t, c, fd) /\ Truncating(t) /\ fd \in Nat
  BY <1>0, TypesAre DEF Truncate, Truncating, IInv, Typed
<1> HIDE DEF fd
<1> SUFFICES /\ UNCHANGED <<efs, disk>> /\ SameManagers
             /\ OneContext /\ OneFile
  BY QuietNames
<1>2. Idle.pc \in Apart /\ task[t].pc \in Apart
  BY <1>1 DEF Idle, Apart, Truncating
<1>3. ASSUME task' = task \/ task' = [task EXCEPT ![t] = Idle] \/ task' = [task EXCEPT ![t].pc = "close"]
      PROVE  SameManagers
  <2>1. \A u \in Tasks \ {t} : task'[u] = task[u]
    BY <1>3 DEF IInv, TypeOK
  <2>2. task'[t] = task[t] \/ task'[t].pc \in Apart
    BY <1>2, <1>3 DEF IInv, TypeOK, Apart
  <2> QED
    BY <1>2, <2>1, <2>2 DEF SameManagers
<1>4. CASE task' = [task EXCEPT ![t] = Idle] /\ UNCHANGED <<contextVars, file, fault>>
  BY <1>3, <1>4 DEF contextVars, OneContext, OneFile
<1>5. CASE fault' = TRUE /\ UNCHANGED <<contextVars, file, task>>
  BY <1>3, <1>5 DEF contextVars, OneContext, OneFile
<1>6. ASSUME NEW f \in Files, Lockable(t, c), InCache(c, fd, f),
             IF task[t].pc = "truncate"
             THEN /\ file' \in {file, [file EXCEPT ![f].dirty = TRUE]}
                  /\ task' = [task EXCEPT ![t].pc = "close"]
                  /\ UNCHANGED contextVars
             ELSE /\ CloseFile(c, fd, f)
                  /\ task' = [task EXCEPT ![t] = Idle]
                  /\ UNCHANGED <<efs, vfs, disk>>
      PROVE  /\ UNCHANGED <<efs, disk>> /\ SameManagers
             /\ OneContext /\ OneFile
  <2>1. /\ ctx[c] # None /\ fd < CacheSize(c) /\ ctx[c].cache[fd + 1] = f /\ f # None
    BY <1>6 DEF Lockable, Sound, InCache
  <2>2. InContext(f, c)
    BY <1>1, <2>1, InCacheIs DEF IInv
  <2>3. file[f] \in FileType /\ file[f] # None
    BY <2>2 DEF InContext, IInv, TypeOK
  <2>4. CASE task[t].pc = "truncate"
    BY <1>3, <1>6, <2>3, <2>4, TouchedNames DEF contextVars, OneContext, OneFile
  <2>5. CASE task[t].pc # "truncate"
    BY <1>3, <1>6, <2>1, <2>3, <2>5, CloseFileNames
  <2> QED
    BY <2>4, <2>5
<1> QED
  BY <1>1, <1>4, <1>5, <1>6 DEF TruncateStep

LEMMA ReadNames ==
  ASSUME IInv, IInv', NameInv, NEW t \in Tasks, ReadDirectory(t)
  PROVE  NameInv' /\ FilesStay
<1>1. PICK d : SetDir(t, d)
  BY DEF ReadDirectory, Opendir, Closedir, Readdir, Seekdir, SeekdirStep
<1>2. UNCHANGED <<efs, disk>> /\ OneContext /\ OneFile /\ SameManagers
  BY <1>1 DEF SetDir, contextVars, OneContext, OneFile, SameManagers
<1> QED
  BY <1>2, QuietNames

-----------------------------------------------------------------------------
(* What can be on a partition stays that.                                  *)
LEMMA TreeIs ==
  ASSUME NEW t \in Trees
  PROVE  /\ DOMAIN t \subseteq NS!Paths /\ t # None
         /\ \A e \in DOMAIN t : t[e] \in {"reg", "dir"}
<1>1. PICK S \in SUBSET NS!Paths : t \in [S -> {"reg", "dir"}]
  BY DEF Trees
<1> QED
  BY <1>1, TreesAssumption

LEMMA TreeMade ==
  ASSUME NEW S \in SUBSET NS!Paths, NEW t \in [S -> {"reg", "dir"}]
  PROVE  t \in Trees
  BY DEF Trees

LEMMA EmptyTree == NS!Empty \in Trees
<1>1. NS!Root \in NS!Paths
  <2>1. <<>> \in [1..0 -> Names] /\ 0 \in 0..MaxDepth
    BY BoundsAssumption
  <2> QED
    BY <2>1 DEF NS!Root, NS!Paths
<1>2. NS!Empty \in [{NS!Root} -> {"reg", "dir"}] /\ {NS!Root} \in SUBSET NS!Paths
  BY <1>1 DEF NS!Empty
<1> HIDE DEF NS!Paths
<1> QED
  BY <1>2, TreeMade

LEMMA InsertTree ==
  ASSUME NEW t \in Trees, NEW p \in NS!Paths, NEW k \in {"reg", "dir"}
  PROVE  NS!Insert(t, p, k) \in Trees
<1> DEFINE S == DOMAIN t \cup {p}
<1>1. S \in SUBSET NS!Paths /\ \A e \in DOMAIN t : t[e] \in {"reg", "dir"}
  BY TreeIs
<1>2. NS!Insert(t, p, k) \in [S -> {"reg", "dir"}]
  BY <1>1 DEF NS!Insert
<1> HIDE DEF S
<1> QED
  BY <1>1, <1>2, TreeMade

LEMMA DeleteTree ==
  ASSUME NEW t \in Trees, NEW p
  PROVE  NS!Delete(t, p) \in Trees
<1> DEFINE S == DOMAIN t \ {p}
<1>1. S \in SUBSET NS!Paths /\ \A e \in S : t[e] \in {"reg", "dir"}
  BY TreeIs
<1>2. NS!Delete(t, p) \in [S -> {"reg", "dir"}]
  BY <1>1 DEF NS!Delete, NS!Restrict
<1> HIDE DEF S
<1> QED
  BY <1>1, <1>2, TreeMade

LEMMA MoveTree ==
  ASSUME NEW t \in Trees, Closed(t), NEW p \in Seq(Names), NEW q \in Seq(Names),
         NS!Renamable(t, p, q), p # q, DOMAIN NS!Move(t, p, q) \subseteq NS!Paths
  PROVE  NS!Move(t, p, q) \in Trees
<1> DEFINE u == NS!Move(t, p, q)
<1>1. \A e \in DOMAIN t : t[e] \in {"reg", "dir"}
  BY TreeIs
<1>2. CASE NS!IsStrictPrefix(p, q)
  <2> DEFINE rest == DOMAIN t \ ({p, q} \cup NS!Below(t, p))
  <2>1. u = [x \in rest |-> t[x]]
    BY <1>2 DEF NS!Move, NS!Restrict
  <2>2. rest \subseteq DOMAIN t
    OBVIOUS
  <2> HIDE DEF u, rest
  <2>3. u \in [rest -> {"reg", "dir"}] /\ rest = DOMAIN u
    BY <1>1, <2>1, <2>2
  <2>4. rest \in SUBSET NS!Paths
    BY <2>3 DEF u
  <2> QED
    BY <2>3, <2>4, TreeMade DEF u
<1>3. CASE ~NS!IsStrictPrefix(p, q)
  <2>1. u = [r \in DOMAIN u |-> u[r]]
    BY <1>3 DEF NS!Move
  <2>2. /\ \A e \in DOMAIN t : ~NS!IsPrefix(p, e) /\ e # q =>
             e \in DOMAIN u /\ u[e] = t[e]
        /\ \A w \in Seq(Names) : p \o w \in DOMAIN t =>
             q \o w \in DOMAIN u /\ u[q \o w] = t[p \o w]
        /\ \A r \in DOMAIN u :
             \/ r \in DOMAIN t /\ ~NS!IsPrefix(p, r) /\ r # q
             \/ \E w \in Seq(Names) : r = q \o w /\ p \o w \in DOMAIN t
    BY <1>3, MoveIs
  <2>3. DOMAIN u \in SUBSET NS!Paths
    OBVIOUS
  <2> HIDE DEF u
  <2>4. \A r \in DOMAIN u : u[r] \in {"reg", "dir"}
    BY <1>1, <2>2
  <2>5. u \in [DOMAIN u -> {"reg", "dir"}]
    BY <2>1, <2>4
  <2>6. u \in Trees
    BY <2>3, <2>5, TreeMade
  <2> QED
    BY <2>6 DEF u
<1> QED
  BY <1>2, <1>3

-----------------------------------------------------------------------------
(* Calls that manage partitions.                                           *)

(* Files that stay are as they were.                                       *)
FilesShrink == \A f \in Files : file'[f] # None => file'[f] = file[f]

(* Two contexts in slots are not of one partition.                         *)
LEMMA OneInSlot ==
  ASSUME IInv, NEW c \in Contexts, NEW d \in Contexts, InSlot(c), InSlot(d),
         ctx[c].label = ctx[d].label
  PROVE  c = d
<1>1. PICK i \in Slots : efs[i] = c
  BY DEF InSlot
<1>2. PICK j \in Slots : efs[j] = d
  BY DEF InSlot
<1> QED
  BY <1>1, <1>2, NoneAssumption DEF IInv, SlotInv, OneSlotPerPartition

(* A partition that is not registered has no open files, and neither has   *)
(* one that is being formatted.                                            *)
LEMMA NobodyThere ==
  ASSUME IInv, NEW l \in Labels, ~Registered(l), NEW f \in Files, file[f] # None
  PROVE  ctx[file[f].ctx].label # l
<1>1. InSlot(file[f].ctx) /\ file[f].ctx \in Contexts
  BY FileStands DEF IInv, SlotInv
<1>2. PICK i \in Slots : efs[i] = file[f].ctx
  BY <1>1 DEF InSlot
<1> QED
  BY <1>1, <1>2, NotRegistered, NoneAssumption

LEMMA NobodyInside ==
  ASSUME IInv, FormatSlots, NEW u \in Tasks, InFormat(u), ctx[task[u].at] # None,
         NEW f \in Files, file[f] # None
  PROVE  ctx[file[f].ctx].label # task[u].label
<1> SUFFICES ASSUME ctx[file[f].ctx].label = task[u].label  PROVE FALSE
  OBVIOUS
<1>1. task[u].at \in Contexts
  BY DEF IInv, TaskInv, InFormat
<1> DEFINE d == task[u].at
<1>2. ctx[d].label = task[u].label /\ ctx[d].cache = <<>> /\ InSlot(d)
  BY DEF IInv, TaskInv, RemountInv, FormatSlots
<1>3. InSlot(file[f].ctx) /\ file[f].ctx \in Contexts
  BY FileStands DEF IInv, SlotInv
<1>4. file[f].ctx = d
  BY <1>1, <1>2, <1>3, OneInSlot
<1>5. Agree(ctx[d]) /\ f \in ToSet(ctx[d].list)
  BY <1>1, <1>4 DEF IInv, FdsInv
<1>6. Taken(ctx[d].cache) = {}
  BY <1>2 DEF Taken
<1> HIDE DEF d
<1> QED
  BY <1>5, <1>6 DEF Agree

(* A slot loses its context.                                               *)
LEMMA FreedContexts ==
  ASSUME TypeOK, NEW i \in Slots, efs' = [efs EXCEPT ![i] = None],
         \/ efs[i] = None /\ ctx' = ctx
         \/ efs[i] # None /\ ctx' = [ctx EXCEPT ![efs[i]] = None],
         \A u \in Tasks : InFormat(u)' => InFormat(u) /\ task'[u].at = task[u].at
  PROVE  ContextsKeep
<1>1. \A c \in Contexts : ctx'[c] # None => ctx'[c] = ctx[c] /\ c # efs[i]
  BY NoneAssumption DEF TypeOK
<1>2. ASSUME NEW c \in Contexts, ctx'[c] # None, InSlot(c)
      PROVE  InSlot(c)'
  <2>1. PICK j \in Slots : efs[j] = c
    BY <1>2 DEF InSlot
  <2>2. j \in Slots' /\ efs'[j] = c
    BY <1>1, <1>2, <2>1 DEF Slots
  <2> QED
    BY <2>2 DEF InSlot
<1>3. FormatsStay
  BY DEF FormatsStay
<1>4. \A c \in Contexts : ctx'[c] # None => ctx[c] # None /\ ctx'[c].label = ctx[c].label
  BY <1>1
<1> QED
  BY <1>2, <1>3, <1>4 DEF ContextsKeep

LEMMA FreeSlotNames ==
  ASSUME TypeOK, NEW i \in Slots, FreeSlot(i),
         \A u \in Tasks : InFormat(u)' => InFormat(u) /\ task'[u].at = task[u].at
  PROVE  ContextsKeep /\ FilesShrink
<1>1. /\ efs' = [efs EXCEPT ![i] = None]
      /\ \/ efs[i] = None /\ ctx' = ctx
         \/ efs[i] # None /\ ctx' = [ctx EXCEPT ![efs[i]] = None]
      /\ file' = file \/ file' = [f \in Files |-> IF InContext(f, efs[i]) THEN None ELSE file[f]]
  BY DEF FreeSlot, FreeFds
<1>2. FilesShrink
  BY <1>1 DEF FilesShrink
<1> QED
  BY <1>1, <1>2, FreedContexts

(* A context comes that was not there.                                     *)
LEMMA FreshContexts ==
  ASSUME IInv, NEW c \in Heap, NEW e, ctx' = [ctx EXCEPT ![c] = e],
         UNCHANGED efs \/ (Vacancies # {} /\ efs' = [efs EXCEPT ![Min(Vacancies)] = c]),
         FormatsStay
  PROVE  ContextsKeep
<1>1. /\ c \in Contexts /\ c # None /\ ctx[c] = None
      /\ \A u \in Tasks : task[u].at # c
  BY HeapIs
<1>2. \A d \in Contexts : d # c => ctx'[d] = ctx[d]
  BY <1>1 DEF IInv, TypeOK
<1>3. ASSUME NEW d \in Contexts, InSlot(d)
      PROVE  InSlot(d)'
  <2>1. PICK j \in Slots : efs[j] = d
    BY <1>3 DEF InSlot
  <2>2. Vacancies # {} => Min(Vacancies) \in Vacancies
    <3>1. Vacancies \in SUBSET Nat
      BY DEF Vacancies, IInv, TypeOK, Slots
    <3> QED
      BY <3>1, MinIs
  <2>3. j \notin Vacancies
    BY <2>1, NoneAssumption DEF Vacancies
  <2>4. j \in Slots' /\ efs'[j] = d
    BY <2>1, <2>2, <2>3 DEF Slots
  <2> QED
    BY <2>4 DEF InSlot
<1>4. ASSUME NEW d \in Contexts, ctx'[d] # None
      PROVE  \/ ctx[d] = None /\ \A u \in Tasks : InFormat(u) => task[u].at # d
             \/ ctx[d] # None /\ ctx'[d].label = ctx[d].label /\ (InSlot(d) => InSlot(d)')
  <2>1. CASE d = c
    BY <1>1, <2>1
  <2>2. CASE d # c
    BY <1>2, <1>3, <1>4, <2>2
  <2> QED
    BY <2>1, <2>2
<1> QED
  BY <1>4 DEF ContextsKeep

(* Trees that are made anew belong to partitions with nothing open.        *)
LEMMA ManagedNames ==
  ASSUME IInv, IInv', NameInv, ContextsKeep, FilesShrink,
         \A l \in Labels :
           \/ disk'[l] = disk[l]
           \/ /\ disk'[l] \in {None, NS!Empty}
              /\ \A f \in Files : file[f] # None => ctx[file[f].ctx].label # l
  PROVE  NameInv' /\ FilesStay
<1>1. \A l \in Labels : TreeAfter(l) = Tree(l) \/ TreeAfter(l) = NS!Empty
  BY DEF TreeAfter, Tree
<1>2. \A l \in Labels : Closed(TreeAfter(l)) /\ TreeAfter(l) \in Trees
  BY <1>1, EmptyClosed, EmptyTree DEF NameInv, TreesInv
<1>3. FilesStay
  <2> SUFFICES ASSUME NEW f \in Files, file'[f] # None
               PROVE  /\ file[f] # None
                      /\ file'[f].entry = file[f].entry /\ file'[f].ctx = file[f].ctx
                      /\ TreeAfter(ctx[file[f].ctx].label) = Tree(ctx[file[f].ctx].label)
    BY DEF FilesStay
  <2>1. file'[f] = file[f]
    BY DEF FilesShrink
  <2> DEFINE l == ctx[file[f].ctx].label
  <2>2. l \in Labels
    BY <2>1, FileStands
  <2>3. disk'[l] = disk[l]
    BY <2>1, <2>2
  <2>4. TreeAfter(l) = Tree(l)
    BY <2>3 DEF TreeAfter, Tree
  <2> HIDE DEF l
  <2> QED
    BY <2>1, <2>4 DEF l
<1> QED
  BY <1>2, <1>3, NamesKept

LEMMA RegisterInitNames ==
  ASSUME IInv, IInv', NameInv, NEW t \in Tasks, NEW l \in Labels, RegisterInit(t, l)
  PROVE  NameInv' /\ FilesStay
<1>0. TypeOK
  BY DEF IInv
<1>1. CASE InitRefused(l) /\ UNCHANGED <<task, disk>>
  <2>1. \A u \in Tasks : InFormat(u)' => InFormat(u) /\ task'[u].at = task[u].at
    BY <1>1 DEF InFormat
  <2>2. CASE UNCHANGED <<efs, ctx, handle, file>>
    <3>1. OneContext /\ OneFile /\ SameManagers
      BY <1>1, <2>2 DEF OneContext, OneFile, SameManagers
    <3> QED
      BY <1>1, <2>2, <3>1, QuietNames
  <2>3. CASE Registered(l) /\ FreeSlot(Min(Labelled(l)))
    <3>1. ContextsKeep /\ FilesShrink
      BY <1>0, <2>1, <2>3, LabelledIs, FreeSlotNames
    <3> QED
      BY <1>1, <3>1, ManagedNames
  <2> QED
    BY <1>1, <2>2, <2>3 DEF InitRefused
<1>2. CASE InitOutOfMemory(l) /\ UNCHANGED <<task, disk>>
  <2>1. FormatsStay
    BY <1>2 DEF FormatsStay, InFormat
  <2>2. UNCHANGED <<efs, file>> /\ FilesShrink
    BY <1>2 DEF InitOutOfMemory, FilesShrink
  <2>3. ContextsKeep
    <3>1. CASE ctx' = ctx
      BY <1>0, <2>1, <2>2, <3>1, OneContextKeeps DEF OneContext
    <3>2. CASE \E c \in Heap : ctx' = [ctx EXCEPT ![c] = NewContext(l)]
      BY <2>1, <2>2, <3>2, FreshContexts
    <3> QED
      BY <1>2, <3>1, <3>2 DEF InitOutOfMemory
  <2> QED
    BY <1>2, <2>2, <2>3, ManagedNames
<1>3. CASE /\ ~Registered(l) /\ disk' \in {disk, [disk EXCEPT ![l] = None]}
           /\ UNCHANGED <<efs, ctx, handle, file, task>>
  <2>1. FormatsStay /\ FilesShrink
    BY <1>3 DEF FormatsStay, InFormat, FilesShrink
  <2>2. ContextsKeep
    BY <1>0, <1>3, <2>1, OneContextKeeps DEF OneContext
  <2>3. \A k \in Labels :
          disk'[k] = disk[k] \/ (k = l /\ disk'[k] \in {None, NS!Empty})
    BY <1>0, <1>3 DEF TypeOK
  <2> QED
    BY <1>3, <2>1, <2>2, <2>3, NobodyThere, ManagedNames
<1>4. CASE /\ \E c \in Heap, cache \in {<<>>, EmptyCache} : InitContext(l, c, cache)
           /\ UNCHANGED disk \/ disk' = [disk EXCEPT ![l] = NS!Empty]
           /\ task' = [task EXCEPT ![t] = [pc |-> "register", label |-> l, at |-> None, n |-> 0]]
  <2>1. PICK c \in Heap, cache \in {<<>>, EmptyCache} : InitContext(l, c, cache)
    BY <1>4
  <2>2. /\ Vacancies # {} /\ ~Registered(l) /\ UNCHANGED file
        /\ efs' = [efs EXCEPT ![Min(Vacancies)] = c]
        /\ ctx' = [ctx EXCEPT ![c] = [NewContext(l) EXCEPT !.cache = cache]]
    BY <2>1 DEF InitContext
  <2>3. FormatsStay /\ FilesShrink
    <3>1. \A u \in Tasks : task'[u] = task[u] \/ task'[u].pc = "register"
      BY <1>0, <1>4 DEF TypeOK
    <3> QED
      BY <2>2, <3>1 DEF FormatsStay, InFormat, FilesShrink
  <2>4. ContextsKeep
    BY <2>2, <2>3, FreshContexts
  <2>5. \A k \in Labels :
          disk'[k] = disk[k] \/ (k = l /\ disk'[k] \in {None, NS!Empty})
    BY <1>0, <1>4 DEF TypeOK
  <2> QED
    BY <2>2, <2>3, <2>4, <2>5, NobodyThere, ManagedNames
<1> QED
  BY <1>1, <1>2, <1>3, <1>4 DEF RegisterInit

LEMMA RegisterVfsNames ==
  ASSUME IInv, IInv', NameInv, NEW t \in Tasks, RegisterVfs(t)
  PROVE  NameInv' /\ FilesStay
<1>0. TypeOK /\ task[t].label \in Labels
  BY DEF IInv, TaskInv, RegisterVfs
<1> DEFINE l == task[t].label
<1>1. UNCHANGED disk /\ task' = [task EXCEPT ![t] = Idle]
  BY DEF RegisterVfs
<1>2. \A u \in Tasks : InFormat(u)' => InFormat(u) /\ task'[u].at = task[u].at
  BY <1>0, <1>1 DEF TypeOK, InFormat, Idle
<1>3. CASE UNCHANGED <<efs, ctx, file>>
  <2>1. ContextsKeep /\ FilesShrink
    BY <1>0, <1>2, <1>3, OneContextKeeps DEF OneContext, FormatsStay, FilesShrink
  <2> QED
    BY <1>1, <2>1, ManagedNames
<1>4. CASE Registered(l) /\ FreeSlot(Min(Labelled(l)))
  <2>1. ContextsKeep /\ FilesShrink
    BY <1>0, <1>2, <1>4, LabelledIs, FreeSlotNames
  <2> QED
    BY <1>1, <2>1, ManagedNames
<1> QED
  BY <1>3, <1>4 DEF RegisterVfs

LEMMA UnregisterNames ==
  ASSUME IInv, IInv', NameInv, NEW t \in Tasks, NEW l \in Labels, Unregister(t, l)
  PROVE  NameInv' /\ FilesStay
<1>0. TypeOK
  BY DEF IInv
<1>1. /\ Min(Labelled(l)) \in Slots /\ efs[Min(Labelled(l))] = ByLabel(l)
      /\ ByLabel(l) \in Contexts /\ ByLabel(l) # None
  BY LabelledIs DEF Unregister
<1> DEFINE i == Min(Labelled(l))
<1>2. /\ efs' = [efs EXCEPT ![i] = None] /\ ctx' = [ctx EXCEPT ![efs[i]] = None]
      /\ UNCHANGED <<disk, task>>
      /\ \E c : file' = [f \in Files |-> IF InContext(f, c) THEN None ELSE file[f]]
  BY <1>1 DEF Unregister
<1> HIDE DEF i
<1>3. \A u \in Tasks : InFormat(u)' => InFormat(u) /\ task'[u].at = task[u].at
  BY <1>2 DEF InFormat
<1>4. i \in Slots /\ efs[i] # None
  BY <1>1 DEF i
<1>5. ContextsKeep
  BY <1>0, <1>2, <1>3, <1>4, FreedContexts
<1>6. FilesShrink
  BY <1>2 DEF FilesShrink
<1> QED
  BY <1>2, <1>5, <1>6, ManagedNames

LEMMA FormatBeginNames ==
  ASSUME IInv, IInv', NameInv, NEW t \in Tasks, NEW l \in Labels, FormatBegin(t, l)
  PROVE  NameInv' /\ FilesStay
<1>0. TypeOK
  BY DEF IInv
<1>1. UNCHANGED disk
  BY DEF FormatBegin
<1>2. CASE Registered(l)
  <2>1. PICK c \in Contexts : c = ByLabel(l) /\ InSlot(c) /\ ctx[c] # None /\ ctx[c].label = l
    BY <1>2, LabelledIs DEF InSlot
  <2> DEFINE e == [NewContext(l) EXCEPT !.holder = ctx[c].holder]
  <2>2. ctx' = [ctx EXCEPT ![c] = e] /\ FreeFds(c) /\ UNCHANGED efs
    BY <1>2, <2>1 DEF FormatBegin
  <2>3. \E r : r.at = c /\ task' = [task EXCEPT ![t] = r]
    BY <1>2, <2>1 DEF FormatBegin
  <2>4. e.label = l
    BY DEF NewContext
  <2> HIDE DEF e
  <2>5. OneContext
    BY <2>1, <2>2, <2>4 DEF OneContext
  <2>6. InSlot(c)'
    BY <2>1, <2>2 DEF InSlot, Slots
  <2>7. FormatsStay
    <3>1. \A u \in Tasks : task'[u] = task[u] \/ task'[u].at = c
      BY <1>0, <2>3 DEF TypeOK
    <3>2. \E i \in Slots' : efs'[i] = c
      BY <2>6 DEF InSlot
    <3> QED
      BY <3>1, <3>2 DEF FormatsStay, InFormat, InSlot
  <2>8. ContextsKeep
    BY <1>0, <2>2, <2>5, <2>7, OneContextKeeps
  <2>9. FilesShrink
    BY <2>2 DEF FreeFds, FilesShrink
  <2> QED
    BY <1>1, <2>8, <2>9, ManagedNames
<1>3. CASE ~Registered(l)
  <2>1. ASSUME NEW c \in Heap, InitContext(l, c, <<>>),
               task' = [task EXCEPT ![t] =
                          [pc |-> "erase_new", label |-> l, at |-> c, n |-> Min(Vacancies)]]
        PROVE  NameInv' /\ FilesStay
    <3>1. /\ Vacancies # {} /\ UNCHANGED file
          /\ efs' = [efs EXCEPT ![Min(Vacancies)] = c]
          /\ ctx' = [ctx EXCEPT ![c] = [NewContext(l) EXCEPT !.cache = <<>>]]
      BY <2>1 DEF InitContext
    <3>2. Min(Vacancies) \in Slots
      <4>1. Vacancies \in SUBSET Nat
        BY <1>0 DEF Vacancies, TypeOK, Slots
      <4>2. Min(Vacancies) \in Vacancies
        BY <3>1, <4>1, MinIs
      <4> QED
        BY <4>2 DEF Vacancies
    <3>3. \E i \in Slots' : efs'[i] = c
      BY <3>1, <3>2 DEF Slots
    <3>4. \A u \in Tasks : task'[u] = task[u] \/ task'[u].at = c
      BY <1>0, <2>1 DEF TypeOK
    <3>5. FormatsStay
      BY <3>3, <3>4 DEF FormatsStay, InFormat, InSlot
    <3>6. FilesShrink
      BY <3>1 DEF FilesShrink
    <3>7. ContextsKeep
      BY <3>1, <3>5, FreshContexts
    <3> QED
      BY <1>1, <3>6, <3>7, ManagedNames
  <2>2. ASSUME InitRefused(l), UNCHANGED task
        PROVE  NameInv' /\ FilesStay
    <3>1. UNCHANGED <<efs, ctx, handle, file>>
      BY <1>3, <2>2 DEF InitRefused
    <3>2. OneContext /\ OneFile /\ SameManagers
      BY <2>2, <3>1 DEF OneContext, OneFile, SameManagers
    <3> QED
      BY <1>1, <3>1, <3>2, QuietNames
  <2>3. ASSUME InitOutOfMemory(l), UNCHANGED task
        PROVE  NameInv' /\ FilesStay
    <3>1. FormatsStay
      BY <2>3 DEF FormatsStay, InFormat
    <3>2. UNCHANGED <<efs, file>> /\ FilesShrink
      BY <2>3 DEF InitOutOfMemory, FilesShrink
    <3>3. ContextsKeep
      <4>1. CASE ctx' = ctx
        BY <1>0, <3>1, <3>2, <4>1, OneContextKeeps DEF OneContext
      <4>2. CASE \E c \in Heap : ctx' = [ctx EXCEPT ![c] = NewContext(l)]
        BY <3>1, <3>2, <4>2, FreshContexts
      <4> QED
        BY <2>3, <4>1, <4>2 DEF InitOutOfMemory
    <3> QED
      BY <1>1, <3>2, <3>3, ManagedNames
  <2> QED
    BY <1>3, <2>1, <2>2, <2>3 DEF FormatBegin
<1> QED
  BY <1>2, <1>3

LEMMA FormatEraseNames ==
  ASSUME IInv, IInv', NameInv, NEW t \in Tasks, FormatErase(t)
  PROVE  NameInv' /\ FilesStay
<1>0. TypeOK
  BY DEF IInv
<1> DEFINE l == task[t].label
           c == task[t].at
<1>1. task[t].pc \in {"erase", "erase_mounted", "erase_new"} /\ InFormat(t)
  BY DEF FormatErase, InFormat
<1>2. CASE ctx[c] = None \/ ctx[c].label # l
  <2>1. UNCHANGED <<efs, ctx, file, disk, task>>
    BY <1>2 DEF FormatErase
  <2>2. OneContext /\ OneFile /\ SameManagers
    BY <2>1 DEF OneContext, OneFile, SameManagers
  <2> QED
    BY <2>1, <2>2, QuietNames
<1>3. CASE ~(ctx[c] = None \/ ctx[c].label # l)
  <2>1. \A f \in Files : file[f] # None => ctx[file[f].ctx].label # l
    BY <1>1, <1>3, NobodyInside DEF NameInv
  <2>2. \A k \in Labels :
          disk'[k] = disk[k] \/ (k = l /\ disk'[k] \in {None, NS!Empty})
    BY <1>0, <1>3 DEF FormatErase, TypeOK
  <2>3. \A u \in Tasks : InFormat(u)' => InFormat(u) /\ task'[u].at = task[u].at
    <3>1. \/ task' = [task EXCEPT ![t] = Idle]
          \/ task' = [task EXCEPT ![t].pc = "remount"]
      BY <1>3 DEF FormatErase
    <3>2. task[t] \in TaskRecord
      BY <1>0 DEF TypeOK, TaskRecord
    <3>3. [task[t] EXCEPT !.pc = "remount"].at = task[t].at
      BY <3>2 DEF TaskRecord
    <3>4. \A u \in Tasks : u # t => task'[u] = task[u]
      BY <1>0, <3>1 DEF TypeOK
    <3>5. task'[t] = Idle \/ task'[t] = [task[t] EXCEPT !.pc = "remount"]
      BY <1>0, <3>1 DEF TypeOK
    <3>6. task'[t].pc = "idle" \/ task'[t].at = task[t].at
      <4>1. CASE task'[t] = Idle
        BY <4>1 DEF Idle
      <4>2. CASE task'[t] = [task[t] EXCEPT !.pc = "remount"]
        BY <3>3, <4>2, Zenon
      <4> QED
        BY <3>5, <4>1, <4>2
    <3> QED
      BY <1>1, <3>4, <3>6 DEF InFormat
  <2>4. CASE UNCHANGED <<efs, ctx, file>>
    <3>1. ContextsKeep /\ FilesShrink
      BY <1>0, <2>3, <2>4, OneContextKeeps DEF OneContext, FormatsStay, FilesShrink
    <3> QED
      BY <2>1, <2>2, <3>1, ManagedNames
  <2>5. CASE task[t].pc = "erase_new" /\ FreeSlot(task[t].n)
    <3>1. task[t].n \in Slots
      BY <2>5 DEF IInv, TaskInv
    <3>2. ContextsKeep /\ FilesShrink
      BY <1>0, <2>3, <2>5, <3>1, FreeSlotNames
    <3> QED
      BY <2>1, <2>2, <3>2, ManagedNames
  <2> QED
    BY <1>3, <2>4, <2>5 DEF FormatErase
<1> QED
  BY <1>2, <1>3

LEMMA FormatRemountNames ==
  ASSUME IInv, IInv', NameInv, NEW t \in Tasks, FormatRemount(t)
  PROVE  NameInv' /\ FilesStay
<1>0. TypeOK
  BY DEF IInv
<1>1. PICK c \in Contexts : c = task[t].at
  BY DEF IInv, TaskInv, FormatRemount
<1>2. /\ task' = [task EXCEPT ![t] = Idle] /\ UNCHANGED <<efs, disk, file>>
      /\ ctx' = ctx \/ (ctx[c] # None /\ ctx' = [ctx EXCEPT ![c].cache = EmptyCache])
  BY <1>1 DEF FormatRemount
<1>3. FormatsStay /\ FilesShrink
  <2>1. \A u \in Tasks : InFormat(u)' => InFormat(u) /\ task'[u].at = task[u].at
    BY <1>0, <1>2 DEF TypeOK, InFormat, Idle
  <2> QED
    BY <1>2, <2>1 DEF FormatsStay, FilesShrink
<1>4. OneContext
  <2>1. CASE ctx' = ctx
    BY <2>1 DEF OneContext
  <2>2. CASE ctx[c] # None /\ ctx' = [ctx EXCEPT ![c].cache = EmptyCache]
    <3> DEFINE e == [ctx[c] EXCEPT !.cache = EmptyCache]
    <3>1. e.label = ctx[c].label
      BY <2>2, <1>0, TypesAre DEF Typed, ContextType
    <3>2. ctx' = [ctx EXCEPT ![c] = e]
      BY <1>0, <2>2 DEF TypeOK
    <3> HIDE DEF e
    <3> QED
      BY <2>2, <3>1, <3>2 DEF OneContext
  <2> QED
    BY <1>2, <2>1, <2>2
<1>5. ContextsKeep
  BY <1>0, <1>2, <1>3, <1>4, OneContextKeeps
<1> QED
  BY <1>2, <1>3, <1>5, ManagedNames

LEMMA ManageNames ==
  ASSUME IInv, IInv', NameInv, NEW t \in Tasks, Manage(t)
  PROVE  NameInv' /\ FilesStay
<1>1. ASSUME NEW l \in Labels, Info(t, l)
      PROVE  NameInv' /\ FilesStay
  <2>1. UNCHANGED <<efs, disk>> /\ OneContext /\ OneFile /\ SameManagers
    BY <1>1 DEF Info, contextVars, OneContext, OneFile, SameManagers
  <2> QED
    BY <2>1, QuietNames
<1> QED
  BY <1>1, RegisterInitNames, UnregisterNames, FormatBeginNames, RegisterVfsNames,
     FormatEraseNames, FormatRemountNames DEF Manage

-----------------------------------------------------------------------------
(* Calls that take a path.                                                 *)

NamesStay ==
  \A f \in Files :
    file[f] # None /\ file'[f] # None /\ file[f].entry = file[f].path[2] =>
      file'[f].entry # None

LEMMA PathsAre ==
  ASSUME IInv, NEW f \in Files, file[f] # None
  PROVE  /\ file[f].path \in Plain /\ file[f].path[2] \in Seq(Names)
         /\ file[f].entry \in Spots /\ file[f].path[2] # None
<1>1. file[f] \in FileType
  BY DEF IInv, TypeOK
<1>2. file[f].path \in Plain /\ file[f].entry \in Spots
  BY <1>1 DEF FileType, Plain, Spots
<1>3. file[f].path[2] \in Places
  BY <1>2 DEF Plain
<1> QED
  BY <1>2, <1>3, NamesAssumption, NoneAssumption

LEMMA StaysNamed ==
  ASSUME IInv, FilesStay
  PROVE  NamesStay
  BY PathsAre DEF FilesStay, NamesStay

(* A file that is open by a path is found by it.                           *)
LEMMA FoundByName ==
  ASSUME IInv, NEW t \in Tasks, NEW l \in Labels, NEW c \in Contexts, Enters(t, l, c),
         NEW f \in Files, file[f] # None, ctx[file[f].ctx].label = l
  PROVE  OpenByName(c, file[f].path)
<1>1. ctx[c] # None /\ ctx[c].label = l /\ InSlot(c) /\ Agree(ctx[c])
  BY EntersContext
<1>2. file[f].ctx \in Contexts /\ InSlot(file[f].ctx)
  BY FileStands DEF IInv, SlotInv
<1>3. file[f].ctx = c
  BY <1>1, <1>2, OneInSlot
<1>4. f \in ToSet(ctx[c].list)
  BY <1>3 DEF IInv, FdsInv
<1>5. PICK i \in Taken(ctx[c].cache) : ctx[c].cache[i] = f
  BY <1>1, <1>4 DEF Agree
<1> QED
  BY <1>5 DEF Taken, OpenByName

(* A tree changes, and what is open goes where P says.                     *)
LEMMA ReplantNames ==
  ASSUME IInv, IInv', NameInv, NEW l \in Labels, NEW t \in Trees, Closed(t),
         NEW P \in [Spots -> Spots], P[None] = None, Placed(l, P),
         disk' = [disk EXCEPT ![l] = t], UNCHANGED <<efs, ctx, task>>,
         \A e \in DOMAIN Tree(l) : Tree(l)[e] = "reg" /\ P[e] # None =>
           P[e] \in DOMAIN t /\ t[P[e]] = "reg"
  PROVE  NameInv'
<1>0. t # None /\ TypeOK
  BY TreeIs DEF IInv
<1>1. TreeAfter(l) = t /\ \A k \in Labels : k # l => TreeAfter(k) = Tree(k)
  BY <1>0 DEF TypeOK, Tree, TreeAfter
<1>2. TreesInv'
  BY <1>1, TreeAfterIs DEF NameInv, TreesInv
<1>3. ContextsKeep
  BY <1>0, OneContextKeeps DEF OneContext, FormatsStay, InFormat
<1>4. FormatSlots'
  BY <1>3, SlotsKept DEF NameInv
<1>5. EntriesInv'
  <2> SUFFICES ASSUME NEW f \in Files, file'[f] # None, file'[f].entry # None
               PROVE  LET u == TreeAfter(ctx[file'[f].ctx].label) IN
                        file'[f].entry \in DOMAIN u /\ u[file'[f].entry] = "reg"
    BY TreeAfterIs DEF EntriesInv
  <2>1. FilesFollow
    BY <1>0, PlacedFollows
  <2>2. file[f] # None /\ file'[f].ctx = file[f].ctx
    BY <1>0, <2>1, FilesTyped
  <2> DEFINE k == ctx[file[f].ctx].label
             e == file[f].entry
  <2>3. k \in Labels /\ file[f] \in FileType
    BY <1>0, <2>2, FileStands DEF TypeOK
  <2>4. e # None => e \in DOMAIN Tree(k) /\ Tree(k)[e] = "reg"
    BY <2>2 DEF NameInv, EntriesInv
  <2>5. CASE k = l
    <3>1. file'[f].entry = P[e]
      BY <2>2, <2>3, <2>5 DEF Placed, FileType
    <3>2. e # None
      BY <3>1
    <3>3. P[e] \in DOMAIN t /\ t[P[e]] = "reg"
      BY <2>4, <2>5, <3>1, <3>2
    <3> HIDE DEF k, e
    <3> QED
      BY <1>1, <2>2, <2>5, <3>1, <3>3 DEF k
  <2>6. CASE k # l
    <3>1. file'[f] = file[f]
      BY <2>2, <2>6 DEF Placed
    <3>2. e # None /\ TreeAfter(k) = Tree(k)
      BY <1>1, <2>3, <2>6, <3>1
    <3> QED
      BY <2>4, <3>1, <3>2
  <2> QED
    BY <2>5, <2>6
<1> QED
  BY <1>2, <1>4, <1>5 DEF NameInv

(* Nothing that is open under its name loses it, if what P takes it to is  *)
(* a place.                                                                *)
LEMMA PlacedNames ==
  ASSUME IInv, NEW l \in Labels, NEW P \in [Spots -> Spots], Placed(l, P),
         \A f \in Files :
           file[f] # None /\ ctx[file[f].ctx].label = l /\ file[f].entry = file[f].path[2] =>
             P[file[f].entry] # None
  PROVE  NamesStay
<1> SUFFICES ASSUME NEW f \in Files, file[f] # None, file'[f] # None,
                    file[f].entry = file[f].path[2]
             PROVE  file'[f].entry # None
  BY DEF NamesStay
<1>1. file[f] \in FileType /\ file[f].entry # None
  BY PathsAre DEF IInv, TypeOK
<1>2. CASE ctx[file[f].ctx].label = l
  <2>1. file'[f] = [file[f] EXCEPT !.entry = P[@]]
    BY <1>2 DEF Placed
  <2>2. file'[f].entry = P[file[f].entry]
    BY <1>1, <2>1 DEF FileType
  <2> QED
    BY <1>2, <2>2
<1>3. CASE ctx[file[f].ctx].label # l
  <2>1. file'[f] = file[f]
    BY <1>3 DEF Placed
  <2> QED
    BY <1>1, <2>1
<1> QED
  BY <1>2, <1>3

(* No directory is moved into itself, and a path is written one way.       *)
Orderly == mishap \notin {"rename_below_itself", "other_spelling"}

LEMMA UnlinkNames ==
  ASSUME IInv, IInv', NameInv, NEW t \in Tasks, NEW l \in Labels,
         NEW p \in Spellings \X Places, Unlink(t, l, p)
  PROVE  NameInv' /\ (Orderly => NamesStay)
<1> DEFINE r == p[2]
           new == NS!Delete(Tree(l), r)
<1>0. r \in Seq(Names) /\ TypeOK /\ Closed(Tree(l)) /\ Tree(l) \in Trees
  BY NamesAssumption DEF IInv, NameInv, TreesInv
<1>1. PICK c \in Contexts :
        /\ Enters(t, l, c)
        /\ r \in DOMAIN Tree(l) /\ Tree(l)[r] = "reg"
        /\ ~OpenByName(c, p)
        /\ Replant(l, new, LAMBDA e : Without(e, r))
  BY DEF Unlink
<1>2. Closed(new) /\ new \in Trees
  BY <1>0, <1>1, DeleteClosed, DeleteTree
<1>3. Placed(l, Gone(r))
  BY <1>0, <1>1, ReplantPlaces
<1>4. disk' = [disk EXCEPT ![l] = new] /\ UNCHANGED <<efs, ctx, task>>
  BY <1>1 DEF Replant
<1>5. DOMAIN new = DOMAIN Tree(l) \ {r} /\ \A e \in DOMAIN new : new[e] = Tree(l)[e]
  BY DEF NS!Delete, NS!Restrict
<1> HIDE DEF new
<1>6. \A e \in Spots : Gone(r)[e] = IF e = r THEN None ELSE e
  BY DEF Gone, Without
<1>7. Gone(r) \in [Spots -> Spots] /\ Gone(r)[None] = None
  BY <1>0, Goes
<1>8. \A e \in DOMAIN Tree(l) : e \in Spots
  BY <1>0 DEF Closed, Spots
<1> HIDE DEF r
<1>9. NameInv'
  <2>1. \A e \in DOMAIN Tree(l) : Tree(l)[e] = "reg" /\ Gone(r)[e] # None =>
          Gone(r)[e] \in DOMAIN new /\ new[Gone(r)[e]] = "reg"
    BY <1>5, <1>6, <1>8
  <2> QED
    BY <1>2, <1>3, <1>4, <1>7, <2>1, ReplantNames
<1>10. ASSUME Orderly  PROVE NamesStay
  <2>1. p[1] = "plain" /\ p = <<p[1], p[2]>>
    BY <1>10 DEF Orderly, Spellings
  <2>2. ASSUME NEW f \in Files, file[f] # None, ctx[file[f].ctx].label = l,
               file[f].entry = file[f].path[2]
        PROVE  Gone(r)[file[f].entry] # None
    <3>1. file[f].path # p
      BY <1>1, <2>2, FoundByName
    <3>2. file[f].path[1] = "plain" /\ file[f].path = <<file[f].path[1], file[f].path[2]>>
      BY <2>2, PathsAre DEF Plain
    <3>3. file[f].entry # r
      BY <2>1, <2>2, <3>1, <3>2 DEF r
    <3>4. file[f].entry \in Spots /\ file[f].entry # None
      BY <2>2, PathsAre
    <3> QED
      BY <1>6, <3>3, <3>4
  <2> QED
    BY <1>3, <1>7, <2>2, PlacedNames
<1> QED
  BY <1>9, <1>10

LEMMA RmdirNames ==
  ASSUME IInv, IInv', NameInv, NEW t \in Tasks, NEW l \in Labels,
         NEW p \in Plain, Rmdir(t, l, p)
  PROVE  NameInv' /\ NamesStay
<1> DEFINE r == p[2]
           new == NS!Delete(Tree(l), r)
<1>0. r \in Seq(Names) /\ TypeOK /\ Closed(Tree(l)) /\ Tree(l) \in Trees
  BY NamesAssumption DEF IInv, NameInv, TreesInv, Plain
<1>1. PICK c \in Contexts :
        /\ Enters(t, l, c)
        /\ NS!IsDir(Tree(l), r) /\ NS!Removable(Tree(l), r)
        /\ Replant(l, new, LAMBDA e : Without(e, r))
  BY DEF Rmdir
<1>2. Closed(new) /\ new \in Trees
  BY <1>0, <1>1, DeleteClosed, DeleteTree DEF NS!IsDir
<1>3. Placed(l, Gone(r))
  BY <1>0, <1>1, ReplantPlaces
<1>4. disk' = [disk EXCEPT ![l] = new] /\ UNCHANGED <<efs, ctx, task>>
  BY <1>1 DEF Replant
<1>5. DOMAIN new = DOMAIN Tree(l) \ {r} /\ \A e \in DOMAIN new : new[e] = Tree(l)[e]
  BY DEF NS!Delete, NS!Restrict
<1> HIDE DEF new
<1>6. \A e \in Spots : Gone(r)[e] = IF e = r THEN None ELSE e
  BY DEF Gone, Without
<1>7. Gone(r) \in [Spots -> Spots] /\ Gone(r)[None] = None
  BY <1>0, Goes
<1>8. \A e \in DOMAIN Tree(l) : e \in Spots
  BY <1>0 DEF Closed, Spots
<1> HIDE DEF r
<1>9. NameInv'
  <2>1. \A e \in DOMAIN Tree(l) : Tree(l)[e] = "reg" /\ Gone(r)[e] # None =>
          Gone(r)[e] \in DOMAIN new /\ new[Gone(r)[e]] = "reg"
    BY <1>5, <1>6, <1>8
  <2> QED
    BY <1>2, <1>3, <1>4, <1>7, <2>1, ReplantNames
<1>10. NamesStay
  <2>1. ASSUME NEW f \in Files, file[f] # None, ctx[file[f].ctx].label = l,
               file[f].entry = file[f].path[2]
        PROVE  Gone(r)[file[f].entry] # None
    <3>1. file[f].entry \in Spots /\ file[f].entry # None
      BY <2>1, PathsAre
    <3>2. Tree(l)[file[f].entry] = "reg"
      BY <2>1, <3>1 DEF NameInv, EntriesInv
    <3>3. file[f].entry # r
      BY <1>1, <3>2 DEF NS!IsDir
    <3> QED
      BY <1>6, <3>1, <3>3
  <2> QED
    BY <1>3, <1>7, <2>1, PlacedNames
<1> QED
  BY <1>9, <1>10

LEMMA RenameNames ==
  ASSUME IInv, IInv', NameInv, NEW t \in Tasks, NEW l \in Labels,
         NEW p \in Plain, NEW q \in Plain, Rename(t, l, p, q)
  PROVE  NameInv' /\ (Orderly => NamesStay)
<1> DEFINE a == p[2]
           b == q[2]
           new == NS!Move(Tree(l), a, b)
<1>0. /\ a \in Seq(Names) /\ b \in Seq(Names) /\ TypeOK
      /\ Closed(Tree(l)) /\ Tree(l) \in Trees
  BY NamesAssumption DEF IInv, NameInv, TreesInv, Plain
<1>1. PICK c \in Contexts :
        /\ Enters(t, l, c)
        /\ ~OpenByName(c, p) /\ ~OpenByName(c, q)
        /\ NS!Renamable(Tree(l), a, b) /\ a # b
        /\ DOMAIN new \subseteq NS!Paths
        /\ mishap = "rename_below_itself" \/ ~IsStrictPrefix(a, b)
        /\ Replant(l, new, LAMBDA e : Follow(e, a, b))
  BY DEF Rename
<1>2. Closed(new) /\ new \in Trees
  BY <1>0, <1>1, MoveClosed, MoveTree
<1>3. Placed(l, Came(a, b))
  BY <1>0, <1>1, ReplantPlaces
<1>4. disk' = [disk EXCEPT ![l] = new] /\ UNCHANGED <<efs, ctx, task>>
  BY <1>1 DEF Replant
<1>5. \A e \in DOMAIN Tree(l) : Tree(l)[e] = "reg" /\ Follow(e, a, b) # None =>
        Follow(e, a, b) \in DOMAIN new /\ new[Follow(e, a, b)] = "reg"
  BY <1>0, <1>1, EntryFollows
<1>6. \A e \in Spots : Came(a, b)[e] = Follow(e, a, b)
  BY DEF Came
<1>7. Came(a, b) \in [Spots -> Spots] /\ Came(a, b)[None] = None
  BY <1>0, Goes
<1>8. \A e \in DOMAIN Tree(l) : e \in Spots
  BY <1>0 DEF Closed, Spots
<1> HIDE DEF new, a, b
<1>9. NameInv'
  <2>1. \A e \in DOMAIN Tree(l) : Tree(l)[e] = "reg" /\ Came(a, b)[e] # None =>
          Came(a, b)[e] \in DOMAIN new /\ new[Came(a, b)[e]] = "reg"
    BY <1>5, <1>6, <1>8
  <2> QED
    BY <1>2, <1>3, <1>4, <1>7, <2>1, ReplantNames
<1>10. ASSUME Orderly  PROVE NamesStay
  <2>1. ASSUME NEW f \in Files, file[f] # None, ctx[file[f].ctx].label = l,
               file[f].entry = file[f].path[2]
        PROVE  Came(a, b)[file[f].entry] # None
    <3> DEFINE e == file[f].entry
    <3>1. e \in Seq(Names) /\ e \in Spots /\ e # None
      BY <2>1, PathsAre
    <3>2. file[f].path # q
      BY <1>1, <2>1, FoundByName
    <3>3. e # b
      <4>1. file[f].path \in Plain
        BY <2>1, PathsAre
      <4> QED
        BY <2>1, <3>2, <4>1 DEF Plain, b
    <3>4. ~IsStrictPrefix(a, b)
      BY <1>1, <1>10 DEF Orderly
    <3> HIDE DEF e
    <3>5. Follow(e, a, b) = IF ~IsPrefix(a, e) THEN e ELSE NS!Moved(e, a, b)
      BY <3>1, <3>3, <3>4 DEF Follow
    <3>6. IsPrefix(a, e) => NS!Moved(e, a, b) \in Seq(Names)
      <4>1. SubSeq(e, Len(a) + 1, Len(e)) \in Seq(Names)
        BY <1>0, <3>1, SubSeqProperties DEF a
      <4> QED
        BY <1>0, <3>1, <4>1 DEF NS!Moved, a, b
    <3> QED
      BY <1>6, <3>1, <3>5, <3>6, NoneAssumption DEF e
  <2> QED
    BY <1>3, <1>7, <2>1, PlacedNames
<1> QED
  BY <1>9, <1>10

LEMMA MkdirNames ==
  ASSUME IInv, IInv', NameInv, NEW t \in Tasks, NEW l \in Labels,
         NEW p \in Plain, Mkdir(t, l, p)
  PROVE  NameInv' /\ NamesStay
<1> DEFINE r == p[2]
           new == NS!Insert(Tree(l), r, "dir")
<1>0. /\ r \in Seq(Names) /\ r \in NS!Paths /\ TypeOK
      /\ Closed(Tree(l)) /\ Tree(l) \in Trees
  BY NamesAssumption, TreesAssumption DEF IInv, NameInv, TreesInv, Plain
<1>1. NS!Vacant(Tree(l), r) /\ Replant(l, new, LAMBDA e : e)
  BY DEF Mkdir
<1>2. Closed(new) /\ new \in Trees
  BY <1>0, <1>1, InsertClosed, InsertTree
<1>3. Placed(l, Stays)
  BY <1>0, <1>1, ReplantPlaces
<1>4. disk' = [disk EXCEPT ![l] = new] /\ UNCHANGED <<efs, ctx, task>>
  BY <1>1 DEF Replant
<1>5. \A e \in DOMAIN Tree(l) : e \in DOMAIN new /\ new[e] = Tree(l)[e]
  BY <1>1 DEF NS!Insert, NS!Vacant
<1> HIDE DEF new
<1>6. \A e \in Spots : Stays[e] = e
  BY DEF Stays
<1>7. Stays \in [Spots -> Spots] /\ Stays[None] = None
  BY <1>0, Goes
<1>8. \A e \in DOMAIN Tree(l) : e \in Spots
  BY <1>0 DEF Closed, Spots
<1>9. NameInv'
  <2>1. \A e \in DOMAIN Tree(l) : Tree(l)[e] = "reg" /\ Stays[e] # None =>
          Stays[e] \in DOMAIN new /\ new[Stays[e]] = "reg"
    BY <1>5, <1>6, <1>8
  <2> QED
    BY <1>2, <1>3, <1>4, <1>7, <2>1, ReplantNames
<1>10. NamesStay
  <2>1. ASSUME NEW f \in Files, file[f] # None, file[f].entry = file[f].path[2]
        PROVE  Stays[file[f].entry] # None
    BY <1>6, <2>1, PathsAre
  <2> QED
    BY <1>3, <1>7, <2>1, PlacedNames
<1> QED
  BY <1>9, <1>10

(* A file that is there already or is made now stands in the tree.         *)
LEMMA OpenedTree ==
  ASSUME IInv, NameInv, NEW l \in Labels, NEW p \in Plain, NEW flags,
         LfsOpens(l, p[2], flags)
  PROVE  LET new == NS!Insert(Tree(l), p[2], "reg") IN
           /\ Closed(new) /\ new \in Trees
           /\ p[2] \in DOMAIN new /\ new[p[2]] = "reg"
           /\ \A e \in DOMAIN Tree(l) : Tree(l)[e] = "reg" =>
                e \in DOMAIN new /\ new[e] = "reg"
<1> DEFINE r == p[2]
           t == Tree(l)
           new == NS!Insert(t, r, "reg")
<1>0. r \in Seq(Names) /\ r \in NS!Paths /\ Closed(t) /\ t \in Trees
  BY NamesAssumption, TreesAssumption DEF NameInv, TreesInv, Plain
<1>1. new \in Trees
  BY <1>0, InsertTree
<1>2. /\ r \in DOMAIN new /\ new[r] = "reg"
      /\ \A e \in DOMAIN t : t[e] = "reg" => e \in DOMAIN new /\ new[e] = "reg"
  BY DEF NS!Insert
<1>3. Closed(new)
  <2>1. CASE r \in DOMAIN t
    <3>1. t[r] = "reg"
      BY <2>1 DEF LfsOpens
    <3>2. DOMAIN new = DOMAIN t /\ \A e \in DOMAIN t : new[e] = t[e]
      BY <2>1, <3>1 DEF NS!Insert
    <3> HIDE DEF new, t
    <3> QED
      BY <1>0, <3>2 DEF Closed, NS!IsDir
  <2>2. CASE r \notin DOMAIN t
    <3>1. NS!Vacant(t, r)
      BY <2>2 DEF LfsOpens
    <3> QED
      BY <1>0, <3>1, InsertClosed
  <2> QED
    BY <2>1, <2>2
<1> QED
  BY <1>1, <1>2, <1>3

LEMMA OpenedNames ==
  ASSUME IInv, IInv', NameInv, NEW t \in Tasks, NEW l \in Labels, NEW c \in Contexts,
         Enters(t, l, c), NEW p \in Plain, NEW flags, LfsOpens(l, p[2], flags),
         NEW f \in Files, file[f] = None, UNCHANGED efs,
         ctx' = [ctx EXCEPT ![c] = AllocateFd(ctx[c], f)],
         file' = [file EXCEPT ![f] =
           [ctx |-> c, path |-> p, entry |-> p[2], dirty |-> FALSE, closed |-> FALSE]],
         disk' = [disk EXCEPT ![l] = NS!Insert(Tree(l), p[2], "reg")],
         SameManagers
  PROVE  NameInv' /\ NamesStay
<1> DEFINE new == NS!Insert(Tree(l), p[2], "reg")
<1>0. TypeOK
  BY DEF IInv
<1>1. /\ Closed(new) /\ new \in Trees
      /\ p[2] \in DOMAIN new /\ new[p[2]] = "reg"
      /\ \A e \in DOMAIN Tree(l) : Tree(l)[e] = "reg" => e \in DOMAIN new /\ new[e] = "reg"
  BY OpenedTree
<1>2. disk' = [disk EXCEPT ![l] = new]
  OBVIOUS
<1> HIDE DEF new
<1>3. TreeAfter(l) = new /\ \A k \in Labels : k # l => TreeAfter(k) = Tree(k)
  BY <1>0, <1>1, <1>2, TreeIs DEF TypeOK, Tree, TreeAfter
<1>4. TreesInv'
  BY <1>1, <1>3, TreeAfterIs DEF NameInv, TreesInv
<1>5. /\ ctx[c] # None /\ ctx[c] \in ContextType /\ ctx[c].label = l
      /\ Agree(ctx[c]) /\ ctx[c].cache # <<>>
  BY EntersContext
<1>6. AllocateFd(ctx[c], f).label = l
  BY <1>5 DEF AllocateFd, ContextType
<1>7. ContextsKeep
  <2>1. OneContext
    BY <1>5, <1>6 DEF OneContext
  <2>2. FormatsStay
    BY DEF SameManagers, InFormat, Apart, FormatsStay
  <2> QED
    BY <1>0, <2>1, <2>2, OneContextKeeps
<1>8. FormatSlots'
  BY <1>7, SlotsKept DEF NameInv
<1>9. \A d \in Contexts : ctx[d] # None => ctx'[d].label = ctx[d].label
  BY <1>0, <1>5, <1>6 DEF TypeOK
<1>10. /\ file'[f].ctx = c /\ file'[f].entry = p[2]
       /\ \A g \in Files : g # f => file'[g] = file[g]
  BY <1>0 DEF TypeOK
<1>11. EntriesInv'
  <2> SUFFICES ASSUME NEW g \in Files, file'[g] # None, file'[g].entry # None
               PROVE  LET u == TreeAfter(ctx'[file'[g].ctx].label) IN
                        file'[g].entry \in DOMAIN u /\ u[file'[g].entry] = "reg"
    BY TreeAfterIs DEF EntriesInv
  <2>1. CASE g = f
    <3>1. ctx'[file'[g].ctx].label = l
      BY <1>5, <1>9, <1>10, <2>1
    <3> QED
      BY <1>1, <1>3, <1>10, <2>1, <3>1
  <2>2. CASE g # f
    <3> DEFINE k == ctx[file[g].ctx].label
    <3>1. file[g] = file'[g]
      BY <1>10, <2>2
    <3>2. k \in Labels /\ ctx'[file[g].ctx].label = k
      BY <1>9, <3>1, FileStands
    <3>3. file[g].entry \in DOMAIN Tree(k) /\ Tree(k)[file[g].entry] = "reg"
      BY <3>1 DEF NameInv, EntriesInv
    <3> HIDE DEF k
    <3>4. file[g].entry \in DOMAIN TreeAfter(k) /\ TreeAfter(k)[file[g].entry] = "reg"
      BY <1>1, <1>3, <3>2, <3>3
    <3> QED
      BY <3>1, <3>2, <3>4
  <2> QED
    BY <2>1, <2>2
<1>12. NamesStay
  BY <1>10, PathsAre DEF NamesStay
<1> QED
  BY <1>4, <1>8, <1>11, <1>12 DEF NameInv

(* The entry is made, and no file is open after all.                       *)
LEMMA CreatedNames ==
  ASSUME IInv, IInv', NameInv, NEW l \in Labels, NEW c \in Contexts,
         ctx[c] # None, ctx[c] \in ContextType, NEW p \in Plain, NEW flags,
         LfsOpens(l, p[2], flags),
         ctx' = [ctx EXCEPT ![c].cache = Grown(ctx[c])],
         disk' = [disk EXCEPT ![l] = NS!Insert(Tree(l), p[2], "reg")],
         UNCHANGED <<efs, file, task>>
  PROVE  NameInv' /\ NamesStay
<1> DEFINE new == NS!Insert(Tree(l), p[2], "reg")
<1>0. TypeOK
  BY DEF IInv
<1>1. /\ Closed(new) /\ new \in Trees
      /\ \A e \in DOMAIN Tree(l) : Tree(l)[e] = "reg" => e \in DOMAIN new /\ new[e] = "reg"
  BY OpenedTree
<1>2. disk' = [disk EXCEPT ![l] = new]
  OBVIOUS
<1> HIDE DEF new
<1>3. TreeAfter(l) = new /\ \A k \in Labels : k # l => TreeAfter(k) = Tree(k)
  BY <1>0, <1>1, <1>2, TreeIs DEF TypeOK, Tree, TreeAfter
<1>4. TreesInv'
  BY <1>1, <1>3, TreeAfterIs DEF NameInv, TreesInv
<1> DEFINE e == [ctx[c] EXCEPT !.cache = Grown(ctx[c])]
<1>5. e.label = ctx[c].label /\ ctx' = [ctx EXCEPT ![c] = e]
  BY <1>0 DEF ContextType, TypeOK
<1> HIDE DEF e
<1>6. OneContext /\ FormatsStay
  BY <1>5 DEF OneContext, FormatsStay, InFormat
<1>7. ContextsKeep
  BY <1>0, <1>6, OneContextKeeps
<1>8. FormatSlots'
  BY <1>7, SlotsKept DEF NameInv
<1>9. \A d \in Contexts : ctx[d] # None => ctx'[d].label = ctx[d].label
  BY <1>0, <1>5 DEF TypeOK
<1>10. EntriesInv'
  <2> SUFFICES ASSUME NEW g \in Files, file'[g] # None, file'[g].entry # None
               PROVE  LET u == TreeAfter(ctx'[file'[g].ctx].label) IN
                        file'[g].entry \in DOMAIN u /\ u[file'[g].entry] = "reg"
    BY TreeAfterIs DEF EntriesInv
  <2> DEFINE k == ctx[file[g].ctx].label
  <2>1. file[g] = file'[g]
    OBVIOUS
  <2>2. k \in Labels /\ ctx'[file[g].ctx].label = k
    BY <1>9, <2>1, FileStands
  <2>3. file[g].entry \in DOMAIN Tree(k) /\ Tree(k)[file[g].entry] = "reg"
    BY <2>1 DEF NameInv, EntriesInv
  <2> HIDE DEF k
  <2>4. file[g].entry \in DOMAIN TreeAfter(k) /\ TreeAfter(k)[file[g].entry] = "reg"
    BY <1>1, <1>3, <2>2, <2>3
  <2> QED
    BY <2>1, <2>2, <2>4
<1>11. NamesStay
  BY PathsAre DEF NamesStay
<1> QED
  BY <1>4, <1>8, <1>10, <1>11 DEF NameInv

LEMMA OpenNames ==
  ASSUME IInv, IInv', NameInv, NEW t \in Tasks, NEW l \in Labels, NEW p \in Plain,
         (\E m \in OpenFlags : Open(t, l, p, m)) \/ TruncateOpen(t, l, p)
  PROVE  NameInv' /\ NamesStay
<1>0. TypeOK
  BY DEF IInv
<1>1. PICK c \in Contexts :
        /\ Enters(t, l, c) /\ UNCHANGED efs
        /\ \/ /\ ctx' \in {ctx, [ctx EXCEPT ![c].cache = Grown(ctx[c])]}
              /\ UNCHANGED <<disk, file, task>>
           \/ \E flags :
                /\ LfsOpens(l, p[2], flags)
                /\ ctx' = [ctx EXCEPT ![c].cache = Grown(ctx[c])]
                /\ disk' = [disk EXCEPT ![l] = NS!Insert(Tree(l), p[2], "reg")]
                /\ UNCHANGED <<file, task>>
           \/ \E f \in Files : \E flags, r :
                /\ LfsOpens(l, p[2], flags)
                /\ file[f] = None
                /\ ctx' = [ctx EXCEPT ![c] = AllocateFd(ctx[c], f)]
                /\ file' = [file EXCEPT ![f] =
                     [ctx |-> c, path |-> p, entry |-> p[2], dirty |-> FALSE, closed |-> FALSE]]
                /\ disk' = [disk EXCEPT ![l] = NS!Insert(Tree(l), p[2], "reg")]
                /\ task' = task \/ (r.pc = "truncate" /\ task' = [task EXCEPT ![t] = r])
  <2>1. CASE \E m \in OpenFlags : Open(t, l, p, m)
    BY <2>1 DEF Open, OpenFile
  <2>2. CASE TruncateOpen(t, l, p)
    <3>1. PICK c \in Contexts :
            /\ Enters(t, l, c) /\ UNCHANGED efs
            /\ \/ /\ ctx' \in {ctx, [ctx EXCEPT ![c].cache = Grown(ctx[c])]}
                  /\ UNCHANGED <<disk, file, task>>
               \/ /\ LfsOpens(l, p[2], FlagsConv({"RDWR"}))
                  /\ ctx' = [ctx EXCEPT ![c].cache = Grown(ctx[c])]
                  /\ disk' = [disk EXCEPT ![l] = NS!Insert(Tree(l), p[2], "reg")]
                  /\ UNCHANGED <<file, task>>
               \/ \E f \in Files :
                    /\ LfsOpens(l, p[2], FlagsConv({"RDWR"}))
                    /\ file[f] = None
                    /\ ctx' = [ctx EXCEPT ![c] = AllocateFd(ctx[c], f)]
                    /\ file' = [file EXCEPT ![f] =
                         [ctx |-> c, path |-> p, entry |-> p[2], dirty |-> FALSE, closed |-> FALSE]]
                    /\ disk' = [disk EXCEPT ![l] = NS!Insert(Tree(l), p[2], "reg")]
                    /\ task' = [task EXCEPT ![t] =
                         [pc |-> "truncate", label |-> l, at |-> c,
                          n |-> FirstFree(Grown(ctx[c])) - 1]]
      BY <2>2 DEF TruncateOpen, OpenFile
    <3> DEFINE r == [pc |-> "truncate", label |-> l, at |-> c,
                     n |-> FirstFree(Grown(ctx[c])) - 1]
    <3>2. r.pc = "truncate"
      OBVIOUS
    <3>3. ASSUME NEW f \in Files,
                 task' = [task EXCEPT ![t] =
                         [pc |-> "truncate", label |-> l, at |-> c,
                          n |-> FirstFree(Grown(ctx[c])) - 1]]
          PROVE  \E s : s.pc = "truncate" /\ task' = [task EXCEPT ![t] = s]
      <4>1. task' = [task EXCEPT ![t] = r]
        BY <3>3
      <4> HIDE DEF r
      <4> QED
        BY <3>2, <4>1
    <3> HIDE DEF r
    <3> QED
      BY <3>1, <3>3
  <2> QED
    BY <2>1, <2>2
<1>2. /\ ctx[c] # None /\ ctx[c] \in ContextType /\ task[t].pc = "idle"
  BY <1>1, EntersContext DEF Enters, Reaches
<1>3. CASE /\ ctx' \in {ctx, [ctx EXCEPT ![c].cache = Grown(ctx[c])]}
           /\ UNCHANGED <<disk, file, task>>
  <2> DEFINE e == [ctx[c] EXCEPT !.cache = Grown(ctx[c])]
  <2>1. e.label = ctx[c].label
    BY <1>2 DEF ContextType
  <2>2. ctx' = ctx \/ ctx' = [ctx EXCEPT ![c] = e]
    BY <1>0, <1>3 DEF TypeOK
  <2> HIDE DEF e
  <2>3. OneContext /\ OneFile /\ SameManagers
    BY <1>2, <1>3, <2>1, <2>2 DEF OneContext, OneFile, SameManagers
  <2>4. NameInv' /\ FilesStay
    BY <1>1, <1>3, <2>3, QuietNames
  <2> QED
    BY <2>4, StaysNamed
<1>4. ASSUME NEW f \in Files, NEW flags, NEW r,
             /\ LfsOpens(l, p[2], flags)
             /\ file[f] = None
             /\ ctx' = [ctx EXCEPT ![c] = AllocateFd(ctx[c], f)]
             /\ file' = [file EXCEPT ![f] =
                  [ctx |-> c, path |-> p, entry |-> p[2], dirty |-> FALSE, closed |-> FALSE]]
             /\ disk' = [disk EXCEPT ![l] = NS!Insert(Tree(l), p[2], "reg")]
             /\ task' = task \/ (r.pc = "truncate" /\ task' = [task EXCEPT ![t] = r])
      PROVE  NameInv' /\ NamesStay
  <2>1. SameManagers
    BY <1>0, <1>2, <1>4 DEF TypeOK, SameManagers, Apart
  <2> QED
    BY <1>1, <1>4, <2>1, OpenedNames
<1>5. ASSUME NEW flags,
             /\ LfsOpens(l, p[2], flags)
             /\ ctx' = [ctx EXCEPT ![c].cache = Grown(ctx[c])]
             /\ disk' = [disk EXCEPT ![l] = NS!Insert(Tree(l), p[2], "reg")]
             /\ UNCHANGED <<file, task>>
      PROVE  NameInv' /\ NamesStay
  BY <1>1, <1>2, <1>5, CreatedNames
<1> QED
  BY <1>1, <1>3, <1>4, <1>5

LEMMA PathNames ==
  ASSUME IInv, IInv', NameInv, NEW t \in Tasks, UsePath(t)
  PROVE  NameInv' /\ (Orderly => NamesStay)
<1>1. PICK l \in Labels :
        \/ Dangling(t, l)
        \/ \E p \in Plain :
             \/ (\E m \in OpenFlags : Open(t, l, p, m)) \/ TruncateOpen(t, l, p)
             \/ Stat(t, l, p) \/ Rmdir(t, l, p) \/ Mkdir(t, l, p)
             \/ \E q \in Plain : Rename(t, l, p, q)
        \/ \E p \in Spellings \X Places : Unlink(t, l, p)
  BY DEF UsePath
<1>2. ASSUME UNCHANGED <<efs, ctx, disk, file, task>>
      PROVE  NameInv' /\ NamesStay
  <2>1. OneContext /\ OneFile /\ SameManagers
    BY <1>2 DEF OneContext, OneFile, SameManagers
  <2>2. NameInv' /\ FilesStay
    BY <1>2, <2>1, QuietNames
  <2> QED
    BY <2>2, StaysNamed
<1>3. CASE Dangling(t, l)
  BY <1>2, <1>3 DEF Dangling, Falls, contextVars
<1>4. ASSUME NEW p \in Plain, Stat(t, l, p)
      PROVE  NameInv' /\ NamesStay
  BY <1>2, <1>4 DEF Stat, vars
<1> QED
  BY <1>1, <1>3, <1>4, OpenNames, RmdirNames, MkdirNames, RenameNames, UnlinkNames

-----------------------------------------------------------------------------
(* Every step.                                                             *)
LEMMA NameInit == Init => NameInv
<1> SUFFICES ASSUME Init  PROVE NameInv
  OBVIOUS
<1>1. /\ disk = [l \in Labels |-> None] /\ file = [f \in Files |-> None]
      /\ ctx = [c \in Contexts |-> None] /\ task = [t \in Tasks |-> Idle]
  BY DEF Init
<1>2. TreesInv
  <2>1. \A l \in Labels : Tree(l) = NS!Empty
    BY <1>1 DEF Tree
  <2> QED
    BY <2>1, EmptyClosed, EmptyTree DEF TreesInv
<1>3. EntriesInv
  BY <1>1 DEF EntriesInv
<1>4. FormatSlots
  BY <1>1 DEF FormatSlots, InFormat, Idle
<1> QED
  BY <1>2, <1>3, <1>4 DEF NameInv

LEMMA NameNext ==
  ASSUME IInv, IInv', NameInv, [Next]_vars
  PROVE  NameInv' /\ (Orderly => NamesStay)
<1>1. CASE UNCHANGED vars
  <2>1. UNCHANGED <<efs, disk>> /\ OneContext /\ OneFile /\ SameManagers
    BY <1>1 DEF vars, OneContext, OneFile, SameManagers
  <2>2. NameInv' /\ FilesStay
    BY <2>1, QuietNames
  <2> QED
    BY <2>2, StaysNamed
<1>2. CASE Next
  <2>1. PICK t \in Tasks : Step(t)
    BY <1>2 DEF Next
  <2>2. CASE Manage(t) \/ UseDescriptor(t) \/ Truncate(t) \/ ReadDirectory(t)
    <3>1. NameInv' /\ FilesStay
      BY <2>2, ManageNames, UseNames, TruncateNames, ReadNames
    <3> QED
      BY <3>1, StaysNamed
  <2>3. CASE UsePath(t)
    BY <2>3, PathNames
  <2> QED
    BY <2>1, <2>2, <2>3 DEF Step
<1> QED
  BY <1>1, <1>2

(* A file that is open under the name it has keeps its entry, whatever is  *)
(* removed or renamed around it, if one path is written one way and no     *)
(* directory is moved into itself: vfs_littlefs_unlink and                 *)
(* vfs_littlefs_rename ask the cache for the path, vfs_littlefs_rmdir only *)
(* takes a directory, and a format has freed the files before it erases.   *)
THEOREM NamesKeep == Spec => KeptUnderItsName
<1>1. Spec => []IInv
  BY EspInductive
<1>2. Init => NameInv
  BY NameInit
<1>3. IInv /\ IInv' /\ NameInv /\ [Next]_vars => NameInv'
  BY NameNext
<1>4. IInv /\ IInv' /\ NameInv /\ [Next]_vars =>
        [mishap \notin {"rename_below_itself", "other_spelling"} => \A f \in Files :
           file[f] # None /\ file'[f] # None /\ file[f].entry = file[f].path[2] =>
             file'[f].entry # None]_vars
  BY NameNext DEF NamesStay, Orderly
<1> QED
  BY <1>1, <1>2, <1>3, <1>4, PTL DEF Spec, KeptUnderItsName
=============================================================================
