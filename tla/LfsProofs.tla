------------------------------ MODULE LfsProofs ------------------------------
(***************************************************************************)
(* What is proved of littlefs.  First, of the log of a metadata block, for *)
(* every log: reading it (lfs_dir_getslice, lfs_dir_fetchmatch) and        *)
(* compacting it (lfs_dir_traverse with its filter, lfs_dir_compact) agree *)
(* with a replay of the log from its beginning.  The proofs go along the   *)
(* log, a tag at a time, with the laws of folds that module Recursion      *)
(* proves.  Then, of the block allocator, for every device and every       *)
(* lookahead: what lfs_alloc hands out is free, and it fails only when     *)
(* nothing is.  This goes along its tries, a window at a time.             *)
(***************************************************************************)
EXTENDS LfsLog, LfsAlloc, SequenceTheorems, Recursion, TLAPS

(***************************************************************************)
(* What is read out of a log.                                              *)
(***************************************************************************)
Counting  == INSTANCE Recursion WITH FoldStep <- Counted
Replaying == INSTANCE Recursion WITH FoldStep <- Applied
Searching == INSTANCE Recursion WITH FoldStep <- SearchStep
Filtering == INSTANCE Recursion WITH FoldStep <- Leaving
Tailing   == INSTANCE Recursion WITH FoldStep <- LastTail
Moving    == INSTANCE Recursion WITH FoldStep <- LastMove
Scanning  == INSTANCE Recursion WITH FoldStep <- ScanStep

-----------------------------------------------------------------------------
(* The folds, of no tag and of one more.                                   *)
LEMMA CountLaws ==
  /\ CountOf(<<>>) = 0
  /\ \A S : \A log \in Seq(S), t \in S : CountOf(Append(log, t)) = Counted(CountOf(log), t)
<1>1. \A log : CountOf(log) = Counting!Fold(0, log)
  BY DEF CountOf, Forwards, Counting!Fold
<1> QED BY <1>1, Counting!FoldNone, Counting!FoldAppend

(* The replay of no tag and of one more.                                   *)
LEMMA ReplayLaws ==
  /\ Replay(<<>>) = <<>>
  /\ \A S : \A log \in Seq(S), t \in S : Replay(Append(log, t)) = Applied(Replay(log), t)
<1>1. \A log : Replay(log) = Replaying!Fold(<<>>, log)
  BY DEF Replay, Forwards, Replaying!Fold
<1> QED BY <1>1, Replaying!FoldNone, Replaying!FoldAppend

(* The search of lfs_dir_getslice, of no tag and of one more: the last tag *)
(* is seen first.                                                          *)
LEMMA SearchLaws ==
  /\ \A s : Search(<<>>, s) = s
  /\ \A S : \A log \in Seq(S), t \in S : \A s :
       Search(Append(log, t), s) = Search(log, SearchStep(t, s))
<1>1. \A log, s : Search(log, s) = Searching!FoldBack(log, s)
  BY DEF Search, Backwards, Searching!FoldBack
<1> QED BY <1>1, Searching!FoldBackNone, Searching!FoldBackAppend

(* What a traversal leaves, of no tag and of one more.                     *)
LEMMA LeftLaws ==
  /\ Left(<<>>) = <<>>
  /\ \A S : \A log \in Seq(S), t \in S : Left(Append(log, t)) = Leaving(Left(log), t)
<1>1. \A log : Left(log) = Filtering!Fold(<<>>, log)
  BY DEF Left, Forwards, Filtering!Fold
<1> QED BY <1>1, Filtering!FoldNone, Filtering!FoldAppend

(* The last tail a fetch sees, of no tag and of one more.                  *)
LEMMA TailLaws ==
  /\ TailOf(<<>>) = [pair |-> NoPair, split |-> FALSE]
  /\ \A S : \A log \in Seq(S), t \in S : TailOf(Append(log, t)) = LastTail(TailOf(log), t)
<1>1. \A log : TailOf(log) = Tailing!Fold([pair |-> NoPair, split |-> FALSE], log)
  BY DEF TailOf, Forwards, Tailing!Fold
<1> QED BY <1>1, Tailing!FoldNone, Tailing!FoldAppend

(* The last share of the global state a fetch sees, of no tag and of one   *)
(* more.                                                                   *)
LEMMA MoveLaws ==
  /\ MoveOf(<<>>) = {}
  /\ \A S : \A log \in Seq(S), t \in S : MoveOf(Append(log, t)) = LastMove(MoveOf(log), t)
<1>1. \A log : MoveOf(log) = Moving!Fold({}, log)
  BY DEF MoveOf, Forwards, Moving!Fold
<1> QED BY <1>1, Moving!FoldNone, Moving!FoldAppend

(* The scan for a name, of no tag and of one more.                         *)
LEMMA ScanLaws ==
  /\ \A name : Scan(<<>>, name) = Nowhere(name)
  /\ \A S : \A log \in Seq(S), t \in S : \A name :
       Scan(Append(log, t), name) = ScanStep(Scan(log, name), t)
<1>1. \A log, name : Scan(log, name) = Scanning!Fold(Nowhere(name), log)
  BY DEF Scan, Forwards, Scanning!Fold
<1> QED BY <1>1, Scanning!FoldNone, Scanning!FoldAppend

-----------------------------------------------------------------------------
(* Induction over a sequence, of what holds of the sequences in a set.     *)
LEMMA Beginning ==
  ASSUME NEW S, NEW s \in Seq(S), NEW k \in 1..Len(s)
  PROVE  /\ First(s, k) = Append(First(s, k - 1), s[k])
         /\ First(s, k - 1) \in Seq(S) /\ First(s, k) \in Seq(S)
         /\ Len(First(s, k - 1)) = k - 1
         /\ s[k] \in S
<1>1. k \in Nat /\ k - 1 \in Nat /\ k - 1 <= Len(s)
  OBVIOUS
<1> DEFINE a == SubSeq(s, 1, k - 1)
<1>2. a \in Seq(S) /\ Len(a) = k - 1 /\ \A j \in 1..k - 1 : a[j] = s[j]
  OBVIOUS
<1>3. s[k] \in S /\ SubSeq(s, 1, k) \in Seq(S) /\ Len(SubSeq(s, 1, k)) = k
  OBVIOUS
<1>4. \A j \in 1..k : SubSeq(s, 1, k)[j] = s[j]
  OBVIOUS
<1> HIDE DEF a
<1>5. Append(a, s[k]) \in Seq(S) /\ Len(Append(a, s[k])) = k
  BY <1>2, <1>3
<1>6. \A j \in 1..k : Append(a, s[k])[j] = s[j]
  BY <1>2, <1>3
<1>7. SubSeq(s, 1, k) = Append(a, s[k])
  BY <1>3, <1>4, <1>5, <1>6, SeqEqual
<1> QED BY <1>2, <1>3, <1>7 DEF a, First

(* The shortest and the longest beginning of a sequence.                   *)
LEMMA WholeFirst ==
  ASSUME NEW S, NEW s \in Seq(S)
  PROVE  First(s, 0) = <<>> /\ First(s, Len(s)) = s
  BY DEF First

(* Every sequence is in a set that has the empty one and, with a sequence, *)
(* every one that is longer by an element.                                 *)
LEMMA SeqInduction ==
  ASSUME NEW S, NEW G, <<>> \in G,
         \A s \in Seq(S), x \in S : s \in G => Append(s, x) \in G
  PROVE  \A s \in Seq(S) : s \in G
<1> SUFFICES ASSUME NEW s \in Seq(S)  PROVE s \in G
  OBVIOUS
<1> DEFINE n == Len(s)
           P == {k \in 0..n : First(s, k) \in G}
<1>1. n \in Nat /\ First(s, 0) = <<>> /\ First(s, n) = s
  BY WholeFirst
<1>2. 0 \in P
  BY <1>1
<1>3. ASSUME NEW k \in 1..n, k - 1 \in P  PROVE k \in P
  <2>1. First(s, k) = Append(First(s, k - 1), s[k])
    BY Beginning
  <2>2. First(s, k - 1) \in Seq(S) /\ s[k] \in S
    BY Beginning
  <2>3. First(s, k - 1) \in G
    BY <1>3
  <2>4. First(s, k) \in G
    BY <2>1, <2>2, <2>3
  <2> QED BY <2>4
<1>4. n \in P
  <2> HIDE DEF P
  <2>1. \A k \in 1..n : k - 1 \in P => k \in P
    BY <1>3
  <2>2. \A k \in 0..n : k \in P
    <3> HIDE DEF n
    <3> QED BY <1>1, <1>2, <2>1, UpTo
  <2> QED BY <1>1, <2>2
<1> QED BY <1>1, <1>4

-----------------------------------------------------------------------------
(* Tags, with values in V.                                                 *)
Types == {"super", "reg", "inline", "create", "delete", "attr", "move", "tail",
          "crc", "noop", "from"}

Tags(V) == [type : Types, id : Int, val : V]

(* The kind of a tag by its type (lfs_tag_type1), and what a tag is made   *)
(* of.                                                                     *)
LEMMA Kinds ==
  ASSUME NEW V, NEW t \in Tags(V)
  PROVE  /\ Kind(t) = "name" <=> t.type \in {"super", "reg"}
         /\ Kind(t) = "struct" <=> t.type = "inline"
         /\ Kind(t) = "splice" <=> t.type \in {"create", "delete"}
         /\ Kind(t) = "attr" <=> t.type = "attr"
         /\ Kind(t) = "from" <=> t.type = "from"
         /\ Kind(t) \notin {"name", "struct", "splice"} => Kind(t) = t.type
         /\ t.type \in Types /\ t.id \in Int /\ t.val \in V
<1>1. t.type \in Types /\ t.id \in Int /\ t.val \in V
  BY DEF Tags
<1> QED BY <1>1 DEF Kind, Types

(* What is found of an entry: nothing, or one value.                       *)
Found(V) == {<<>>} \cup {<<v>> : v \in V}

Entries(V) == [name : Found(V), struct : Found(V), attr : Found(V)]

Sorts == {"name", "struct", "attr"}

(* What can be found of an entry.                                          *)
LEMMA FoundTyped ==
  ASSUME NEW V
  PROVE  /\ <<>> \in Found(V) /\ NoEntry \in Entries(V)
         /\ \A v \in V : <<v>> \in Found(V) /\ <<v>> # <<>>
         /\ \A v \in V : Unless(<<v>>, <<Gone>>) \in Found(V)
         /\ \A e \in Entries(V), k \in Sorts : e[k] \in Found(V)
         /\ \A k \in Sorts : NoEntry[k] = <<>>
<1>1. <<>> \in Found(V) /\ \A v \in V : <<v>> \in Found(V) /\ <<v>> # <<>>
  BY DEF Found
<1>2. \A v \in V : Unless(<<v>>, <<Gone>>) \in Found(V)
  BY <1>1 DEF Unless
<1> QED BY <1>1, <1>2 DEF Entries, NoEntry, Sorts

(* What a tag does to the entries, one by one.                             *)
LEMMA Joined ==
  ASSUME NEW S, NEW a \in Seq(S), NEW b \in Seq(S)
  PROVE  /\ a \o b \in Seq(S) /\ Len(a \o b) = Len(a) + Len(b)
         /\ \A j \in 1..Len(a) + Len(b) :
              (a \o b)[j] = IF j <= Len(a) THEN a[j] ELSE b[j - Len(a)]
  OBVIOUS

InsertedBy(r, es, i, e) ==
  /\ Len(r) = Len(es) + 1
  /\ \A j \in 1..Len(es) + 1 : r[j] = IF j <= i THEN es[j]
                                    ELSE IF j = i + 1 THEN e ELSE es[j - 1]

(* An entry that was put between the others (LFS_TYPE_CREATE).             *)
LEMMA InsertedAt ==
  ASSUME NEW S, NEW es \in Seq(S), NEW e \in S, NEW i \in 0..Len(es)
  PROVE  /\ InsertAt(es, i + 1, e) \in Seq(S)
         /\ Len(InsertAt(es, i + 1, e)) = Len(es) + 1
         /\ InsertedBy(InsertAt(es, i + 1, e), es, i, e)
<1> DEFINE a == SubSeq(es, 1, i)
           b == SubSeq(es, i + 1, Len(es))
<1>1. /\ a \in Seq(S) /\ Len(a) = i /\ i \in Nat
      /\ b \in Seq(S) /\ Len(b) = Len(es) - i
  OBVIOUS
<1>2. \A j \in 1..i : a[j] = es[j]
  OBVIOUS
<1>3. \A j \in 1..Len(es) - i : b[j] = es[i + j]
  OBVIOUS
<1>4. InsertAt(es, i + 1, e) = a \o <<e>> \o b
  <2>1. InsertAt(es, i + 1, e)
          = SubSeq(es, 1, (i + 1) - 1) \o <<e>> \o SubSeq(es, i + 1, Len(es))
    BY Zenon DEF InsertAt
  <2>2. (i + 1) - 1 = i
    OBVIOUS
  <2> QED BY <2>1, <2>2, Zenon
<1> HIDE DEF a, b
<1> DEFINE c == a \o <<e>>
<1>5. c \in Seq(S) /\ Len(c) = i + 1 /\ \A j \in 1..i + 1 : c[j] = IF j <= i THEN a[j] ELSE e
  BY <1>1
<1>8. InsertAt(es, i + 1, e) = c \o b
  BY <1>4
<1> HIDE DEF c
<1> DEFINE r == c \o b
<1>6. /\ r \in Seq(S) /\ Len(r) = Len(es) + 1
      /\ \A j \in 1..Len(es) + 1 : r[j] = IF j <= i + 1 THEN c[j] ELSE b[j - (i + 1)]
  <2>1. c \in Seq(S) /\ Len(c) = i + 1 /\ b \in Seq(S) /\ Len(b) = Len(es) - i
    BY <1>1, <1>5
  <2>2. /\ r \in Seq(S) /\ Len(r) = Len(c) + Len(b)
        /\ \A j \in 1..Len(c) + Len(b) :
             r[j] = IF j <= Len(c) THEN c[j] ELSE b[j - Len(c)]
    BY <2>1, Joined
  <2> HIDE DEF r
  <2>3. Len(c) + Len(b) = Len(es) + 1
    BY <2>1, <1>1
  <2> QED BY <2>1, <2>2, <2>3
<1> HIDE DEF r
<1>7. ASSUME NEW j \in 1..Len(es) + 1
      PROVE  r[j] = IF j <= i THEN es[j] ELSE IF j = i + 1 THEN e ELSE es[j - 1]
  <2>1. CASE j <= i
    BY <1>1, <1>2, <1>5, <1>6, <2>1
  <2>2. CASE j = i + 1
    BY <1>1, <1>5, <1>6, <2>2
  <2>3. CASE j > i + 1
    <3>1. j - (i + 1) \in 1..Len(es) - i /\ i + (j - (i + 1)) = j - 1
      BY <1>1, <2>3
    <3>2. b[j - (i + 1)] = es[j - 1]
      BY <1>3, <3>1
    <3>3. ~(j <= i + 1) /\ ~(j <= i) /\ j # i + 1
      BY <1>1, <2>3
    <3> QED BY <1>6, <3>2, <3>3
  <2>4. j <= i \/ j = i + 1 \/ j > i + 1
    BY <1>1
  <2> QED BY ONLY <2>1, <2>2, <2>3, <2>4, Zenon
<1>9. InsertAt(es, i + 1, e) = r
  BY <1>8 DEF r
<1>10. InsertedBy(r, es, i, e)
  BY <1>6, <1>7 DEF InsertedBy
<1> QED BY <1>6, <1>9, <1>10

RemovedBy(r, es, i) ==
  /\ Len(r) = Len(es) - 1
  /\ \A j \in 1..Len(es) - 1 : r[j] = IF j <= i THEN es[j] ELSE es[j + 1]

(* An entry that was taken from between the others (LFS_TYPE_DELETE).      *)
LEMMA RemovedAt ==
  ASSUME NEW S, NEW es \in Seq(S), NEW i \in 0..Len(es) - 1
  PROVE  /\ RemoveAt(es, i + 1) \in Seq(S)
         /\ Len(RemoveAt(es, i + 1)) = Len(es) - 1
         /\ RemovedBy(RemoveAt(es, i + 1), es, i)
<1> DEFINE a == SubSeq(es, 1, i)
           b == SubSeq(es, i + 2, Len(es))
<1>1. /\ a \in Seq(S) /\ Len(a) = i /\ i \in Nat
      /\ b \in Seq(S) /\ Len(b) = Len(es) - i - 1
  OBVIOUS
<1>2. \A j \in 1..i : a[j] = es[j]
  OBVIOUS
<1>3. \A j \in 1..Len(es) - i - 1 : b[j] = es[i + 1 + j]
  OBVIOUS
<1>4. RemoveAt(es, i + 1) = a \o b
  <2>1. RemoveAt(es, i + 1)
          = SubSeq(es, 1, (i + 1) - 1) \o SubSeq(es, (i + 1) + 1, Len(es))
    BY Zenon DEF RemoveAt
  <2>2. (i + 1) - 1 = i /\ (i + 1) + 1 = i + 2
    OBVIOUS
  <2> QED BY <2>1, <2>2, Zenon
<1> HIDE DEF a, b
<1>6. /\ a \o b \in Seq(S) /\ Len(a \o b) = Len(es) - 1
      /\ \A j \in 1..Len(es) - 1 : (a \o b)[j] = IF j <= i THEN a[j] ELSE b[j - i]
  BY <1>1
<1>7. \A j \in 1..Len(es) - 1 : (a \o b)[j] = IF j <= i THEN es[j] ELSE es[j + 1]
  <2> TAKE j \in 1..Len(es) - 1
  <2>1. CASE j <= i
    BY <1>1, <1>2, <1>6, <2>1
  <2>2. CASE ~(j <= i)
    <3>1. j - i \in 1..Len(es) - i - 1 /\ i + 1 + (j - i) = j + 1
      BY <1>1, <2>2
    <3>2. b[j - i] = es[j + 1]
      BY <1>3, <3>1
    <3> QED BY <1>6, <2>2, <3>2
  <2> QED BY <2>1, <2>2
<1>8. RemovedBy(a \o b, es, i)
  BY <1>6, <1>7 DEF RemovedBy
<1> QED BY <1>4, <1>6, <1>8

-----------------------------------------------------------------------------
(* Entries by their place: what one tag makes of them.                     *)
PutBy(r, es, i, kind, f) ==
  /\ Len(r) = Len(es)
  /\ \A j \in 1..Len(es), k \in Sorts :
       r[j][k] = IF j = i + 1 /\ k = kind THEN f ELSE es[j][k]

(* An entry of which one thing was set.                                    *)
LEMMA PutAt ==
  ASSUME NEW V, NEW es \in Seq(Entries(V)), NEW i \in 0..Len(es) - 1,
         NEW kind \in Sorts, NEW f \in Found(V)
  PROVE  /\ Put(es, i, kind, f) \in Seq(Entries(V))
         /\ Len(Put(es, i, kind, f)) = Len(es)
         /\ PutBy(Put(es, i, kind, f), es, i, kind, f)
<1> DEFINE r == [j \in 1..Len(es) |->
                  IF j = i + 1 THEN [es[j] EXCEPT ![kind] = f] ELSE es[j]]
<1>1. \A e \in Entries(V) :
         /\ [e EXCEPT ![kind] = f] \in Entries(V)
         /\ \A k \in Sorts : [e EXCEPT ![kind] = f][k] = IF k = kind THEN f ELSE e[k]
  BY DEF Entries, Sorts
<1>2. \A j \in 1..Len(es) : es[j] \in Entries(V)
  OBVIOUS
<1>3. r \in Seq(Entries(V)) /\ Len(r) = Len(es)
  BY <1>1, <1>2
<1>4. \A j \in 1..Len(es) : r[j] = IF j = i + 1 THEN [es[j] EXCEPT ![kind] = f] ELSE es[j]
  OBVIOUS
<1>5. Put(es, i, kind, f) = r
  BY DEF Put
<1> HIDE DEF r
<1>6. \A j \in 1..Len(es), k \in Sorts :
         r[j][k] = IF j = i + 1 /\ k = kind THEN f ELSE es[j][k]
  <2> TAKE j \in 1..Len(es), k \in Sorts
  <2>1. CASE j = i + 1
    <3>1. es[j] \in Entries(V) /\ r[j] = [es[j] EXCEPT ![kind] = f]
      BY <1>2, <1>4, <2>1
    <3> QED BY <3>1, <1>1, <2>1
  <2>2. CASE j # i + 1
    <3>1. r[j] = es[j]
      BY <1>4, <2>2
    <3> QED BY <3>1, <2>2
  <2> QED BY <2>1, <2>2
<1>7. PutBy(r, es, i, kind, f)
  BY <1>3, <1>6 DEF PutBy
<1> QED BY <1>3, <1>5, <1>7

(* A sequence of equal elements.                                           *)
LEMMA Repeated ==
  ASSUME NEW S, NEW e \in S, NEW n \in Nat
  PROVE  LET r == [k \in 1..n |-> e]
         IN  r \in Seq(S) /\ Len(r) = n /\ \A k \in 1..n : r[k] = e
  OBVIOUS

UptoBy(r, es, n) ==
  /\ Len(r) = IF n > Len(es) THEN n ELSE Len(es)
  /\ \A j \in 1..Len(r) : r[j] = IF j <= Len(es) THEN es[j] ELSE NoEntry

(* Entries with as many new ones behind them as a name behind their end    *)
(* makes.                                                                  *)
LEMMA UptoAt ==
  ASSUME NEW V, NEW es \in Seq(Entries(V)), NEW n \in Nat
  PROVE  /\ Upto(es, n) \in Seq(Entries(V))
         /\ Len(Upto(es, n)) = IF n > Len(es) THEN n ELSE Len(es)
         /\ UptoBy(Upto(es, n), es, n)
<1> DEFINE b == [k \in 1..n - Len(es) |-> NoEntry]
           m == IF n > Len(es) THEN n - Len(es) ELSE 0
<1>1. NoEntry \in Entries(V)
  BY FoundTyped
<1>2. 1..n - Len(es) = 1..m /\ m \in Nat
  OBVIOUS
<1>3. b = [k \in 1..m |-> NoEntry]
  BY <1>2
<1>4. b \in Seq(Entries(V)) /\ Len(b) = m /\ \A j \in 1..m : b[j] = NoEntry
  <2> HIDE DEF m, b
  <2> QED BY <1>1, <1>2, <1>3, Repeated
<1>5. Upto(es, n) = es \o b
  BY DEF Upto
<1>6. m = IF n > Len(es) THEN n - Len(es) ELSE 0
  OBVIOUS
<1> HIDE DEF b, m
<1> DEFINE r == es \o b
<1>7. /\ r \in Seq(Entries(V)) /\ Len(r) = Len(es) + Len(b)
      /\ \A j \in 1..Len(es) + Len(b) : r[j] = IF j <= Len(es) THEN es[j] ELSE b[j - Len(es)]
  BY <1>4, Joined
<1> HIDE DEF r
<1>8. \A j \in 1..Len(r) : r[j] = IF j <= Len(es) THEN es[j] ELSE NoEntry
  BY <1>2, <1>4, <1>7
<1>9. Len(r) = IF n > Len(es) THEN n ELSE Len(es)
  BY <1>4, <1>6, <1>7
<1>10. Upto(es, n) = r
  BY <1>5 DEF r
<1>11. UptoBy(r, es, n)
  BY <1>8, <1>9 DEF UptoBy
<1> QED BY <1>7, <1>9, <1>10, <1>11

(* The tags that fit behind a log, and what they do to its entries.        *)
LEMMA FitCases ==
  ASSUME NEW V, NEW es, NEW t \in Tags(V), Fit(es, t)
  PROVE  \/ t.type = "create" /\ t.id \in 0..Len(es) /\ Kind(t) = "splice"
            /\ Applied(es, t) = InsertAt(es, t.id + 1, NoEntry)
         \/ t.type = "delete" /\ t.id \in 0..Len(es) - 1 /\ Kind(t) = "splice"
            /\ Applied(es, t) = RemoveAt(es, t.id + 1)
         \/ Kind(t) = "name" /\ t.type \in {"super", "reg"} /\ t.id \in Nat
            /\ ValueAt(es, t.id, "name") = <<>>
            /\ Applied(es, t) = Put(Upto(es, t.id + 1), t.id, "name", <<t.val>>)
         \/ Kind(t) = "struct" /\ t.type = "inline" /\ t.id \in 0..Len(es) - 1
            /\ ValueAt(es, t.id, "name") # <<>>
            /\ Applied(es, t) = Put(es, t.id, "struct", <<t.val>>)
         \/ Kind(t) = "attr" /\ t.type = "attr" /\ t.id \in 0..Len(es) - 1
            /\ ValueAt(es, t.id, "name") # <<>>
            /\ Applied(es, t) = Put(es, t.id, "attr", Unless(<<t.val>>, <<Gone>>))
         \/ Kind(t) = t.type /\ t.type \in {"move", "tail", "crc", "noop"} /\ Applied(es, t) = es
<1>1. t.type \in Types
  BY Kinds
<1>2. CASE t.type = "create"
  BY <1>2, Kinds DEF Fit, Applied
<1>3. CASE t.type = "delete"
  BY <1>3, Kinds DEF Fit, Applied
<1>4. CASE t.type \in {"super", "reg"}
  BY <1>4, Kinds DEF Fit, Applied
<1>5. CASE t.type = "inline"
  BY <1>5, Kinds DEF Fit, Applied
<1>6. CASE t.type = "attr"
  BY <1>6, Kinds DEF Fit, Applied
<1>7. CASE t.type = "from"
  BY <1>7, Kinds DEF Fit, Applied
<1>8. CASE t.type \in {"move", "tail", "crc", "noop"}
  BY <1>8, Kinds DEF Fit, Applied
<1> QED BY <1>1, <1>2, <1>3, <1>4, <1>5, <1>6, <1>7, <1>8 DEF Types

(* One tag more.                                                           *)
LEMMA FirstOfMore ==
  ASSUME NEW S, NEW s \in Seq(S), NEW x \in S
  PROVE  /\ Append(s, x) \in Seq(S) /\ Len(Append(s, x)) = Len(s) + 1
         /\ Append(s, x)[Len(s) + 1] = x
         /\ \A k \in 1..Len(s) : Append(s, x)[k] = s[k]
         /\ \A k \in 0..Len(s) : First(Append(s, x), k) = First(s, k)
<1> DEFINE a == Append(s, x)
<1>1. /\ a \in Seq(S) /\ Len(a) = Len(s) + 1 /\ a[Len(s) + 1] = x
      /\ \A k \in 1..Len(s) : a[k] = s[k]
  OBVIOUS
<1> HIDE DEF a
<1>2. ASSUME NEW k \in 0..Len(s)  PROVE First(a, k) = First(s, k)
  <2>1. First(a, k) \in Seq(S) /\ Len(First(a, k)) = k /\ \A j \in 1..k : First(a, k)[j] = a[j]
    BY <1>1 DEF First
  <2>2. First(s, k) \in Seq(S) /\ Len(First(s, k)) = k /\ \A j \in 1..k : First(s, k)[j] = s[j]
    BY DEF First
  <2>3. \A j \in 1..k : First(a, k)[j] = First(s, k)[j]
    <3> HIDE DEF First
    <3>1. \A j \in 1..k : j \in 1..Len(s)
      OBVIOUS
    <3> QED BY <1>1, <2>1, <2>2, <3>1
  <2> HIDE DEF First
  <2> QED BY <2>1, <2>2, <2>3, SeqEqual
<1> QED BY <1>1, <1>2 DEF a

(* A log is sound with one tag more if it was and the tag fits.            *)
LEMMA SoundMore ==
  ASSUME NEW V, NEW log \in Seq(Tags(V)), NEW t \in Tags(V)
  PROVE  Sound(Append(log, t)) <=> Sound(log) /\ Fit(Replay(log), t)
<1> DEFINE a == Append(log, t)
<1>1. /\ Len(a) = Len(log) + 1 /\ Len(log) \in Nat
      /\ a[Len(log) + 1] = t
      /\ \A k \in 1..Len(log) : a[k] = log[k]
      /\ \A k \in 0..Len(log) : First(a, k) = First(log, k)
  BY FirstOfMore
<1>2. First(log, Len(log)) = log
  BY WholeFirst
<1> HIDE DEF a
<1>3. ASSUME NEW k \in 1..Len(log)
      PROVE  k - 1 \in 0..Len(log) /\ k \in 1..Len(a) /\ First(a, k - 1) = First(log, k - 1) /\ a[k] = log[k]
  BY <1>1
<1>4. Len(log) + 1 \in 1..Len(a) /\ (Len(log) + 1) - 1 = Len(log) /\ First(a, Len(log)) = log
  BY <1>1, <1>2
<1>5. ASSUME NEW k \in 1..Len(a), k # Len(log) + 1  PROVE k \in 1..Len(log)
  BY <1>1, <1>5
<1>6. Sound(a) => Sound(log) /\ Fit(Replay(log), t)
  <2>1. Sound(a) => Sound(log)
    BY <1>3 DEF Sound
  <2>2. Sound(a) => Fit(Replay(log), t)
    <3> SUFFICES ASSUME Sound(a)  PROVE Fit(Replay(log), t)
      OBVIOUS
    <3>1. Fit(Replay(First(a, (Len(log) + 1) - 1)), a[Len(log) + 1])
      BY <1>4 DEF Sound
    <3> QED BY <3>1, <1>1, <1>4
  <2> QED BY <2>1, <2>2
<1>7. ASSUME Sound(log), Fit(Replay(log), t)  PROVE Sound(a)
  <2> SUFFICES ASSUME NEW k \in 1..Len(a)  PROVE Fit(Replay(First(a, k - 1)), a[k])
    BY DEF Sound
  <2>1. CASE k = Len(log) + 1
    BY <1>1, <1>4, <1>7, <2>1
  <2>2. CASE k # Len(log) + 1
    BY <1>3, <1>5, <1>7, <2>2 DEF Sound
  <2> QED BY <2>1, <2>2
<1> QED BY <1>6, <1>7 DEF a

(* An erased block is a sound log.                                         *)
LEMMA SoundNone == Sound(<<>>)
  BY DEF Sound

(* What a tag that fits makes of well-formed entries, by their place.      *)
LEMMA AppliedTyped ==
  ASSUME NEW V, NEW es \in Seq(Entries(V)), NEW t \in Tags(V), Fit(es, t)
  PROVE  /\ Applied(es, t) \in Seq(Entries(V))
         /\ Len(Applied(es, t)) = Counted(Len(es), t)
<1>1. NoEntry \in Entries(V) /\ t.val \in V /\ <<t.val>> \in Found(V)
      /\ Unless(<<t.val>>, <<Gone>>) \in Found(V)
  BY FoundTyped, Kinds
<1>2. Len(es) \in Nat /\ t.id \in Int
  BY Kinds
<1>3. CASE t.type = "create"
  <2>1. t.id \in 0..Len(es) /\ Applied(es, t) = InsertAt(es, t.id + 1, NoEntry)
    BY <1>3, FitCases, Kinds
  <2>2. Counted(Len(es), t) = Len(es) + 1
    BY <1>2, <1>3, Kinds DEF Counted, Splice
  <2> QED BY <1>1, <2>1, <2>2, InsertedAt
<1>4. CASE t.type = "delete"
  <2>1. t.id \in 0..Len(es) - 1 /\ Applied(es, t) = RemoveAt(es, t.id + 1)
    BY <1>4, FitCases, Kinds
  <2>2. Counted(Len(es), t) = Len(es) - 1
    BY <1>2, <1>4, Kinds DEF Counted, Splice
  <2> QED BY <2>1, <2>2, RemovedAt
<1>5. CASE Kind(t) = "name"
  <2>1. t.id \in Nat /\ Applied(es, t) = Put(Upto(es, t.id + 1), t.id, "name", <<t.val>>)
    BY <1>5, FitCases, Kinds
  <2> DEFINE u == Upto(es, t.id + 1)
  <2>2. u \in Seq(Entries(V)) /\ Len(u) = IF t.id + 1 > Len(es) THEN t.id + 1 ELSE Len(es)
    BY <2>1, UptoAt
  <2>3. Counted(Len(es), t) = Len(u)
    BY <1>2, <1>5, <2>1, <2>2 DEF Counted
  <2> HIDE DEF u
  <2>4. t.id \in 0..Len(u) - 1
    BY <1>2, <2>1, <2>2
  <2>5. "name" \in Sorts
    BY DEF Sorts
  <2>6. LET r == Put(u, t.id, "name", <<t.val>>)
        IN  r \in Seq(Entries(V)) /\ Len(r) = Len(u)
    BY <1>1, <2>2, <2>4, <2>5, PutAt
  <2> QED BY <2>1, <2>3, <2>6 DEF u
<1>6. CASE Kind(t) = "struct"
  <2>1. t.id \in 0..Len(es) - 1 /\ Applied(es, t) = Put(es, t.id, "struct", <<t.val>>)
    BY <1>6, FitCases, Kinds
  <2>2. "struct" \in Sorts /\ Counted(Len(es), t) = Len(es)
    BY <1>6 DEF Sorts, Counted
  <2>3. LET r == Put(es, t.id, "struct", <<t.val>>)
        IN  r \in Seq(Entries(V)) /\ Len(r) = Len(es)
    BY <1>1, <2>1, <2>2, PutAt
  <2> QED BY <2>1, <2>2, <2>3
<1>7. CASE Kind(t) = "attr"
  <2>1. t.id \in 0..Len(es) - 1 /\ Applied(es, t) = Put(es, t.id, "attr", Unless(<<t.val>>, <<Gone>>))
    BY <1>7, FitCases, Kinds
  <2>2. "attr" \in Sorts /\ Counted(Len(es), t) = Len(es)
    BY <1>7 DEF Sorts, Counted
  <2>3. LET r == Put(es, t.id, "attr", Unless(<<t.val>>, <<Gone>>))
        IN  r \in Seq(Entries(V)) /\ Len(r) = Len(es)
    BY <1>1, <2>1, <2>2, PutAt
  <2> QED BY <2>1, <2>2, <2>3
<1>8. CASE t.type \in {"move", "tail", "crc", "noop"}
  <2>1. Applied(es, t) = es
    BY <1>8, FitCases
  <2>2. Kind(t) \notin {"name", "splice"}
    BY <1>8, Kinds
  <2> QED BY <1>2, <2>1, <2>2 DEF Counted
<1> QED BY <1>3, <1>4, <1>5, <1>6, <1>7, <1>8, FitCases

(* The count lfs_dir_fetchmatch arrives at, of a sound log, is the number  *)
(* of entries the log stands for.                                          *)
THEOREM CountIsReplayed ==
  ASSUME NEW V
  PROVE  \A log \in Seq(Tags(V)) : Sound(log) =>
           Replay(log) \in Seq(Entries(V)) /\ Len(Replay(log)) = CountOf(log)
<1> DEFINE G == {log \in Seq(Tags(V)) : Sound(log) =>
                   Replay(log) \in Seq(Entries(V)) /\ Len(Replay(log)) = CountOf(log)}
<1>1. <<>> \in G
  <2>1. <<>> \in Seq(Tags(V)) /\ <<>> \in Seq(Entries(V)) /\ Len(<<>>) = 0
    OBVIOUS
  <2> QED BY <2>1, CountLaws, ReplayLaws
<1>2. ASSUME NEW log \in Seq(Tags(V)), NEW t \in Tags(V), log \in G
      PROVE  Append(log, t) \in G
  <2>1. Append(log, t) \in Seq(Tags(V))
    OBVIOUS
  <2> SUFFICES ASSUME Sound(Append(log, t))
               PROVE  /\ Replay(Append(log, t)) \in Seq(Entries(V))
                      /\ Len(Replay(Append(log, t))) = CountOf(Append(log, t))
    BY <2>1
  <2>2. Sound(log) /\ Fit(Replay(log), t)
    BY SoundMore
  <2>3. Replay(log) \in Seq(Entries(V)) /\ Len(Replay(log)) = CountOf(log)
    BY <1>2, <2>2
  <2> QED BY <2>2, <2>3, AppliedTyped, CountLaws, ReplayLaws
<1> HIDE DEF G
<1>3. \A log \in Seq(Tags(V)) : log \in G
  BY <1>1, <1>2, SeqInduction
<1> QED BY <1>3 DEF G

-----------------------------------------------------------------------------
(* What a tag does to that.                                                *)
LEMMA ValueIn ==
  ASSUME NEW es, NEW at, NEW kind
  PROVE  /\ at < Len(es) => ValueAt(es, at, kind) = es[at + 1][kind]
         /\ ~(at < Len(es)) => ValueAt(es, at, kind) = <<>>
  BY Zenon DEF ValueAt

(* Entries that are the same, or both missing, tell the same.              *)
LEMMA SameValue ==
  ASSUME NEW es, NEW at, NEW kind, NEW fs, NEW to,
         at < Len(es) <=> to < Len(fs),
         at < Len(es) => es[at + 1] = fs[to + 1]
  PROVE  ValueAt(es, at, kind) = ValueAt(fs, to, kind)
<1>1. CASE at < Len(es)
  <2>1. to < Len(fs) /\ es[at + 1] = fs[to + 1]
    BY <1>1
  <2>2. ValueAt(es, at, kind) = es[at + 1][kind]
    BY <1>1, ValueIn
  <2>3. ValueAt(fs, to, kind) = fs[to + 1][kind]
    BY <2>1, ValueIn
  <2> QED BY <2>1, <2>2, <2>3
<1>2. CASE ~(at < Len(es))
  BY <1>2, ValueIn, Zenon
<1> QED BY <1>1, <1>2, Zenon

(* What is known of every entry once one was created.                      *)
LEMMA CreatedValue ==
  ASSUME NEW V, NEW es \in Seq(Entries(V)), NEW i \in 0..Len(es),
         NEW at \in Nat, NEW kind \in Sorts
  PROVE  ValueAt(InsertAt(es, i + 1, NoEntry), at, kind)
           = IF at < i THEN ValueAt(es, at, kind)
             ELSE IF at = i THEN <<>> ELSE ValueAt(es, at - 1, kind)
<1>1. NoEntry \in Entries(V) /\ NoEntry[kind] = <<>>
  BY FoundTyped
<1>2. Len(es) \in Nat /\ i \in Nat /\ i <= Len(es)
  OBVIOUS
<1> DEFINE r == InsertAt(es, i + 1, NoEntry)
<1>3. InsertedBy(r, es, i, NoEntry)
  BY <1>1, InsertedAt
<1> HIDE DEF r
<1>4. CASE at < i
  <2>1. at < Len(r) /\ at < Len(es) /\ r[at + 1] = es[at + 1]
    BY <1>2, <1>3, <1>4 DEF InsertedBy
  <2>2. ValueAt(r, at, kind) = ValueAt(es, at, kind)
    BY <2>1, SameValue
  <2> QED BY <1>4, <2>2 DEF r
<1>5. CASE at = i
  <2>1. at < Len(r) /\ r[at + 1] = NoEntry /\ ~(at < i)
    BY <1>2, <1>3, <1>5 DEF InsertedBy
  <2>2. ValueAt(r, at, kind) = <<>>
    BY <1>1, <2>1, ValueIn, Zenon
  <2> QED BY <1>5, <2>1, <2>2 DEF r
<1>6. CASE at > i
  <2>1. /\ at < Len(r) <=> at - 1 < Len(es)
        /\ at < Len(r) => r[at + 1] = es[(at - 1) + 1]
        /\ ~(at < i) /\ at # i
    BY <1>2, <1>3, <1>6 DEF InsertedBy
  <2>2. ValueAt(r, at, kind) = ValueAt(es, at - 1, kind)
    BY <2>1, SameValue
  <2> QED BY <2>1, <2>2 DEF r
<1>7. at < i \/ at = i \/ at > i
  BY <1>2
<1> QED BY <1>4, <1>5, <1>6, <1>7 DEF r

(* What is known of every entry once one was deleted.                      *)
LEMMA DeletedValue ==
  ASSUME NEW V, NEW es \in Seq(Entries(V)), NEW i \in 0..Len(es) - 1,
         NEW at \in Nat, NEW kind \in Sorts
  PROVE  ValueAt(RemoveAt(es, i + 1), at, kind)
           = ValueAt(es, IF at < i THEN at ELSE at + 1, kind)
<1>1. Len(es) \in Nat /\ i \in Nat /\ i < Len(es)
  OBVIOUS
<1> DEFINE r == RemoveAt(es, i + 1)
           to == IF at < i THEN at ELSE at + 1
<1>2. RemovedBy(r, es, i)
  BY RemovedAt
<1> HIDE DEF r
<1>3. at < Len(r) <=> to < Len(es)
  BY <1>1, <1>2 DEF RemovedBy
<1>4. at < Len(r) => r[at + 1] = es[to + 1]
  BY <1>1, <1>2 DEF RemovedBy
<1> HIDE DEF to
<1>5. ValueAt(r, at, kind) = ValueAt(es, to, kind)
  BY <1>3, <1>4, SameValue
<1> QED BY <1>5 DEF r, to

(* What is known of every entry once one thing was set.                    *)
LEMMA PutValue ==
  ASSUME NEW V, NEW es \in Seq(Entries(V)), NEW i \in 0..Len(es) - 1,
         NEW k \in Sorts, NEW f \in Found(V), NEW at \in Nat, NEW kind \in Sorts
  PROVE  ValueAt(Put(es, i, k, f), at, kind)
           = IF at = i /\ kind = k THEN f ELSE ValueAt(es, at, kind)
<1> DEFINE r == Put(es, i, k, f)
<1>1. PutBy(r, es, i, k, f)
  BY PutAt
<1> HIDE DEF r
<1>2. Len(es) \in Nat /\ i \in Nat /\ i < Len(es)
  OBVIOUS
<1>3. CASE at < Len(es)
  <2>1. at + 1 \in 1..Len(es) /\ (at + 1 = i + 1 <=> at = i)
    BY <1>2, <1>3
  <2>2. at < Len(r) /\ r[at + 1][kind] = IF at = i /\ kind = k THEN f ELSE es[at + 1][kind]
    BY <1>1, <1>3, <2>1 DEF PutBy
  <2>3. ValueAt(r, at, kind) = r[at + 1][kind] /\ ValueAt(es, at, kind) = es[at + 1][kind]
    BY <1>3, <2>2, ValueIn
  <2> QED BY <2>2, <2>3, Zenon DEF r
<1>4. CASE ~(at < Len(es))
  <2>1. ~(at < Len(r)) /\ at # i
    BY <1>1, <1>2, <1>4 DEF PutBy
  <2> QED BY <1>4, <2>1, ValueIn, Zenon DEF r
<1> QED BY <1>3, <1>4 DEF r

(* Entries that are only made room for tell nothing.                       *)
LEMMA UptoValue ==
  ASSUME NEW V, NEW es \in Seq(Entries(V)), NEW n \in Nat, NEW at \in Nat, NEW kind \in Sorts
  PROVE  ValueAt(Upto(es, n), at, kind) = ValueAt(es, at, kind)
<1> DEFINE r == Upto(es, n)
<1>1. UptoBy(r, es, n)
  BY UptoAt
<1> HIDE DEF r
<1>2. Len(es) \in Nat /\ NoEntry[kind] = <<>>
  BY FoundTyped
<1>3. CASE at < Len(es)
  <2>1. at < Len(r) /\ r[at + 1] = es[at + 1]
    BY <1>1, <1>2, <1>3 DEF UptoBy
  <2>2. ValueAt(r, at, kind) = ValueAt(es, at, kind)
    BY <1>3, <2>1, SameValue
  <2> QED BY <2>2 DEF r
<1>4. CASE ~(at < Len(es))
  <2>1. at < Len(r) => r[at + 1] = NoEntry
    BY <1>1, <1>2, <1>4 DEF UptoBy
  <2> QED BY <1>2, <1>4, <2>1, ValueIn, Zenon DEF r
<1> QED BY <1>3, <1>4 DEF r

(* What a search says, once it has stopped.                                *)
Seen(kind, found) == Unless(found, IF kind = "attr" THEN <<Gone>> ELSE <<>>)

(* A search that has stopped looks at no other tag (lfs_dir_getslice       *)
(* returns).                                                               *)
LEMMA SearchStays ==
  ASSUME NEW S
  PROVE  \A log \in Seq(S) : \A s : s.stop = TRUE => Search(log, s) = s
<1> DEFINE G == {log \in Seq(S) : \A s : s.stop = TRUE => Search(log, s) = s}
<1>1. <<>> \in G
  <2>1. <<>> \in Seq(S)
    OBVIOUS
  <2> QED BY <2>1, SearchLaws
<1>2. ASSUME NEW log \in Seq(S), NEW t \in S, log \in G
      PROVE  Append(log, t) \in G
  <2>1. Append(log, t) \in Seq(S)
    OBVIOUS
  <2> SUFFICES ASSUME NEW s, s.stop = TRUE  PROVE Search(Append(log, t), s) = s
    BY <2>1
  <2>2. SearchStep(t, s) = s
    BY DEF SearchStep
  <2>3. Search(Append(log, t), s) = Search(log, SearchStep(t, s))
    BY SearchLaws
  <2> QED BY <1>2, <2>2, <2>3
<1> HIDE DEF G
<1>3. \A log \in Seq(S) : log \in G
  BY <1>1, <1>2, SeqInduction
<1> QED BY <1>3 DEF G

(* One step of a search agrees with the entries a tag makes.               *)
LEMMA SeenOfOne ==
  ASSUME NEW V, NEW v \in V
  PROVE  /\ \A kind \in Sorts : Seen(kind, <<>>) = <<>>
         /\ Seen("name", <<v>>) = <<v>> /\ Seen("struct", <<v>>) = <<v>>
         /\ Seen("attr", <<v>>) = Unless(<<v>>, <<Gone>>)
  BY DEF Seen, Unless, Sorts

(* One step backwards of lfs_dir_getslice: it finds what the tag tells of  *)
(* the entry, or goes on for the entry that this one was before the tag.   *)
LEMMA StepSeen ==
  ASSUME NEW V, NEW es \in Seq(Entries(V)), NEW t \in Tags(V), Fit(es, t),
         NEW kind \in Sorts, NEW at \in Nat
  PROVE  LET s == SearchStep(t, Sought(kind, at))
         IN  \/ /\ s.stop = TRUE
                /\ Seen(kind, s.found) = ValueAt(Applied(es, t), at, kind)
             \/ \E b \in Nat :
                  /\ s = Sought(kind, b)
                  /\ ValueAt(es, b, kind) = ValueAt(Applied(es, t), at, kind)
<1> DEFINE s == SearchStep(t, Sought(kind, at))
           r == Applied(es, t)
           sk == Sought(kind, at)
<1>0. /\ sk.stop = FALSE /\ sk.at = at /\ sk.kind = kind /\ sk.found = <<>>
      /\ [sk EXCEPT !.stop = TRUE].stop = TRUE /\ [sk EXCEPT !.stop = TRUE].found = <<>>
      /\ \A f : /\ [sk EXCEPT !.stop = TRUE, !.found = f].stop = TRUE
                /\ [sk EXCEPT !.stop = TRUE, !.found = f].found = f
  <2>1. sk.stop = FALSE /\ sk.at = at /\ sk.kind = kind /\ sk.found = <<>>
    BY DEF Sought
  <2>2. [sk EXCEPT !.stop = TRUE].stop = TRUE /\ [sk EXCEPT !.stop = TRUE].found = <<>>
    BY DEF Sought
  <2>3. ASSUME NEW f
        PROVE  /\ [sk EXCEPT !.stop = TRUE, !.found = f].stop = TRUE
               /\ [sk EXCEPT !.stop = TRUE, !.found = f].found = f
    BY DEF Sought
  <2> HIDE DEF sk
  <2> QED BY <2>1, <2>2, <2>3
<1>1. s = IF Kind(t) = "splice" /\ t.id <= at THEN
            IF t.type = "create" /\ t.id = at THEN [sk EXCEPT !.stop = TRUE]
            ELSE Sought(kind, at - Splice(t))
          ELSE IF Kind(t) = kind /\ t.id = at
               THEN [sk EXCEPT !.stop = TRUE, !.found = <<t.val>>]
               ELSE sk
  <2> HIDE DEF sk
  <2>1. s = SearchStep(t, sk)
    BY DEF sk
  <2> QED BY <1>0, <2>1 DEF SearchStep
<1>2. t.id \in Int /\ t.val \in V /\ <<t.val>> \in Found(V)
      /\ Unless(<<t.val>>, <<Gone>>) \in Found(V) /\ Seen(kind, <<>>) = <<>>
  BY Kinds, FoundTyped, SeenOfOne
<1> HIDE DEF s, r, sk
<1> SUFFICES \/ s.stop = TRUE /\ Seen(kind, s.found) = ValueAt(r, at, kind)
             \/ \E b \in Nat : s = Sought(kind, b) /\ ValueAt(es, b, kind) = ValueAt(r, at, kind)
  BY DEF s, r
<1>3. CASE t.type = "create"
  <2>1. /\ t.id \in 0..Len(es) /\ Kind(t) = "splice" /\ Splice(t) = 1
        /\ r = InsertAt(es, t.id + 1, NoEntry)
    BY <1>3, FitCases, Kinds DEF r, Splice
  <2>2. ValueAt(r, at, kind) = IF at < t.id THEN ValueAt(es, at, kind)
                               ELSE IF at = t.id THEN <<>> ELSE ValueAt(es, at - 1, kind)
    BY <2>1, CreatedValue
  <2>3. CASE at < t.id
    <3>1. ~(t.id <= at) /\ Kind(t) # kind
      BY <1>2, <2>1, <2>3 DEF Sorts
    <3>2. s = Sought(kind, at)
      BY <1>1, <3>1 DEF sk
    <3> QED BY <2>2, <2>3, <3>2
  <2>4. CASE at = t.id
    <3>1. s = [sk EXCEPT !.stop = TRUE]
      BY <1>1, <1>3, <2>1, <2>4
    <3>2. ~(at < t.id)
      BY <2>4
    <3> QED BY <1>0, <1>2, <2>2, <2>4, <3>1, <3>2
  <2>5. CASE at > t.id
    <3>1. s = Sought(kind, at - 1) /\ at - 1 \in Nat /\ ~(at < t.id) /\ at # t.id
      BY <1>1, <1>2, <2>1, <2>5
    <3> QED BY <2>2, <3>1
  <2>6. at < t.id \/ at = t.id \/ at > t.id
    BY <1>2
  <2> QED BY <2>3, <2>4, <2>5, <2>6
<1>4. CASE t.type = "delete"
  <2>1. /\ t.id \in 0..Len(es) - 1 /\ Kind(t) = "splice" /\ Splice(t) = -1
        /\ r = RemoveAt(es, t.id + 1)
    BY <1>4, FitCases, Kinds DEF r, Splice
  <2>2. ValueAt(r, at, kind) = ValueAt(es, IF at < t.id THEN at ELSE at + 1, kind)
    BY <2>1, DeletedValue
  <2>3. CASE at < t.id
    <3>1. ~(t.id <= at) /\ Kind(t) # kind
      BY <1>2, <2>1, <2>3 DEF Sorts
    <3>2. s = Sought(kind, at)
      BY <1>1, <3>1 DEF sk
    <3> QED BY <2>2, <2>3, <3>2
  <2>4. CASE ~(at < t.id)
    <3>1. s = Sought(kind, at - Splice(t))
      BY <1>1, <1>2, <1>4, <2>1, <2>4
    <3>2. at - Splice(t) = at + 1 /\ at + 1 \in Nat
      BY <2>1
    <3> QED BY <2>2, <2>4, <3>1, <3>2
  <2> QED BY <2>3, <2>4
<1>5. ASSUME NEW u \in Seq(Entries(V)), NEW k \in Sorts, NEW f \in Found(V),
             t.id \in 0..Len(u) - 1, Kind(t) = k, r = Put(u, t.id, k, f),
             f = Seen(k, <<t.val>>), ValueAt(u, at, kind) = ValueAt(es, at, kind)
      PROVE  \/ s.stop = TRUE /\ Seen(kind, s.found) = ValueAt(r, at, kind)
             \/ \E b \in Nat : s = Sought(kind, b) /\ ValueAt(es, b, kind) = ValueAt(r, at, kind)
  <2>1. ValueAt(r, at, kind) = IF at = t.id /\ kind = k THEN f ELSE ValueAt(es, at, kind)
    <3>1. t.id \in 0..Len(u) - 1
      BY <1>5
    <3>2. ValueAt(Put(u, t.id, k, f), at, kind)
            = IF at = t.id /\ kind = k THEN f ELSE ValueAt(u, at, kind)
      BY <3>1, PutValue
    <3> QED BY <1>5, <3>2, Zenon
  <2>2. Kind(t) # "splice"
    BY <1>5 DEF Sorts
  <2>3. CASE at = t.id /\ kind = k
    <3>1. s = [sk EXCEPT !.stop = TRUE, !.found = <<t.val>>]
      BY <1>1, <1>5, <2>2, <2>3
    <3> QED BY <1>0, <1>5, <2>1, <2>3, <3>1
  <2>4. CASE ~(at = t.id /\ kind = k)
    <3>1. s = Sought(kind, at)
      BY <1>1, <1>5, <2>2, <2>4 DEF sk
    <3> QED BY <2>1, <2>4, <3>1
  <2> QED BY <2>3, <2>4
<1>6. CASE Kind(t) = "name"
  <2>1. t.id \in Nat /\ r = Put(Upto(es, t.id + 1), t.id, "name", <<t.val>>)
    BY <1>6, FitCases DEF r
  <2> DEFINE u == Upto(es, t.id + 1)
  <2>2. u \in Seq(Entries(V)) /\ Len(u) = IF t.id + 1 > Len(es) THEN t.id + 1 ELSE Len(es)
    BY <2>1, UptoAt
  <2>3. ValueAt(u, at, kind) = ValueAt(es, at, kind)
    BY <2>1, UptoValue
  <2>4. r = Put(u, t.id, "name", <<t.val>>)
    BY <2>1
  <2> HIDE DEF u
  <2>5. "name" \in Sorts /\ Seen("name", <<t.val>>) = <<t.val>>
    BY <1>2, SeenOfOne DEF Sorts
  <2>6. t.id \in 0..Len(u) - 1
    <3>1. Len(es) \in Nat
      OBVIOUS
    <3> QED BY <2>1, <2>2, <3>1
  <2> QED BY <1>2, <1>5, <1>6, <2>2, <2>3, <2>4, <2>5, <2>6, Zenon
<1>7. CASE Kind(t) = "struct"
  <2>1. t.id \in 0..Len(es) - 1 /\ r = Put(es, t.id, "struct", <<t.val>>)
    BY <1>7, FitCases DEF r
  <2>2. "struct" \in Sorts /\ Seen("struct", <<t.val>>) = <<t.val>>
    BY <1>2, SeenOfOne DEF Sorts
  <2> QED BY <1>2, <1>5, <1>7, <2>1, <2>2, Zenon
<1>8. CASE Kind(t) = "attr"
  <2>1. t.id \in 0..Len(es) - 1 /\ r = Put(es, t.id, "attr", Unless(<<t.val>>, <<Gone>>))
    BY <1>8, FitCases DEF r
  <2>2. "attr" \in Sorts /\ Seen("attr", <<t.val>>) = Unless(<<t.val>>, <<Gone>>)
    BY <1>2, SeenOfOne DEF Sorts
  <2> QED BY <1>2, <1>5, <1>8, <2>1, <2>2, Zenon
<1>9. CASE t.type \in {"move", "tail", "crc", "noop"}
  <2>1. r = es
    BY <1>9, FitCases DEF r
  <2>2. Kind(t) # "splice" /\ Kind(t) # kind
    BY <1>9, Kinds DEF Sorts
  <2>3. s = Sought(kind, at)
    BY <1>1, <2>2 DEF sk
  <2> QED BY <2>1, <2>3
<1> QED BY <1>3, <1>4, <1>6, <1>7, <1>8, <1>9, FitCases

(* lfs_dir_getslice: reading a sound log backwards, with the id it looks   *)
(* for shifted by every splice on the way, shows of every entry what a     *)
(* replay of the log from its beginning shows.                             *)
THEOREM SearchIsReplayed ==
  ASSUME NEW V
  PROVE  \A log \in Seq(Tags(V)) : Sound(log) =>
           \A kind \in Sorts, at \in Nat :
             Seen(kind, Search(log, Sought(kind, at)).found) = ValueAt(Replay(log), at, kind)
<1> DEFINE P(log) ==
      \A kind \in Sorts, at \in Nat :
        Seen(kind, Search(log, Sought(kind, at)).found) = ValueAt(Replay(log), at, kind)
           G == {log \in Seq(Tags(V)) : Sound(log) => P(log)}
<1>1. <<>> \in G
  <2>1. <<>> \in Seq(Tags(V)) /\ \A at \in Nat : ~(at < Len(<<>>))
    OBVIOUS
  <2> SUFFICES ASSUME NEW kind \in Sorts, NEW at \in Nat
               PROVE  Seen(kind, Search(<<>>, Sought(kind, at)).found)
                        = ValueAt(Replay(<<>>), at, kind)
    BY <2>1
  <2>2. Search(<<>>, Sought(kind, at)).found = <<>>
    BY SearchLaws DEF Sought
  <2>3. Seen(kind, <<>>) = <<>>
    BY SeenOfOne DEF Seen, Unless
  <2>4. ValueAt(Replay(<<>>), at, kind) = <<>>
    BY <2>1, ReplayLaws, ValueIn
  <2> QED BY <2>2, <2>3, <2>4
<1>2. ASSUME NEW log \in Seq(Tags(V)), NEW t \in Tags(V), log \in G
      PROVE  Append(log, t) \in G
  <2>1. Append(log, t) \in Seq(Tags(V))
    OBVIOUS
  <2> SUFFICES ASSUME Sound(Append(log, t)), NEW kind \in Sorts, NEW at \in Nat
               PROVE  Seen(kind, Search(Append(log, t), Sought(kind, at)).found)
                        = ValueAt(Replay(Append(log, t)), at, kind)
    BY <2>1
  <2>2. Sound(log) /\ Fit(Replay(log), t)
    BY SoundMore
  <2>3. P(log) /\ Replay(log) \in Seq(Entries(V))
    BY <1>2, <2>2, CountIsReplayed
  <2> DEFINE s == SearchStep(t, Sought(kind, at))
             es == Replay(log)
             r == Applied(es, t)
  <2>4. Search(Append(log, t), Sought(kind, at)) = Search(log, s)
    BY SearchLaws
  <2>5. Replay(Append(log, t)) = r
    BY ReplayLaws
  <2>6. \/ s.stop = TRUE /\ Seen(kind, s.found) = ValueAt(r, at, kind)
        \/ \E b \in Nat : s = Sought(kind, b) /\ ValueAt(es, b, kind) = ValueAt(r, at, kind)
    BY <2>2, <2>3, StepSeen
  <2> HIDE DEF s, r, P
  <2>7. CASE s.stop = TRUE /\ Seen(kind, s.found) = ValueAt(r, at, kind)
    BY <2>4, <2>5, <2>7, SearchStays
  <2>8. CASE \E b \in Nat : s = Sought(kind, b) /\ ValueAt(es, b, kind) = ValueAt(r, at, kind)
    BY <2>3, <2>4, <2>5, <2>8 DEF P
  <2> QED BY <2>6, <2>7, <2>8
<1> HIDE DEF G, P
<1>3. \A log \in Seq(Tags(V)) : log \in G
  BY <1>1, <1>2, SeqInduction
<1> QED BY <1>3 DEF G, P

(* The same of the numbers there are, as lfs_dir_get asks for them.        *)
THEOREM GetIsReplayed ==
  ASSUME NEW V, NEW log \in Seq(Tags(V)), Sound(log)
  PROVE  \A kind \in Sorts, i \in 0..CountOf(log) - 1 :
           i < NoId => Get(log, kind, i, NoId) = Replay(log)[i + 1][kind]
<1> SUFFICES ASSUME NEW kind \in Sorts, NEW i \in 0..CountOf(log) - 1, i < NoId
             PROVE  Get(log, kind, i, NoId) = Replay(log)[i + 1][kind]
  OBVIOUS
<1>1. Replay(log) \in Seq(Entries(V)) /\ Len(Replay(log)) = CountOf(log)
  BY CountIsReplayed
<1>2. i \in Nat /\ i < Len(Replay(log))
  BY <1>1
<1>3. Lookup(log, kind, i, NoId) = Search(log, Sought(kind, i)).found
  BY <1>2 DEF Lookup, NoId
<1>4. Get(log, kind, i, NoId) = Seen(kind, Search(log, Sought(kind, i)).found)
  BY <1>3, Zenon DEF Get, Seen
<1>5. Seen(kind, Search(log, Sought(kind, i)).found) = ValueAt(Replay(log), i, kind)
  BY <1>2, SearchIsReplayed
<1>6. ValueAt(Replay(log), i, kind) = Replay(log)[i + 1][kind]
  BY <1>2, ValueIn
<1> QED BY <1>4, <1>5, <1>6

Joining(a, b) == a \o b

Flattening == INSTANCE Recursion WITH FoldStep <- Joining

(* FlattenSeq, of no sequence and of one more.                             *)
IsFlat(f, ss) ==
  f = [i \in 1..Len(ss) |-> IF i = 1 THEN ss[i] ELSE f[i - 1] \o ss[i]]

(* FlattenSeq joins the sequences one after the other, from the first.     *)
LEMMA FlattenIsFold ==
  ASSUME NEW S, NEW ss \in Seq(Seq(S))
  PROVE  FlattenSeq(ss) = Flattening!Fold(<<>>, ss)
<1> DEFINE n == Len(ss)
<1>1. n \in Nat /\ \A k \in 1..n : ss[k] \in Seq(S)
  OBVIOUS
<1>2. CASE n = 0
  <2>1. ss = <<>>
    BY <1>2
  <2>2. FlattenSeq(ss) = ss
    BY <1>2, Zenon DEF FlattenSeq
  <2> QED BY <2>1, <2>2, Flattening!FoldNone
<1>3. CASE n # 0
  <2>1. n \in 1..n /\ n \in 0..n
    BY <1>1, <1>3
  <2>2. PICK g : Flattening!IsFold(g, n, <<>>, ss) /\ Flattening!Fold(<<>>, ss) = g[n]
    BY <1>1, Flattening!FoldIs
  <2> HIDE DEF n
  <2>3. \A k \in 0..n : g[k] = IF k = 0 THEN <<>> ELSE g[k - 1] \o ss[k]
    BY <1>1, <2>2, Flattening!FoldAt DEF Joining
  <2> DEFINE f == [i \in 1..n |-> g[i]]
  <2>4. ASSUME NEW i \in 1..n
        PROVE  f[i] = IF i = 1 THEN ss[i] ELSE f[i - 1] \o ss[i]
    <3>1. i \in 0..n /\ i # 0 /\ (i # 1 => i - 1 \in 1..n)
      BY <1>1
    <3>2. g[i] = g[i - 1] \o ss[i]
      BY <2>3, <3>1
    <3>3. CASE i = 1
      <4>1. g[0] = <<>>
        BY <1>1, <2>3
      <4>2. <<>> \o ss[1] = ss[1]
        BY <1>1, <3>3
      <4>3. g[i] = ss[1] /\ f[i] = g[i]
        <5>1. i - 1 = 0
          BY <3>3
        <5>2. g[i] = <<>> \o ss[1]
          BY <3>2, <3>3, <4>1, <5>1, Zenon
        <5> QED BY <4>2, <5>2
      <4> QED BY <3>3, <4>3
    <3>4. CASE i # 1
      BY <3>1, <3>2, <3>4
    <3> QED BY <3>3, <3>4
  <2>5. IsFlat(f, ss)
    <3>1. f = [i \in 1..n |-> f[i]]
      OBVIOUS
    <3> HIDE DEF f
    <3>2. f = [i \in 1..n |-> IF i = 1 THEN ss[i] ELSE f[i - 1] \o ss[i]]
      BY <2>4, <3>1
    <3> QED BY <3>2 DEF IsFlat, n
  <2> DEFINE h == CHOOSE x : IsFlat(x, ss)
  <2>6. IsFlat(h, ss)
    BY <2>5, Zenon
  <2>7. FlattenSeq(ss) = h[n]
    BY <1>3, Zenon DEF FlattenSeq, IsFlat, n
  <2> HIDE DEF f, h
  <2>8. \A i \in 1..n : h[i] = IF i = 1 THEN ss[i] ELSE h[i - 1] \o ss[i]
    <3>1. h = [i \in 1..n |-> IF i = 1 THEN ss[i] ELSE h[i - 1] \o ss[i]]
      BY <2>6 DEF IsFlat, n
    <3> QED BY <3>1
  <2> DEFINE P == {k \in 0..n : k = 0 \/ h[k] = g[k]}
  <2>9. 0 \in P
    BY <1>1
  <2>10. ASSUME NEW k \in 1..n, k - 1 \in P  PROVE k \in P
    <3>1. k \in 0..n /\ k # 0 /\ (k = 1 \/ h[k - 1] = g[k - 1])
      BY <2>10
    <3>2. g[k] = g[k - 1] \o ss[k]
      BY <2>3, <3>1
    <3>3. CASE k = 1
      <4>1. g[0] = <<>>
        BY <1>1, <2>3
      <4>2. <<>> \o ss[1] = ss[1]
        BY <1>1, <3>3
      <4>3. h[k] = ss[1]
        BY <2>8, <3>3
      <4>4. k - 1 = 0
        BY <3>3
      <4>5. g[k] = <<>> \o ss[1]
        BY <3>2, <3>3, <4>1, <4>4, Zenon
      <4> QED BY <3>1, <4>2, <4>3, <4>5
    <3>4. CASE k # 1
      BY <2>8, <3>1, <3>2, <3>4
    <3> QED BY <3>3, <3>4
  <2>11. \A k \in 0..n : k \in P
    <3> HIDE DEF P
    <3>1. \A k \in 1..n : k - 1 \in P => k \in P
      BY <2>10
    <3> QED BY <1>1, <2>9, <3>1, UpTo
  <2>12. h[n] = g[n]
    BY <1>3, <2>1, <2>11
  <2> QED BY <2>2, <2>7, <2>12
<1> QED BY <1>2, <1>3

(* FlattenSeq, of no sequence and of one more.                             *)
LEMMA FlattenLaws ==
  /\ FlattenSeq(<<>>) = <<>>
  /\ \A S : \A ss \in Seq(Seq(S)), s \in Seq(S) :
       FlattenSeq(Append(ss, s)) = FlattenSeq(ss) \o s
<1>1. FlattenSeq(<<>>) = <<>>
  <2>1. <<>> \in Seq(Seq({}))
    OBVIOUS
  <2> QED BY <2>1, FlattenIsFold, Flattening!FoldNone
<1>2. ASSUME NEW S, NEW ss \in Seq(Seq(S)), NEW s \in Seq(S)
      PROVE  FlattenSeq(Append(ss, s)) = FlattenSeq(ss) \o s
  <2>1. Append(ss, s) \in Seq(Seq(S))
    OBVIOUS
  <2>2. Flattening!Fold(<<>>, Append(ss, s)) = Joining(Flattening!Fold(<<>>, ss), s)
    BY Flattening!FoldAppend
  <2> QED BY <2>1, <2>2, FlattenIsFold DEF Joining
<1> QED BY <1>1, <1>2

(* What comes out of every tag of a sequence, one tag more.                *)
LEMMA FlattenTyped ==
  ASSUME NEW S
  PROVE  \A ss \in Seq(Seq(S)) : FlattenSeq(ss) \in Seq(S)
<1> DEFINE G == {ss \in Seq(Seq(S)) : FlattenSeq(ss) \in Seq(S)}
<1>1. <<>> \in G
  <2>1. <<>> \in Seq(Seq(S)) /\ <<>> \in Seq(S)
    OBVIOUS
  <2> QED BY <2>1, FlattenLaws
<1>2. ASSUME NEW ss \in Seq(Seq(S)), NEW s \in Seq(S), ss \in G
      PROVE  Append(ss, s) \in G
  <2>1. Append(ss, s) \in Seq(Seq(S)) /\ FlattenSeq(Append(ss, s)) = FlattenSeq(ss) \o s
    BY FlattenLaws
  <2>2. FlattenSeq(ss) \o s \in Seq(S)
    BY <1>2
  <2> QED BY <2>1, <2>2
<1> HIDE DEF G
<1>3. \A ss \in Seq(Seq(S)) : ss \in G
  BY <1>1, <1>2, SeqInduction
<1> QED BY <1>3 DEF G

(* Tags with other ids: as many, in the same order, of the same type and   *)
(* contents.                                                               *)
LEMMA IdsLessLaws ==
  ASSUME NEW V, NEW n \in Int
  PROVE  /\ IdsLess(<<>>, n) = <<>>
         /\ \A r \in Seq(Tags(V)) :
              /\ IdsLess(r, n) \in Seq(Tags(V)) /\ Len(IdsLess(r, n)) = Len(r)
              /\ \A k \in 1..Len(r) : IdsLess(r, n)[k] = [r[k] EXCEPT !.id = @ - n]
         /\ \A r \in Seq(Tags(V)), t \in Tags(V) :
              IdsLess(Append(r, t), n) = Append(IdsLess(r, n), [t EXCEPT !.id = @ - n])
<1>1. IdsLess(<<>>, n) = <<>>
  BY DEF IdsLess
<1>2. \A t \in Tags(V) : [t EXCEPT !.id = @ - n] \in Tags(V)
  BY DEF Tags
<1>3. ASSUME NEW r \in Seq(Tags(V))
      PROVE  /\ IdsLess(r, n) \in Seq(Tags(V)) /\ Len(IdsLess(r, n)) = Len(r)
             /\ \A k \in 1..Len(r) : IdsLess(r, n)[k] = [r[k] EXCEPT !.id = @ - n]
  BY <1>2 DEF IdsLess
<1>4. ASSUME NEW r \in Seq(Tags(V)), NEW t \in Tags(V)
      PROVE  IdsLess(Append(r, t), n) = Append(IdsLess(r, n), [t EXCEPT !.id = @ - n])
  <2> DEFINE a == IdsLess(Append(r, t), n)
             u == [t EXCEPT !.id = @ - n]
             b == Append(IdsLess(r, n), u)
             m == Len(r)
  <2>1. /\ Append(r, t) \in Seq(Tags(V)) /\ Len(Append(r, t)) = m + 1 /\ m \in Nat
        /\ Append(r, t)[m + 1] = t /\ \A k \in 1..m : Append(r, t)[k] = r[k]
    BY FirstOfMore
  <2>2. /\ a \in Seq(Tags(V)) /\ Len(a) = m + 1
        /\ \A k \in 1..m + 1 : a[k] = [Append(r, t)[k] EXCEPT !.id = @ - n]
    BY <1>3, <2>1
  <2>3. u \in Tags(V)
    BY <1>2
  <2>4. /\ b \in Seq(Tags(V)) /\ Len(b) = m + 1
        /\ b[m + 1] = u /\ \A k \in 1..m : b[k] = IdsLess(r, n)[k]
    BY <1>3, <2>3, FirstOfMore
  <2>5. \A k \in 1..m + 1 : a[k] = b[k]
    <3> TAKE k \in 1..m + 1
    <3>1. CASE k = m + 1
      BY <2>1, <2>2, <2>4, <3>1
    <3>2. CASE k # m + 1
      <4>1. k \in 1..m
        BY <2>1, <3>2
      <4>2. a[k] = [r[k] EXCEPT !.id = @ - n]
        BY <2>1, <2>2, <4>1
      <4>3. b[k] = [r[k] EXCEPT !.id = @ - n]
        BY <1>3, <2>4, <4>1
      <4> QED BY <4>2, <4>3
    <3> QED BY <3>1, <3>2
  <2> HIDE DEF a, b
  <2>6. a = b
    BY <2>2, <2>4, <2>5, SeqEqual
  <2> QED BY <2>6 DEF a, b
<1> QED BY <1>1, <1>3, <1>4

(***************************************************************************)
(* What a traversal leaves of a log.                                       *)
(***************************************************************************)
Holds(f, kind) == Kind(f) = kind \/ (f.type = "from" /\ kind \in {"struct", "attr"})

Held(f, kind) == IF f.type = "from" THEN Brought(f, kind) ELSE Seen(kind, <<f.val>>)

(* The tags that are left show the entries: each says what there is, all   *)
(* there is is said, once, a name before the rest.                         *)
SaysWhatIs(F, es) ==
  \A k \in 1..Len(F), kind \in Sorts : Holds(F[k], kind) =>
    F[k].id \in 0..Len(es) - 1 /\ ValueAt(es, F[k].id, kind) = Held(F[k], kind)

SaysAll(F, es) ==
  \A i \in Nat, kind \in Sorts : ValueAt(es, i, kind) # <<>> =>
    \E k \in 1..Len(F) : F[k].id = i /\ Holds(F[k], kind)

SaysOnce(F) ==
  \A j, k \in 1..Len(F), kind \in Sorts :
    Holds(F[j], kind) /\ Holds(F[k], kind) /\ F[j].id = F[k].id => j = k

NamesFirst(F) ==
  \A k \in 1..Len(F), kind \in {"struct", "attr"} : Holds(F[k], kind) =>
    \E j \in 1..k - 1 : F[j].id = F[k].id /\ Kind(F[j]) = "name"

GoneLast(F) == \A k \in 1..Len(F) : IsGone(F[k]) => k = Len(F)

Shows(F, es) ==
  SaysWhatIs(F, es) /\ SaysAll(F, es) /\ SaysOnce(F) /\ NamesFirst(F) /\ GoneLast(F)

(* One tag more: what the tags so far become, but those lost, and where    *)
(* the entries go.                                                         *)
Carries(F, G, To, L) ==
  \A k \in 1..Len(F), kind \in Sorts :
    /\ Holds(G[k], kind) <=> Holds(F[k], kind) /\ <<F[k].id, kind>> \notin L /\ ~IsGone(F[k])
    /\ Holds(G[k], kind) => Held(G[k], kind) = Held(F[k], kind) /\ G[k].id = To[F[k].id]
    /\ ~IsGone(G[k])

Places(es, new, To, L) ==
  /\ \A i \in 0..Len(es) - 1, kind \in Sorts : <<i, kind>> \notin L =>
       To[i] \in 0..Len(new) - 1 /\ ValueAt(new, To[i], kind) = ValueAt(es, i, kind)
  /\ \A i, j \in 0..Len(es) - 1, kind \in Sorts :
       <<i, kind>> \notin L /\ <<j, kind>> \notin L /\ To[i] = To[j] => i = j
  /\ \A i \in 0..Len(es) - 1, kind \in Sorts : <<i, kind>> \notin L => <<i, "name">> \notin L

Adds(es, new, To, L, t) ==
  /\ \A i \in Nat, kind \in Sorts : ValueAt(new, i, kind) # <<>> =>
       \/ i = t.id /\ Holds(t, kind)
       \/ \E j \in Nat : /\ To[j] = i /\ <<j, kind>> \notin L
                         /\ ValueAt(es, j, kind) = ValueAt(new, i, kind)
  /\ \A kind \in Sorts : Holds(t, kind) =>
       t.id \in 0..Len(new) - 1 /\ ValueAt(new, t.id, kind) = Held(t, kind)
  /\ \A kind \in {"struct", "attr"} : Holds(t, kind) =>
       ValueAt(es, t.id, "name") # <<>> /\ <<t.id, "name">> \notin L /\ To[t.id] = t.id

Apart(F, To, L, t) ==
  \A k \in 1..Len(F), kind \in Sorts :
    Holds(t, kind) /\ Holds(F[k], kind) /\ To[F[k].id] = t.id =>
      <<F[k].id, kind>> \in L \/ IsGone(F[k])

(* Only an attribute is removed, and it leaves nothing.                    *)
LEMMA GoneHeld ==
  ASSUME NEW f, NEW kind \in Sorts, Holds(f, kind), IsGone(f)
  PROVE  Held(f, kind) = <<>> /\ kind = "attr"
<1>1. f.type = "attr" /\ f.val = Gone
  BY DEF IsGone
<1>2. Kind(f) = "attr"
  BY <1>1 DEF Kind
<1>3. kind = "attr"
  BY <1>1, <1>2 DEF Holds
<1>4. Held(f, kind) = Unless(<<Gone>>, <<Gone>>)
  BY <1>1, <1>3 DEF Held, Seen
<1> QED BY <1>3, <1>4 DEF Unless

(* If every tag that is left goes where its entry goes, and is lost when   *)
(* what it tells is told anew, then what is left still shows the entries.  *)
LEMMA Carried ==
  ASSUME NEW V, NEW F \in Seq(Tags(V)), NEW es \in Seq(Entries(V)),
         NEW new \in Seq(Entries(V)), NEW t \in Tags(V), NEW G, NEW To, NEW L,
         Shows(F, es), Len(G) = Len(F) + 1, G[Len(F) + 1] = t,
         Carries(F, G, To, L), Places(es, new, To, L), Adds(es, new, To, L, t),
         Apart(F, To, L, t)
  PROVE  Shows(G, new)
<1> DEFINE n == Len(F)
<1>0. n \in Nat /\ Len(G) = n + 1 /\ G[n + 1] = t /\ t.id \in Int /\ Len(es) \in Nat
      /\ "name" \in Sorts /\ {"struct", "attr"} \subseteq Sorts
  BY Kinds DEF Sorts
<1>n. \A f : Holds(f, "name") <=> Kind(f) = "name"
  BY DEF Holds
<1> HIDE DEF n
<1>f. 1..Len(F) = 1..n
  BY DEF n
<1>1. ASSUME NEW k \in 1..n + 1, k # n + 1  PROVE k \in 1..n
  BY <1>0, <1>1
<1>2. SaysWhatIs(G, new)
  <2> SUFFICES ASSUME NEW k \in 1..n + 1, NEW kind \in Sorts, Holds(G[k], kind)
               PROVE  G[k].id \in 0..Len(new) - 1 /\ ValueAt(new, G[k].id, kind) = Held(G[k], kind)
    BY <1>0 DEF SaysWhatIs
  <2>1. CASE k = n + 1
    BY <1>0, <2>1 DEF Adds
  <2>2. CASE k # n + 1
    <3>1. k \in 1..n
      BY <1>1, <2>2
    <3>2. /\ Holds(F[k], kind) /\ <<F[k].id, kind>> \notin L
          /\ Held(G[k], kind) = Held(F[k], kind) /\ G[k].id = To[F[k].id]
      BY <1>f, <3>1 DEF Carries
    <3>3. F[k].id \in 0..Len(es) - 1 /\ ValueAt(es, F[k].id, kind) = Held(F[k], kind)
      BY <1>f, <3>1, <3>2 DEF Shows, SaysWhatIs
    <3>4. /\ To[F[k].id] \in 0..Len(new) - 1
          /\ ValueAt(new, To[F[k].id], kind) = ValueAt(es, F[k].id, kind)
      BY <3>2, <3>3 DEF Places
    <3> QED BY <3>2, <3>3, <3>4
  <2> QED BY <2>1, <2>2
<1>3. SaysAll(G, new)
  <2> SUFFICES ASSUME NEW i \in Nat, NEW kind \in Sorts, ValueAt(new, i, kind) # <<>>
               PROVE  \E k \in 1..n + 1 : G[k].id = i /\ Holds(G[k], kind)
    BY <1>0 DEF SaysAll
  <2>1. CASE i = t.id /\ Holds(t, kind)
    BY <1>0, <2>1
  <2>2. CASE \E j \in Nat : /\ To[j] = i /\ <<j, kind>> \notin L
                            /\ ValueAt(es, j, kind) = ValueAt(new, i, kind)
    <3>1. PICK j \in Nat : /\ To[j] = i /\ <<j, kind>> \notin L
                           /\ ValueAt(es, j, kind) = ValueAt(new, i, kind)
      BY <2>2
    <3>2. PICK k \in 1..n : F[k].id = j /\ Holds(F[k], kind)
      BY <1>f, <3>1 DEF Shows, SaysAll
    <3>3. ValueAt(es, j, kind) = Held(F[k], kind)
      BY <1>f, <3>2 DEF Shows, SaysWhatIs
    <3>4. ~IsGone(F[k])
      BY <3>1, <3>2, <3>3, GoneHeld
    <3>5. Holds(G[k], kind) /\ G[k].id = i
      BY <1>f, <3>1, <3>2, <3>4 DEF Carries
    <3>6. k \in 1..n + 1
      BY <1>0
    <3> QED BY <3>5, <3>6
  <2> QED BY <2>1, <2>2 DEF Adds
<1>4. SaysOnce(G)
  <2> SUFFICES ASSUME NEW j \in 1..n + 1, NEW k \in 1..n + 1, NEW kind \in Sorts,
                      Holds(G[j], kind), Holds(G[k], kind), G[j].id = G[k].id
               PROVE  j = k
    BY <1>0 DEF SaysOnce
  <2>1. ASSUME NEW x \in 1..n, Holds(G[x], kind), Holds(t, kind), G[x].id = t.id
        PROVE  FALSE
    <3>1. Holds(F[x], kind) /\ <<F[x].id, kind>> \notin L /\ ~IsGone(F[x]) /\ To[F[x].id] = t.id
      BY <1>f, <2>1 DEF Carries
    <3> QED BY <1>f, <2>1, <3>1 DEF Apart
  <2>2. CASE j = n + 1 /\ k = n + 1
    BY <2>2
  <2>3. CASE j = n + 1 /\ k # n + 1
    BY <1>0, <1>1, <2>1, <2>3
  <2>4. CASE j # n + 1 /\ k = n + 1
    BY <1>0, <1>1, <2>1, <2>4
  <2>5. CASE j # n + 1 /\ k # n + 1
    <3>1. j \in 1..n /\ k \in 1..n
      BY <1>1, <2>5
    <3>2. /\ Holds(F[j], kind) /\ <<F[j].id, kind>> \notin L /\ G[j].id = To[F[j].id]
          /\ Holds(F[k], kind) /\ <<F[k].id, kind>> \notin L /\ G[k].id = To[F[k].id]
      BY <1>f, <3>1 DEF Carries
    <3>3. F[j].id \in 0..Len(es) - 1 /\ F[k].id \in 0..Len(es) - 1
      BY <1>f, <3>1, <3>2 DEF Shows, SaysWhatIs
    <3>4. F[j].id = F[k].id
      BY <3>2, <3>3 DEF Places
    <3> QED BY <1>f, <3>1, <3>2, <3>4 DEF Shows, SaysOnce
  <2> QED BY <2>2, <2>3, <2>4, <2>5
<1>5. ASSUME NEW k \in 1..n, Kind(F[k]) = "name", <<F[k].id, "name">> \notin L
      PROVE  Kind(G[k]) = "name" /\ G[k].id = To[F[k].id]
  <2>1. Holds(F[k], "name")
    BY <1>5, <1>n
  <2>2. ~IsGone(F[k])
    BY <1>0, <2>1, GoneHeld
  <2>3. Holds(G[k], "name") /\ G[k].id = To[F[k].id]
    BY <1>0, <1>5, <1>f, <2>1, <2>2 DEF Carries
  <2> QED BY <1>n, <2>3
<1>6. NamesFirst(G)
  <2> SUFFICES ASSUME NEW k \in 1..n + 1, NEW kind \in {"struct", "attr"}, Holds(G[k], kind)
               PROVE  \E j \in 1..k - 1 : G[j].id = G[k].id /\ Kind(G[j]) = "name"
    BY <1>0 DEF NamesFirst
  <2>0. kind \in Sorts
    BY <1>0
  <2>1. CASE k = n + 1
    <3>1. ValueAt(es, t.id, "name") # <<>> /\ <<t.id, "name">> \notin L /\ To[t.id] = t.id
      BY <1>0, <2>1 DEF Adds
    <3>2. t.id \in Nat
      BY <1>0, <2>0, <2>1 DEF Adds
    <3>3. PICK j \in 1..n : F[j].id = t.id /\ Holds(F[j], "name")
      BY <1>0, <1>f, <3>1, <3>2 DEF Shows, SaysAll
    <3>4. Kind(G[j]) = "name" /\ G[j].id = t.id
      BY <1>5, <1>n, <3>1, <3>3
    <3>5. j \in 1..k - 1
      BY <1>0, <2>1
    <3> QED BY <1>0, <2>1, <3>4, <3>5
  <2>2. CASE k # n + 1
    <3>1. k \in 1..n
      BY <1>1, <2>2
    <3>2. /\ Holds(F[k], kind) /\ <<F[k].id, kind>> \notin L /\ G[k].id = To[F[k].id]
      BY <1>f, <2>0, <3>1 DEF Carries
    <3>3. F[k].id \in 0..Len(es) - 1
      BY <1>f, <2>0, <3>1, <3>2 DEF Shows, SaysWhatIs
    <3>4. PICK j \in 1..k - 1 : F[j].id = F[k].id /\ Kind(F[j]) = "name"
      BY <1>f, <3>1, <3>2 DEF Shows, NamesFirst
    <3>5. <<F[j].id, "name">> \notin L
      BY <2>0, <3>2, <3>3, <3>4 DEF Places
    <3>6. j \in 1..n
      BY <1>0, <3>1
    <3>7. Kind(G[j]) = "name" /\ G[j].id = To[F[j].id]
      BY <1>5, <3>4, <3>5, <3>6
    <3> QED BY <3>2, <3>4, <3>7
  <2> QED BY <2>1, <2>2
<1>7. ASSUME GoneLast(G)  PROVE Shows(G, new)
  BY <1>2, <1>3, <1>4, <1>6, <1>7 DEF Shows
<1>8. GoneLast(G)
  <2> SUFFICES ASSUME NEW k \in 1..n + 1, IsGone(G[k]), k # n + 1  PROVE FALSE
    BY <1>0 DEF GoneLast
  <2>1. k \in 1..n
    BY <1>1
  <2> QED BY <1>0, <1>f, <2>1 DEF Carries
<1> QED BY <1>7, <1>8

-----------------------------------------------------------------------------
(* How lfs_dir_traverse_filter treats one tag.                             *)
LEMMA SameHeld ==
  ASSUME NEW f, NEW g, g.type = f.type, g.val = f.val
  PROVE  /\ Kind(g) = Kind(f) /\ (IsGone(g) <=> IsGone(f))
         /\ \A kind : (Holds(g, kind) <=> Holds(f, kind)) /\ Held(g, kind) = Held(f, kind)
<1>1. Kind(g) = Kind(f)
  BY DEF Kind
<1>2. IsGone(g) <=> IsGone(f)
  BY DEF IsGone
<1>3. \A kind : Holds(g, kind) <=> Holds(f, kind)
  BY <1>1 DEF Holds
<1>4. \A kind : Held(g, kind) = Held(f, kind)
  BY DEF Held, Brought
<1> QED BY <1>1, <1>2, <1>3, <1>4

(* A tag that became a noop tells nothing.                                 *)
LEMMA NoopHolds ==
  /\ \A V : 0 \in V => Noop \in Tags(V)
  /\ \A kind \in Sorts : ~Holds(Noop, kind)
  /\ ~IsGone(Noop)
  /\ \A f : f.type = "noop" => ~IsGone(f) /\ \A kind \in Sorts : ~Holds(f, kind)
<1>1. ASSUME NEW f, f.type = "noop", NEW kind \in Sorts
      PROVE  ~Holds(f, kind) /\ ~IsGone(f)
  BY <1>1 DEF Kind, Holds, IsGone, Sorts
<1>2. Noop.type = "noop" /\ "name" \in Sorts /\ \A V : 0 \in V => Noop \in Tags(V)
  BY DEF Noop, Tag, Tags, Types, Sorts
<1> QED BY <1>1, <1>2

Goes(f, t) == IF Kind(t) = "splice" /\ t.id <= f.id THEN f.id + Splice(t) ELSE f.id

(* lfs_dir_traverse_filter and one tag: it is lost when a later tag        *)
(* overrides it or deletes its entry, and else goes where the splice puts  *)
(* its entry.                                                              *)
LEMMA FilterOne ==
  ASSUME NEW V, 0 \in V, NEW f \in Tags(V), NEW t \in Tags(V), t.type # "from", NEW kind \in Sorts
  PROVE  /\ Filter(f, t) \in Tags(V)
         /\ Holds(Filter(f, t), kind) <=> Holds(f, kind) /\ ~Redundant(t, f)
         /\ Holds(Filter(f, t), kind) =>
              /\ Held(Filter(f, t), kind) = Held(f, kind)
              /\ Filter(f, t).id = Goes(f, t)
         /\ ~IsGone(Filter(f, t))
<1>1. f.id \in Int /\ t.id \in Int /\ Splice(t) \in Int
  BY Kinds DEF Splice
<1>2. CASE f.type = "noop"
  <2>1. Filter(f, t) = f
    BY <1>2 DEF Filter
  <2>2. ~Holds(f, kind) /\ ~IsGone(f)
    BY <1>2, NoopHolds
  <2> QED BY <2>1, <2>2
<1>3. CASE f.type # "noop" /\ Redundant(t, f)
  BY <1>3, NoopHolds DEF Filter
<1>4. CASE f.type # "noop" /\ ~Redundant(t, f)
  <2> DEFINE g == Filter(f, t)
  <2>1. g = IF Kind(t) = "splice" /\ t.id <= f.id
            THEN [f EXCEPT !.id = @ + Splice(t)] ELSE f
    BY <1>4 DEF Filter
  <2>2. [f EXCEPT !.id = @ + Splice(t)] \in Tags(V)
    BY <1>1 DEF Tags
  <2>3. g.type = f.type /\ g.val = f.val /\ g.id = Goes(f, t) /\ g \in Tags(V)
    <3>1. CASE Kind(t) = "splice" /\ t.id <= f.id
      <4>1. g = [f EXCEPT !.id = @ + Splice(t)]
        BY <2>1, <3>1
      <4>2. [f EXCEPT !.id = @ + Splice(t)].type = f.type /\ [f EXCEPT !.id = @ + Splice(t)].val = f.val
            /\ [f EXCEPT !.id = @ + Splice(t)].id = f.id + Splice(t)
        BY DEF Tags
      <4> HIDE DEF g
      <4> QED BY <2>2, <3>1, <4>1, <4>2 DEF Goes
    <3>2. CASE ~(Kind(t) = "splice" /\ t.id <= f.id)
      BY <2>1, <3>2 DEF Goes
    <3> QED BY <3>1, <3>2
  <2>4. ~IsGone(f)
    BY <1>4 DEF Redundant, IsGone
  <2> HIDE DEF g
  <2>5. /\ ~IsGone(g) /\ (Holds(g, kind) <=> Holds(f, kind)) /\ Held(g, kind) = Held(f, kind)
    BY <2>3, <2>4, SameHeld
  <2> QED BY <1>4, <2>3, <2>5 DEF g
<1> QED BY <1>2, <1>3, <1>4

(* Every tag behind the others filters each of them.                       *)
LEMMA LeavingIs ==
  ASSUME NEW V, 0 \in V, NEW F \in Seq(Tags(V)), NEW t \in Tags(V)
  PROVE  /\ Leaving(F, t) \in Seq(Tags(V)) /\ Len(Leaving(F, t)) = Len(F) + 1
         /\ Leaving(F, t)[Len(F) + 1] = t
         /\ \A k \in 1..Len(F) : Leaving(F, t)[k] = Filter(F[k], t)
<1> DEFINE n == Len(F)
           a == [k \in 1..n |-> Filter(F[k], t)]
<1>1. n \in Nat /\ \A k \in 1..n : F[k] \in Tags(V)
  OBVIOUS
<1>2. \A f \in Tags(V) : Filter(f, t) \in Tags(V)
  <2> SUFFICES ASSUME NEW f \in Tags(V)  PROVE Filter(f, t) \in Tags(V)
    OBVIOUS
  <2>1. CASE t.type = "from"
    BY <2>1 DEF Filter
  <2>2. CASE t.type # "from"
    <3>1. "name" \in Sorts
      BY DEF Sorts
    <3> QED BY <2>2, <3>1, FilterOne
  <2> QED BY <2>1, <2>2
<1>3. a \in Seq(Tags(V)) /\ Len(a) = n /\ \A k \in 1..n : a[k] = Filter(F[k], t)
  <2> HIDE DEF n
  <2>1. a \in [1..n -> Tags(V)]
    BY <1>1, <1>2
  <2> QED BY <1>1, <2>1
<1>4. Leaving(F, t) = Append(a, t)
  BY DEF Leaving
<1> HIDE DEF a
<1> QED BY <1>3, <1>4, FirstOfMore

Treats(F, t, To, L) ==
  \A k \in 1..Len(F), kind \in Sorts : Holds(F[k], kind) =>
    /\ Redundant(t, F[k]) <=> <<F[k].id, kind>> \in L \/ IsGone(F[k])
    /\ Goes(F[k], t) = To[F[k].id]

(* A tag that overrides some tags, and shifts the others, carries the      *)
(* rest.                                                                   *)
LEMMA CarriesWhen ==
  ASSUME NEW V, 0 \in V, NEW F \in Seq(Tags(V)), NEW t \in Tags(V), t.type # "from",
         NEW To, NEW L, Treats(F, t, To, L)
  PROVE  Carries(F, Leaving(F, t), To, L)
<1> DEFINE G == Leaving(F, t)
<1> SUFFICES ASSUME NEW k \in 1..Len(F), NEW kind \in Sorts
             PROVE  /\ Holds(G[k], kind) <=> Holds(F[k], kind) /\ <<F[k].id, kind>> \notin L
                                             /\ ~IsGone(F[k])
                    /\ Holds(G[k], kind) => Held(G[k], kind) = Held(F[k], kind)
                                            /\ G[k].id = To[F[k].id]
                    /\ ~IsGone(G[k])
  BY DEF Carries
<1>0. F[k] \in Tags(V)
  OBVIOUS
<1>1. G[k] = Filter(F[k], t)
  BY LeavingIs, Zenon
<1> HIDE DEF G
<1>2. /\ Holds(G[k], kind) <=> Holds(F[k], kind) /\ ~Redundant(t, F[k])
      /\ Holds(G[k], kind) => Held(G[k], kind) = Held(F[k], kind) /\ G[k].id = Goes(F[k], t)
      /\ ~IsGone(G[k])
  BY <1>0, <1>1, FilterOne
<1>3. Holds(F[k], kind) =>
        /\ Redundant(t, F[k]) <=> <<F[k].id, kind>> \in L \/ IsGone(F[k])
        /\ Goes(F[k], t) = To[F[k].id]
  BY DEF Treats
<1> QED BY <1>2, <1>3

-----------------------------------------------------------------------------
(* A tag that brings the rest of an entry from another log, behind its     *)
(* name.                                                                   *)
FitMove(V, es, t) == Movable(es, t) /\ t.val.log \in Seq(Tags(V))

(* What a move brings is what the log it reads from stands for.            *)
LEMMA BroughtIs ==
  ASSUME NEW V, NEW es, NEW t, FitMove(V, es, t), NEW kind \in Sorts
  PROVE  /\ Brought(t, kind) \in Found(V)
         /\ Brought(t, kind) = ValueAt(Replay(t.val.log), t.val.id, kind)
<1> DEFINE log == t.val.log
           i == t.val.id
<1>1. log \in Seq(Tags(V)) /\ Sound(log) /\ i \in 0..CountOf(log) - 1 /\ i < NoId
  BY DEF FitMove, Movable
<1> HIDE DEF log, i
<1>2. Replay(log) \in Seq(Entries(V)) /\ Len(Replay(log)) = CountOf(log)
  BY <1>1, CountIsReplayed
<1>3. Get(log, kind, i, NoId) = Replay(log)[i + 1][kind]
  BY <1>1, GetIsReplayed
<1>4. i < Len(Replay(log)) /\ i + 1 \in 1..Len(Replay(log))
  BY <1>1, <1>2
<1>5. ValueAt(Replay(log), i, kind) = Replay(log)[i + 1][kind]
  BY <1>4, ValueIn
<1>6. Replay(log)[i + 1] \in Entries(V)
  BY <1>2, <1>4
<1>7. Replay(log)[i + 1][kind] \in Found(V)
  BY <1>6, FoundTyped
<1>8. Brought(t, kind) = Get(log, kind, i, NoId)
  BY DEF Brought, log, i
<1> QED BY <1>3, <1>5, <1>7, <1>8 DEF log, i

(* A move changes the struct and the attribute of the entry it moves to,   *)
(* and nothing else.                                                       *)
LEMMA MoveApplied ==
  ASSUME NEW V, NEW es \in Seq(Entries(V)), NEW t \in Tags(V), FitMove(V, es, t)
  PROVE  /\ Applied(es, t) \in Seq(Entries(V)) /\ Len(Applied(es, t)) = Len(es)
         /\ \A at \in Nat, kind \in Sorts :
              ValueAt(Applied(es, t), at, kind)
                = IF at = t.id /\ kind \in {"struct", "attr"} THEN Brought(t, kind)
                  ELSE ValueAt(es, at, kind)
<1> DEFINE u == Put(es, t.id, "struct", Brought(t, "struct"))
           r == Put(u, t.id, "attr", Brought(t, "attr"))
<1>1. t.type = "from" /\ t.id \in 0..Len(es) - 1 /\ "struct" \in Sorts /\ "attr" \in Sorts
  BY DEF FitMove, Movable, Sorts
<1>2. Brought(t, "struct") \in Found(V) /\ Brought(t, "attr") \in Found(V)
  BY <1>1, BroughtIs
<1>3. Kind(t) = "from"
  BY <1>1 DEF Kind
<1>4. Applied(es, t) = r
  BY <1>1, <1>3 DEF Applied
<1>5. u \in Seq(Entries(V)) /\ Len(u) = Len(es)
  BY <1>1, <1>2, PutAt
<1>6. \A at \in Nat, kind \in Sorts :
        ValueAt(u, at, kind) = IF at = t.id /\ kind = "struct" THEN Brought(t, "struct")
                               ELSE ValueAt(es, at, kind)
  BY <1>1, <1>2, PutValue
<1> HIDE DEF u
<1>10. t.id \in 0..Len(u) - 1
  BY <1>1, <1>5
<1>7. r \in Seq(Entries(V)) /\ Len(r) = Len(es)
  <2>1. r \in Seq(Entries(V)) /\ Len(r) = Len(u)
    BY <1>1, <1>2, <1>5, <1>10, PutAt
  <2> QED BY <1>5, <2>1
<1>8. \A at \in Nat, kind \in Sorts :
        ValueAt(r, at, kind) = IF at = t.id /\ kind = "attr" THEN Brought(t, "attr")
                               ELSE ValueAt(u, at, kind)
  BY <1>1, <1>2, <1>5, <1>10, PutValue
<1> HIDE DEF r
<1>9. \A at \in Nat, kind \in Sorts :
        ValueAt(r, at, kind) = IF at = t.id /\ kind \in {"struct", "attr"} THEN Brought(t, kind)
                               ELSE ValueAt(es, at, kind)
  BY <1>6, <1>8
<1> QED BY <1>4, <1>7, <1>9

(* A splice tells nothing of an entry; a move tells all but the name.      *)
LEMMA HoldsKinds ==
  /\ \A f, kind : Kind(f) = "splice" /\ kind \in Sorts => ~Holds(f, kind)
  /\ \A f : \A kind \in Sorts : Holds(f, kind) => Kind(f) # "splice"
  /\ \A f : \A kind \in Sorts : Holds(f, kind) => Kind(f) = kind \/ Kind(f) = "from"
  /\ \A f : Kind(f) = "from" => f.type = "from"
  /\ \A f : f.type = "from" => Kind(f) = "from"
<1>1. \A f : f.type = "from" => Kind(f) = "from"
  BY DEF Kind
<1>2. \A f : Kind(f) = "from" => f.type = "from"
  BY DEF Kind
<1>3. \A f, kind : Holds(f, kind) => Kind(f) = kind \/ Kind(f) = "from"
  BY <1>1 DEF Holds
<1>4. \A kind \in Sorts : kind # "splice"
  BY DEF Sorts
<1> QED BY <1>1, <1>2, <1>3, <1>4

(* What is left shows the entries after a create: those behind it have     *)
(* moved up.                                                               *)
LEMMA CreateShows ==
  ASSUME NEW V, 0 \in V, NEW F \in Seq(Tags(V)), NEW es \in Seq(Entries(V)),
         NEW t \in Tags(V), Shows(F, es), Fit(es, t), t.type = "create"
  PROVE  Shows(Leaving(F, t), Applied(es, t))
<1>c. t.id \in 0..Len(es) /\ Applied(es, t) = InsertAt(es, t.id + 1, NoEntry)
  BY FitCases, Kinds
<1> DEFINE new == Applied(es, t)
           To == [i \in Nat |-> IF i < t.id THEN i ELSE i + 1]
           L == {}
<1>0. t.id \in 0..Len(es) /\ Len(es) \in Nat
  BY <1>c
<1>s. Kind(t) = "splice" /\ Splice(t) = 1 /\ t.type # "from" /\ t.type # "delete"
  BY DEF Kind, Splice
<1>a. new = InsertAt(es, t.id + 1, NoEntry)
  BY <1>c DEF new
<1> HIDE DEF new
<1>1. /\ t.id \in 0..Len(es) /\ Kind(t) = "splice" /\ Splice(t) = 1 /\ t.id \in Nat
      /\ new = InsertAt(es, t.id + 1, NoEntry) /\ t.type # "from" /\ Len(es) \in Nat
      /\ t.type # "delete"
  BY <1>0, <1>s, <1>a
<1>2. new \in Seq(Entries(V)) /\ Len(new) = Len(es) + 1
  <2>1. new \in Seq(Entries(V)) /\ Len(new) = Counted(Len(es), t)
    BY AppliedTyped DEF new
  <2> QED BY <1>1, <2>1 DEF Counted
<1>3. \A at \in Nat, kind \in Sorts :
        ValueAt(new, at, kind) = IF at < t.id THEN ValueAt(es, at, kind)
                                 ELSE IF at = t.id THEN <<>> ELSE ValueAt(es, at - 1, kind)
  BY <1>1, CreatedValue DEF new
<1>4. \A i \in Nat : To[i] = IF i < t.id THEN i ELSE i + 1
  OBVIOUS
<1> HIDE DEF To, new
<1>5. Treats(F, t, To, L)
  <2> SUFFICES ASSUME NEW k \in 1..Len(F), NEW kind \in Sorts, Holds(F[k], kind)
               PROVE  /\ Redundant(t, F[k]) <=> IsGone(F[k])
                      /\ Goes(F[k], t) = To[F[k].id]
    BY DEF Treats
  <2>1. F[k].id \in 0..Len(es) - 1
    BY DEF Shows, SaysWhatIs
  <2>2. Kind(F[k]) # "splice"
    BY HoldsKinds
  <2>3. Redundant(t, F[k]) <=> IsGone(F[k])
    BY <1>1, <2>2 DEF Redundant, IsGone
  <2>4. Goes(F[k], t) = To[F[k].id]
    BY <1>1, <1>4, <2>1 DEF Goes
  <2> QED BY <2>3, <2>4
<1>6. Carries(F, Leaving(F, t), To, L)
  BY <1>1, <1>5, CarriesWhen
<1>7. Places(es, new, To, L)
  <2>1. ASSUME NEW i \in 0..Len(es) - 1, NEW kind \in Sorts
        PROVE  To[i] \in 0..Len(new) - 1 /\ ValueAt(new, To[i], kind) = ValueAt(es, i, kind)
    <3>1. CASE i < t.id
      <4>0. i \in Nat
        BY <1>1
      <4>1. i \in Nat /\ To[i] = i
        BY <1>4, <3>1, <4>0
      <4>2. ValueAt(new, i, kind) = ValueAt(es, i, kind)
        BY <1>3, <3>1, <4>1
      <4> QED BY <1>1, <1>2, <4>1, <4>2
    <3>2. CASE ~(i < t.id)
      <4>1. i \in Nat /\ To[i] = i + 1 /\ i + 1 \in Nat
        BY <1>1, <1>4, <3>2
      <4>2. ~(i + 1 < t.id) /\ i + 1 # t.id /\ (i + 1) - 1 = i
        BY <1>1, <3>2
      <4>3. ValueAt(new, i + 1, kind) = ValueAt(es, i, kind)
        BY <1>3, <4>1, <4>2
      <4> QED BY <1>1, <1>2, <4>1, <4>3
    <3> QED BY <3>1, <3>2
  <2>2. ASSUME NEW i \in 0..Len(es) - 1, NEW j \in 0..Len(es) - 1, To[i] = To[j]
        PROVE  i = j
    <3>1. i \in Nat /\ j \in Nat /\ i \in Int /\ j \in Int
      BY <1>1
    <3>2. To[i] = (IF i < t.id THEN i ELSE i + 1) /\ To[j] = (IF j < t.id THEN j ELSE j + 1)
      BY <1>4, <3>1
    <3>3. (IF i < t.id THEN i ELSE i + 1) = (IF j < t.id THEN j ELSE j + 1)
      BY <2>2, <3>2
    <3>4. t.id \in Int
      BY <1>1
    <3>5. CASE i < t.id /\ j < t.id
      BY <3>3, <3>5
    <3>6. CASE i < t.id /\ ~(j < t.id)
      BY <3>1, <3>3, <3>4, <3>6
    <3>7. CASE ~(i < t.id) /\ j < t.id
      BY <3>1, <3>3, <3>4, <3>7
    <3>8. CASE ~(i < t.id) /\ ~(j < t.id)
      BY <3>1, <3>3, <3>8
    <3> QED BY <3>5, <3>6, <3>7, <3>8
  <2> QED BY <2>1, <2>2 DEF Places
<1>8. Adds(es, new, To, L, t)
  <2>1. \A kind \in Sorts : ~Holds(t, kind)
    BY <1>1, HoldsKinds
  <2>2. ASSUME NEW i \in Nat, NEW kind \in Sorts, ValueAt(new, i, kind) # <<>>
        PROVE  \E j \in Nat : To[j] = i /\ ValueAt(es, j, kind) = ValueAt(new, i, kind)
    <3>1. CASE i < t.id
      <4>1. To[i] = i /\ ValueAt(new, i, kind) = ValueAt(es, i, kind)
        BY <1>3, <1>4, <3>1
      <4> QED BY <4>1
    <3>2. CASE i = t.id
      <4>1. ValueAt(new, i, kind) = <<>>
        BY <1>1, <1>3, <3>2
      <4> QED BY <2>2, <4>1
    <3>3. CASE i > t.id
      <4>1. i - 1 \in Nat /\ ~(i < t.id) /\ i # t.id /\ ~(i - 1 < t.id) /\ (i - 1) + 1 = i
        BY <1>1, <3>3
      <4>2. To[i - 1] = i /\ ValueAt(new, i, kind) = ValueAt(es, i - 1, kind)
        BY <1>3, <1>4, <4>1
      <4> QED BY <4>1, <4>2
    <3> QED BY <1>1, <3>1, <3>2, <3>3
  <2>3. "struct" \in Sorts /\ "attr" \in Sorts
    BY DEF Sorts
  <2> QED BY <2>1, <2>2, <2>3 DEF Adds
<1>9. Apart(F, To, L, t)
  BY <1>1, HoldsKinds DEF Apart
<1>10. Len(Leaving(F, t)) = Len(F) + 1 /\ Leaving(F, t)[Len(F) + 1] = t
  BY LeavingIs
<1> QED BY <1>2, <1>6, <1>7, <1>8, <1>9, <1>10, Carried DEF new

(* What is left shows the entries after a delete: nothing is left of the   *)
(* one deleted.                                                            *)
LEMMA DeleteShows ==
  ASSUME NEW V, 0 \in V, NEW F \in Seq(Tags(V)), NEW es \in Seq(Entries(V)),
         NEW t \in Tags(V), Shows(F, es), Fit(es, t), t.type = "delete"
  PROVE  Shows(Leaving(F, t), Applied(es, t))
<1>c. t.id \in 0..Len(es) - 1 /\ Applied(es, t) = RemoveAt(es, t.id + 1)
  BY FitCases, Kinds
<1> DEFINE new == Applied(es, t)
           To == [i \in Nat |-> IF i < t.id THEN i ELSE i - 1]
           L == {<<t.id, kind>> : kind \in Sorts}
<1>0. t.id \in 0..Len(es) - 1 /\ Len(es) \in Nat
  BY <1>c
<1>s. Kind(t) = "splice" /\ Splice(t) = -1 /\ t.type # "from"
  BY DEF Kind, Splice
<1>a. new = RemoveAt(es, t.id + 1)
  BY <1>c DEF new
<1> HIDE DEF new
<1>1. /\ t.id \in 0..Len(es) - 1 /\ Kind(t) = "splice" /\ Splice(t) = -1 /\ t.id \in Nat
      /\ new = RemoveAt(es, t.id + 1) /\ t.type # "from" /\ Len(es) \in Nat
  BY <1>0, <1>s, <1>a
<1>2. new \in Seq(Entries(V)) /\ Len(new) = Len(es) - 1
  <2>1. new \in Seq(Entries(V)) /\ Len(new) = Counted(Len(es), t)
    BY AppliedTyped DEF new
  <2> QED BY <1>1, <2>1 DEF Counted
<1>3. \A at \in Nat, kind \in Sorts :
        ValueAt(new, at, kind) = ValueAt(es, IF at < t.id THEN at ELSE at + 1, kind)
  BY <1>1, DeletedValue DEF new
<1>4. \A i \in Nat : To[i] = IF i < t.id THEN i ELSE i - 1
  OBVIOUS
<1>l. \A i, kind : kind \in Sorts => (<<i, kind>> \in L <=> i = t.id)
  OBVIOUS
<1> HIDE DEF To, new, L
<1>5. Treats(F, t, To, L)
  <2> SUFFICES ASSUME NEW k \in 1..Len(F), NEW kind \in Sorts, Holds(F[k], kind)
               PROVE  /\ Redundant(t, F[k]) <=> <<F[k].id, kind>> \in L \/ IsGone(F[k])
                      /\ Goes(F[k], t) = To[F[k].id]
    BY DEF Treats
  <2>1. F[k].id \in 0..Len(es) - 1
    BY DEF Shows, SaysWhatIs
  <2>2. Kind(F[k]) # "splice"
    BY HoldsKinds
  <2>3. Redundant(t, F[k]) <=> <<F[k].id, kind>> \in L \/ IsGone(F[k])
    BY <1>1, <1>l, <2>2 DEF Redundant, IsGone
  <2>4. Goes(F[k], t) = To[F[k].id]
    BY <1>1, <1>4, <2>1 DEF Goes
  <2> QED BY <2>3, <2>4
<1>6. Carries(F, Leaving(F, t), To, L)
  BY <1>1, <1>5, CarriesWhen
<1>7. Places(es, new, To, L)
  <2>1. ASSUME NEW i \in 0..Len(es) - 1, NEW kind \in Sorts, i # t.id
        PROVE  To[i] \in 0..Len(new) - 1 /\ ValueAt(new, To[i], kind) = ValueAt(es, i, kind)
    <3>1. CASE i < t.id
      <4>0. i \in Nat
        BY <1>1
      <4>1. i \in Nat /\ To[i] = i
        BY <1>4, <3>1, <4>0
      <4>2. ValueAt(new, i, kind) = ValueAt(es, i, kind)
        BY <1>3, <3>1, <4>1
      <4> QED BY <1>1, <1>2, <3>1, <4>1, <4>2
    <3>2. CASE ~(i < t.id)
      <4>1. i \in Nat /\ To[i] = i - 1 /\ i - 1 \in Nat
        BY <1>1, <1>4, <2>1, <3>2
      <4>2. ~(i - 1 < t.id) /\ (i - 1) + 1 = i
        BY <1>1, <2>1, <3>2
      <4>3. ValueAt(new, i - 1, kind) = ValueAt(es, i, kind)
        BY <1>3, <4>1, <4>2
      <4> QED BY <1>1, <1>2, <4>1, <4>3
    <3> QED BY <3>1, <3>2
  <2>2. ASSUME NEW i \in 0..Len(es) - 1, NEW j \in 0..Len(es) - 1, i # t.id, j # t.id,
               To[i] = To[j]
        PROVE  i = j
    <3>1. i \in Nat /\ j \in Nat /\ i \in Int /\ j \in Int
      BY <1>1
    <3>2. To[i] = (IF i < t.id THEN i ELSE i - 1) /\ To[j] = (IF j < t.id THEN j ELSE j - 1)
      BY <1>4, <3>1
    <3>3. (IF i < t.id THEN i ELSE i - 1) = (IF j < t.id THEN j ELSE j - 1)
      BY <2>2, <3>2
    <3>4. t.id \in Int
      BY <1>1
    <3>5. CASE i < t.id /\ j < t.id
      BY <3>3, <3>5
    <3>6. CASE i < t.id /\ ~(j < t.id)
      BY <3>1, <3>3, <3>4, <3>6, <2>2
    <3>7. CASE ~(i < t.id) /\ j < t.id
      BY <3>1, <3>3, <3>4, <3>7, <2>2
    <3>8. CASE ~(i < t.id) /\ ~(j < t.id)
      BY <3>1, <3>3, <3>8
    <3> QED BY <3>5, <3>6, <3>7, <3>8
  <2>3. "name" \in Sorts
    BY DEF Sorts
  <2> QED BY <1>l, <2>1, <2>2, <2>3 DEF Places
<1>8. Adds(es, new, To, L, t)
  <2>1. \A kind \in Sorts : ~Holds(t, kind)
    BY <1>1, HoldsKinds
  <2>2. ASSUME NEW i \in Nat, NEW kind \in Sorts, ValueAt(new, i, kind) # <<>>
        PROVE  \E j \in Nat : To[j] = i /\ j # t.id /\ ValueAt(es, j, kind) = ValueAt(new, i, kind)
    <3>1. CASE i < t.id
      <4>1. To[i] = i /\ ValueAt(new, i, kind) = ValueAt(es, i, kind) /\ i # t.id
        BY <1>3, <1>4, <3>1
      <4> QED BY <4>1
    <3>2. CASE ~(i < t.id)
      <4>1. i + 1 \in Nat /\ ~(i + 1 < t.id) /\ i + 1 # t.id /\ (i + 1) - 1 = i
        BY <1>1, <3>2
      <4>2. To[i + 1] = i /\ ValueAt(new, i, kind) = ValueAt(es, i + 1, kind)
        BY <1>3, <1>4, <3>2, <4>1
      <4> QED BY <4>1, <4>2
    <3> QED BY <3>1, <3>2
  <2>3. "struct" \in Sorts /\ "attr" \in Sorts
    BY DEF Sorts
  <2> QED BY <1>l, <2>1, <2>2, <2>3 DEF Adds
<1>9. Apart(F, To, L, t)
  BY <1>1, HoldsKinds DEF Apart
<1>10. Len(Leaving(F, t)) = Len(F) + 1 /\ Leaving(F, t)[Len(F) + 1] = t
  BY LeavingIs
<1> QED BY <1>2, <1>6, <1>7, <1>8, <1>9, <1>10, Carried DEF new

(* What is held, and not removed, is there.                                *)
LEMMA HeldIs ==
  ASSUME NEW V, NEW f \in Tags(V), f.type # "from", ~IsGone(f), NEW kind \in Sorts,
         Holds(f, kind)
  PROVE  Held(f, kind) # <<>>
<1>1. Kind(f) = kind /\ Held(f, kind) = Seen(kind, <<f.val>>) /\ f.val \in V
  BY Kinds DEF Holds, Held
<1>2. CASE kind = "attr"
  <2>1. f.type = "attr"
    BY <1>1, <1>2, Kinds
  <2>2. f.val # Gone
    BY <2>1 DEF IsGone
  <2>3. <<f.val>> # <<Gone>>
    BY <2>2
  <2> QED BY <1>1, <1>2, <2>3, SeenOfOne DEF Unless
<1>3. CASE kind # "attr"
  <2>1. kind = "name" \/ kind = "struct"
    BY <1>3 DEF Sorts
  <2> QED BY <1>1, <2>1, SeenOfOne
<1> QED BY <1>2, <1>3

(* Of an entry that has no name, nothing is said and nothing is known.     *)
LEMMA Nameless ==
  ASSUME NEW V, NEW F \in Seq(Tags(V)), NEW es \in Seq(Entries(V)), Shows(F, es),
         NEW i \in Nat, ValueAt(es, i, "name") = <<>>
  PROVE  /\ \A k \in 1..Len(F), kind \in Sorts : Holds(F[k], kind) => F[k].id # i
         /\ \A kind \in Sorts : ValueAt(es, i, kind) = <<>>
<1>0. "name" \in Sorts /\ \A kind \in Sorts : kind = "name" \/ kind \in {"struct", "attr"}
  BY DEF Sorts
<1>1. ASSUME NEW k \in 1..Len(F), Kind(F[k]) = "name", F[k].id = i  PROVE FALSE
  <2>0. F[k] \in Tags(V)
    OBVIOUS
  <2>1. Holds(F[k], "name")
    BY <1>1 DEF Holds
  <2>2. ValueAt(es, i, "name") = Held(F[k], "name")
    BY <1>0, <1>1, <2>1 DEF Shows, SaysWhatIs
  <2>3. F[k].type \in {"super", "reg"}
    BY <1>1, <2>0, Kinds
  <2>4. F[k].type # "from" /\ ~IsGone(F[k])
    BY <2>3 DEF IsGone
  <2> QED BY <1>0, <2>0, <2>1, <2>2, <2>4, HeldIs
<1>2. ASSUME NEW k \in 1..Len(F), NEW kind \in Sorts, Holds(F[k], kind), F[k].id = i
      PROVE  FALSE
  <2>0. F[k] \in Tags(V)
    OBVIOUS
  <2>1. CASE kind = "name"
    <3>1. Kind(F[k]) = "name"
      BY <1>2, <2>1 DEF Holds
    <3> QED BY <1>1, <1>2, <3>1
  <2>2. CASE kind # "name"
    <3>1. PICK j \in 1..k - 1 : F[j].id = F[k].id /\ Kind(F[j]) = "name"
      BY <1>0, <1>2, <2>2 DEF Shows, NamesFirst
    <3> QED BY <1>1, <1>2, <3>1
  <2> QED BY <2>1, <2>2
<1>3. ASSUME NEW kind \in Sorts  PROVE ValueAt(es, i, kind) = <<>>
  BY <1>2 DEF Shows, SaysAll
<1> QED BY <1>2, <1>3

(* What a name, a struct or an attribute does to the entries.              *)
LEMMA PutTagValue ==
  ASSUME NEW V, NEW u \in Seq(Entries(V)), NEW i \in 0..Len(u) - 1, NEW k \in Sorts,
         NEW f \in Found(V)
  PROVE  \A at \in Nat, kind \in Sorts :
           ValueAt(Put(u, i, k, f), at, kind)
             = IF at = i /\ kind = k THEN f ELSE ValueAt(u, at, kind)
  BY PutValue

(* What is known of every entry once one thing of one of them was told.    *)
LEMMA AppliedValue ==
  ASSUME NEW V, NEW es \in Seq(Entries(V)), NEW t \in Tags(V), Fit(es, t), Kind(t) \in Sorts
  PROVE  \A at \in Nat, kind \in Sorts :
           ValueAt(Applied(es, t), at, kind)
             = IF at = t.id /\ kind = Kind(t) THEN Held(t, kind) ELSE ValueAt(es, at, kind)
<1> DEFINE mine == Kind(t)
           found == Held(t, Kind(t))
<1>v. t.val \in V /\ <<t.val>> \in Found(V) /\ Unless(<<t.val>>, <<Gone>>) \in Found(V)
  BY Kinds, FoundTyped
<1>f. mine \in Sorts /\ found = Seen(mine, <<t.val>>)
  <2>1. t.type # "from"
    BY Kinds DEF Sorts
  <2> QED BY <2>1 DEF Held
<1>s. /\ Seen("name", <<t.val>>) = <<t.val>> /\ Seen("struct", <<t.val>>) = <<t.val>>
      /\ Seen("attr", <<t.val>>) = Unless(<<t.val>>, <<Gone>>)
  BY <1>v, SeenOfOne
<1>w. mine = "name" \/ mine = "struct" \/ mine = "attr"
  BY DEF Sorts
<1>d. found \in Found(V)
  BY <1>f, <1>s, <1>v, <1>w
<1>e. \A kind : kind = mine => Held(t, kind) = found
  OBVIOUS
<1>1. CASE Kind(t) = "name"
  <2>1. t.id \in Nat /\ Applied(es, t) = Put(Upto(es, t.id + 1), t.id, "name", <<t.val>>)
    BY <1>1, FitCases, Kinds
  <2> DEFINE u == Upto(es, t.id + 1)
  <2>2. u \in Seq(Entries(V)) /\ Len(u) = IF t.id + 1 > Len(es) THEN t.id + 1 ELSE Len(es)
    BY <2>1, UptoAt
  <2>3. \A at \in Nat, kind \in Sorts : ValueAt(u, at, kind) = ValueAt(es, at, kind)
    BY <2>1, UptoValue
  <2>4. Applied(es, t) = Put(u, t.id, mine, found)
    BY <1>1, <1>f, <1>s, <2>1
  <2> HIDE DEF u, mine, found
  <2>5. t.id \in 0..Len(u) - 1
    BY <2>1, <2>2
  <2>6. \A at \in Nat, kind \in Sorts :
          ValueAt(Put(u, t.id, mine, found), at, kind)
            = IF at = t.id /\ kind = mine THEN found ELSE ValueAt(u, at, kind)
    BY <1>d, <1>f, <2>2, <2>5, PutTagValue
  <2> QED BY <1>e, <2>3, <2>4, <2>6 DEF mine
<1>2. CASE Kind(t) # "name"
  <2>1. t.id \in 0..Len(es) - 1 /\ Applied(es, t) = Put(es, t.id, mine, found)
    <3>1. CASE Kind(t) = "struct"
      <4>1. t.id \in 0..Len(es) - 1 /\ Applied(es, t) = Put(es, t.id, "struct", <<t.val>>)
        BY <3>1, FitCases, Kinds
      <4> QED BY <1>f, <1>s, <3>1, <4>1
    <3>2. CASE Kind(t) = "attr"
      <4>1. /\ t.id \in 0..Len(es) - 1
            /\ Applied(es, t) = Put(es, t.id, "attr", Unless(<<t.val>>, <<Gone>>))
        BY <3>2, FitCases, Kinds
      <4> QED BY <1>f, <1>s, <3>2, <4>1
    <3> QED BY <1>2, <1>w, <3>1, <3>2
  <2> HIDE DEF mine, found
  <2>2. \A at \in Nat, kind \in Sorts :
          ValueAt(Put(es, t.id, mine, found), at, kind)
            = IF at = t.id /\ kind = mine THEN found ELSE ValueAt(es, at, kind)
    BY <1>d, <1>f, <2>1, PutTagValue
  <2> QED BY <1>e, <2>1, <2>2 DEF mine
<1> QED BY <1>1, <1>2

(* What is left shows the entries after a name for an entry that had none. *)
LEMMA NameShows ==
  ASSUME NEW V, 0 \in V, NEW F \in Seq(Tags(V)), NEW es \in Seq(Entries(V)),
         NEW t \in Tags(V), Shows(F, es), Fit(es, t), Kind(t) = "name"
  PROVE  Shows(Leaving(F, t), Applied(es, t))
<1>1. /\ t.type \in {"super", "reg"} /\ t.id \in Nat /\ ValueAt(es, t.id, "name") = <<>>
      /\ "name" \in Sorts /\ t.val \in V /\ t.type # "from"
  <2>1. t.type \in {"super", "reg"} /\ t.id \in Nat /\ ValueAt(es, t.id, "name") = <<>>
    BY FitCases, Kinds
  <2>2. t.val \in V
    BY Kinds
  <2> QED BY <2>1, <2>2 DEF Sorts
<1> DEFINE new == Applied(es, t)
           To == [i \in Nat |-> i]
           L == {<<t.id, kind>> : kind \in Sorts}
<1>l. \A i, kind : kind \in Sorts => (<<i, kind>> \in L <=> i = t.id)
  OBVIOUS
<1>o. \A i \in Nat : To[i] = i
  OBVIOUS
<1>4. new \in Seq(Entries(V)) /\ Len(new) = Counted(Len(es), t)
  BY AppliedTyped
<1>5. \A at \in Nat, kind \in Sorts :
        ValueAt(new, at, kind) = IF at = t.id /\ kind = "name" THEN Held(t, kind)
                                 ELSE ValueAt(es, at, kind)
  BY <1>1, AppliedValue
<1> HIDE DEF new, To, L
<1>n. Len(es) \in Nat /\ Len(new) \in Nat /\ Len(new) >= Len(es) /\ t.id \in 0..Len(new) - 1
  BY <1>1, <1>4 DEF Counted
<1>6. /\ \A k \in 1..Len(F), kind \in Sorts : Holds(F[k], kind) => F[k].id # t.id
      /\ \A kind \in Sorts : ValueAt(es, t.id, kind) = <<>>
  BY <1>1, Nameless
<1>7. Treats(F, t, To, L)
  <2> SUFFICES ASSUME NEW k \in 1..Len(F), NEW kind \in Sorts, Holds(F[k], kind)
               PROVE  /\ Redundant(t, F[k]) <=> <<F[k].id, kind>> \in L \/ IsGone(F[k])
                      /\ Goes(F[k], t) = To[F[k].id]
    BY DEF Treats
  <2>1. F[k].id \in 0..Len(es) - 1 /\ F[k].id # t.id
    BY <1>6 DEF Shows, SaysWhatIs
  <2>2. Redundant(t, F[k]) <=> IsGone(F[k])
    BY <2>1 DEF Redundant, IsGone
  <2>3. Goes(F[k], t) = F[k].id
    BY DEF Goes
  <2>4. F[k].id \in Nat
    BY <1>n, <2>1
  <2>5. To[F[k].id] = F[k].id
    BY <1>o, <2>4
  <2> QED BY <1>l, <2>1, <2>2, <2>3, <2>5
<1>8. Carries(F, Leaving(F, t), To, L)
  BY <1>1, <1>7, CarriesWhen
<1>9. Places(es, new, To, L)
  <2>1. ASSUME NEW i \in 0..Len(es) - 1, NEW kind \in Sorts, i # t.id
        PROVE  To[i] \in 0..Len(new) - 1 /\ ValueAt(new, To[i], kind) = ValueAt(es, i, kind)
    <3>1. i \in Nat /\ To[i] = i /\ i \in 0..Len(new) - 1
      BY <1>n, <1>4, <1>o
    <3> QED BY <1>5, <2>1, <3>1
  <2>2. \A i \in 0..Len(es) - 1 : To[i] = i
    BY <1>n, <1>o
  <2> QED BY <1>1, <1>l, <2>1, <2>2 DEF Places
<1>h. \A kind \in Sorts : Holds(t, kind) <=> kind = "name"
  BY <1>1 DEF Holds, Sorts
<1>10. Adds(es, new, To, L, t)
  <2>1. ASSUME NEW i \in Nat, NEW kind \in Sorts, ValueAt(new, i, kind) # <<>>,
               ~(i = t.id /\ kind = "name")
        PROVE  To[i] = i /\ <<i, kind>> \notin L /\ ValueAt(es, i, kind) = ValueAt(new, i, kind)
    <3>1. ValueAt(es, i, kind) = ValueAt(new, i, kind) /\ To[i] = i
      BY <1>5, <1>o, <2>1
    <3>2. i # t.id
      BY <1>6, <2>1, <3>1
    <3> QED BY <1>l, <3>1, <3>2
  <2>2. t.id \in 0..Len(new) - 1 /\ ValueAt(new, t.id, "name") = Held(t, "name")
    BY <1>1, <1>n, <1>5
  <2>4. "struct" \in Sorts /\ "attr" \in Sorts
    BY DEF Sorts
  <2>5. \A i \in Nat, kind \in Sorts : ValueAt(new, i, kind) # <<>> =>
           \/ i = t.id /\ Holds(t, kind)
           \/ \E j \in Nat : /\ To[j] = i /\ <<j, kind>> \notin L
                             /\ ValueAt(es, j, kind) = ValueAt(new, i, kind)
    <3> SUFFICES ASSUME NEW i \in Nat, NEW kind \in Sorts, ValueAt(new, i, kind) # <<>>,
                        ~(i = t.id /\ kind = "name")
                 PROVE  \E j \in Nat : /\ To[j] = i /\ <<j, kind>> \notin L
                                       /\ ValueAt(es, j, kind) = ValueAt(new, i, kind)
      BY <1>h
    <3> QED BY <2>1
  <2> QED BY <1>h, <2>2, <2>4, <2>5 DEF Adds
<1>11. Apart(F, To, L, t)
  <2> SUFFICES ASSUME NEW k \in 1..Len(F), NEW kind \in Sorts, Holds(F[k], kind),
                      To[F[k].id] = t.id
               PROVE  FALSE
    BY DEF Apart
  <2>1. F[k].id \in 0..Len(es) - 1 /\ F[k].id # t.id
    BY <1>6 DEF Shows, SaysWhatIs
  <2>2. F[k].id \in Nat
    BY <1>n, <2>1
  <2> QED BY <1>o, <2>1, <2>2
<1>12. Len(Leaving(F, t)) = Len(F) + 1 /\ Leaving(F, t)[Len(F) + 1] = t
  BY LeavingIs
<1> QED BY <1>4, <1>8, <1>9, <1>10, <1>11, <1>12, Carried DEF new

(* What is left shows the entries after a struct or an attribute, which    *)
(* overrides an earlier one.                                               *)
LEMMA StructOrAttrShows ==
  ASSUME NEW V, 0 \in V, NEW F \in Seq(Tags(V)), NEW es \in Seq(Entries(V)),
         NEW t \in Tags(V), Shows(F, es), Fit(es, t), Kind(t) \in {"struct", "attr"},
         Unmoved(F)
  PROVE  Shows(Leaving(F, t), Applied(es, t))
<1> DEFINE mine == Kind(t)
           new == Applied(es, t)
           To == [i \in Nat |-> i]
           L == {<<t.id, Kind(t)>>}
<1>v. t.type # "from" /\ mine \in Sorts /\ mine # "name"
  BY Kinds DEF Sorts
<1>a. t.id \in 0..Len(es) - 1 /\ ValueAt(es, t.id, "name") # <<>>
  BY FitCases, Kinds
<1>l. \A i, kind : <<i, kind>> \in L <=> i = t.id /\ kind = mine
  OBVIOUS
<1>o. \A i \in Nat : To[i] = i
  OBVIOUS
<1>t. t.type # "delete" /\ Kind(t) # "splice"
  BY Kinds
<1>h. \A kind \in Sorts : Holds(t, kind) <=> kind = mine
  BY <1>v DEF Holds
<1>4. new \in Seq(Entries(V)) /\ Len(new) = Len(es)
  <2>1. new \in Seq(Entries(V)) /\ Len(new) = Counted(Len(es), t)
    BY AppliedTyped
  <2> QED BY <1>t, <1>v, <2>1 DEF Counted
<1>5. \A at \in Nat, kind \in Sorts :
        ValueAt(new, at, kind) = IF at = t.id /\ kind = mine THEN Held(t, kind)
                                 ELSE ValueAt(es, at, kind)
  BY <1>v, AppliedValue
<1> HIDE DEF mine, new, To, L
<1>n. Len(es) \in Nat /\ t.id \in Nat
  BY <1>a
<1>7. Treats(F, t, To, L)
  <2> SUFFICES ASSUME NEW k \in 1..Len(F), NEW kind \in Sorts, Holds(F[k], kind)
               PROVE  /\ Redundant(t, F[k]) <=> <<F[k].id, kind>> \in L \/ IsGone(F[k])
                      /\ Goes(F[k], t) = To[F[k].id]
    BY DEF Treats
  <2>1. F[k].id \in 0..Len(es) - 1
    BY DEF Shows, SaysWhatIs
  <2>2. Kind(F[k]) = kind
    <3>1. F[k].type # "from"
      BY DEF Unmoved
    <3> QED BY <3>1 DEF Holds
  <2>3. Redundant(t, F[k]) <=> (t.id = F[k].id /\ Kind(t) = kind) \/ IsGone(F[k])
    BY <1>t, <2>2 DEF Redundant, IsGone
  <2>4. Goes(F[k], t) = F[k].id
    BY <1>t DEF Goes
  <2>5. To[F[k].id] = F[k].id
    BY <1>n, <1>o, <2>1
  <2> QED BY <1>l, <2>3, <2>4, <2>5 DEF mine
<1>8. Carries(F, Leaving(F, t), To, L)
  BY <1>v, <1>7, CarriesWhen
<1>9. Places(es, new, To, L)
  <2>1. ASSUME NEW i \in 0..Len(es) - 1, NEW kind \in Sorts, ~(i = t.id /\ kind = mine)
        PROVE  To[i] \in 0..Len(new) - 1 /\ ValueAt(new, To[i], kind) = ValueAt(es, i, kind)
    <3>1. i \in Nat /\ To[i] = i /\ i \in 0..Len(new) - 1
      BY <1>n, <1>4, <1>o
    <3> QED BY <1>5, <2>1, <3>1
  <2>2. \A i \in 0..Len(es) - 1 : To[i] = i
    BY <1>n, <1>o
  <2> QED BY <1>v, <1>l, <2>1, <2>2 DEF Places
<1>10. Adds(es, new, To, L, t)
  <2>1. ASSUME NEW i \in Nat, NEW kind \in Sorts, ~(i = t.id /\ kind = mine)
        PROVE  To[i] = i /\ <<i, kind>> \notin L /\ ValueAt(es, i, kind) = ValueAt(new, i, kind)
    BY <1>5, <1>o, <1>l, <2>1
  <2>2. t.id \in 0..Len(new) - 1 /\ ValueAt(new, t.id, mine) = Held(t, mine)
    BY <1>a, <1>v, <1>n, <1>4, <1>5
  <2>4. "struct" \in Sorts /\ "attr" \in Sorts
    BY DEF Sorts
  <2>5. \A i \in Nat, kind \in Sorts : ValueAt(new, i, kind) # <<>> =>
           \/ i = t.id /\ Holds(t, kind)
           \/ \E j \in Nat : /\ To[j] = i /\ <<j, kind>> \notin L
                             /\ ValueAt(es, j, kind) = ValueAt(new, i, kind)
    <3> SUFFICES ASSUME NEW i \in Nat, NEW kind \in Sorts, ~(i = t.id /\ kind = mine)
                 PROVE  \E j \in Nat : /\ To[j] = i /\ <<j, kind>> \notin L
                                       /\ ValueAt(es, j, kind) = ValueAt(new, i, kind)
      BY <1>h
    <3> QED BY <2>1
  <2>6. \A kind \in Sorts : Holds(t, kind) =>
          t.id \in 0..Len(new) - 1 /\ ValueAt(new, t.id, kind) = Held(t, kind)
    BY <1>h, <2>2
  <2>7. ValueAt(es, t.id, "name") # <<>> /\ <<t.id, "name">> \notin L /\ To[t.id] = t.id
    BY <1>a, <1>l, <1>n, <1>o, <1>v
  <2> QED BY <2>5, <2>6, <2>7 DEF Adds
<1>11. Apart(F, To, L, t)
  <2> SUFFICES ASSUME NEW k \in 1..Len(F), NEW kind \in Sorts, Holds(F[k], kind),
                      Holds(t, kind), To[F[k].id] = t.id
               PROVE  <<F[k].id, kind>> \in L
    BY DEF Apart
  <2>1. F[k].id \in 0..Len(es) - 1
    BY DEF Shows, SaysWhatIs
  <2>2. F[k].id \in Nat
    BY <1>n, <2>1
  <2> QED BY <1>h, <1>l, <1>o, <2>2
<1>12. Len(Leaving(F, t)) = Len(F) + 1 /\ Leaving(F, t)[Len(F) + 1] = t
  BY LeavingIs
<1> QED BY <1>4, <1>8, <1>9, <1>10, <1>11, <1>12, Carried DEF new

(* What is left shows the entries after a tag that is about none of them.  *)
LEMMA OtherShows ==
  ASSUME NEW V, 0 \in V, NEW F \in Seq(Tags(V)), NEW es \in Seq(Entries(V)),
         NEW t \in Tags(V), Shows(F, es), t.type \in {"move", "tail", "crc", "noop"}
  PROVE  Shows(Leaving(F, t), Applied(es, t))
<1> DEFINE To == [i \in Nat |-> i]
           L == {}
<1>k. Kind(t) = t.type
  BY Kinds
<1>a. Applied(es, t) = es
  BY <1>k DEF Applied
<1>o. \A i \in Nat : To[i] = i
  OBVIOUS
<1> HIDE DEF To
<1>n. Len(es) \in Nat
  OBVIOUS
<1>h. \A kind \in Sorts : ~Holds(t, kind)
  BY <1>k DEF Holds, Sorts
<1>7. Treats(F, t, To, L)
  <2> SUFFICES ASSUME NEW k \in 1..Len(F), NEW kind \in Sorts, Holds(F[k], kind)
               PROVE  /\ Redundant(t, F[k]) <=> IsGone(F[k])
                      /\ Goes(F[k], t) = To[F[k].id]
    BY DEF Treats
  <2>1. F[k].id \in 0..Len(es) - 1
    BY DEF Shows, SaysWhatIs
  <2>2. Kind(F[k]) = kind \/ Kind(F[k]) = "from"
    BY HoldsKinds
  <2>s. kind \in {"name", "struct", "attr"}
    BY DEF Sorts
  <2>3. Redundant(t, F[k]) <=> IsGone(F[k])
    BY <1>k, <2>2, <2>s DEF Redundant, IsGone
  <2>4. Goes(F[k], t) = F[k].id
    BY <1>k DEF Goes
  <2>5. To[F[k].id] = F[k].id
    BY <1>n, <1>o, <2>1
  <2> QED BY <2>3, <2>4, <2>5
<1>8. Carries(F, Leaving(F, t), To, L)
  <2>1. t.type # "from"
    OBVIOUS
  <2> QED BY <1>7, <2>1, CarriesWhen
<1>9. Places(es, es, To, L)
  BY <1>n, <1>o DEF Places
<1>10. Adds(es, es, To, L, t)
  <2>1. "struct" \in Sorts /\ "attr" \in Sorts
    BY DEF Sorts
  <2>2. \A i \in Nat, kind \in Sorts : ValueAt(es, i, kind) # <<>> =>
          \E j \in Nat : To[j] = i /\ <<j, kind>> \notin L /\ ValueAt(es, j, kind) = ValueAt(es, i, kind)
    BY <1>o
  <2> QED BY <1>h, <2>1, <2>2 DEF Adds
<1>11. Apart(F, To, L, t)
  BY <1>h DEF Apart
<1>12. Len(Leaving(F, t)) = Len(F) + 1 /\ Leaving(F, t)[Len(F) + 1] = t
  BY LeavingIs
<1> QED BY <1>a, <1>8, <1>9, <1>10, <1>11, <1>12, Carried

(* What is left shows the entries after a move: no tag told anything but   *)
(* the name of its entry.                                                  *)
LEMMA MoveShows ==
  ASSUME NEW V, 0 \in V, NEW F \in Seq(Tags(V)), NEW es \in Seq(Entries(V)),
         NEW t \in Tags(V), Shows(F, es), FitMove(V, es, t), Unmoved(F),
         \A k \in 1..Len(F) : ~IsGone(F[k])
  PROVE  Shows(Leaving(F, t), Applied(es, t))
<1> DEFINE new == Applied(es, t)
           To == [i \in Nat |-> i]
           Rest == {"struct", "attr"}
           L == {<<t.id, kind>> : kind \in Rest}
<1>a. /\ t.type = "from" /\ t.id \in 0..Len(es) - 1 /\ ValueAt(es, t.id, "name") # <<>>
      /\ ValueAt(es, t.id, "struct") = <<>> /\ ValueAt(es, t.id, "attr") = <<>>
  BY DEF FitMove, Movable
<1>l. \A i, kind : <<i, kind>> \in L <=> i = t.id /\ kind \in Rest
  OBVIOUS
<1>o. \A i \in Nat : To[i] = i
  OBVIOUS
<1>s. Rest \subseteq Sorts /\ "name" \notin Rest /\ "name" \in Sorts
  BY DEF Sorts
<1>4. /\ new \in Seq(Entries(V)) /\ Len(new) = Len(es)
      /\ \A at \in Nat, kind \in Sorts :
           ValueAt(new, at, kind) = IF at = t.id /\ kind \in Rest THEN Brought(t, kind)
                                    ELSE ValueAt(es, at, kind)
  BY MoveApplied
<1>h. \A kind \in Sorts : Holds(t, kind) <=> kind \in Rest
  <2>1. Kind(t) = "from" /\ "from" \notin Sorts
    BY <1>a DEF Kind, Sorts
  <2> QED BY <1>a, <2>1 DEF Holds
<1>e. \A kind : Held(t, kind) = Brought(t, kind)
  BY <1>a DEF Held
<1>r. \A kind \in Rest : kind = "struct" \/ kind = "attr"
  OBVIOUS
<1>w. {"struct", "attr"} = Rest
  OBVIOUS
<1> HIDE DEF new, To, L, Rest
<1>n. Len(es) \in Nat /\ t.id \in Nat
  BY <1>a
<1>5. \A kind \in Rest : ValueAt(es, t.id, kind) = <<>>
  BY <1>a, <1>r
<1>6. ASSUME NEW k \in 1..Len(F), NEW kind \in Sorts, Holds(F[k], kind)
      PROVE  /\ F[k].id \in 0..Len(es) - 1 /\ F[k].id \in Nat
             /\ <<F[k].id, kind>> \notin L
  <2>1. F[k].id \in 0..Len(es) - 1 /\ ValueAt(es, F[k].id, kind) = Held(F[k], kind)
    BY <1>6 DEF Shows, SaysWhatIs
  <2>2. F[k] \in Tags(V) /\ F[k].type # "from" /\ ~IsGone(F[k])
    BY DEF Unmoved
  <2>3. Held(F[k], kind) # <<>>
    BY <1>6, <2>2, HeldIs
  <2> QED BY <1>l, <1>n, <1>5, <2>1, <2>3
<1>g. Len(Leaving(F, t)) = Len(F) + 1 /\ Leaving(F, t)[Len(F) + 1] = t
      /\ \A k \in 1..Len(F) : Leaving(F, t)[k] = Filter(F[k], t)
  BY LeavingIs
<1>8. Carries(F, Leaving(F, t), To, L)
  <2> DEFINE G == Leaving(F, t)
  <2>1. \A k \in 1..Len(F) : G[k] = F[k] /\ ~IsGone(F[k])
    BY <1>a, <1>g DEF Filter
  <2> HIDE DEF G
  <2>2. \A k \in 1..Len(F), kind \in Sorts :
          /\ Holds(G[k], kind) <=> Holds(F[k], kind) /\ <<F[k].id, kind>> \notin L /\ ~IsGone(F[k])
          /\ Holds(G[k], kind) => Held(G[k], kind) = Held(F[k], kind) /\ G[k].id = To[F[k].id]
          /\ ~IsGone(G[k])
    BY <1>6, <1>o, <2>1
  <2> QED BY <2>2 DEF Carries, G
<1>9. Places(es, new, To, L)
  <2>1. ASSUME NEW i \in 0..Len(es) - 1, NEW kind \in Sorts, ~(i = t.id /\ kind \in Rest)
        PROVE  To[i] \in 0..Len(new) - 1 /\ ValueAt(new, To[i], kind) = ValueAt(es, i, kind)
    <3>1. i \in Nat /\ To[i] = i /\ i \in 0..Len(new) - 1
      BY <1>n, <1>4, <1>o
    <3> QED BY <1>4, <2>1, <3>1
  <2>2. \A i \in 0..Len(es) - 1 : To[i] = i
    BY <1>n, <1>o
  <2> QED BY <1>s, <1>l, <2>1, <2>2 DEF Places
<1>10. Adds(es, new, To, L, t)
  <2>1. ASSUME NEW i \in Nat, NEW kind \in Sorts, ~(i = t.id /\ kind \in Rest)
        PROVE  To[i] = i /\ <<i, kind>> \notin L /\ ValueAt(es, i, kind) = ValueAt(new, i, kind)
    BY <1>4, <1>o, <1>l, <2>1
  <2>5. \A i \in Nat, kind \in Sorts : ValueAt(new, i, kind) # <<>> =>
           \/ i = t.id /\ Holds(t, kind)
           \/ \E j \in Nat : /\ To[j] = i /\ <<j, kind>> \notin L
                             /\ ValueAt(es, j, kind) = ValueAt(new, i, kind)
    <3> SUFFICES ASSUME NEW i \in Nat, NEW kind \in Sorts, ~(i = t.id /\ kind \in Rest)
                 PROVE  \E j \in Nat : /\ To[j] = i /\ <<j, kind>> \notin L
                                       /\ ValueAt(es, j, kind) = ValueAt(new, i, kind)
      BY <1>h
    <3> QED BY <2>1
  <2>6. \A kind \in Sorts : Holds(t, kind) =>
          t.id \in 0..Len(new) - 1 /\ ValueAt(new, t.id, kind) = Held(t, kind)
    BY <1>a, <1>n, <1>h, <1>e, <1>4
  <2>7. ValueAt(es, t.id, "name") # <<>> /\ <<t.id, "name">> \notin L /\ To[t.id] = t.id
    BY <1>a, <1>l, <1>n, <1>o, <1>s
  <2> QED BY <2>5, <2>6, <2>7 DEF Adds
<1>11. Apart(F, To, L, t)
  <2> SUFFICES ASSUME NEW k \in 1..Len(F), NEW kind \in Sorts, Holds(F[k], kind),
                      Holds(t, kind), To[F[k].id] = t.id
               PROVE  <<F[k].id, kind>> \in L
    BY DEF Apart
  <2>1. F[k].id \in Nat
    BY <1>6
  <2> QED BY <1>h, <1>l, <1>o, <2>1
<1> QED BY <1>4, <1>8, <1>9, <1>10, <1>11, <1>g, Carried DEF new

(* What lfs_dir_traverse runs over: a sound log and attributes that fit    *)
(* behind it, of which one may bring the rest of an entry just named.      *)
FollowsIn(V, log, t) ==
  \/ Fit(Replay(log), t) /\ (Kind(t) \in {"struct", "attr"} => Unmoved(log))
  \/ /\ FitMove(V, Replay(log), t) /\ Unmoved(log)
     /\ \A k \in 1..Len(log) : k = Len(log) => ~IsGone(log[k])

Passable(V, log) == \A k \in 1..Len(log) : FollowsIn(V, First(log, k - 1), log[k])

(* The tags of a log, and of those that are moved into it, with values V.  *)
Typed(V, log) ==
  /\ log \in Seq(Tags(V))
  /\ \A k \in 1..Len(log) : log[k].type = "from" => log[k].val.log \in Seq(Tags(V))

(* With the values the tags carry spelt out, every tag of a traversable    *)
(* log follows those in front of it.                                       *)
LEMMA TraversablePassable ==
  ASSUME NEW V, NEW log, Typed(V, log), Traversable(log)
  PROVE  Passable(V, log)
<1>0. log \in Seq(Tags(V)) /\ Len(log) \in Nat
  BY DEF Typed
<1> SUFFICES ASSUME NEW k \in 1..Len(log)
             PROVE  FollowsIn(V, First(log, k - 1), log[k])
  BY DEF Passable
<1> DEFINE f == First(log, k - 1)
           t == log[k]
<1>1. Follows(f, t)
  BY DEF Traversable
<1>2. f \in Seq(Tags(V)) /\ (t.type = "from" => t.val.log \in Seq(Tags(V)))
  BY <1>0, Beginning DEF Typed
<1> HIDE DEF f, t
<1>3. ASSUME t.type # "from"  PROVE FollowsIn(V, f, t)
  BY <1>1, <1>3 DEF Follows, FollowsIn
<1>4. ASSUME t.type = "from"  PROVE FollowsIn(V, f, t)
  <2>1. /\ Movable(Replay(f), t) /\ Unmoved(f)
        /\ f # <<>> => ~IsGone(f[Len(f)])
    BY <1>1, <1>4 DEF Follows
  <2>2. \A j \in 1..Len(f) : j = Len(f) => f # <<>> /\ f[j] = f[Len(f)]
    BY <1>2
  <2> QED BY <1>2, <1>4, <2>1, <2>2 DEF FollowsIn, FitMove
<1> QED BY <1>3, <1>4 DEF f, t

(* A log is passable with one tag more if it was and the tag follows.      *)
LEMMA PassableMore ==
  ASSUME NEW V, NEW log \in Seq(Tags(V)), NEW t \in Tags(V)
  PROVE  Passable(V, Append(log, t)) <=> Passable(V, log) /\ FollowsIn(V, log, t)
<1> DEFINE a == Append(log, t)
<1>1. /\ Len(a) = Len(log) + 1 /\ Len(log) \in Nat
      /\ a[Len(log) + 1] = t
      /\ \A k \in 1..Len(log) : a[k] = log[k]
      /\ \A k \in 0..Len(log) : First(a, k) = First(log, k)
  BY FirstOfMore
<1>2. First(log, Len(log)) = log
  BY WholeFirst
<1> HIDE DEF a
<1>3. ASSUME NEW k \in 1..Len(log)
      PROVE  k - 1 \in 0..Len(log) /\ k \in 1..Len(a) /\ First(a, k - 1) = First(log, k - 1) /\ a[k] = log[k]
  BY <1>1
<1>4. Len(log) + 1 \in 1..Len(a) /\ (Len(log) + 1) - 1 = Len(log) /\ First(a, Len(log)) = log
  BY <1>1, <1>2
<1>5. ASSUME NEW k \in 1..Len(a), k # Len(log) + 1  PROVE k \in 1..Len(log)
  BY <1>1, <1>5
<1>6. ASSUME Passable(V, a)  PROVE Passable(V, log) /\ FollowsIn(V, log, t)
  <2>1. Passable(V, log)
    BY <1>3, <1>6 DEF Passable
  <2>2. FollowsIn(V, First(a, (Len(log) + 1) - 1), a[Len(log) + 1])
    BY <1>4, <1>6 DEF Passable
  <2> QED BY <2>1, <2>2, <1>1, <1>4
<1>7. ASSUME Passable(V, log), FollowsIn(V, log, t)  PROVE Passable(V, a)
  <2> SUFFICES ASSUME NEW k \in 1..Len(a)  PROVE FollowsIn(V, First(a, k - 1), a[k])
    BY DEF Passable
  <2>1. CASE k = Len(log) + 1
    BY <1>1, <1>4, <1>7, <2>1
  <2>2. CASE k # Len(log) + 1
    BY <1>3, <1>5, <1>7, <2>2 DEF Passable
  <2> QED BY <2>1, <2>2
<1> QED BY <1>6, <1>7 DEF a

(* What is left shows the entries after any tag that fits.                 *)
LEMMA FitShows ==
  ASSUME NEW V, 0 \in V, NEW F \in Seq(Tags(V)), NEW es \in Seq(Entries(V)),
         NEW t \in Tags(V), Shows(F, es), Fit(es, t),
         Kind(t) \in {"struct", "attr"} => Unmoved(F)
  PROVE  Shows(Leaving(F, t), Applied(es, t))
<1>1. t.type \in {"move", "tail", "crc", "noop"} \/ t.type \in {"create", "delete"}
      \/ Kind(t) = "name" \/ Kind(t) \in {"struct", "attr"}
  BY FitCases, Kinds
<1>2. CASE t.type \in {"move", "tail", "crc", "noop"}
  BY <1>2, OtherShows
<1>3. CASE t.type = "create"
  BY <1>3, CreateShows
<1>4. CASE t.type = "delete"
  BY <1>4, DeleteShows
<1>5. CASE Kind(t) = "name"
  BY <1>5, NameShows
<1>6. CASE Kind(t) \in {"struct", "attr"}
  BY <1>6, StructOrAttrShows
<1> QED BY <1>1, <1>2, <1>3, <1>4, <1>5, <1>6

(* A tag is left as it is, moved, or a noop.                               *)
LEMMA FilterType ==
  ASSUME NEW f, NEW t
  PROVE  Filter(f, t).type = f.type \/ Filter(f, t).type = "noop"
<1>1. Noop.type = "noop"
  BY DEF Noop, Tag
<1>2. [f EXCEPT !.id = @ + Splice(t)].type = f.type
  OBVIOUS
<1> QED BY <1>1, <1>2 DEF Filter

(* A traversal leaves a tag for every tag, the last as it was.             *)
LEMMA LeftTyped ==
  ASSUME NEW V, 0 \in V
  PROVE  \A log \in Seq(Tags(V)) :
           /\ Left(log) \in Seq(Tags(V)) /\ Len(Left(log)) = Len(log)
           /\ \A k \in 1..Len(log) : k = Len(log) => Left(log)[k] = log[k]
           /\ Unmoved(log) => Unmoved(Left(log))
<1> DEFINE P(log) ==
             /\ Left(log) \in Seq(Tags(V)) /\ Len(Left(log)) = Len(log)
             /\ \A k \in 1..Len(log) : k = Len(log) => Left(log)[k] = log[k]
             /\ Unmoved(log) => Unmoved(Left(log))
           G == {log \in Seq(Tags(V)) : P(log)}
<1>1. <<>> \in G
  <2>1. <<>> \in Seq(Tags(V)) /\ Left(<<>>) = <<>> /\ Unmoved(<<>>)
    BY LeftLaws DEF Unmoved
  <2> QED BY <2>1
<1>2. ASSUME NEW log \in Seq(Tags(V)), NEW t \in Tags(V), log \in G
      PROVE  Append(log, t) \in G
  <2> DEFINE F == Left(log)
             n == Len(log)
             a == Append(log, t)
             b == Leaving(F, t)
  <2>1. /\ a \in Seq(Tags(V)) /\ Len(a) = n + 1 /\ n \in Nat /\ a[n + 1] = t
        /\ \A k \in 1..n : a[k] = log[k]
    BY FirstOfMore
  <2>2. F \in Seq(Tags(V)) /\ Len(F) = n /\ (Unmoved(log) => Unmoved(F))
    BY <1>2
  <2>3. Left(a) = b
    BY LeftLaws
  <2>4. /\ b \in Seq(Tags(V)) /\ Len(b) = n + 1 /\ b[n + 1] = t
        /\ \A k \in 1..n : b[k] = Filter(F[k], t)
    <3>1. /\ b \in Seq(Tags(V)) /\ Len(b) = Len(F) + 1 /\ b[Len(F) + 1] = t
          /\ \A k \in 1..Len(F) : b[k] = Filter(F[k], t)
      <4>1. F \in Seq(Tags(V))
        BY <2>2
      <4> HIDE DEF F
      <4> QED BY <4>1, LeavingIs
    <3> HIDE DEF b, F, n
    <3> QED BY <2>2, <3>1
  <2> HIDE DEF a, b, F, n
  <2>5. ASSUME Unmoved(a)  PROVE Unmoved(b)
    <3>1. t.type # "from"
      <4>1. n + 1 \in 1..Len(a)
        BY <2>1
      <4> QED BY <2>1, <2>5, <4>1 DEF Unmoved
    <3>2. Unmoved(log)
      <4> SUFFICES ASSUME NEW k \in 1..n  PROVE log[k].type # "from"
        BY DEF Unmoved, n
      <4>1. k \in 1..Len(a)
        BY <2>1
      <4> QED BY <2>1, <2>5, <4>1 DEF Unmoved
    <3> SUFFICES ASSUME NEW k \in 1..n + 1  PROVE b[k].type # "from"
      BY <2>4 DEF Unmoved
    <3>3. CASE k = n + 1
      BY <2>4, <3>1, <3>3
    <3>4. CASE k # n + 1
      <4>1. k \in 1..n
        BY <2>1, <3>4
      <4>2. F[k].type # "from"
        BY <2>2, <3>2, <4>1 DEF Unmoved
      <4> QED BY <2>4, <4>1, <4>2, FilterType
    <3> QED BY <3>3, <3>4
  <2>6. P(a)
    BY <2>1, <2>3, <2>4, <2>5
  <2> QED BY <2>1, <2>6 DEF a
<1> HIDE DEF G
<1>3. \A log \in Seq(Tags(V)) : log \in G
  BY <1>1, <1>2, SeqInduction
<1> QED BY <1>3 DEF G

(* What is left of a log shows the entries it stands for.                  *)
LEMMA LeftShows ==
  ASSUME NEW V, 0 \in V
  PROVE  \A log \in Seq(Tags(V)) : Passable(V, log) =>
           /\ Replay(log) \in Seq(Entries(V)) /\ Len(Replay(log)) = CountOf(log)
           /\ Shows(Left(log), Replay(log))
<1> DEFINE P(log) == /\ Replay(log) \in Seq(Entries(V)) /\ Len(Replay(log)) = CountOf(log)
                     /\ Shows(Left(log), Replay(log))
           G == {log \in Seq(Tags(V)) : Passable(V, log) => P(log)}
<1>1. <<>> \in G
  <2>1. <<>> \in Seq(Tags(V)) /\ <<>> \in Seq(Entries(V)) /\ Len(<<>>) = 0
    OBVIOUS
  <2>2. Shows(<<>>, <<>>)
    <3>1. \A i \in Nat, kind \in Sorts : ValueAt(<<>>, i, kind) = <<>>
      BY DEF ValueAt
    <3>2. SaysAll(<<>>, <<>>)
      BY <3>1 DEF SaysAll
    <3>3. SaysWhatIs(<<>>, <<>>) /\ SaysOnce(<<>>) /\ NamesFirst(<<>>) /\ GoneLast(<<>>)
      BY DEF SaysWhatIs, SaysOnce, NamesFirst, GoneLast
    <3> QED BY <3>2, <3>3 DEF Shows
  <2> QED BY <2>1, <2>2, CountLaws, ReplayLaws, LeftLaws
<1>2. ASSUME NEW log \in Seq(Tags(V)), NEW t \in Tags(V), log \in G
      PROVE  Append(log, t) \in G
  <2> DEFINE F == Left(log)
             es == Replay(log)
  <2>1. Append(log, t) \in Seq(Tags(V))
    OBVIOUS
  <2> SUFFICES ASSUME Passable(V, Append(log, t))  PROVE P(Append(log, t))
    BY <2>1
  <2>2. Passable(V, log) /\ FollowsIn(V, log, t)
    BY PassableMore
  <2>3. es \in Seq(Entries(V)) /\ Len(es) = CountOf(log) /\ Shows(F, es)
    BY <1>2, <2>2
  <2>4. /\ F \in Seq(Tags(V)) /\ Len(F) = Len(log) /\ (Unmoved(log) => Unmoved(F))
        /\ \A k \in 1..Len(log) : k = Len(log) => F[k] = log[k]
    BY LeftTyped
  <2>5. /\ CountOf(Append(log, t)) = Counted(CountOf(log), t)
        /\ Replay(Append(log, t)) = Applied(es, t) /\ Left(Append(log, t)) = Leaving(F, t)
    BY CountLaws, ReplayLaws, LeftLaws
  <2>6. FollowsIn(V, log, t) <=>
          \/ Fit(es, t) /\ (Kind(t) \in {"struct", "attr"} => Unmoved(log))
          \/ /\ FitMove(V, es, t) /\ Unmoved(log)
             /\ \A k \in 1..Len(log) : k = Len(log) => ~IsGone(log[k])
    BY DEF FollowsIn
  <2> HIDE DEF F, es
  <2>7. CASE Fit(es, t) /\ (Kind(t) \in {"struct", "attr"} => Unmoved(log))
    <3>1. Applied(es, t) \in Seq(Entries(V)) /\ Len(Applied(es, t)) = Counted(Len(es), t)
      BY <2>3, <2>7, AppliedTyped
    <3>2. Shows(Leaving(F, t), Applied(es, t))
      BY <2>3, <2>4, <2>7, FitShows
    <3> QED BY <2>3, <2>5, <3>1, <3>2
  <2>8. CASE /\ FitMove(V, es, t) /\ Unmoved(log)
             /\ \A k \in 1..Len(log) : k = Len(log) => ~IsGone(log[k])
    <3>1. Applied(es, t) \in Seq(Entries(V)) /\ Len(Applied(es, t)) = Len(es)
      BY <2>3, <2>8, MoveApplied
    <3>2. Counted(Len(es), t) = Len(es)
      <4>1. t.type = "from"
        BY <2>8 DEF FitMove, Movable
      <4>2. Kind(t) = "from"
        BY <4>1 DEF Kind
      <4> QED BY <4>2 DEF Counted
    <3>3. \A k \in 1..Len(F) : ~IsGone(F[k])
      <4> SUFFICES ASSUME NEW k \in 1..Len(F), IsGone(F[k])  PROVE FALSE
        OBVIOUS
      <4>1. k = Len(F)
        BY <2>3 DEF Shows, GoneLast
      <4>2. F[k] = log[k] /\ ~IsGone(log[k])
        BY <2>4, <2>8, <4>1
      <4> QED BY <4>2
    <3>4. Shows(Leaving(F, t), Applied(es, t))
      BY <2>3, <2>4, <2>8, <3>3, MoveShows
    <3> QED BY <2>3, <2>5, <3>1, <3>2, <3>4
  <2> QED BY <2>2, <2>6, <2>7, <2>8
<1> HIDE DEF G
<1>3. \A log \in Seq(Tags(V)) : log \in G
  BY <1>1, <1>2, SeqInduction
<1> QED BY <1>3 DEF G

(* lfs_dir_traverse with lfs_dir_traverse_filter: the tags it leaves of a  *)
(* log with attributes behind it say of every entry, in its latest state   *)
(* and at the place it has in the end, what there is, all of it and once,  *)
(* a name before the rest.                                                 *)
THEOREM TraversalShows ==
  ASSUME NEW V, 0 \in V, NEW log, Typed(V, log), Traversable(log)
  PROVE  Len(Replay(log)) = CountOf(log) /\ Shows(Left(log), Replay(log))
<1>1. log \in Seq(Tags(V))
  BY DEF Typed
<1>2. Passable(V, log)
  BY TraversablePassable
<1> QED BY <1>1, <1>2, LeftShows

(* Pieces of sequences, joined.                                            *)
LEMMA JoinedMore ==
  ASSUME NEW S, NEW c \in Seq(S), NEW x \in Seq(S), NEW t \in S
  PROVE  c \o Append(x, t) = Append(c \o x, t)
<1>1. (c \o x) \o <<t>> = Append(c \o x, t) /\ c \o x \in Seq(S) /\ <<t>> \in Seq(S)
  OBVIOUS
<1>2. x \o <<t>> = Append(x, t)
  OBVIOUS
<1>3. c \o (x \o <<t>>) = (c \o x) \o <<t>>
  BY <1>1, ConcatAssociative
<1> QED BY <1>1, <1>2, <1>3

(* Sequences are joined in any grouping.                                   *)
LEMMA JoiningAssociative ==
  ASSUME NEW S, NEW a \in Seq(S), NEW b \in Seq(S), NEW c \in Seq(S)
  PROVE  Joining(a, Joining(b, c)) = Joining(Joining(a, b), c)
<1>1. a \o (b \o c) = (a \o b) \o c
  BY ConcatAssociative
<1> QED BY <1>1 DEF Joining

(* Sequences joined, with none and with one element.                       *)
LEMMA JoiningLaws ==
  /\ \A S : \A a, b, c \in Seq(S) : Joining(a, Joining(b, c)) = Joining(Joining(a, b), c)
  /\ \A S : \A a, b \in Seq(S) : Joining(a, b) \in Seq(S)
  /\ \A S : \A a \in Seq(S) : Joining(a, <<>>) = a
  /\ \A S : \A a \in Seq(S), t \in S : Joining(a, <<t>>) = Append(a, t)
<1>1. \A S : \A a, b, c \in Seq(S) : Joining(a, Joining(b, c)) = Joining(Joining(a, b), c)
  BY JoiningAssociative
<1>2. \A S : \A a, b \in Seq(S) : Joining(a, b) \in Seq(S)
  BY DEF Joining
<1>3. \A S : \A a \in Seq(S) : Joining(a, <<>>) = a
  BY DEF Joining
<1>4. ASSUME NEW S, NEW a \in Seq(S), NEW t \in S
      PROVE  Joining(a, <<t>>) = Append(a, t)
  BY DEF Joining
<1> QED BY <1>1, <1>2, <1>3, <1>4

(* FlattenSeq over what a function makes of every element.                 *)
Mapped(p, s) == FlattenSeq([k \in 1..Len(s) |-> p[s[k]]])

(* FlattenSeq over what a function makes of every element, with one more.  *)
LEMMA FlatMap ==
  ASSUME NEW S, NEW R, NEW p \in [S -> Seq(R)]
  PROVE  /\ \A s \in Seq(S) : Mapped(p, s) \in Seq(R)
         /\ \A s \in Seq(S), x \in S : Mapped(p, Append(s, x)) = Mapped(p, s) \o p[x]
<1>2. ASSUME NEW s \in Seq(S)
      PROVE  [k \in 1..Len(s) |-> p[s[k]]] \in Seq(Seq(R))
  <2>1. \A k \in 1..Len(s) : p[s[k]] \in Seq(R)
    OBVIOUS
  <2> DEFINE n == Len(s)
             m == [k \in 1..n |-> p[s[k]]]
  <2>2. m \in [1..n -> Seq(R)] /\ n \in Nat
    BY <2>1
  <2> HIDE DEF n
  <2> QED BY <2>2 DEF n
<1>3. ASSUME NEW s \in Seq(S), NEW x \in S
      PROVE  Mapped(p, Append(s, x)) = Mapped(p, s) \o p[x]
  <2> DEFINE m == [k \in 1..Len(s) |-> p[s[k]]]
             w == [k \in 1..Len(Append(s, x)) |-> p[Append(s, x)[k]]]
  <2>1. /\ Append(s, x) \in Seq(S) /\ Len(Append(s, x)) = Len(s) + 1 /\ Len(s) \in Nat
        /\ Append(s, x)[Len(s) + 1] = x /\ \A k \in 1..Len(s) : Append(s, x)[k] = s[k]
    BY FirstOfMore
  <2>2. m \in Seq(Seq(R)) /\ Len(m) = Len(s) /\ \A k \in 1..Len(s) : m[k] = p[s[k]]
    BY <1>2
  <2>3. w \in Seq(Seq(R)) /\ Len(w) = Len(s) + 1 /\ \A k \in 1..Len(s) + 1 : w[k] = p[Append(s, x)[k]]
    <3>1. w \in Seq(Seq(R))
      BY <1>2, <2>1
    <3>2. Len(w) = Len(Append(s, x)) /\ \A k \in 1..Len(Append(s, x)) : w[k] = p[Append(s, x)[k]]
      BY <2>1
    <3> HIDE DEF w
    <3> QED BY <2>1, <3>1, <3>2
  <2>4. p[x] \in Seq(R)
    OBVIOUS
  <2> HIDE DEF m, w
  <2> DEFINE a == Append(m, p[x])
  <2>5. /\ a \in Seq(Seq(R)) /\ Len(a) = Len(s) + 1 /\ a[Len(s) + 1] = p[x]
        /\ \A k \in 1..Len(s) : a[k] = m[k]
    BY <2>2, <2>4, FirstOfMore
  <2> HIDE DEF a
  <2>6. \A k \in 1..Len(s) + 1 : w[k] = a[k]
    <3> SUFFICES ASSUME NEW k \in 1..Len(s) + 1  PROVE w[k] = a[k]
      OBVIOUS
    <3>1. CASE k = Len(s) + 1
      BY <2>1, <2>3, <2>5, <3>1
    <3>2. CASE k # Len(s) + 1
      <4>1. k \in 1..Len(s)
        BY <2>1, <3>2
      <4> QED BY <2>1, <2>2, <2>3, <2>5, <4>1
    <3> QED BY <3>1, <3>2
  <2>7. w = a
    BY <2>3, <2>5, <2>6, SeqEqual
  <2>8. FlattenSeq(w) = FlattenSeq(m) \o p[x]
    BY <2>2, <2>4, <2>7, FlattenLaws DEF a
  <2> QED BY <2>8 DEF Mapped, m, w
<1>4. ASSUME NEW s \in Seq(S)
      PROVE  Mapped(p, s) \in Seq(R)
  BY <1>2, FlattenTyped DEF Mapped
<1> QED BY <1>3, <1>4

Passes(t, kinds, begin, end) == Kind(t) \in kinds /\ begin <= t.id /\ t.id < end

(* The tags that pass, in their order: none of none, and one more or not.  *)
LEMMA PassedLaws ==
  ASSUME NEW V, NEW K, NEW b \in Int, NEW e \in Int
  PROVE  /\ AllPassed(<<>>, K, b, e) = <<>>
         /\ \A F \in Seq(Tags(V)) : AllPassed(F, K, b, e) \in Seq(Tags(V))
         /\ \A F \in Seq(Tags(V)), t \in Tags(V) :
              /\ Passes(t, K, b, e) =>
                   AllPassed(Append(F, t), K, b, e) = Append(AllPassed(F, K, b, e), t)
              /\ ~Passes(t, K, b, e) =>
                   AllPassed(Append(F, t), K, b, e) = AllPassed(F, K, b, e)
<1> DEFINE p == [t \in Tags(V) |-> Passed(t, K, b, e)]
<1>1. \A t \in Tags(V) : Passed(t, K, b, e) \in Seq(Tags(V))
  BY DEF Passed
<1>2. p \in [Tags(V) -> Seq(Tags(V))] /\ \A t \in Tags(V) : p[t] = Passed(t, K, b, e)
  BY <1>1
<1> HIDE DEF p
<1>3. \A F \in Seq(Tags(V)) : AllPassed(F, K, b, e) = Mapped(p, F)
  <2> SUFFICES ASSUME NEW F \in Seq(Tags(V))
               PROVE  [k \in 1..Len(F) |-> Passed(F[k], K, b, e)] = [k \in 1..Len(F) |-> p[F[k]]]
    BY DEF AllPassed, Mapped
  <2>1. \A k \in 1..Len(F) : F[k] \in Tags(V)
    OBVIOUS
  <2> QED BY <1>2, <2>1
<1>4. AllPassed(<<>>, K, b, e) = <<>>
  <2>1. [k \in 1..Len(<<>>) |-> Passed(<<>>[k], K, b, e)] = <<>>
    OBVIOUS
  <2> QED BY <2>1, FlattenLaws DEF AllPassed
<1>5. \A F \in Seq(Tags(V)) : AllPassed(F, K, b, e) \in Seq(Tags(V))
  BY <1>2, <1>3, FlatMap
<1>6. ASSUME NEW F \in Seq(Tags(V)), NEW t \in Tags(V)
      PROVE  /\ Passes(t, K, b, e) =>
                  AllPassed(Append(F, t), K, b, e) = Append(AllPassed(F, K, b, e), t)
             /\ ~Passes(t, K, b, e) =>
                  AllPassed(Append(F, t), K, b, e) = AllPassed(F, K, b, e)
  <2>1. Append(F, t) \in Seq(Tags(V))
    OBVIOUS
  <2>2. Mapped(p, Append(F, t)) = Mapped(p, F) \o p[t]
    <3>1. p \in [Tags(V) -> Seq(Tags(V))]
      BY <1>2
    <3>2. \A s \in Seq(Tags(V)), x \in Tags(V) : Mapped(p, Append(s, x)) = Mapped(p, s) \o p[x]
      BY <3>1, FlatMap, Zenon
    <3> QED BY <3>2
  <2>3. AllPassed(Append(F, t), K, b, e) = AllPassed(F, K, b, e) \o Passed(t, K, b, e)
    BY <1>2, <1>3, <2>1, <2>2
  <2> DEFINE a == AllPassed(F, K, b, e)
  <2>4. a \in Seq(Tags(V))
    BY <1>5
  <2> HIDE DEF a
  <2>5. a \o <<>> = a /\ a \o <<t>> = Append(a, t)
    BY <2>4
  <2> QED BY <2>3, <2>5 DEF Passed, Passes, a
<1> QED BY <1>4, <1>5, <1>6

(* A tag more that passes.                                                 *)
LEMMA PassedThrough ==
  ASSUME NEW V, NEW K, NEW b \in Int, NEW e \in Int, NEW F \in Seq(Tags(V)), NEW t \in Tags(V),
         Passes(t, K, b, e)
  PROVE  AllPassed(Append(F, t), K, b, e) = Append(AllPassed(F, K, b, e), t)
<1>0. AllPassed(<<>>, K, b, e) = <<>>
  BY PassedLaws
<1>1. \A G \in Seq(Tags(V)), u \in Tags(V) :
        Passes(u, K, b, e) => AllPassed(Append(G, u), K, b, e) = Append(AllPassed(G, K, b, e), u)
  BY <1>0, PassedLaws
<1> QED BY <1>1

(* A tag more that does not pass.                                          *)
LEMMA PassedOver ==
  ASSUME NEW V, NEW K, NEW b \in Int, NEW e \in Int, NEW F \in Seq(Tags(V)), NEW t \in Tags(V),
         ~Passes(t, K, b, e)
  PROVE  AllPassed(Append(F, t), K, b, e) = AllPassed(F, K, b, e)
<1>0. AllPassed(<<>>, K, b, e) = <<>>
  BY PassedLaws
<1>1. \A G \in Seq(Tags(V)), u \in Tags(V) :
        ~Passes(u, K, b, e) => AllPassed(Append(G, u), K, b, e) = AllPassed(G, K, b, e)
  BY <1>0, PassedLaws
<1> QED BY <1>1

(* Tags with other ids, one tag more.                                      *)
LEMMA IdsLessMore ==
  \A V : \A n \in Int : \A r \in Seq(Tags(V)), t \in Tags(V) :
    IdsLess(Append(r, t), n) = Append(IdsLess(r, n), [t EXCEPT !.id = @ - n])
<1> TAKE V
<1> TAKE n \in Int
<1> TAKE r \in Seq(Tags(V)), t \in Tags(V)
<1> QED BY IdsLessLaws

(* A move of which the other end is in order.                              *)
Mover(V, t) ==
  t.type = "from" => /\ t.val.log \in Seq(Tags(V)) /\ Sound(t.val.log)
                     /\ t.val.id \in 0..CountOf(t.val.log) - 1 /\ t.val.id < NoId

Movers(V) == {t \in Tags(V) : Mover(V, t)}

(* What is made of the moves among some tags, in the order of the tags.    *)
LEMMA ExpandedLaws ==
  ASSUME NEW V, 0 \in V
  PROVE  /\ Expanded(<<>>) = <<>>
         /\ \A F \in Seq(Movers(V)) : Expanded(F) \in Seq(Tags(V))
         /\ \A F \in Seq(Movers(V)), t \in Movers(V) :
              Expanded(Append(F, t)) = Joining(Expanded(F), Expansion(t))
         /\ \A t \in Movers(V) : Expansion(t) \in Seq(Tags(V))
<1> DEFINE p == [t \in Movers(V) |-> Expansion(t)]
<1>1. ASSUME NEW t \in Movers(V)  PROVE Expansion(t) \in Seq(Tags(V))
  <2>1. CASE t.type # "from"
    BY <2>1 DEF Expansion, Movers
  <2>2. CASE t.type = "from"
    <3>1. t.val.log \in Seq(Tags(V)) /\ t.val.id \in Int /\ t.id \in Int
      BY <2>2, Kinds DEF Movers, Mover
    <3>2. Left(t.val.log) \in Seq(Tags(V))
      BY <3>1, LeftTyped
    <3>3. InForce(t.val.log, {"struct", "attr"}, t.val.id, t.val.id + 1) \in Seq(Tags(V))
      <4>1. t.val.id + 1 \in Int
        BY <3>1
      <4> QED BY <3>1, <3>2, <4>1, PassedLaws DEF InForce
    <3>4. t.val.id - t.id \in Int
      BY <3>1
    <3> QED BY <2>2, <3>3, <3>4, IdsLessLaws DEF Expansion, MovedHere
  <2> QED BY <2>1, <2>2
<1>2. p \in [Movers(V) -> Seq(Tags(V))] /\ \A t \in Movers(V) : p[t] = Expansion(t)
  BY <1>1
<1> HIDE DEF p
<1>3. \A F \in Seq(Movers(V)) : Expanded(F) = Mapped(p, F)
  <2> SUFFICES ASSUME NEW F \in Seq(Movers(V))
               PROVE  [k \in 1..Len(F) |-> Expansion(F[k])] = [k \in 1..Len(F) |-> p[F[k]]]
    BY DEF Expanded, Mapped
  <2>1. \A k \in 1..Len(F) : F[k] \in Movers(V)
    OBVIOUS
  <2> QED BY <1>2, <2>1
<1>4. Expanded(<<>>) = <<>>
  <2>1. [k \in 1..Len(<<>>) |-> Expansion(<<>>[k])] = <<>>
    OBVIOUS
  <2> QED BY <2>1, FlattenLaws DEF Expanded
<1>5. \A F \in Seq(Movers(V)) : Expanded(F) \in Seq(Tags(V))
  BY <1>2, <1>3, FlatMap
<1>6. ASSUME NEW F \in Seq(Movers(V)), NEW t \in Movers(V)
      PROVE  Expanded(Append(F, t)) = Joining(Expanded(F), Expansion(t))
  <2>1. Append(F, t) \in Seq(Movers(V))
    OBVIOUS
  <2>2. Mapped(p, Append(F, t)) = Mapped(p, F) \o p[t]
    <3>1. p \in [Movers(V) -> Seq(Tags(V))]
      BY <1>2
    <3>2. \A s \in Seq(Movers(V)), x \in Movers(V) : Mapped(p, Append(s, x)) = Mapped(p, s) \o p[x]
      BY <3>1, FlatMap, Zenon
    <3> QED BY <3>2
  <2> QED BY <1>2, <1>3, <2>1, <2>2 DEF Joining
<1> QED BY <1>1, <1>4, <1>5, <1>6

(* The ids of joined tags, lowered.                                        *)
LEMMA IdsLessJoined ==
  ASSUME NEW V, NEW a \in Seq(Tags(V)), NEW b \in Seq(Tags(V)), NEW n \in Int
  PROVE  IdsLess(Joining(a, b), n) = Joining(IdsLess(a, n), IdsLess(b, n))
<1> DEFINE ab == a \o b
           x == IdsLess(ab, n)
           la == IdsLess(a, n)
           lb == IdsLess(b, n)
           y == la \o lb
           m == Len(a) + Len(b)
<1>1. /\ ab \in Seq(Tags(V)) /\ Len(ab) = m
      /\ \A k \in 1..m : ab[k] = IF k <= Len(a) THEN a[k] ELSE b[k - Len(a)]
  BY Joined
<1>3. /\ la \in Seq(Tags(V)) /\ Len(la) = Len(a)
      /\ \A k \in 1..Len(a) : la[k] = [a[k] EXCEPT !.id = @ - n]
      /\ lb \in Seq(Tags(V)) /\ Len(lb) = Len(b)
      /\ \A k \in 1..Len(b) : lb[k] = [b[k] EXCEPT !.id = @ - n]
  BY IdsLessLaws
<1> HIDE DEF ab, la, lb
<1>2. /\ x \in Seq(Tags(V)) /\ Len(x) = m
      /\ \A k \in 1..m : x[k] = [ab[k] EXCEPT !.id = @ - n]
  <2> HIDE DEF m
  <2> QED BY <1>1, IdsLessLaws
<1>4. /\ y \in Seq(Tags(V)) /\ Len(y) = Len(la) + Len(lb)
      /\ \A k \in 1..Len(la) + Len(lb) : y[k] = IF k <= Len(la) THEN la[k] ELSE lb[k - Len(la)]
  <2>1. la \in Seq(Tags(V)) /\ lb \in Seq(Tags(V))
    BY <1>3
  <2> QED BY <2>1, Joined
<1>5. Len(a) \in Nat /\ Len(b) \in Nat /\ m = Len(a) + Len(b)
  OBVIOUS
<1> HIDE DEF x, y, m
<1>6. \A k \in 1..m : x[k] = y[k]
  <2> SUFFICES ASSUME NEW k \in 1..m  PROVE x[k] = y[k]
    OBVIOUS
  <2>1. CASE k <= Len(a)
    <3>1. k \in 1..Len(a)
      BY <1>5, <2>1
    <3>2. ab[k] = a[k] /\ y[k] = la[k]
      BY <1>1, <1>3, <1>4, <1>5, <2>1
    <3> QED BY <1>2, <1>3, <3>1, <3>2
  <2>2. CASE ~(k <= Len(a))
    <3>1. k - Len(a) \in 1..Len(b)
      BY <1>5, <2>2
    <3>2. ab[k] = b[k - Len(a)] /\ y[k] = lb[k - Len(a)]
      BY <1>1, <1>3, <1>4, <1>5, <2>2
    <3> QED BY <1>2, <1>3, <3>1, <3>2
  <2> QED BY <2>1, <2>2
<1>7. x = y
  BY <1>2, <1>3, <1>4, <1>5, <1>6, SeqEqual
<1> QED BY <1>7 DEF Joining, x, y, ab, la, lb

(* Ids that are lowered twice.                                             *)
LEMMA IdsLessTwice ==
  ASSUME NEW V, NEW a \in Seq(Tags(V)), NEW m \in Int, NEW n \in Int
  PROVE  IdsLess(IdsLess(a, m), n) = IdsLess(a, m + n)
<1> DEFINE w == IdsLess(a, m)
           x == IdsLess(w, n)
           y == IdsLess(a, m + n)
<1>1. /\ w \in Seq(Tags(V)) /\ Len(w) = Len(a)
      /\ \A k \in 1..Len(a) : w[k] = [a[k] EXCEPT !.id = @ - m]
  BY IdsLessLaws
<1>2. m + n \in Int
  OBVIOUS
<1>3. /\ y \in Seq(Tags(V)) /\ Len(y) = Len(a)
      /\ \A k \in 1..Len(a) : y[k] = [a[k] EXCEPT !.id = @ - (m + n)]
  BY <1>2, IdsLessLaws
<1> HIDE DEF w, y
<1>4. /\ x \in Seq(Tags(V)) /\ Len(x) = Len(a)
      /\ \A k \in 1..Len(a) : x[k] = [w[k] EXCEPT !.id = @ - n]
  BY <1>1, IdsLessLaws
<1> HIDE DEF x
<1>5. \A k \in 1..Len(a) : x[k] = y[k]
  <2> SUFFICES ASSUME NEW k \in 1..Len(a)  PROVE x[k] = y[k]
    OBVIOUS
  <2>1. a[k] \in Tags(V)
    OBVIOUS
  <2>2. \A t \in Tags(V) : [[t EXCEPT !.id = @ - m] EXCEPT !.id = @ - n]
                             = [t EXCEPT !.id = @ - (m + n)]
    <3> SUFFICES ASSUME NEW t \in Tags(V)
                 PROVE  [[t EXCEPT !.id = @ - m] EXCEPT !.id = @ - n]
                          = [t EXCEPT !.id = @ - (m + n)]
      OBVIOUS
    <3>1. t.id - (m + n) = (t.id - m) - n
      BY Kinds
    <3>2. [t EXCEPT !.id = @ - m].id = t.id - m
      BY DEF Tags
    <3> QED BY <3>1, <3>2
  <2> QED BY <1>1, <1>3, <1>4, <2>1, <2>2
<1>6. x = y
  BY <1>3, <1>4, <1>5, SeqEqual
<1> QED BY <1>6 DEF w, x, y

(* What the tags of s have to say of one thing about an entry.             *)
Told(s, id, kind, x) ==
  /\ \A k \in 1..Len(s) : s[k].id = id /\ Holds(s[k], kind) => x = Held(s[k], kind)
  /\ (\A k \in 1..Len(s) : ~(s[k].id = id /\ Holds(s[k], kind))) => x = <<>>

(* If everything is told once with a tag more, it was, and the tag tells   *)
(* something new.                                                          *)
LEMMA OnceMore ==
  ASSUME NEW S, NEW s \in Seq(S), NEW f \in S, SaysOnce(Append(s, f))
  PROVE  /\ SaysOnce(s)
         /\ \A j \in 1..Len(s), kind \in Sorts :
              Holds(f, kind) /\ Holds(s[j], kind) => s[j].id # f.id
<1> DEFINE a == Append(s, f)
<1>1. /\ Len(a) = Len(s) + 1 /\ Len(s) \in Nat /\ a[Len(s) + 1] = f
      /\ \A k \in 1..Len(s) : a[k] = s[k]
  BY FirstOfMore
<1>2. SaysOnce(a)
  OBVIOUS
<1> HIDE DEF a
<1>3. SaysOnce(s)
  <2> SUFFICES ASSUME NEW j \in 1..Len(s), NEW k \in 1..Len(s), NEW kind \in Sorts,
                      Holds(s[j], kind), Holds(s[k], kind), s[j].id = s[k].id
               PROVE  j = k
    BY DEF SaysOnce
  <2>1. j \in 1..Len(a) /\ k \in 1..Len(a) /\ a[j] = s[j] /\ a[k] = s[k]
    BY <1>1
  <2> QED BY <1>2, <2>1 DEF SaysOnce
<1>4. ASSUME NEW j \in 1..Len(s), NEW kind \in Sorts, Holds(f, kind), Holds(s[j], kind),
             s[j].id = f.id
      PROVE  FALSE
  <2>1. /\ j \in 1..Len(a) /\ Len(s) + 1 \in 1..Len(a) /\ a[j] = s[j]
        /\ a[Len(s) + 1] = f /\ j # Len(s) + 1
    BY <1>1
  <2> QED BY <1>2, <1>4, <2>1 DEF SaysOnce
<1> QED BY <1>3, <1>4

(* If names come first with a tag more, they did, and its entry has one.   *)
LEMMA FirstMore ==
  ASSUME NEW S, NEW s \in Seq(S), NEW f \in S, NamesFirst(Append(s, f))
  PROVE  /\ NamesFirst(s)
         /\ \A kind \in {"struct", "attr"} : Holds(f, kind) =>
              \E j \in 1..Len(s) : s[j].id = f.id /\ Kind(s[j]) = "name"
<1> DEFINE a == Append(s, f)
<1>1. /\ Len(a) = Len(s) + 1 /\ Len(s) \in Nat /\ a[Len(s) + 1] = f
      /\ \A k \in 1..Len(s) : a[k] = s[k]
  BY FirstOfMore
<1>2. NamesFirst(a)
  OBVIOUS
<1> HIDE DEF a
<1>3. NamesFirst(s)
  <2> SUFFICES ASSUME NEW k \in 1..Len(s), NEW kind \in {"struct", "attr"}, Holds(s[k], kind)
               PROVE  \E j \in 1..k - 1 : s[j].id = s[k].id /\ Kind(s[j]) = "name"
    BY DEF NamesFirst
  <2>1. k \in 1..Len(a) /\ a[k] = s[k]
    BY <1>1
  <2>2. PICK j \in 1..k - 1 : a[j].id = a[k].id /\ Kind(a[j]) = "name"
    BY <1>2, <2>1 DEF NamesFirst
  <2>3. j \in 1..Len(s)
    BY <1>1
  <2> QED BY <1>1, <2>1, <2>2, <2>3
<1>4. ASSUME NEW kind \in {"struct", "attr"}, Holds(f, kind)
      PROVE  \E j \in 1..Len(s) : s[j].id = f.id /\ Kind(s[j]) = "name"
  <2>1. Len(s) + 1 \in 1..Len(a) /\ (Len(s) + 1) - 1 = Len(s)
    BY <1>1
  <2>2. PICK j \in 1..Len(s) : a[j].id = f.id /\ Kind(a[j]) = "name"
    BY <1>1, <1>2, <1>4, <2>1 DEF NamesFirst
  <2> QED BY <1>1, <2>2
<1> QED BY <1>3, <1>4

(* If nothing is moved with a tag more, nothing was.                       *)
LEMMA UnmovedMore ==
  ASSUME NEW S, NEW s \in Seq(S), NEW f \in S, Unmoved(Append(s, f))
  PROVE  Unmoved(s) /\ f.type # "from"
<1> DEFINE a == Append(s, f)
<1>1. /\ Len(a) = Len(s) + 1 /\ Len(s) \in Nat /\ a[Len(s) + 1] = f
      /\ \A k \in 1..Len(s) : a[k] = s[k]
  BY FirstOfMore
<1>2. Unmoved(a)
  OBVIOUS
<1> HIDE DEF a
<1>3. ASSUME NEW k \in 1..Len(s)  PROVE s[k].type # "from"
  <2>1. k \in 1..Len(a) /\ a[k] = s[k]
    BY <1>1
  <2> QED BY <1>2, <2>1 DEF Unmoved
<1>4. Len(s) + 1 \in 1..Len(a)
  BY <1>1
<1> QED BY <1>1, <1>2, <1>3, <1>4 DEF Unmoved

(* What is told of an entry with a tag more.                               *)
LEMMA ToldMore ==
  ASSUME NEW S, NEW s \in Seq(S), NEW f \in S, SaysOnce(Append(s, f)),
         NEW kind \in Sorts, NEW id, NEW x
  PROVE  /\ Told(<<>>, id, kind, <<>>)
         /\ f.id = id /\ Holds(f, kind) /\ x = Held(f, kind) => Told(Append(s, f), id, kind, x)
         /\ ~(f.id = id /\ Holds(f, kind)) /\ Told(s, id, kind, x) =>
              Told(Append(s, f), id, kind, x)
         /\ f.id = id /\ Holds(f, kind) /\ Told(s, id, kind, x) => x = <<>>
<1> DEFINE a == Append(s, f)
<1>1. /\ Len(a) = Len(s) + 1 /\ Len(s) \in Nat /\ a[Len(s) + 1] = f
      /\ \A k \in 1..Len(s) : a[k] = s[k]
  BY FirstOfMore
<1>2. /\ SaysOnce(s)
      /\ \A j \in 1..Len(s) : Holds(f, kind) /\ Holds(s[j], kind) => s[j].id # f.id
  BY OnceMore
<1> HIDE DEF a
<1>3. Told(<<>>, id, kind, <<>>)
  BY DEF Told
<1>4. ASSUME NEW k \in 1..Len(a), k # Len(s) + 1  PROVE k \in 1..Len(s)
  BY <1>1, <1>4
<1>5. ASSUME f.id = id, Holds(f, kind), x = Held(f, kind)  PROVE Told(a, id, kind, x)
  <2>1. ASSUME NEW k \in 1..Len(a), a[k].id = id, Holds(a[k], kind)  PROVE x = Held(a[k], kind)
    BY <1>1, <1>2, <1>4, <1>5, <2>1
  <2>2. Len(s) + 1 \in 1..Len(a)
    BY <1>1
  <2> QED BY <1>1, <1>5, <2>1, <2>2 DEF Told
<1>6. ASSUME ~(f.id = id /\ Holds(f, kind)), Told(s, id, kind, x)  PROVE Told(a, id, kind, x)
  <2>1. ASSUME NEW k \in 1..Len(a), a[k].id = id, Holds(a[k], kind)  PROVE x = Held(a[k], kind)
    <3>1. k \in 1..Len(s)
      BY <1>1, <1>4, <1>6, <2>1
    <3> QED BY <1>1, <1>6, <2>1, <3>1 DEF Told
  <2>2. ASSUME \A k \in 1..Len(a) : ~(a[k].id = id /\ Holds(a[k], kind))  PROVE x = <<>>
    <3>1. ASSUME NEW k \in 1..Len(s)  PROVE ~(s[k].id = id /\ Holds(s[k], kind))
      <4>1. k \in 1..Len(a)
        BY <1>1
      <4> QED BY <1>1, <2>2, <4>1
    <3> QED BY <1>6, <3>1 DEF Told
  <2> QED BY <2>1, <2>2 DEF Told
<1>7. ASSUME f.id = id, Holds(f, kind), Told(s, id, kind, x)  PROVE x = <<>>
  BY <1>2, <1>7 DEF Told
<1> QED BY <1>3, <1>5, <1>6, <1>7 DEF a

(* One tag more behind a sound log.                                        *)
LEMMA TagBehind ==
  ASSUME NEW V, NEW C \in Seq(Tags(V)), Sound(C), NEW t \in Tags(V), Kind(t) \in Sorts,
         t.id \in Nat,
         Kind(t) = "name" <=> ValueAt(Replay(C), t.id, "name") = <<>>
  PROVE  /\ Append(C, t) \in Seq(Tags(V)) /\ Sound(Append(C, t))
         /\ \A i \in Nat, kind \in Sorts :
              ValueAt(Replay(Append(C, t)), i, kind)
                = IF i = t.id /\ kind = Kind(t) THEN Held(t, kind)
                  ELSE ValueAt(Replay(C), i, kind)
<1> DEFINE es == Replay(C)
<1>1. es \in Seq(Entries(V))
  BY CountIsReplayed
<1>2. Replay(Append(C, t)) = Applied(es, t)
  BY ReplayLaws
<1>w. Kind(t) = "name" <=> ValueAt(es, t.id, "name") = <<>>
  OBVIOUS
<1> HIDE DEF es
<1>3. Fit(es, t)
  <2>1. t.type # "create" /\ t.type # "delete"
    BY Kinds DEF Sorts
  <2>2. CASE Kind(t) = "name"
    BY <1>w, <2>1, <2>2 DEF Fit
  <2>3. CASE Kind(t) \in {"struct", "attr"}
    <3>1. ValueAt(es, t.id, "name") # <<>>
      BY <1>w, <2>3
    <3>2. t.id < Len(es)
      BY <3>1 DEF ValueAt
    <3>3. t.id \in 0..Len(es) - 1
      BY <1>1, <3>2
    <3>4. Kind(t) # "name"
      BY <2>3
    <3> QED BY <2>1, <2>3, <3>1, <3>3, <3>4 DEF Fit
  <2> QED BY <2>2, <2>3 DEF Sorts
<1>4. Sound(Append(C, t))
  BY <1>3, SoundMore DEF es
<1>5. \A i \in Nat, kind \in Sorts :
        ValueAt(Applied(es, t), i, kind)
          = IF i = t.id /\ kind = Kind(t) THEN Held(t, kind) ELSE ValueAt(es, i, kind)
  BY <1>1, <1>3, AppliedValue
<1>6. Append(C, t) \in Seq(Tags(V))
  OBVIOUS
<1> QED BY <1>2, <1>4, <1>5, <1>6 DEF es

(* A sound log can be traversed, and moves nothing.                        *)
LEMMA SoundPassable ==
  ASSUME NEW V, NEW log \in Seq(Tags(V)), Sound(log)
  PROVE  Passable(V, log) /\ Unmoved(log)
<1>1. ASSUME NEW es, NEW t \in Tags(V), Fit(es, t)  PROVE t.type # "from"
  <2> SUFFICES ASSUME t.type = "from"  PROVE FALSE
    OBVIOUS
  <2>1. Kind(t) = "from"
    BY DEF Kind
  <2> QED BY <1>1, <2>1 DEF Fit
<1>2. \A k \in 1..Len(log) : log[k] \in Tags(V) /\ Fit(Replay(First(log, k - 1)), log[k])
  BY DEF Sound
<1>3. Unmoved(log)
  BY <1>1, <1>2 DEF Unmoved
<1>4. ASSUME NEW k \in 1..Len(log)  PROVE Unmoved(First(log, k - 1))
  <2>1. k - 1 \in Nat /\ k - 1 <= Len(log)
    OBVIOUS
  <2>2. Len(First(log, k - 1)) = k - 1 /\ \A j \in 1..k - 1 : First(log, k - 1)[j] = log[j]
    BY <2>1 DEF First
  <2>3. \A j \in 1..k - 1 : log[j].type # "from"
    BY <1>3 DEF Unmoved
  <2> QED BY <2>2, <2>3 DEF Unmoved
<1>5. Passable(V, log)
  BY <1>2, <1>4 DEF Passable, FollowsIn
<1> QED BY <1>3, <1>5

Rest == {"struct", "attr"}

(* A log with, behind it, what other tags say of the rest of one entry.    *)
WithRest(C, s, v, at) == C \o IdsLess(AllPassed(s, Rest, v, v + 1), v - at)

OfRest(f, v) == Kind(f) \in Rest /\ f.id = v

RestIs(V, C, s, v, at, D) ==
  /\ D \in Seq(Tags(V)) /\ Sound(D)
  /\ \A i \in Nat, kind \in Sorts :
       IF i = at /\ kind \in Rest THEN Told(s, v, kind, ValueAt(Replay(D), i, kind))
       ELSE ValueAt(Replay(D), i, kind) = ValueAt(Replay(C), i, kind)

(* A tag that is not about the entry that is moved does not come with it.  *)
LEMMA WithRestSame ==
  ASSUME NEW V, NEW C \in Seq(Tags(V)), NEW s \in Seq(Tags(V)), NEW f \in Tags(V),
         NEW v \in Int, NEW at \in Int, ~OfRest(f, v)
  PROVE  WithRest(C, Append(s, f), v, at) = WithRest(C, s, v, at)
<1>1. Passes(f, Rest, v, v + 1) <=> OfRest(f, v)
  BY Kinds DEF Passes, OfRest
<1>2. AllPassed(Append(s, f), Rest, v, v + 1) = AllPassed(s, Rest, v, v + 1)
  <2>1. v + 1 \in Int
    OBVIOUS
  <2> QED BY <1>1, <2>1, PassedOver
<1> QED BY <1>2 DEF WithRest

(* A tag about the rest of the entry that is moved comes with it, at its   *)
(* new place.                                                              *)
LEMMA WithRestOther ==
  ASSUME NEW V, NEW C \in Seq(Tags(V)), NEW s \in Seq(Tags(V)), NEW f \in Tags(V),
         NEW v \in Int, NEW at \in Int, OfRest(f, v)
  PROVE  WithRest(C, Append(s, f), v, at) = Append(WithRest(C, s, v, at), [f EXCEPT !.id = at])
<1> DEFINE n == v - at
           e == v + 1
           a == AllPassed(s, Rest, v, e)
           g == [f EXCEPT !.id = @ - n]
<1>1. e \in Int /\ n \in Int /\ f.id \in Int /\ f.id - n = at /\ Passes(f, Rest, v, e)
  BY Kinds DEF Passes, OfRest
<1>2. g = [f EXCEPT !.id = at] /\ g \in Tags(V)
  BY <1>1 DEF Tags
<1> HIDE DEF n, e, g
<1>3. a \in Seq(Tags(V)) /\ AllPassed(Append(s, f), Rest, v, e) = Append(a, f)
  <2>1. a \in Seq(Tags(V))
    BY <1>1, PassedLaws
  <2>2. AllPassed(Append(s, f), Rest, v, e) = Append(a, f)
    BY <1>1, PassedThrough
  <2> QED BY <2>1, <2>2
<1> HIDE DEF a
<1>4. IdsLess(a, n) \in Seq(Tags(V)) /\ IdsLess(Append(a, f), n) = Append(IdsLess(a, n), g)
  <2>1. IdsLess(a, n) \in Seq(Tags(V))
    BY <1>1, <1>3, IdsLessLaws
  <2>2. IdsLess(Append(a, f), n) = Append(IdsLess(a, n), [f EXCEPT !.id = @ - n])
    BY <1>1, <1>3, IdsLessMore
  <2> QED BY <2>1, <2>2 DEF g
<1>5. C \o Append(IdsLess(a, n), g) = Append(C \o IdsLess(a, n), g)
  BY <1>2, <1>4, JoinedMore
<1>6. WithRest(C, Append(s, f), v, at) = C \o IdsLess(Append(a, f), n)
  BY <1>3 DEF WithRest, n, e
<1>7. WithRest(C, s, v, at) = C \o IdsLess(a, n)
  BY DEF WithRest, n, e, a
<1> QED BY <1>2, <1>4, <1>5, <1>6, <1>7

(* What a move writes of the log it reads from: the log stays sound, the   *)
(* entry gets what is told there, and the others keep what they had.       *)
LEMMA MovedIn ==
  ASSUME NEW V, NEW C \in Seq(Tags(V)), Sound(C), NEW v \in Int, NEW at \in Nat,
         ValueAt(Replay(C), at, "name") # <<>>,
         \A kind \in Rest : ValueAt(Replay(C), at, kind) = <<>>
  PROVE  \A s \in Seq(Tags(V)) : Unmoved(s) /\ SaysOnce(s) =>
           RestIs(V, C, s, v, at, WithRest(C, s, v, at))
<1> DEFINE D(s) == WithRest(C, s, v, at)
           G == {s \in Seq(Tags(V)) : Unmoved(s) /\ SaysOnce(s) => RestIs(V, C, s, v, at, D(s))}
<1>k. Rest \subseteq Sorts /\ "name" \in Sorts /\ "name" \notin Rest
  BY DEF Rest, Sorts
<1>1. <<>> \in G
  <2>1. <<>> \in Seq(Tags(V))
    OBVIOUS
  <2>2. D(<<>>) = C
    <3>1. at \in Int
      OBVIOUS
    <3>3. AllPassed(<<>>, Rest, v, v + 1) = <<>> /\ IdsLess(<<>>, v - at) = <<>>
      <4>1. v + 1 \in Int /\ v - at \in Int
        BY <3>1
      <4> QED BY <4>1, PassedLaws, IdsLessLaws
    <3>4. C \o <<>> = C
      OBVIOUS
    <3> QED BY <3>3, <3>4 DEF WithRest
  <2>3. \A kind : Told(<<>>, v, kind, <<>>)
    BY DEF Told
  <2>4. RestIs(V, C, <<>>, v, at, C)
    BY <1>k, <2>3 DEF RestIs
  <2> QED BY <2>1, <2>2, <2>4
<1>2. ASSUME NEW s \in Seq(Tags(V)), NEW f \in Tags(V), s \in G
      PROVE  Append(s, f) \in G
  <2> DEFINE a == Append(s, f)
             E == D(s)
  <2>1. a \in Seq(Tags(V))
    OBVIOUS
  <2> SUFFICES ASSUME Unmoved(a), SaysOnce(a)  PROVE RestIs(V, C, a, v, at, D(a))
    BY <2>1
  <2>2. Unmoved(s) /\ f.type # "from" /\ SaysOnce(s)
    BY UnmovedMore, OnceMore
  <2>3. RestIs(V, C, s, v, at, E)
    BY <1>2, <2>2
  <2>4. \A kind \in Sorts : Holds(f, kind) <=> kind = Kind(f)
    BY <2>2 DEF Holds
  <2>m. \A x : \A kind \in Sorts :
          /\ f.id = v /\ Holds(f, kind) /\ x = Held(f, kind) => Told(a, v, kind, x)
          /\ ~(f.id = v /\ Holds(f, kind)) /\ Told(s, v, kind, x) => Told(a, v, kind, x)
    BY ToldMore
  <2>5. CASE ~OfRest(f, v)
    <3>1. D(a) = E
      <4>1. at \in Int
        OBVIOUS
      <4> QED BY <2>5, <4>1, WithRestSame
    <3>2. \A kind \in Rest : ~(f.id = v /\ Holds(f, kind))
      BY <1>k, <2>4, <2>5 DEF OfRest
    <3>3. \A x : \A kind \in Rest : Told(s, v, kind, x) => Told(a, v, kind, x)
      BY <1>k, <2>m, <3>2
    <3> HIDE DEF D, a, E
    <3> QED BY <2>3, <3>1, <3>3 DEF RestIs
  <2>6. CASE OfRest(f, v)
    <3> DEFINE g == [f EXCEPT !.id = at]
    <3>k. Kind(f) \in Rest /\ f.id = v
      BY <2>6 DEF OfRest
    <3>1. D(a) = Append(E, g)
      <4>1. at \in Int
        OBVIOUS
      <4> QED BY <2>6, <4>1, WithRestOther
    <3>2. g \in Tags(V) /\ g.id = at /\ g.type = f.type /\ g.val = f.val
      <4>1. at \in Int
        OBVIOUS
      <4> QED BY <4>1 DEF Tags
    <3> HIDE DEF g, D, a, E
    <3>3. Kind(g) = Kind(f) /\ \A kind : Held(g, kind) = Held(f, kind)
      BY <3>2, SameHeld
    <3>4. E \in Seq(Tags(V)) /\ Sound(E) /\ Kind(g) \in Sorts /\ g.id \in Nat /\ Kind(g) # "name"
      BY <1>k, <2>3, <3>k, <3>2, <3>3 DEF RestIs
    <3>5. ValueAt(Replay(E), at, "name") = ValueAt(Replay(C), at, "name")
      BY <1>k, <2>3 DEF RestIs
    <3>6. Kind(g) = "name" <=> ValueAt(Replay(E), g.id, "name") = <<>>
      BY <3>2, <3>4, <3>5
    <3>7. /\ Append(E, g) \in Seq(Tags(V)) /\ Sound(Append(E, g))
          /\ \A i \in Nat, kind \in Sorts :
               ValueAt(Replay(Append(E, g)), i, kind)
                 = IF i = g.id /\ kind = Kind(g) THEN Held(g, kind)
                   ELSE ValueAt(Replay(E), i, kind)
      <4>1. E \in Seq(Tags(V)) /\ Sound(E)
        BY <3>4
      <4>2. g \in Tags(V) /\ Kind(g) \in Sorts /\ g.id \in Nat
        BY <3>2, <3>4
      <4> QED BY <3>6, <4>1, <4>2, TagBehind, Zenon
    <3>8. ASSUME NEW i \in Nat, NEW kind \in Sorts
          PROVE  IF i = at /\ kind \in Rest
                 THEN Told(a, v, kind, ValueAt(Replay(D(a)), i, kind))
                 ELSE ValueAt(Replay(D(a)), i, kind) = ValueAt(Replay(C), i, kind)
      <4>1. CASE i = at /\ kind = Kind(f)
        <5>1. ValueAt(Replay(D(a)), i, kind) = Held(f, kind)
          BY <3>1, <3>2, <3>3, <3>7, <4>1
        <5>2. Told(a, v, kind, ValueAt(Replay(D(a)), i, kind))
          BY <1>k, <2>4, <3>k, <2>m, <4>1, <5>1
        <5> QED BY <3>k, <4>1, <5>2
      <4>2. CASE ~(i = at /\ kind = Kind(f))
        <5>1. ValueAt(Replay(D(a)), i, kind) = ValueAt(Replay(E), i, kind)
          BY <3>1, <3>2, <3>3, <3>7, <4>2
        <5>2. CASE i = at /\ kind \in Rest
          <6>1. Told(s, v, kind, ValueAt(Replay(E), i, kind))
            BY <2>3, <5>2 DEF RestIs
          <6>2. ~Holds(f, kind)
            BY <2>4, <4>2, <5>2
          <6> QED BY <2>m, <5>1, <5>2, <6>1, <6>2
        <5>3. CASE ~(i = at /\ kind \in Rest)
          <6>1. ValueAt(Replay(E), i, kind) = ValueAt(Replay(C), i, kind)
            BY <2>3, <5>3 DEF RestIs
          <6> QED BY <5>1, <5>3, <6>1
        <5> QED BY <5>2, <5>3
      <4> QED BY <4>1, <4>2
    <3> QED BY <3>1, <3>7, <3>8 DEF RestIs
  <2> QED BY <2>5, <2>6
<1> HIDE DEF G, D
<1>3. \A s \in Seq(Tags(V)) : s \in G
  BY <1>1, <1>2, SeqInduction
<1> QED BY <1>3 DEF G, D

Wanted == {"name", "struct", "attr", "from"}

(* What is told of an entry by the tags that show it.                      *)
LEMMA ToldShown ==
  ASSUME NEW F, NEW es, Shows(F, es), NEW i \in Nat, NEW kind \in Sorts, NEW x,
         Told(F, i, kind, x)
  PROVE  x = ValueAt(es, i, kind)
<1>1. CASE \E k \in 1..Len(F) : F[k].id = i /\ Holds(F[k], kind)
  <2>1. PICK k \in 1..Len(F) : F[k].id = i /\ Holds(F[k], kind)
    BY <1>1
  <2>2. ValueAt(es, i, kind) = Held(F[k], kind)
    BY <2>1 DEF Shows, SaysWhatIs
  <2> QED BY <2>1, <2>2 DEF Told
<1>2. CASE ~\E k \in 1..Len(F) : F[k].id = i /\ Holds(F[k], kind)
  BY <1>2 DEF Shows, SaysAll, Told
<1> QED BY <1>1, <1>2

(* What a move brings is what the log it reads from stands for.            *)
LEMMA BroughtFrom ==
  ASSUME NEW V, NEW t, Mover(V, t), t.type = "from", NEW kind \in Sorts
  PROVE  Brought(t, kind) = ValueAt(Replay(t.val.log), t.val.id, kind)
<1> DEFINE log == t.val.log
           i == t.val.id
<1>1. log \in Seq(Tags(V)) /\ Sound(log) /\ i \in 0..CountOf(log) - 1 /\ i < NoId
  BY DEF Mover
<1> HIDE DEF log, i
<1>2. Replay(log) \in Seq(Entries(V)) /\ Len(Replay(log)) = CountOf(log)
  BY <1>1, CountIsReplayed
<1>3. Get(log, kind, i, NoId) = Replay(log)[i + 1][kind]
  BY <1>1, GetIsReplayed
<1>4. i < Len(Replay(log)) /\ i + 1 \in 1..Len(Replay(log))
  BY <1>1, <1>2
<1>5. ValueAt(Replay(log), i, kind) = Replay(log)[i + 1][kind]
  BY <1>4, ValueIn
<1> QED BY <1>3, <1>5 DEF Brought, log, i

(* The tags a traversal leaves are movers as those of the log were.        *)
LEMMA FilterMover ==
  ASSUME NEW V, NEW f, Mover(V, f), NEW t
  PROVE  Mover(V, Filter(f, t))
<1>1. Filter(f, t).type = "from" => f.type = "from" /\ Filter(f, t).val = f.val
  <2>1. Noop.type = "noop"
    BY DEF Noop, Tag
  <2>2. /\ [f EXCEPT !.id = @ + Splice(t)].type = f.type
        /\ [f EXCEPT !.id = @ + Splice(t)].val = f.val
    OBVIOUS
  <2> QED BY <2>1, <2>2 DEF Filter
<1> QED BY <1>1 DEF Mover

(* What is left of a log is made of tags and of moves in order.            *)
LEMMA LeftMovers ==
  ASSUME NEW V, 0 \in V
  PROVE  \A log \in Seq(Tags(V)) : Passable(V, log) => Left(log) \in Seq(Movers(V))
<1> DEFINE G == {log \in Seq(Tags(V)) : Passable(V, log) => Left(log) \in Seq(Movers(V))}
<1>1. <<>> \in G
  <2>1. <<>> \in Seq(Tags(V)) /\ <<>> \in Seq(Movers(V))
    OBVIOUS
  <2> QED BY <2>1, LeftLaws
<1>2. ASSUME NEW log \in Seq(Tags(V)), NEW t \in Tags(V), log \in G
      PROVE  Append(log, t) \in G
  <2>1. Append(log, t) \in Seq(Tags(V))
    OBVIOUS
  <2> SUFFICES ASSUME Passable(V, Append(log, t))
               PROVE  Left(Append(log, t)) \in Seq(Movers(V))
    BY <2>1
  <2>2. Passable(V, log) /\ FollowsIn(V, log, t)
    BY PassableMore
  <2> DEFINE F == Left(log)
             b == Leaving(F, t)
  <2>3. F \in Seq(Movers(V)) /\ F \in Seq(Tags(V))
    BY <1>2, <2>2, LeftTyped
  <2>4. Left(Append(log, t)) = b
    BY LeftLaws
  <2>5. b \in Seq(Tags(V))
    <3>1. Left(Append(log, t)) \in Seq(Tags(V))
      BY <2>1, LeftTyped
    <3> QED BY <2>4, <3>1
  <2>6. Mover(V, t)
    <3>1. CASE Fit(Replay(log), t)
      <4>1. t.type # "from"
        BY <3>1, FitCases, Kinds DEF Fit
      <4> QED BY <4>1 DEF Mover
    <3>2. CASE FitMove(V, Replay(log), t)
      BY <3>2 DEF FitMove, Movable, Mover
    <3> QED BY <2>2, <3>1, <3>2 DEF FollowsIn
  <2> HIDE DEF F
  <2>7. Len(b) = Len(F) + 1 /\ b[Len(F) + 1] = t /\ \A k \in 1..Len(F) : b[k] = Filter(F[k], t)
    <3> DEFINE c == [k \in 1..Len(F) |-> Filter(F[k], t)]
    <3>1. Len(F) \in Nat /\ Len(c) = Len(F) /\ c \in Seq({Filter(F[k], t) : k \in 1..Len(F)} \cup {t})
      BY <2>3
    <3>2. t \in {Filter(F[k], t) : k \in 1..Len(F)} \cup {t}
      OBVIOUS
    <3>3. \A k \in 1..Len(F) : c[k] = Filter(F[k], t)
      OBVIOUS
    <3> HIDE DEF c
    <3>4. /\ Len(Append(c, t)) = Len(c) + 1 /\ Append(c, t)[Len(c) + 1] = t
          /\ \A k \in 1..Len(c) : Append(c, t)[k] = c[k]
      BY <3>1, <3>2, FirstOfMore
    <3>5. b = Append(c, t)
      BY DEF Leaving, c
    <3> HIDE DEF b
    <3> QED BY <3>1, <3>3, <3>4, <3>5
  <2> HIDE DEF b
  <2>8. ASSUME NEW k \in 1..Len(b)  PROVE b[k] \in Movers(V)
    <3>1. b[k] \in Tags(V)
      BY <2>5
    <3>2. CASE k = Len(F) + 1
      BY <2>6, <2>7, <3>1, <3>2 DEF Movers
    <3>3. CASE k # Len(F) + 1
      <4>1. k \in 1..Len(F)
        BY <2>3, <2>7, <3>3
      <4>2. F[k] \in Movers(V)
        BY <2>3, <4>1
      <4>3. Mover(V, F[k])
        BY <4>2 DEF Movers
      <4>4. Mover(V, Filter(F[k], t))
        BY <4>3, FilterMover
      <4> QED BY <2>7, <3>1, <4>1, <4>4 DEF Movers
    <3> QED BY <3>2, <3>3
  <2>9. b \in Seq(Movers(V))
    BY <2>5, <2>8
  <2> QED BY <2>4, <2>9
<1> HIDE DEF G
<1>3. \A log \in Seq(Tags(V)) : log \in G
  BY <1>1, <1>2, SeqInduction
<1> QED BY <1>3 DEF G

(* What a compaction keeps of some tags.                                   *)
Kept(s, b, e) == IdsLess(Expanded(AllPassed(s, Wanted, b, e)), b)

KeepsTold(V, s, b, e, C) ==
  /\ C \in Seq(Tags(V)) /\ Sound(C)
  /\ \A i \in Nat, kind \in Sorts :
       IF i < e - b THEN Told(s, b + i, kind, ValueAt(Replay(C), i, kind))
       ELSE ValueAt(Replay(C), i, kind) = <<>>

(* Of tags and moves in order, those that pass are too.                    *)
LEMMA PassedMovers ==
  ASSUME NEW V, NEW K, NEW b \in Int, NEW e \in Int
  PROVE  \A s \in Seq(Movers(V)) : AllPassed(s, K, b, e) \in Seq(Movers(V))
<1> DEFINE p == [t \in Movers(V) |-> Passed(t, K, b, e)]
<1>1. \A t \in Movers(V) : Passed(t, K, b, e) \in Seq(Movers(V))
  BY DEF Passed
<1>2. p \in [Movers(V) -> Seq(Movers(V))] /\ \A t \in Movers(V) : p[t] = Passed(t, K, b, e)
  BY <1>1
<1> HIDE DEF p
<1>3. ASSUME NEW s \in Seq(Movers(V))  PROVE AllPassed(s, K, b, e) = Mapped(p, s)
  <2>1. \A k \in 1..Len(s) : s[k] \in Movers(V)
    OBVIOUS
  <2>2. [k \in 1..Len(s) |-> Passed(s[k], K, b, e)] = [k \in 1..Len(s) |-> p[s[k]]]
    BY <1>2, <2>1
  <2> QED BY <2>2 DEF AllPassed, Mapped
<1>4. \A s \in Seq(Movers(V)) : Mapped(p, s) \in Seq(Movers(V))
  BY <1>2, FlatMap
<1> QED BY <1>3, <1>4

(* What a compaction keeps is made of tags.                                *)
LEMMA KeptTyped ==
  ASSUME NEW V, 0 \in V, NEW b \in Int, NEW e \in Int
  PROVE  /\ Kept(<<>>, b, e) = <<>>
         /\ \A s \in Seq(Movers(V)) : Kept(s, b, e) \in Seq(Tags(V))
<1>1. ASSUME NEW s \in Seq(Movers(V))  PROVE Kept(s, b, e) \in Seq(Tags(V))
  <2>1. AllPassed(s, Wanted, b, e) \in Seq(Movers(V))
    BY PassedMovers
  <2>2. Expanded(AllPassed(s, Wanted, b, e)) \in Seq(Tags(V))
    BY <2>1, ExpandedLaws
  <2> QED BY <2>2, IdsLessLaws DEF Kept
<1>2. Kept(<<>>, b, e) = <<>>
  <2>1. AllPassed(<<>>, Wanted, b, e) = <<>>
    BY PassedLaws
  <2>2. Expanded(<<>>) = <<>>
    BY ExpandedLaws
  <2>3. IdsLess(<<>>, b) = <<>>
    BY IdsLessLaws
  <2> QED BY <2>1, <2>2, <2>3 DEF Kept
<1> QED BY <1>1, <1>2

(* Moves in order are tags.                                                *)
LEMMA MoversTags ==
  ASSUME NEW V, NEW s \in Seq(Movers(V))
  PROVE  s \in Seq(Tags(V))
<1>1. Movers(V) \subseteq Tags(V)
  BY DEF Movers
<1> QED BY <1>1

(* A tag that does not pass is not kept.                                   *)
LEMMA KeptOver ==
  ASSUME NEW V, NEW b \in Int, NEW e \in Int, NEW s \in Seq(Movers(V)), NEW f \in Movers(V),
         ~Passes(f, Wanted, b, e)
  PROVE  Kept(Append(s, f), b, e) = Kept(s, b, e)
<1>1. s \in Seq(Tags(V)) /\ f \in Tags(V)
  BY MoversTags DEF Movers
<1>2. AllPassed(Append(s, f), Wanted, b, e) = AllPassed(s, Wanted, b, e)
  BY <1>1, PassedOver
<1> QED BY <1>2 DEF Kept

(* Of a tag that passes, what is made of it is kept behind the rest.       *)
LEMMA KeptThrough ==
  ASSUME NEW V, 0 \in V, NEW b \in Int, NEW e \in Int, NEW s \in Seq(Movers(V)),
         NEW f \in Movers(V), Passes(f, Wanted, b, e)
  PROVE  Kept(Append(s, f), b, e) = Joining(Kept(s, b, e), IdsLess(Expansion(f), b))
<1> DEFINE a == AllPassed(s, Wanted, b, e)
<1>1. s \in Seq(Tags(V)) /\ f \in Tags(V)
  BY MoversTags DEF Movers
<1>2. AllPassed(Append(s, f), Wanted, b, e) = Append(a, f)
  BY <1>1, PassedThrough
<1>3. a \in Seq(Movers(V))
  BY PassedMovers
<1> HIDE DEF a
<1>4. Expanded(a) \in Seq(Tags(V)) /\ Expansion(f) \in Seq(Tags(V))
  BY <1>3, ExpandedLaws
<1>5. Expanded(Append(a, f)) = Joining(Expanded(a), Expansion(f))
  <2>1. \A F \in Seq(Movers(V)), t \in Movers(V) :
          Expanded(Append(F, t)) = Joining(Expanded(F), Expansion(t))
    BY ExpandedLaws
  <2> QED BY <1>3, <2>1
<1>6. IdsLess(Joining(Expanded(a), Expansion(f)), b)
        = Joining(IdsLess(Expanded(a), b), IdsLess(Expansion(f), b))
  BY <1>4, IdsLessJoined
<1>7. Kept(Append(s, f), b, e) = IdsLess(Expanded(Append(a, f)), b)
  BY <1>2 DEF Kept
<1>8. Kept(s, b, e) = IdsLess(Expanded(a), b)
  BY DEF Kept, a
<1> QED BY <1>5, <1>6, <1>7, <1>8

(* A tag that passes is kept at its place from begin on.                   *)
LEMMA KeptTag ==
  ASSUME NEW V, 0 \in V, NEW b \in Int, NEW e \in Int, NEW s \in Seq(Movers(V)),
         NEW f \in Movers(V), Passes(f, Wanted, b, e), f.type # "from"
  PROVE  Kept(Append(s, f), b, e) = Append(Kept(s, b, e), [f EXCEPT !.id = @ - b])
<1> DEFINE g == [f EXCEPT !.id = @ - b]
           C == Kept(s, b, e)
<1>1. f \in Tags(V) /\ <<>> \in Seq(Tags(V))
  BY DEF Movers
<1>2. g \in Tags(V)
  BY <1>1 DEF Tags
<1>3. IdsLess(<<f>>, b) = <<g>>
  BY DEF IdsLess
<1>4. Kept(Append(s, f), b, e) = Joining(C, IdsLess(<<f>>, b))
  <2>1. Expansion(f) = <<f>>
    BY DEF Expansion
  <2> QED BY <2>1, KeptThrough
<1>5. C \in Seq(Tags(V))
  BY KeptTyped
<1> HIDE DEF g, C
<1>6. C \o <<g>> = Append(C, g)
  BY <1>2, <1>5
<1> QED BY <1>3, <1>4, <1>6 DEF Joining, C, g

(* Of a move that passes, the tags it stands for are kept.                 *)
LEMMA KeptMove ==
  ASSUME NEW V, 0 \in V, NEW b \in Int, NEW e \in Int, NEW s \in Seq(Movers(V)),
         NEW f \in Movers(V), Passes(f, Wanted, b, e), f.type = "from"
  PROVE  Kept(Append(s, f), b, e)
           = WithRest(Kept(s, b, e), Left(f.val.log), f.val.id, f.id - b)
<1> DEFINE v == f.val.id
           F == Left(f.val.log)
           a == AllPassed(F, Rest, v, v + 1)
           n == v - f.id
           m == v - (f.id - b)
<1>1. f \in Tags(V) /\ f.val.log \in Seq(Tags(V)) /\ v \in Int /\ f.id \in Int
  BY Kinds DEF Movers, Mover
<1>2. F \in Seq(Tags(V))
  BY <1>1, LeftTyped
<1>3. n \in Int /\ v + 1 \in Int /\ n + b = m
  BY <1>1
<1>4. Expansion(f) = IdsLess(a, n)
  BY DEF Expansion, MovedHere, InForce, Rest
<1>5. Kept(Append(s, f), b, e) = Joining(Kept(s, b, e), IdsLess(Expansion(f), b))
  BY KeptThrough
<1>6. WithRest(Kept(s, b, e), F, v, f.id - b) = Joining(Kept(s, b, e), IdsLess(a, m))
  BY DEF WithRest, Joining
<1> HIDE DEF F, v, n, m
<1>7. a \in Seq(Tags(V))
  BY <1>1, <1>2, <1>3, PassedLaws
<1> HIDE DEF a
<1>8. IdsLess(IdsLess(a, n), b) = IdsLess(a, n + b)
  BY <1>3, <1>7, IdsLessTwice
<1> QED BY <1>3, <1>4, <1>5, <1>6, <1>8 DEF F, v

(* Which tags pass, and which of them say anything.                        *)
LEMMA WantedHolds ==
  ASSUME NEW V, NEW f \in Tags(V), NEW b \in Int, NEW e \in Int
  PROVE  /\ Passes(f, Wanted, b, e) =>
              /\ f.id - b \in Nat /\ f.id - b < e - b /\ b + (f.id - b) = f.id
              /\ f.type # "from" => Kind(f) \in Sorts
         /\ ~Passes(f, Wanted, b, e) =>
              \A i \in Nat, kind \in Sorts :
                i < e - b => ~(f.id = b + i /\ Holds(f, kind))
<1>1. f.id \in Int /\ (Kind(f) = "from" <=> f.type = "from")
  BY Kinds
<1>2. ASSUME Passes(f, Wanted, b, e)
      PROVE  /\ f.id - b \in Nat /\ f.id - b < e - b /\ b + (f.id - b) = f.id
             /\ f.type # "from" => Kind(f) \in Sorts
  BY <1>1, <1>2 DEF Passes, Wanted, Sorts
<1>3. ASSUME ~Passes(f, Wanted, b, e), NEW i \in Nat, NEW kind \in Sorts, i < e - b,
             f.id = b + i, Holds(f, kind)
      PROVE  FALSE
  <2>1. b <= f.id /\ f.id < e
    BY <1>3
  <2>2. Kind(f) \notin Wanted
    BY <1>3, <2>1 DEF Passes
  <2> QED BY <1>1, <1>3, <2>2 DEF Holds, Wanted, Sorts
<1> QED BY <1>2, <1>3

(* A name that is told is one.                                             *)
LEMMA NameTold ==
  ASSUME NEW V, NEW s \in Seq(Tags(V)), NEW j \in 1..Len(s), Kind(s[j]) = "name", NEW x,
         Told(s, s[j].id, "name", x)
  PROVE  x # <<>>
<1>1. s[j] \in Tags(V) /\ Holds(s[j], "name") /\ "name" \in Sorts
  BY DEF Holds, Sorts
<1>2. s[j].type # "from" /\ ~IsGone(s[j])
  BY <1>1, Kinds DEF IsGone
<1>3. Held(s[j], "name") # <<>>
  BY <1>1, <1>2, HeldIs
<1>4. x = Held(s[j], "name")
  BY <1>1 DEF Told
<1> QED BY <1>3, <1>4

(* What is told of an entry with a tag more, whatever it is.               *)
LEMMA ToldKept ==
  ASSUME NEW S, NEW s \in Seq(S), NEW f \in S, SaysOnce(Append(s, f)), NEW id
  PROVE  \A x : \A kind \in Sorts :
           /\ f.id = id /\ Holds(f, kind) /\ x = Held(f, kind) => Told(Append(s, f), id, kind, x)
           /\ ~(f.id = id /\ Holds(f, kind)) /\ Told(s, id, kind, x) =>
                Told(Append(s, f), id, kind, x)
           /\ f.id = id /\ Holds(f, kind) /\ Told(s, id, kind, x) => x = <<>>
  BY ToldMore

(* The rest of an entry is only told behind its name.                      *)
LEMMA NamedBefore ==
  ASSUME NEW V, NEW s \in Seq(Tags(V)), NEW f \in Tags(V), NamesFirst(Append(s, f)),
         NEW kind \in Rest, Holds(f, kind), NEW x, Told(s, f.id, "name", x)
  PROVE  x # <<>>
<1>1. PICK j \in 1..Len(s) : s[j].id = f.id /\ Kind(s[j]) = "name"
  BY FirstMore DEF Rest
<1> QED BY <1>1, NameTold

(* What is kept tells the entries after a tag that is not kept.            *)
LEMMA KeptStepOver ==
  ASSUME NEW V, 0 \in V, NEW b \in Nat, NEW e \in Int, NEW s \in Seq(Movers(V)),
         NEW f \in Movers(V), SaysOnce(Append(s, f)), NamesFirst(Append(s, f)),
         KeepsTold(V, s, b, e, Kept(s, b, e)), ~Passes(f, Wanted, b, e)
  PROVE  KeepsTold(V, Append(s, f), b, e, Kept(Append(s, f), b, e))
<1> DEFINE C == Kept(s, b, e)
           a == Append(s, f)
<1>1. b \in Int /\ f \in Tags(V)
  BY DEF Movers
<1>2. Kept(a, b, e) = C
  BY <1>1, KeptOver
<1>3. \A i \in Nat, kind \in Sorts : i < e - b => ~(f.id = b + i /\ Holds(f, kind))
  BY <1>1, WantedHolds
<1>4. ASSUME NEW i \in Nat, NEW kind \in Sorts, i < e - b, NEW x, Told(s, b + i, kind, x)
      PROVE  Told(a, b + i, kind, x)
  BY <1>3, <1>4, ToldKept
<1> HIDE DEF a, C
<1>5. KeepsTold(V, s, b, e, C)
  BY DEF C
<1>6. KeepsTold(V, a, b, e, C)
  BY <1>4, <1>5 DEF KeepsTold
<1> QED BY <1>2, <1>6 DEF a

(* What is kept tells the entries after a tag that is kept.                *)
LEMMA KeptStepTag ==
  ASSUME NEW V, 0 \in V, NEW b \in Nat, NEW e \in Int, NEW s \in Seq(Movers(V)),
         NEW f \in Movers(V), SaysOnce(Append(s, f)), NamesFirst(Append(s, f)),
         KeepsTold(V, s, b, e, Kept(s, b, e)), Passes(f, Wanted, b, e), f.type # "from"
  PROVE  KeepsTold(V, Append(s, f), b, e, Kept(Append(s, f), b, e))
<1> DEFINE C == Kept(s, b, e)
           a == Append(s, f)
           g == [f EXCEPT !.id = @ - b]
           at == f.id - b
           D == Kept(a, b, e)
<1>1. b \in Int /\ f \in Tags(V) /\ s \in Seq(Tags(V))
  BY MoversTags DEF Movers
<1>2. at \in Nat /\ at < e - b /\ b + at = f.id /\ Kind(f) \in Sorts
  BY <1>1, WantedHolds
<1>3. D = Append(C, g)
  BY <1>1, KeptTag
<1>4. g \in Tags(V) /\ g.id = at /\ g.type = f.type /\ g.val = f.val
  <2>1. f.id - b \in Int
    BY <1>2
  <2>2. f \in Tags(V)
    BY <1>1
  <2> QED BY <2>1, <2>2 DEF Tags
<1>5. KeepsTold(V, s, b, e, C)
  OBVIOUS
<1>6. \A i \in Nat : \A x : \A kind \in Sorts :
        /\ f.id = b + i /\ Holds(f, kind) /\ x = Held(f, kind) => Told(a, b + i, kind, x)
        /\ ~(f.id = b + i /\ Holds(f, kind)) /\ Told(s, b + i, kind, x) => Told(a, b + i, kind, x)
  BY <1>1, ToldKept
<1>7. \A kind \in Sorts : Holds(f, kind) <=> kind = Kind(f)
  BY DEF Holds
<1>8. "name" \in Sorts /\ (\A kind \in Sorts : kind # "name" => kind \in Rest)
  BY DEF Sorts, Rest
<1>9. \A x : Told(s, f.id, "name", x) => (Kind(f) = "name" <=> x = <<>>)
  <2> SUFFICES ASSUME NEW x, Told(s, f.id, "name", x)  PROVE Kind(f) = "name" <=> x = <<>>
    OBVIOUS
  <2>1. CASE Kind(f) = "name"
    <3>1. Holds(f, "name")
      BY <2>1 DEF Holds
    <3> QED BY <1>1, <1>8, <2>1, <3>1, ToldKept
  <2>2. CASE Kind(f) # "name"
    <3>1. Kind(f) \in Rest /\ Holds(f, Kind(f))
      BY <1>2, <1>7, <1>8, <2>2
    <3>2. x # <<>>
      BY <1>1, <3>1, NamedBefore
    <3> QED BY <2>2, <3>2
  <2> QED BY <2>1, <2>2
<1> HIDE DEF g, at, D, a, C
<1>10. Kind(g) = Kind(f) /\ \A kind : Held(g, kind) = Held(f, kind)
  BY <1>4, SameHeld
<1>11. C \in Seq(Tags(V)) /\ Sound(C)
  BY <1>5 DEF KeepsTold
<1>12. Told(s, b + at, "name", ValueAt(Replay(C), at, "name"))
  BY <1>2, <1>5, <1>8 DEF KeepsTold
<1>13. Kind(g) = "name" <=> ValueAt(Replay(C), g.id, "name") = <<>>
  BY <1>2, <1>4, <1>9, <1>10, <1>12
<1>14. /\ Append(C, g) \in Seq(Tags(V)) /\ Sound(Append(C, g))
       /\ \A i \in Nat, kind \in Sorts :
            ValueAt(Replay(Append(C, g)), i, kind)
              = IF i = g.id /\ kind = Kind(g) THEN Held(g, kind)
                ELSE ValueAt(Replay(C), i, kind)
  <2>1. g \in Tags(V) /\ Kind(g) \in Sorts /\ g.id \in Nat
    BY <1>2, <1>4, <1>10
  <2> QED BY <1>11, <1>13, <2>1, TagBehind, Zenon
<1>15. ASSUME NEW i \in Nat, NEW kind \in Sorts
       PROVE  IF i < e - b THEN Told(a, b + i, kind, ValueAt(Replay(D), i, kind))
              ELSE ValueAt(Replay(D), i, kind) = <<>>
  <2>1. CASE i = at /\ kind = Kind(f)
    <3>1. ValueAt(Replay(D), i, kind) = Held(f, kind)
      BY <1>3, <1>4, <1>10, <1>14, <2>1
    <3>2. f.id = b + i /\ Holds(f, kind)
      BY <1>2, <1>7, <2>1
    <3> QED BY <1>2, <1>6, <2>1, <3>1, <3>2
  <2>2. CASE ~(i = at /\ kind = Kind(f))
    <3>1. ValueAt(Replay(D), i, kind) = ValueAt(Replay(C), i, kind)
      BY <1>3, <1>4, <1>10, <1>14, <2>2
    <3>2. ~(f.id = b + i /\ Holds(f, kind))
      <4>1. f.id = b + i => i = at
        BY <1>1, <1>2
      <4> QED BY <1>7, <2>2, <4>1
    <3>3. IF i < e - b THEN Told(s, b + i, kind, ValueAt(Replay(C), i, kind))
          ELSE ValueAt(Replay(C), i, kind) = <<>>
      BY <1>5 DEF KeepsTold
    <3> QED BY <1>6, <3>1, <3>2, <3>3
  <2> QED BY <2>1, <2>2
<1>16. KeepsTold(V, a, b, e, D)
  BY <1>3, <1>14, <1>15 DEF KeepsTold
<1> QED BY <1>16 DEF a, D

(* What is kept tells the entries after a move, of which the tags are      *)
(* kept.                                                                   *)
LEMMA KeptStepMove ==
  ASSUME NEW V, 0 \in V, NEW b \in Nat, NEW e \in Int, NEW s \in Seq(Movers(V)),
         NEW f \in Movers(V), SaysOnce(Append(s, f)), NamesFirst(Append(s, f)),
         KeepsTold(V, s, b, e, Kept(s, b, e)), Passes(f, Wanted, b, e), f.type = "from"
  PROVE  KeepsTold(V, Append(s, f), b, e, Kept(Append(s, f), b, e))
<1> DEFINE C == Kept(s, b, e)
           a == Append(s, f)
           at == f.id - b
           D == Kept(a, b, e)
           log == f.val.log
           v == f.val.id
           F == Left(log)
<1>1. b \in Int /\ f \in Tags(V) /\ s \in Seq(Tags(V))
  BY MoversTags DEF Movers
<1>2. at \in Nat /\ at < e - b /\ b + at = f.id
  BY <1>1, WantedHolds
<1>3. D = WithRest(C, F, v, at)
  BY <1>1, KeptMove
<1>4. Mover(V, f) /\ log \in Seq(Tags(V)) /\ Sound(log) /\ v \in Nat /\ v \in Int
  BY DEF Movers, Mover
<1>5. KeepsTold(V, s, b, e, C)
  OBVIOUS
<1>6. \A i \in Nat : \A x : \A kind \in Sorts :
        /\ f.id = b + i /\ Holds(f, kind) /\ x = Held(f, kind) => Told(a, b + i, kind, x)
        /\ ~(f.id = b + i /\ Holds(f, kind)) /\ Told(s, b + i, kind, x) => Told(a, b + i, kind, x)
        /\ f.id = b + i /\ Holds(f, kind) /\ Told(s, b + i, kind, x) => x = <<>>
  BY <1>1, ToldKept
<1>7. \A kind \in Sorts : Holds(f, kind) <=> kind \in Rest
  <2>1. Kind(f) = "from"
    BY <1>1, Kinds
  <2> QED BY <2>1 DEF Holds, Sorts, Rest
<1>8. Rest \subseteq Sorts /\ "name" \in Sorts /\ "struct" \in Rest
  BY DEF Sorts, Rest
<1>9. \A kind \in Rest : Held(f, kind) = ValueAt(Replay(log), v, kind)
  BY <1>4, <1>8, BroughtFrom DEF Held
<1>10. Passable(V, log) /\ Unmoved(log)
  BY <1>4, SoundPassable
<1> HIDE DEF at, D, C, log, v
<1>11. F \in Seq(Tags(V)) /\ Unmoved(F)
  BY <1>4, <1>10, LeftTyped
<1>12. Shows(F, Replay(log))
  BY <1>4, <1>10, LeftShows
<1> HIDE DEF F
<1>13. SaysOnce(F)
  BY <1>12 DEF Shows
<1>14. C \in Seq(Tags(V)) /\ Sound(C)
  BY <1>5 DEF KeepsTold
<1>15. \A kind \in Sorts : Told(s, b + at, kind, ValueAt(Replay(C), at, kind))
  BY <1>2, <1>5 DEF KeepsTold
<1>16. ValueAt(Replay(C), at, "name") # <<>>
  <2>1. Told(s, f.id, "name", ValueAt(Replay(C), at, "name"))
    BY <1>2, <1>8, <1>15
  <2>2. Holds(f, "struct")
    BY <1>7, <1>8
  <2> QED BY <1>1, <1>8, <2>1, <2>2, NamedBefore
<1>17. \A kind \in Rest : ValueAt(Replay(C), at, kind) = <<>>
  BY <1>2, <1>6, <1>7, <1>8, <1>15
<1>18. RestIs(V, C, F, v, at, D)
  <2>1. \A r \in Seq(Tags(V)) : Unmoved(r) /\ SaysOnce(r) =>
          RestIs(V, C, r, v, at, WithRest(C, r, v, at))
    BY <1>2, <1>4, <1>14, <1>16, <1>17, MovedIn
  <2> QED BY <1>3, <1>11, <1>13, <2>1
<1> HIDE DEF a
<1>19. ASSUME NEW i \in Nat, NEW kind \in Sorts
       PROVE  IF i < e - b THEN Told(a, b + i, kind, ValueAt(Replay(D), i, kind))
              ELSE ValueAt(Replay(D), i, kind) = <<>>
  <2>1. CASE i = at /\ kind \in Rest
    <3>1. Told(F, v, kind, ValueAt(Replay(D), i, kind))
      BY <1>18, <2>1 DEF RestIs
    <3>2. ValueAt(Replay(D), i, kind) = ValueAt(Replay(log), v, kind)
      BY <1>4, <1>12, <3>1, ToldShown
    <3>3. ValueAt(Replay(D), i, kind) = Held(f, kind)
      BY <1>9, <2>1, <3>2
    <3>4. f.id = b + i /\ Holds(f, kind)
      BY <1>2, <1>7, <2>1
    <3> QED BY <1>2, <1>6, <2>1, <3>3, <3>4
  <2>2. CASE ~(i = at /\ kind \in Rest)
    <3>1. ValueAt(Replay(D), i, kind) = ValueAt(Replay(C), i, kind)
      BY <1>18, <2>2 DEF RestIs
    <3>2. ~(f.id = b + i /\ Holds(f, kind))
      <4>1. f.id = b + i => i = at
        BY <1>1, <1>2
      <4> QED BY <1>7, <2>2, <4>1
    <3>3. IF i < e - b THEN Told(s, b + i, kind, ValueAt(Replay(C), i, kind))
          ELSE ValueAt(Replay(C), i, kind) = <<>>
      BY <1>5 DEF KeepsTold
    <3> QED BY <1>6, <3>1, <3>2, <3>3
  <2> QED BY <2>1, <2>2
<1>20. KeepsTold(V, a, b, e, D)
  BY <1>18, <1>19 DEF KeepsTold, RestIs
<1> QED BY <1>20 DEF a, D

(* What is kept of tags that say everything once, names first.             *)
LEMMA KeptTells ==
  ASSUME NEW V, 0 \in V, NEW b \in Nat, NEW e \in Int
  PROVE  \A s \in Seq(Movers(V)) : SaysOnce(s) /\ NamesFirst(s) =>
           KeepsTold(V, s, b, e, Kept(s, b, e))
<1> DEFINE G == {s \in Seq(Movers(V)) : SaysOnce(s) /\ NamesFirst(s) =>
                   KeepsTold(V, s, b, e, Kept(s, b, e))}
<1>1. <<>> \in G
  <2>1. <<>> \in Seq(Movers(V)) /\ <<>> \in Seq(Tags(V)) /\ Len(<<>>) = 0
    OBVIOUS
  <2>2. Kept(<<>>, b, e) = <<>>
    <3>1. b \in Int
      OBVIOUS
    <3> QED BY <3>1, KeptTyped
  <2>3. \A i \in Nat : \A kind : ValueAt(Replay(<<>>), i, kind) = <<>>
    BY <2>1, ReplayLaws DEF ValueAt
  <2>4. \A i, kind : Told(<<>>, i, kind, <<>>)
    BY DEF Told
  <2>5. KeepsTold(V, <<>>, b, e, <<>>)
    BY <2>1, <2>3, <2>4, SoundNone DEF KeepsTold
  <2> QED BY <2>1, <2>2, <2>5
<1>2. ASSUME NEW s \in Seq(Movers(V)), NEW f \in Movers(V), s \in G
      PROVE  Append(s, f) \in G
  <2>1. Append(s, f) \in Seq(Movers(V))
    OBVIOUS
  <2> SUFFICES ASSUME SaysOnce(Append(s, f)), NamesFirst(Append(s, f))
               PROVE  KeepsTold(V, Append(s, f), b, e, Kept(Append(s, f), b, e))
    BY <2>1
  <2>2. SaysOnce(s) /\ NamesFirst(s)
    BY OnceMore, FirstMore
  <2>3. KeepsTold(V, s, b, e, Kept(s, b, e))
    BY <1>2, <2>2
  <2>4. CASE ~Passes(f, Wanted, b, e)
    BY <2>3, <2>4, KeptStepOver
  <2>5. CASE Passes(f, Wanted, b, e) /\ f.type # "from"
    BY <2>3, <2>5, KeptStepTag
  <2>6. CASE Passes(f, Wanted, b, e) /\ f.type = "from"
    BY <2>3, <2>6, KeptStepMove
  <2> QED BY <2>4, <2>5, <2>6
<1> HIDE DEF G
<1>3. \A s \in Seq(Movers(V)) : s \in G
  BY <1>1, <1>2, SeqInduction
<1> QED BY <1>3 DEF G

(* lfs_dir_compact writes a sound log, which stands for the entries from   *)
(* begin up to end of the one it was made from, with the attributes behind *)
(* it, and for nothing else.                                               *)
THEOREM CompactedIsReplayed ==
  ASSUME NEW V, 0 \in V, NEW log, NEW attrs, Typed(V, log \o attrs),
         Traversable(log \o attrs), NEW begin \in Nat, NEW end \in Int
  PROVE  /\ Compacted(log, attrs, begin, end) \in Seq(Tags(V))
         /\ Sound(Compacted(log, attrs, begin, end))
         /\ \A i \in Nat, kind \in Sorts :
              ValueAt(Replay(Compacted(log, attrs, begin, end)), i, kind)
                = IF i < end - begin THEN ValueAt(Replay(log \o attrs), begin + i, kind)
                  ELSE <<>>
<1> DEFINE all == log \o attrs
           s == Left(all)
           C == Kept(s, begin, end)
<1>1. Compacted(log, attrs, begin, end) = C
  BY DEF Compacted, InForce, Kept, Wanted
<1>2. all \in Seq(Tags(V)) /\ Passable(V, all)
  <2>1. all \in Seq(Tags(V))
    BY DEF Typed
  <2>2. Passable(V, all)
    BY TraversablePassable
  <2> QED BY <2>1, <2>2
<1> HIDE DEF all, C
<1>3. s \in Seq(Movers(V)) /\ Shows(s, Replay(all))
  <2>1. s \in Seq(Movers(V))
    BY <1>2, LeftMovers
  <2>2. Shows(s, Replay(all))
    BY <1>2, LeftShows
  <2> QED BY <2>1, <2>2
<1>4. SaysOnce(s) /\ NamesFirst(s)
  BY <1>3 DEF Shows
<1> HIDE DEF s
<1>5. KeepsTold(V, s, begin, end, C)
  BY <1>3, <1>4, KeptTells DEF C
<1>6. \A i \in Nat, kind \in Sorts :
        ValueAt(Replay(C), i, kind)
          = IF i < end - begin THEN ValueAt(Replay(all), begin + i, kind) ELSE <<>>
  <2> SUFFICES ASSUME NEW i \in Nat, NEW kind \in Sorts
               PROVE  ValueAt(Replay(C), i, kind)
                        = IF i < end - begin THEN ValueAt(Replay(all), begin + i, kind) ELSE <<>>
    OBVIOUS
  <2>1. IF i < end - begin THEN Told(s, begin + i, kind, ValueAt(Replay(C), i, kind))
        ELSE ValueAt(Replay(C), i, kind) = <<>>
    BY <1>5 DEF KeepsTold
  <2>2. begin + i \in Nat
    OBVIOUS
  <2> QED BY <1>3, <2>1, <2>2, ToldShown
<1> QED BY <1>1, <1>5, <1>6 DEF KeepsTold, all

(* Of a sound log, what lfs_dir_get reads is what a replay shows.          *)
LEMMA GetIsValue ==
  ASSUME NEW V, NEW log \in Seq(Tags(V)), Sound(log), NEW kind \in Sorts, NEW i \in Nat,
         i < NoId
  PROVE  Get(log, kind, i, NoId) = ValueAt(Replay(log), i, kind)
<1>1. Lookup(log, kind, i, NoId) = Search(log, Sought(kind, i)).found
  <2>1. ~(NoId <= i)
    BY DEF NoId
  <2> QED BY <2>1 DEF Lookup
<1>2. Get(log, kind, i, NoId) = Seen(kind, Search(log, Sought(kind, i)).found)
  BY <1>1 DEF Get, Seen
<1> QED BY <1>2, SearchIsReplayed

(* What was read of an entry before a compaction (lfs_dir_compact) is read *)
(* after it, at its place from begin on, and nothing else.                 *)
THEOREM CompactionKeepsReads ==
  ASSUME NEW V, 0 \in V, NEW log \in Seq(Tags(V)), Sound(log),
         NEW begin \in Nat, NEW end \in Int
  PROVE  \A i \in Nat, kind \in Sorts : begin + i < NoId =>
           Get(Compacted(log, <<>>, begin, end), kind, i, NoId)
             = IF i < end - begin THEN Get(log, kind, begin + i, NoId) ELSE <<>>
<1> DEFINE C == Compacted(log, <<>>, begin, end)
           s == Left(log)
<1>1. Passable(V, log) /\ log \o <<>> = log
  BY SoundPassable
<1>2. C = Kept(s, begin, end)
  BY <1>1 DEF Compacted, InForce, Kept, Wanted
<1>3. s \in Seq(Movers(V)) /\ Shows(s, Replay(log))
  <2>1. s \in Seq(Movers(V))
    BY <1>1, LeftMovers
  <2>2. Shows(s, Replay(log))
    BY <1>1, LeftShows
  <2> QED BY <2>1, <2>2
<1> HIDE DEF s, C
<1>4. KeepsTold(V, s, begin, end, C)
  <2>1. SaysOnce(s) /\ NamesFirst(s)
    BY <1>3 DEF Shows
  <2> QED BY <1>2, <1>3, <2>1, KeptTells
<1>5. ASSUME NEW i \in Nat, NEW kind \in Sorts, begin + i < NoId
      PROVE  Get(C, kind, i, NoId)
               = IF i < end - begin THEN Get(log, kind, begin + i, NoId) ELSE <<>>
  <2>1. begin + i \in Nat /\ i < NoId
    BY <1>5 DEF NoId
  <2>2. C \in Seq(Tags(V)) /\ Sound(C)
    BY <1>4 DEF KeepsTold
  <2>3. Get(C, kind, i, NoId) = ValueAt(Replay(C), i, kind)
    BY <2>1, <2>2, GetIsValue
  <2>4. Get(log, kind, begin + i, NoId) = ValueAt(Replay(log), begin + i, kind)
    BY <1>5, <2>1, GetIsValue
  <2>5. IF i < end - begin THEN Told(s, begin + i, kind, ValueAt(Replay(C), i, kind))
        ELSE ValueAt(Replay(C), i, kind) = <<>>
    BY <1>4 DEF KeepsTold
  <2>6. i < end - begin => ValueAt(Replay(C), i, kind) = ValueAt(Replay(log), begin + i, kind)
    BY <1>3, <2>1, <2>5, ToldShown
  <2> QED BY <2>3, <2>4, <2>5, <2>6
<1> QED BY <1>5 DEF C

(***************************************************************************)
(* The scan for a name.                                                    *)
(***************************************************************************)
SameNames(es, new) ==
  /\ Len(new) = Len(es)
  /\ \A i \in Nat : Named(new, i) = Named(es, i) /\ NameAt(new, i) = NameAt(es, i)

NamesWith(es, new, id, name) ==
  /\ id \in Nat /\ ~Named(es, id)
  /\ Len(new) = IF id >= Len(es) THEN id + 1 ELSE Len(es)
  /\ Named(new, id) /\ NameAt(new, id) = name
  /\ \A i \in Nat : i # id =>
       Named(new, i) = Named(es, i) /\ NameAt(new, i) = NameAt(es, i)

NamesCreated(es, new, id) ==
  /\ id \in 0..Len(es) /\ Len(new) = Len(es) + 1 /\ ~Named(new, id)
  /\ \A i \in Nat : i < id => Named(new, i) = Named(es, i) /\ NameAt(new, i) = NameAt(es, i)
  /\ \A i \in Nat : i >= id =>
       Named(new, i + 1) = Named(es, i) /\ NameAt(new, i + 1) = NameAt(es, i)

NamesDeleted(es, new, id) ==
  /\ id \in 0..Len(es) - 1 /\ Len(new) = Len(es) - 1
  /\ \A i \in Nat : i < id => Named(new, i) = Named(es, i) /\ NameAt(new, i) = NameAt(es, i)
  /\ \A i \in Nat : i >= id =>
       Named(new, i) = Named(es, i + 1) /\ NameAt(new, i) = NameAt(es, i + 1)

(* Entries with the same name are both named, or not.                      *)
LEMMA SameNamed ==
  ASSUME NEW es, NEW new, NEW i, NEW j, ValueAt(new, i, "name") = ValueAt(es, j, "name")
  PROVE  Named(new, i) = Named(es, j) /\ NameAt(new, i) = NameAt(es, j)
  BY DEF Named, NameAt

(* What a tag does to the names.                                           *)
LEMMA NamesAfter ==
  ASSUME NEW V, NEW es \in Seq(Entries(V)), NEW t \in Tags(V), Fit(es, t)
  PROVE  \/ t.type = "create" /\ NamesCreated(es, Applied(es, t), t.id)
         \/ t.type = "delete" /\ NamesDeleted(es, Applied(es, t), t.id)
         \/ Kind(t) = "name" /\ NamesWith(es, Applied(es, t), t.id, t.val)
         \/ Kind(t) \notin {"name", "splice"} /\ SameNames(es, Applied(es, t))
<1> DEFINE new == Applied(es, t)
<1>1. new \in Seq(Entries(V)) /\ Len(new) = Counted(Len(es), t) /\ Len(es) \in Nat
  BY AppliedTyped
<1>2. "name" \in Sorts
  BY DEF Sorts
<1>3. CASE t.type = "create"
  <2>1. /\ t.id \in 0..Len(es) /\ Kind(t) = "splice" /\ new = InsertAt(es, t.id + 1, NoEntry)
    BY <1>3, FitCases, Kinds
  <2>2. Len(new) = Len(es) + 1
    BY <1>1, <1>3, <2>1 DEF Counted, Splice
  <2>3. \A i \in Nat : ValueAt(new, i, "name") = IF i < t.id THEN ValueAt(es, i, "name")
                                                ELSE IF i = t.id THEN <<>>
                                                ELSE ValueAt(es, i - 1, "name")
    BY <1>2, <2>1, CreatedValue
  <2> HIDE DEF new
  <2>4. t.id \in Nat
    BY <2>1
  <2>5. ~Named(new, t.id)
    BY <2>3, <2>4 DEF Named
  <2>6. ASSUME NEW i \in Nat, i < t.id
        PROVE  Named(new, i) = Named(es, i) /\ NameAt(new, i) = NameAt(es, i)
    BY <2>3, <2>6, SameNamed
  <2>7. ASSUME NEW i \in Nat, i >= t.id
        PROVE  Named(new, i + 1) = Named(es, i) /\ NameAt(new, i + 1) = NameAt(es, i)
    <3>1. i + 1 \in Nat /\ ~(i + 1 < t.id) /\ i + 1 # t.id /\ (i + 1) - 1 = i
      BY <2>4, <2>7
    <3>2. ValueAt(new, i + 1, "name") = ValueAt(es, i, "name")
      BY <2>3, <3>1
    <3> QED BY <3>2, SameNamed
  <2> QED BY <1>3, <2>1, <2>2, <2>5, <2>6, <2>7 DEF NamesCreated, new
<1>4. CASE t.type = "delete"
  <2>1. /\ t.id \in 0..Len(es) - 1 /\ Kind(t) = "splice" /\ new = RemoveAt(es, t.id + 1)
    BY <1>4, FitCases, Kinds
  <2>2. Len(new) = Len(es) - 1
    BY <1>1, <1>4, <2>1 DEF Counted, Splice
  <2>3. \A i \in Nat : ValueAt(new, i, "name") = ValueAt(es, IF i < t.id THEN i ELSE i + 1, "name")
    BY <1>2, <2>1, DeletedValue
  <2> HIDE DEF new
  <2>4. t.id \in Nat
    BY <2>1
  <2>6. ASSUME NEW i \in Nat, i < t.id
        PROVE  Named(new, i) = Named(es, i) /\ NameAt(new, i) = NameAt(es, i)
    BY <2>3, <2>6, SameNamed
  <2>7. ASSUME NEW i \in Nat, i >= t.id
        PROVE  Named(new, i) = Named(es, i + 1) /\ NameAt(new, i) = NameAt(es, i + 1)
    <3>1. ~(i < t.id)
      BY <2>4, <2>7
    <3>2. ValueAt(new, i, "name") = ValueAt(es, i + 1, "name")
      BY <2>3, <3>1
    <3> QED BY <3>2, SameNamed
  <2> QED BY <1>4, <2>1, <2>2, <2>6, <2>7 DEF NamesDeleted, new
<1>5. CASE Kind(t) = "name"
  <2>1. t.id \in Nat /\ ValueAt(es, t.id, "name") = <<>> /\ t.type # "from"
    BY <1>5, FitCases, Kinds
  <2>2. Len(new) = IF t.id >= Len(es) THEN t.id + 1 ELSE Len(es)
    BY <1>1, <1>5 DEF Counted
  <2>3. \A i \in Nat : ValueAt(new, i, "name") = IF i = t.id THEN Held(t, "name")
                                                ELSE ValueAt(es, i, "name")
    BY <1>2, <1>5, AppliedValue
  <2>4. Held(t, "name") = <<t.val>>
    BY <2>1, SeenOfOne DEF Held
  <2> HIDE DEF new
  <2>5. Named(new, t.id) /\ NameAt(new, t.id) = t.val /\ ~Named(es, t.id)
    <3>1. ValueAt(new, t.id, "name") = <<t.val>>
      BY <2>1, <2>3, <2>4
    <3>2. <<t.val>> # <<>> /\ <<t.val>>[1] = t.val
      OBVIOUS
    <3> QED BY <2>1, <3>1, <3>2 DEF Named, NameAt
  <2>6. ASSUME NEW i \in Nat, i # t.id
        PROVE  Named(new, i) = Named(es, i) /\ NameAt(new, i) = NameAt(es, i)
    BY <2>3, <2>6, SameNamed
  <2> QED BY <1>5, <2>1, <2>2, <2>5, <2>6 DEF NamesWith, new
<1>6. CASE t.type \notin {"create", "delete"} /\ Kind(t) # "name"
  <2>1. Kind(t) \notin {"name", "splice"}
    BY <1>6, Kinds
  <2>2. Len(new) = Len(es)
    BY <1>1, <2>1 DEF Counted
  <2>3. \A i \in Nat : ValueAt(new, i, "name") = ValueAt(es, i, "name")
    <3>1. CASE Kind(t) \in {"struct", "attr"}
      <4>1. Kind(t) \in Sorts /\ Kind(t) # "name"
        BY <3>1 DEF Sorts
      <4> QED BY <1>2, <4>1, AppliedValue
    <3>2. CASE Kind(t) \notin {"struct", "attr"}
      <4>1. new = es
        BY <2>1, <3>2, FitCases
      <4> QED BY <4>1
    <3> QED BY <3>1, <3>2
  <2> HIDE DEF new
  <2>4. ASSUME NEW i \in Nat
        PROVE  Named(new, i) = Named(es, i) /\ NameAt(new, i) = NameAt(es, i)
    BY <2>3, SameNamed
  <2> QED BY <2>1, <2>2, <2>4 DEF SameNames, new
<1> QED BY <1>3, <1>4, <1>5, <1>6

(* Where a scan is: at the name, in front of the first greater one, or     *)
(* nowhere as yet.                                                         *)
Place(es, log, id, name) ==
  /\ id \in 0..Len(es) /\ (id = Len(es) => ~Unspliced(log)) /\ (id < Len(es) => Named(es, id))
  /\ \A i \in Nat : Named(es, i) => IF i < id THEN NameAt(es, i) < name ELSE NameAt(es, i) > name

Tracks(es, log, best, name) ==
  /\ best \in [name : {name}, hit : BOOLEAN, id : Int]
  /\ \A i \in Nat : Named(es, i) => NameAt(es, i) \in Int
  /\ best.id = NoId => ~best.hit /\ \A i \in Nat : Named(es, i) => NameAt(es, i) < name
  /\ best.id # NoId /\ best.hit =>
       best.id \in Nat /\ Named(es, best.id) /\ NameAt(es, best.id) = name
  /\ best.id # NoId /\ ~best.hit => Place(es, log, best.id, name)

Ordered(es) ==
  \A i, j \in Nat : i < j /\ Named(es, i) /\ Named(es, j) => NameAt(es, i) < NameAt(es, j)

(* A name belongs to an entry there is.                                    *)
LEMMA NamedIn ==
  ASSUME NEW es, NEW i, Named(es, i)
  PROVE  i < Len(es)
  BY DEF Named, ValueAt

(* The order of the names, of any two entries.                             *)
LEMMA InOrderOrdered ==
  ASSUME NEW S, NEW es \in Seq(S), InOrder(es)
  PROVE  Ordered(es)
<1> SUFFICES ASSUME NEW i \in Nat, NEW j \in Nat, i < j, Named(es, i), Named(es, j)
             PROVE  NameAt(es, i) < NameAt(es, j)
  BY DEF Ordered
<1>1. i \in 0..Len(es) - 1 /\ j \in 0..Len(es) - 1
  BY NamedIn
<1> QED BY <1>1 DEF InOrder

(* A scan is nowhere when it has no id.                                    *)
LEMMA NowhereIs ==
  ASSUME NEW name, NEW best \in [name : {name}, hit : BOOLEAN, id : Int],
         best.id = NoId => ~best.hit
  PROVE  best = Nowhere(best.name) <=> best.id = NoId
<1>1. Nowhere(best.name).id = NoId
  BY DEF Nowhere
<1>2. ASSUME best.id = NoId  PROVE best = Nowhere(best.name)
  BY <1>2 DEF Nowhere
<1> QED BY <1>1, <1>2

(* A log was spliced, or is by one tag more.                               *)
LEMMA SplicedMore ==
  ASSUME NEW S, NEW log \in Seq(S), NEW t \in S
  PROVE  Unspliced(Append(log, t)) <=> Unspliced(log) /\ Kind(t) # "splice"
<1> DEFINE a == Append(log, t)
<1>1. /\ Len(a) = Len(log) + 1 /\ Len(log) \in Nat /\ a[Len(log) + 1] = t
      /\ \A k \in 1..Len(log) : a[k] = log[k]
  BY FirstOfMore
<1> HIDE DEF a
<1>2. ASSUME Unspliced(a)  PROVE Unspliced(log) /\ Kind(t) # "splice"
  <2>1. Len(log) + 1 \in 1..Len(a) /\ \A k \in 1..Len(log) : k \in 1..Len(a)
    BY <1>1
  <2> QED BY <1>1, <1>2, <2>1 DEF Unspliced
<1>3. ASSUME Unspliced(log), Kind(t) # "splice"  PROVE Unspliced(a)
  <2>1. ASSUME NEW k \in 1..Len(a)  PROVE Kind(a[k]) # "splice"
    <3>1. CASE k = Len(log) + 1
      BY <1>1, <1>3, <3>1
    <3>2. CASE k # Len(log) + 1
      <4>1. k \in 1..Len(log)
        BY <1>1, <3>2
      <4> QED BY <1>1, <1>3, <4>1 DEF Unspliced
    <3> QED BY <3>1, <3>2
  <2> QED BY <2>1 DEF Unspliced
<1> QED BY <1>2, <1>3 DEF a

(* A tag that leaves the names alone leaves the scan where it is.          *)
LEMMA SameTracks ==
  ASSUME NEW es, NEW new, NEW log, NEW after, NEW best, NEW name \in Int,
         Len(es) \in Nat, Tracks(es, log, best, name), SameNames(es, new),
         Unspliced(after) <=> Unspliced(log)
  PROVE  Tracks(new, after, best, name)
<1>1. Place(es, log, best.id, name) => Place(new, after, best.id, name)
  <2> SUFFICES ASSUME Place(es, log, best.id, name)  PROVE Place(new, after, best.id, name)
    OBVIOUS
  <2>1. best.id \in 0..Len(es) /\ Len(new) = Len(es)
    BY DEF Place, SameNames
  <2>2. best.id < Len(es) => Named(new, best.id)
    BY <2>1 DEF Place, SameNames
  <2> QED BY <2>1, <2>2 DEF Place, SameNames
<1> QED BY <1>1 DEF Tracks, SameNames

(* An entry that is created in front of the place of a scan, or at it,     *)
(* moves it up.                                                            *)
LEMMA CreateTracks ==
  ASSUME NEW es, NEW new, NEW log, NEW after, NEW best, NEW name \in Int, NEW at,
         Len(es) \in Nat, Tracks(es, log, best, name), NamesCreated(es, new, at),
         ~Unspliced(after), Len(new) < NoId
  PROVE  Tracks(new, after,
                IF best.id # NoId /\ at <= best.id THEN [best EXCEPT !.id = @ + 1] ELSE best,
                name)
<1> DEFINE b == IF best.id # NoId /\ at <= best.id THEN [best EXCEPT !.id = @ + 1] ELSE best
<1>0. /\ at \in Nat /\ at <= Len(es) /\ Len(new) = Len(es) + 1 /\ ~Named(new, at)
      /\ NoId \in Int
  BY DEF NamesCreated, NoId
<1>1. ASSUME NEW i \in Nat, Named(new, i)
      PROVE  \/ i < at /\ Named(es, i) /\ NameAt(new, i) = NameAt(es, i)
             \/ i > at /\ i - 1 \in Nat /\ Named(es, i - 1) /\ NameAt(new, i) = NameAt(es, i - 1)
  <2>1. i # at
    BY <1>0, <1>1
  <2>2. CASE i < at
    BY <1>1, <2>2 DEF NamesCreated
  <2>3. CASE i > at
    <3>1. i - 1 \in Nat /\ i - 1 >= at /\ (i - 1) + 1 = i
      BY <1>0, <2>3
    <3>2. Named(new, (i - 1) + 1) = Named(es, i - 1) /\ NameAt(new, (i - 1) + 1) = NameAt(es, i - 1)
      BY <3>1 DEF NamesCreated
    <3> QED BY <1>1, <2>3, <3>1, <3>2
  <2> QED BY <1>0, <2>1, <2>2, <2>3
<1>2. best \in [name : {name}, hit : BOOLEAN, id : Int]
  BY DEF Tracks
<1>3. \A i \in Nat : Named(new, i) => NameAt(new, i) \in Int
  BY <1>1 DEF Tracks
<1>4. CASE best.id = NoId
  <2>1. b = best /\ ~best.hit /\ \A i \in Nat : Named(es, i) => NameAt(es, i) < name
    BY <1>4 DEF Tracks
  <2>2. \A i \in Nat : Named(new, i) => NameAt(new, i) < name
    BY <1>1, <2>1
  <2> QED BY <1>2, <1>3, <1>4, <2>1, <2>2 DEF Tracks
<1>5. CASE best.id # NoId /\ best.hit
  <2>1. best.id \in Nat /\ Named(es, best.id) /\ NameAt(es, best.id) = name /\ best.id < Len(es)
    BY <1>5, NamedIn DEF Tracks
  <2>2. CASE at <= best.id
    <3>1. b = [best EXCEPT !.id = best.id + 1]
      BY <1>5, <2>2
    <3>2. /\ b \in [name : {name}, hit : BOOLEAN, id : Int] /\ b.id = best.id + 1 /\ b.hit
      BY <1>2, <1>5, <2>1, <3>1
    <3>3. Named(new, best.id + 1) /\ NameAt(new, best.id + 1) = name
      BY <2>1, <2>2 DEF NamesCreated
    <3>4. b.id \in Nat /\ b.id # NoId
      BY <1>0, <2>1, <3>2
    <3> HIDE DEF b
    <3>5. Tracks(new, after, b, name)
      BY <1>3, <3>2, <3>3, <3>4 DEF Tracks
    <3> QED BY <3>5 DEF b
  <2>3. CASE ~(at <= best.id)
    <3>1. b = best /\ best.id < at
      BY <1>0, <2>1, <2>3
    <3>2. Named(new, best.id) /\ NameAt(new, best.id) = name
      BY <2>1, <3>1 DEF NamesCreated
    <3> QED BY <1>2, <1>3, <1>5, <2>1, <3>1, <3>2 DEF Tracks
  <2> QED BY <2>2, <2>3
<1>6. CASE best.id # NoId /\ ~best.hit
  <2>1. Place(es, log, best.id, name)
    BY <1>6 DEF Tracks
  <2>2. best.id \in Nat /\ best.id <= Len(es) /\ (best.id < Len(es) => Named(es, best.id))
    BY <2>1 DEF Place
  <2>3. \A i \in Nat : Named(es, i) => IF i < best.id THEN NameAt(es, i) < name ELSE NameAt(es, i) > name
    BY <2>1 DEF Place
  <2>4. CASE at <= best.id
    <3>1. b = [best EXCEPT !.id = best.id + 1]
      BY <1>6, <2>4
    <3>2. /\ b \in [name : {name}, hit : BOOLEAN, id : Int] /\ b.id = best.id + 1 /\ ~b.hit
      BY <1>2, <1>6, <2>2, <3>1
    <3>3. best.id < Len(es) => Named(new, best.id + 1)
      BY <2>2, <2>4 DEF NamesCreated
    <3>4. \A i \in Nat : Named(new, i) =>
            IF i < best.id + 1 THEN NameAt(new, i) < name ELSE NameAt(new, i) > name
      <4> SUFFICES ASSUME NEW i \in Nat, Named(new, i)
                   PROVE  IF i < best.id + 1 THEN NameAt(new, i) < name ELSE NameAt(new, i) > name
        OBVIOUS
      <4>1. CASE i < at /\ Named(es, i) /\ NameAt(new, i) = NameAt(es, i)
        <5>1. i < best.id /\ i < best.id + 1
          BY <1>0, <2>2, <2>4, <4>1
        <5> QED BY <2>3, <4>1, <5>1
      <4>2. CASE i > at /\ i - 1 \in Nat /\ Named(es, i - 1) /\ NameAt(new, i) = NameAt(es, i - 1)
        <5>1. i - 1 < best.id <=> i < best.id + 1
          BY <2>2
        <5> QED BY <2>3, <4>2, <5>1
      <4> QED BY <1>1, <4>1, <4>2
    <3>5. best.id + 1 \in 0..Len(new) /\ (best.id + 1 < Len(new) => best.id < Len(es)) /\ b.id # NoId
      BY <1>0, <2>2, <3>2
    <3>6. Place(new, after, best.id + 1, name)
      BY <3>3, <3>4, <3>5 DEF Place
    <3> HIDE DEF b
    <3>7. Tracks(new, after, b, name)
      BY <1>3, <3>2, <3>5, <3>6 DEF Tracks
    <3> QED BY <3>7 DEF b
  <2>5. CASE ~(at <= best.id)
    <3>1. b = best /\ best.id < at /\ best.id < Len(es) /\ best.id \in 0..Len(new) /\ best.id # Len(new)
      BY <1>0, <2>2, <2>5
    <3>2. Named(new, best.id)
      BY <2>2, <3>1 DEF NamesCreated
    <3>4. \A i \in Nat : Named(new, i) =>
            IF i < best.id THEN NameAt(new, i) < name ELSE NameAt(new, i) > name
      <4> SUFFICES ASSUME NEW i \in Nat, Named(new, i)
                   PROVE  IF i < best.id THEN NameAt(new, i) < name ELSE NameAt(new, i) > name
        OBVIOUS
      <4>1. CASE i < at /\ Named(es, i) /\ NameAt(new, i) = NameAt(es, i)
        BY <2>3, <4>1
      <4>2. CASE i > at /\ i - 1 \in Nat /\ Named(es, i - 1) /\ NameAt(new, i) = NameAt(es, i - 1)
        <5>1. ~(i - 1 < best.id) /\ ~(i < best.id)
          BY <1>0, <2>2, <3>1, <4>2
        <5> QED BY <2>3, <4>2, <5>1
      <4> QED BY <1>1, <4>1, <4>2
    <3>5. Place(new, after, best.id, name)
      BY <3>1, <3>2, <3>4 DEF Place
    <3> QED BY <1>2, <1>3, <1>6, <3>1, <3>5 DEF Tracks
  <2> QED BY <2>4, <2>5
<1> QED BY <1>2, <1>4, <1>5, <1>6

AfterDelete(best, at) ==
  IF at = best.id THEN [best EXCEPT !.hit = FALSE]
  ELSE IF best.id # NoId /\ at <= best.id THEN [best EXCEPT !.id = @ - 1]
  ELSE best

(* An entry that is deleted in front of the place of a scan moves it down; *)
(* one deleted at it leaves the place to the next greater name.            *)
LEMMA DeleteTracks ==
  ASSUME NEW es, NEW new, NEW log, NEW after, NEW best, NEW name \in Int, NEW at,
         Len(es) \in Nat, Tracks(es, log, best, name), NamesDeleted(es, new, at),
         ~Unspliced(after), Len(es) < NoId, Ordered(es),
         \A i \in Nat : i < Len(es) => Named(es, i)
  PROVE  Tracks(new, after, AfterDelete(best, at), name)
<1> DEFINE b == AfterDelete(best, at)
<1>0. /\ at \in Nat /\ at < Len(es) /\ Len(new) = Len(es) - 1 /\ Len(new) \in Nat
      /\ NoId \in Int /\ at # NoId
  <2>1. at \in 0..Len(es) - 1 /\ Len(new) = Len(es) - 1
    BY DEF NamesDeleted
  <2>2. NoId \in Int
    BY DEF NoId
  <2> QED BY <2>1, <2>2
<1>1. ASSUME NEW i \in Nat, Named(new, i)
      PROVE  \/ i < at /\ Named(es, i) /\ NameAt(new, i) = NameAt(es, i)
             \/ i >= at /\ Named(es, i + 1) /\ NameAt(new, i) = NameAt(es, i + 1)
  <2>1. CASE i < at
    BY <1>1, <2>1 DEF NamesDeleted
  <2>2. CASE i >= at
    BY <1>1, <2>2 DEF NamesDeleted
  <2> QED BY <1>0, <2>1, <2>2
<1>n. \A i \in Nat : i < Len(new) => Named(new, i)
  <2> SUFFICES ASSUME NEW i \in Nat, i < Len(new)  PROVE Named(new, i)
    OBVIOUS
  <2>1. Named(es, i) /\ Named(es, i + 1)
    <3>1. i < Len(es) /\ i + 1 < Len(es) /\ i + 1 \in Nat
      BY <1>0
    <3> QED BY <3>1
  <2>2. CASE i < at
    BY <2>1, <2>2 DEF NamesDeleted
  <2>3. CASE i >= at
    BY <2>1, <2>3 DEF NamesDeleted
  <2> QED BY <1>0, <2>2, <2>3
<1>2. best \in [name : {name}, hit : BOOLEAN, id : Int]
  BY DEF Tracks
<1>3. \A i \in Nat : Named(new, i) => NameAt(new, i) \in Int
  BY <1>1 DEF Tracks
<1>4. CASE best.id = NoId
  <2>1. b = best /\ ~best.hit /\ \A i \in Nat : Named(es, i) => NameAt(es, i) < name
    BY <1>0, <1>4 DEF Tracks, AfterDelete
  <2>2. \A i \in Nat : Named(new, i) => NameAt(new, i) < name
    BY <1>1, <2>1
  <2> HIDE DEF b
  <2> QED BY <1>2, <1>3, <1>4, <2>1, <2>2 DEF Tracks, b
<1>5. CASE best.id # NoId
  <2> DEFINE id == best.id
  <2>1. /\ id \in Nat /\ id <= Len(es)
        /\ \A i \in Nat : Named(es, i) /\ i < id => NameAt(es, i) < name
        /\ \A i \in Nat : Named(es, i) /\ i > id => NameAt(es, i) > name
        /\ ~best.hit => \A i \in Nat : Named(es, i) /\ i >= id => NameAt(es, i) > name
        /\ best.hit => Named(es, id) /\ NameAt(es, id) = name /\ id < Len(es)
    <3>1. CASE best.hit
      <4>1. id \in Nat /\ Named(es, id) /\ NameAt(es, id) = name
        BY <1>5, <3>1 DEF Tracks
      <4>2. id < Len(es)
        BY <4>1, NamedIn
      <4>3. \A i \in Nat : Named(es, i) /\ i < id => NameAt(es, i) < name
        BY <4>1 DEF Ordered
      <4>4. \A i \in Nat : Named(es, i) /\ i > id => NameAt(es, i) > name
        <5> SUFFICES ASSUME NEW i \in Nat, Named(es, i), i > id  PROVE NameAt(es, i) > name
          OBVIOUS
        <5>1. NameAt(es, id) < NameAt(es, i)
          BY <4>1 DEF Ordered
        <5>2. NameAt(es, i) \in Int
          BY DEF Tracks
        <5> QED BY <4>1, <5>1, <5>2
      <4> QED BY <3>1, <4>1, <4>2, <4>3, <4>4
    <3>2. CASE ~best.hit
      <4>1. Place(es, log, id, name)
        BY <1>5, <3>2 DEF Tracks
      <4>2. id \in Nat /\ id <= Len(es)
        BY <4>1 DEF Place
      <4> QED BY <3>2, <4>1, <4>2 DEF Place
    <3> QED BY <1>2, <3>1, <3>2
  <2>2. CASE at = id
    <3>1. b = [best EXCEPT !.hit = FALSE]
      BY <2>2 DEF AfterDelete
    <3>2. b \in [name : {name}, hit : BOOLEAN, id : Int] /\ b.id = id /\ ~b.hit
      BY <1>2, <3>1
    <3> HIDE DEF b, id
    <3>3. \A i \in Nat : Named(new, i) => IF i < id THEN NameAt(new, i) < name ELSE NameAt(new, i) > name
      <4> SUFFICES ASSUME NEW i \in Nat, Named(new, i)
                   PROVE  IF i < id THEN NameAt(new, i) < name ELSE NameAt(new, i) > name
        OBVIOUS
      <4>1. CASE i < at /\ Named(es, i) /\ NameAt(new, i) = NameAt(es, i)
        BY <2>1, <2>2, <4>1
      <4>2. CASE i >= at /\ Named(es, i + 1) /\ NameAt(new, i) = NameAt(es, i + 1)
        <5>1. i + 1 \in Nat /\ i + 1 > id /\ ~(i < id)
          BY <2>1, <2>2, <4>2
        <5> QED BY <2>1, <4>2, <5>1
      <4> QED BY <1>1, <4>1, <4>2
    <3>4. id \in 0..Len(new)
      BY <1>0, <2>1, <2>2
    <3>5. Place(new, after, id, name)
      BY <1>0, <1>n, <3>3, <3>4 DEF Place
    <3> QED BY <1>3, <1>5, <3>2, <3>5 DEF Tracks, b, id
  <2>3. CASE at < id
    <3>1. b = [best EXCEPT !.id = id - 1]
      BY <1>5, <2>1, <1>0, <2>3 DEF AfterDelete
    <3>2. b \in [name : {name}, hit : BOOLEAN, id : Int] /\ b.id = id - 1 /\ b.hit = best.hit
      BY <1>2, <2>1, <3>1
    <3> HIDE DEF b, id
    <3>d. id - 1 \in Nat /\ (id - 1) + 1 = id /\ id - 1 >= at /\ id - 1 <= Len(new)
      BY <1>0, <2>1, <2>3
    <3>3. b.id # NoId
      BY <1>0, <2>1, <3>2, <3>d DEF NoId
    <3>4. CASE best.hit
      <4>1. Named(new, id - 1) /\ NameAt(new, id - 1) = name
        <5>1. Named(new, id - 1) = Named(es, (id - 1) + 1) /\ NameAt(new, id - 1) = NameAt(es, (id - 1) + 1)
          BY <3>d DEF NamesDeleted
        <5> QED BY <2>1, <3>4, <3>d, <5>1
      <4>2. Tracks(new, after, b, name)
        BY <1>3, <3>2, <3>3, <3>4, <3>d, <4>1 DEF Tracks
      <4> QED BY <4>2 DEF b
    <3>5. CASE ~best.hit
      <4>1. \A i \in Nat : Named(new, i) =>
              IF i < id - 1 THEN NameAt(new, i) < name ELSE NameAt(new, i) > name
        <5> SUFFICES ASSUME NEW i \in Nat, Named(new, i)
                     PROVE  IF i < id - 1 THEN NameAt(new, i) < name ELSE NameAt(new, i) > name
          OBVIOUS
        <5>1. CASE i < at /\ Named(es, i) /\ NameAt(new, i) = NameAt(es, i)
          <6>1. i < id - 1 /\ i < id
            BY <1>0, <2>1, <2>3, <5>1
          <6> QED BY <2>1, <5>1, <6>1
        <5>2. CASE i >= at /\ Named(es, i + 1) /\ NameAt(new, i) = NameAt(es, i + 1)
          <6>1. i + 1 \in Nat /\ (i + 1 < id <=> i < id - 1) /\ (i + 1 >= id <=> ~(i < id - 1))
            BY <2>1
          <6> QED BY <2>1, <3>5, <5>2, <6>1
        <5> QED BY <1>1, <5>1, <5>2
      <4>2. id - 1 \in 0..Len(new)
        BY <1>0, <3>d
      <4>3. Place(new, after, id - 1, name)
        BY <1>0, <1>n, <3>d, <4>1, <4>2 DEF Place
      <4>4. Tracks(new, after, b, name)
        BY <1>3, <3>2, <3>3, <3>5, <4>3 DEF Tracks
      <4> QED BY <4>4 DEF b
    <3> QED BY <1>2, <3>4, <3>5
  <2>4. CASE at > id
    <3>1. b = best
      BY <1>0, <2>1, <2>4 DEF AfterDelete
    <3>2. Named(new, id) = Named(es, id) /\ NameAt(new, id) = NameAt(es, id)
      BY <2>1, <2>4 DEF NamesDeleted
    <3> HIDE DEF b
    <3>4. CASE best.hit
      <4>1. Tracks(new, after, best, name)
        BY <1>2, <1>3, <1>5, <2>1, <3>2, <3>4 DEF Tracks
      <4> QED BY <3>1, <4>1 DEF b
    <3>5. CASE ~best.hit
      <4>1. \A i \in Nat : Named(new, i) =>
              IF i < id THEN NameAt(new, i) < name ELSE NameAt(new, i) > name
        <5> SUFFICES ASSUME NEW i \in Nat, Named(new, i)
                     PROVE  IF i < id THEN NameAt(new, i) < name ELSE NameAt(new, i) > name
          OBVIOUS
        <5>1. CASE i < at /\ Named(es, i) /\ NameAt(new, i) = NameAt(es, i)
          BY <2>1, <3>5, <5>1
        <5>2. CASE i >= at /\ Named(es, i + 1) /\ NameAt(new, i) = NameAt(es, i + 1)
          <6>1. i + 1 \in Nat /\ i + 1 >= id /\ ~(i < id)
            BY <1>0, <2>1, <2>4, <5>2
          <6> QED BY <2>1, <3>5, <5>2, <6>1
        <5> QED BY <1>1, <5>1, <5>2
      <4>2. id \in 0..Len(new)
        BY <1>0, <2>1, <2>4
      <4>3. Place(new, after, id, name)
        BY <1>0, <1>n, <2>1, <4>1, <4>2 DEF Place
      <4>4. Tracks(new, after, best, name)
        BY <1>2, <1>3, <1>5, <3>5, <4>3 DEF Tracks
      <4> QED BY <3>1, <4>4 DEF b
    <3> QED BY <1>2, <3>4, <3>5
  <2> QED BY <1>0, <2>1, <2>2, <2>3, <2>4
<1> QED BY <1>2, <1>4, <1>5

AfterName(best, at, val) ==
  IF val = best.name THEN [best EXCEPT !.hit = TRUE, !.id = at]
  ELSE IF at = best.id THEN Nowhere(best.name)
  ELSE IF val > best.name /\ at <= best.id THEN [best EXCEPT !.hit = FALSE, !.id = at]
  ELSE best

(* What a scan knows of the names around the place it is at.               *)
LEMMA AroundPlace ==
  ASSUME NEW es, NEW log, NEW best, NEW name \in Int, Len(es) \in Nat, Ordered(es),
         Tracks(es, log, best, name), best.id # NoId
  PROVE  /\ best.id \in Nat /\ best.id <= Len(es)
         /\ \A i \in Nat : Named(es, i) /\ i < best.id => NameAt(es, i) < name
         /\ \A i \in Nat : Named(es, i) /\ i > best.id => NameAt(es, i) > name
         /\ ~best.hit => \A i \in Nat : Named(es, i) /\ i >= best.id => NameAt(es, i) > name
         /\ best.hit => Named(es, best.id) /\ NameAt(es, best.id) = name /\ best.id < Len(es)
<1> DEFINE id == best.id
<1>1. CASE best.hit
  <2>1. id \in Nat /\ Named(es, id) /\ NameAt(es, id) = name
    BY <1>1 DEF Tracks
  <2>2. id < Len(es)
    BY <2>1, NamedIn
  <2>3. \A i \in Nat : Named(es, i) /\ i < id => NameAt(es, i) < name
    BY <2>1 DEF Ordered
  <2>4. \A i \in Nat : Named(es, i) /\ i > id => NameAt(es, i) > name
    <3> SUFFICES ASSUME NEW i \in Nat, Named(es, i), i > id  PROVE NameAt(es, i) > name
      OBVIOUS
    <3>1. NameAt(es, id) < NameAt(es, i)
      BY <2>1 DEF Ordered
    <3>2. NameAt(es, i) \in Int
      BY DEF Tracks
    <3> QED BY <2>1, <3>1, <3>2
  <2> QED BY <1>1, <2>1, <2>2, <2>3, <2>4
<1>2. CASE ~best.hit
  <2>1. Place(es, log, id, name)
    BY <1>2 DEF Tracks
  <2>2. id \in Nat /\ id <= Len(es)
    BY <2>1 DEF Place
  <2> QED BY <1>2, <2>1, <2>2 DEF Place
<1> QED BY <1>1, <1>2

(* A name is the one that is looked for, or is smaller, or is greater and  *)
(* then nearer or not.                                                     *)
LEMMA NameTracks ==
  ASSUME NEW es, NEW new, NEW log, NEW after, NEW best, NEW name \in Int, NEW at,
         NEW val \in Int, Len(es) \in Nat, Tracks(es, log, best, name),
         NamesWith(es, new, at, val), Unspliced(after) <=> Unspliced(log),
         at >= Len(es) => Unspliced(log), Ordered(es), Ordered(new), Len(new) < NoId
  PROVE  /\ Tracks(new, after, AfterName(best, at, val), name)
         /\ val < name => Tracks(new, after, best, name)
<1> DEFINE b == AfterName(best, at, val)
<1>0. /\ at \in Nat /\ at < Len(new) /\ Len(es) <= Len(new) /\ Len(new) \in Nat
      /\ NoId \in Int /\ at # NoId /\ ~Named(es, at) /\ Named(new, at) /\ NameAt(new, at) = val
  BY DEF NamesWith, NoId
<1>1. \A i \in Nat : i # at => Named(new, i) = Named(es, i) /\ NameAt(new, i) = NameAt(es, i)
  BY DEF NamesWith
<1>2. best \in [name : {name}, hit : BOOLEAN, id : Int]
  BY DEF Tracks
<1>3. \A i \in Nat : Named(new, i) => NameAt(new, i) \in Int
  BY <1>0, <1>1 DEF Tracks
<1>4. ASSUME best.id # NoId, ~best.hit
      PROVE  best.id < Len(es) \/ (at < Len(es) /\ best.id = Len(es))
  <2>1. Place(es, log, best.id, name)
    BY <1>4 DEF Tracks
  <2>2. best.id \in 0..Len(es) /\ (best.id = Len(es) => ~Unspliced(log))
    BY <2>1 DEF Place
  <2>3. at \in Nat
    BY <1>0
  <2> QED BY <2>2, <2>3
<1>5. best.id # at
  <2> SUFFICES ASSUME best.id = at  PROVE FALSE
    OBVIOUS
  <2>1. CASE best.hit
    BY <1>0, <2>1 DEF Tracks
  <2>2. CASE ~best.hit
    <3>1. Place(es, log, best.id, name)
      BY <1>0, <2>2 DEF Tracks
    <3>2. ~(best.id < Len(es))
      BY <1>0, <3>1 DEF Place
    <3> QED BY <1>0, <1>4, <2>2, <3>2
  <2> QED BY <1>2, <2>1, <2>2
<1>6. CASE val = name
  <2>1. b = [best EXCEPT !.hit = TRUE, !.id = at]
    BY <1>2, <1>6 DEF AfterName
  <2>2. b \in [name : {name}, hit : BOOLEAN, id : Int] /\ b.id = at /\ b.hit
    <3>1. at \in Int
      BY <1>0
    <3> HIDE DEF b
    <3>2. b \in [name : {name}, hit : BOOLEAN, id : Int]
      BY <1>2, <2>1, <3>1
    <3>3. b.id = at /\ b.hit = TRUE
      BY <1>2, <2>1
    <3> QED BY <3>2, <3>3
  <2> HIDE DEF b
  <2>3. Tracks(new, after, b, name)
    BY <1>0, <1>3, <1>6, <2>2 DEF Tracks
  <2> QED BY <1>6, <2>3 DEF b
<1>7. CASE val > name /\ at < best.id
  <2>1. b = [best EXCEPT !.hit = FALSE, !.id = at]
    BY <1>0, <1>2, <1>5, <1>7 DEF AfterName
  <2>2. b \in [name : {name}, hit : BOOLEAN, id : Int] /\ b.id = at /\ ~b.hit
    <3>1. at \in Int
      BY <1>0
    <3> HIDE DEF b
    <3>2. b \in [name : {name}, hit : BOOLEAN, id : Int]
      BY <1>2, <2>1, <3>1
    <3>3. b.id = at /\ b.hit = FALSE
      BY <1>2, <2>1
    <3> QED BY <3>2, <3>3
  <2> HIDE DEF b
  <2>3. \A i \in Nat : Named(new, i) /\ i >= at => NameAt(new, i) > name
    <3> SUFFICES ASSUME NEW i \in Nat, Named(new, i), i >= at  PROVE NameAt(new, i) > name
      OBVIOUS
    <3>1. CASE i = at
      BY <1>0, <1>7, <3>1
    <3>2. CASE i # at
      <4>1. NameAt(new, at) < NameAt(new, i)
        BY <1>0, <3>2 DEF Ordered
      <4> QED BY <1>0, <1>3, <1>7, <4>1
    <3> QED BY <3>1, <3>2
  <2>4. \A i \in Nat : Named(new, i) /\ i < at => NameAt(new, i) < name
    <3> SUFFICES ASSUME NEW i \in Nat, Named(new, i), i < at  PROVE NameAt(new, i) < name
      OBVIOUS
    <3>1. Named(es, i) /\ NameAt(new, i) = NameAt(es, i)
      BY <1>0, <1>1
    <3>2. CASE best.id = NoId
      BY <3>1, <3>2 DEF Tracks
    <3>3. CASE best.id # NoId
      <4>1. i < best.id
        BY <1>0, <1>2, <1>7
      <4>2. \A j \in Nat : Named(es, j) /\ j < best.id => NameAt(es, j) < name
        BY <3>3, AroundPlace
      <4> QED BY <3>1, <4>1, <4>2
    <3> QED BY <3>2, <3>3
  <2>5. Place(new, after, at, name)
    <3>1. at \in 0..Len(new) /\ at # Len(new)
      BY <1>0
    <3> QED BY <1>0, <2>3, <2>4, <3>1 DEF Place
  <2>6. Tracks(new, after, b, name)
    BY <1>0, <1>3, <2>2, <2>5 DEF Tracks
  <2> QED BY <1>7, <2>6 DEF b
<1>8. CASE val < name \/ (val > name /\ ~(at < best.id))
  <2>1. b = best
    <3>1. best.name = name
      BY <1>2
    <3> QED BY <1>0, <1>2, <1>5, <1>8, <3>1 DEF AfterName
  <2> HIDE DEF b
  <2>2. CASE best.id = NoId
    <3>1. ~best.hit /\ \A i \in Nat : Named(es, i) => NameAt(es, i) < name
      BY <2>2 DEF Tracks
    <3>2. val < name
      BY <1>0, <1>8, <2>2
    <3>3. \A i \in Nat : Named(new, i) => NameAt(new, i) < name
      BY <1>0, <1>1, <3>1, <3>2
    <3> QED BY <1>2, <1>3, <2>1, <2>2, <3>1, <3>3 DEF Tracks, b
  <2>3. CASE best.id # NoId /\ best.hit
    <3>1. best.id \in Nat /\ Named(es, best.id) /\ NameAt(es, best.id) = name
      BY <2>3 DEF Tracks
    <3>2. Named(new, best.id) /\ NameAt(new, best.id) = name
      BY <1>1, <1>5, <3>1
    <3> QED BY <1>2, <1>3, <2>1, <2>3, <3>1, <3>2 DEF Tracks, b
  <2>4. CASE best.id # NoId /\ ~best.hit
    <3>1. /\ best.id \in Nat /\ best.id <= Len(es)
          /\ \A i \in Nat : Named(es, i) /\ i < best.id => NameAt(es, i) < name
          /\ \A i \in Nat : Named(es, i) /\ i >= best.id => NameAt(es, i) > name
      BY <2>4, AroundPlace
    <3>2. best.id < Len(es) => Named(es, best.id)
      BY <2>4 DEF Tracks, Place
    <3>3. at < best.id <=> val < name
      <4>1. CASE best.id < Len(es)
        <5>1. /\ Named(new, best.id) /\ NameAt(new, best.id) = NameAt(es, best.id)
              /\ NameAt(es, best.id) > name /\ NameAt(es, best.id) \in Int
          BY <1>1, <1>5, <3>1, <3>2, <4>1 DEF Tracks
        <5>2. CASE val < name
          <6>1. ~(best.id < at)
            <7> SUFFICES ASSUME best.id < at  PROVE FALSE
              OBVIOUS
            <7>1. NameAt(new, best.id) < NameAt(new, at)
              BY <1>0, <3>1, <5>1 DEF Ordered
            <7> QED BY <1>0, <5>1, <5>2, <7>1
          <6> QED BY <1>0, <1>5, <3>1, <5>2, <6>1
        <5>3. CASE val > name /\ ~(at < best.id)
          BY <5>3
        <5> QED BY <1>8, <5>2, <5>3
      <4>2. CASE at < Len(es) /\ best.id = Len(es)
        BY <1>8, <4>2
      <4> QED BY <1>4, <2>4, <4>1, <4>2
    <3>4. \A i \in Nat : Named(new, i) =>
            IF i < best.id THEN NameAt(new, i) < name ELSE NameAt(new, i) > name
      <4> SUFFICES ASSUME NEW i \in Nat, Named(new, i)
                   PROVE  IF i < best.id THEN NameAt(new, i) < name ELSE NameAt(new, i) > name
        OBVIOUS
      <4>1. CASE i = at
        BY <1>0, <1>8, <3>3, <4>1
      <4>2. CASE i # at
        BY <1>1, <3>1, <4>2
      <4> QED BY <4>1, <4>2
    <3>5. /\ best.id \in 0..Len(new)
          /\ best.id = Len(new) => ~Unspliced(after)
          /\ best.id < Len(new) => Named(new, best.id)
      <4>1. CASE best.id < Len(es)
        <5>1. Named(new, best.id)
          BY <1>1, <1>5, <3>1, <3>2, <4>1
        <5> QED BY <1>0, <3>1, <4>1, <5>1
      <4>2. CASE at < Len(es) /\ best.id = Len(es)
        <5>1. Len(new) = Len(es)
          BY <4>2 DEF NamesWith
        <5>2. ~Unspliced(log)
          BY <2>4, <4>2 DEF Tracks, Place
        <5> QED BY <1>0, <3>1, <4>2, <5>1, <5>2
      <4> QED BY <1>4, <2>4, <4>1, <4>2
    <3>6. Place(new, after, best.id, name)
      BY <3>4, <3>5 DEF Place
    <3> QED BY <1>2, <1>3, <2>1, <2>4, <3>6 DEF Tracks, b
  <2> QED BY <1>2, <2>1, <2>2, <2>3, <2>4 DEF b
<1>9. best.id \in Int
  BY <1>2
<1>10. Tracks(new, after, b, name)
  BY <1>0, <1>6, <1>7, <1>8, <1>9
<1>11. val < name => b = best
  BY <1>2, <1>5 DEF AfterName
<1> QED BY <1>10, <1>11

(* A scan, one tag further.                                                *)
LEMMA ScanTracks ==
  ASSUME NEW V, NEW log \in Seq(Tags(V)), NEW t \in Tags(V), NEW best, NEW name \in Int,
         Replay(log) \in Seq(Entries(V)), Fit(Replay(log), t), Keeps(log, t),
         Ordered(Replay(log)), Len(Replay(log)) < NoId, t.type = "super" => t.val < name,
         Tracks(Replay(log), log, best, name)
  PROVE  Tracks(Replay(Append(log, t)), Append(log, t), ScanStep(best, t), name)
<1> DEFINE es == Replay(log)
           new == Applied(es, t)
           a == Append(log, t)
<1>1. Replay(a) = new
  BY ReplayLaws
<1>2. /\ t.type = "delete" => \A i \in 0..Len(es) - 1 : Named(es, i)
      /\ Kind(t) = "name" => t.val \in Int /\ (t.id >= Len(es) => Unspliced(log))
      /\ InOrder(new) /\ Len(new) < NoId
  BY DEF Keeps
<1>3. /\ es \in Seq(Entries(V)) /\ Len(es) \in Nat /\ Ordered(es) /\ Len(es) < NoId
      /\ Tracks(es, log, best, name)
  OBVIOUS
<1>4. Ordered(new)
  <2>1. new \in Seq(Entries(V))
    BY AppliedTyped
  <2> QED BY <1>2, <2>1, InOrderOrdered
<1>5. \/ t.type = "create" /\ NamesCreated(es, new, t.id)
      \/ t.type = "delete" /\ NamesDeleted(es, new, t.id)
      \/ Kind(t) = "name" /\ NamesWith(es, new, t.id, t.val)
      \/ Kind(t) \notin {"name", "splice"} /\ SameNames(es, new)
  BY NamesAfter
<1>6. Unspliced(a) <=> Unspliced(log) /\ Kind(t) # "splice"
  BY SplicedMore
<1> HIDE DEF es, new, a
<1>7. best \in [name : {name}, hit : BOOLEAN, id : Int] /\ (best.id = NoId => ~best.hit)
  BY <1>3 DEF Tracks
<1>8. best.name = name /\ (best = Nowhere(best.name) <=> best.id = NoId)
  BY <1>7, NowhereIs
<1>9. CASE t.type = "create" /\ NamesCreated(es, new, t.id)
  <2>1. Kind(t) = "splice" /\ Splice(t) = 1
    BY <1>9, Kinds DEF Splice
  <2>2. Nearer(best, t) = best
    BY <1>9 DEF Nearer
  <2>3. ScanStep(best, t) = IF best.id # NoId /\ t.id <= best.id THEN [best EXCEPT !.id = @ + 1]
                            ELSE best
    BY <1>8, <1>9, <2>1, <2>2 DEF ScanStep
  <2> QED BY <1>1, <1>2, <1>3, <1>6, <1>9, <2>1, <2>3, CreateTracks DEF a
<1>10. CASE t.type = "delete" /\ NamesDeleted(es, new, t.id)
  <2>1. Kind(t) = "splice" /\ Splice(t) = -1
    BY <1>10, Kinds DEF Splice
  <2>2. Nearer(best, t) = best
    BY <1>10 DEF Nearer
  <2>3. ScanStep(best, t) = AfterDelete(best, t.id)
    <3>1. CASE t.id = best.id
      BY <1>10, <3>1 DEF ScanStep, AfterDelete
    <3>2. CASE t.id # best.id /\ best.id # NoId /\ t.id <= best.id
      <4>1. ScanStep(best, t) = [best EXCEPT !.id = @ + Splice(t)]
        BY <1>8, <1>10, <2>1, <3>2 DEF ScanStep
      <4>2. best.id + Splice(t) = best.id - 1
        BY <1>7, <2>1
      <4> QED BY <3>2, <4>1, <4>2 DEF AfterDelete
    <3>3. CASE t.id # best.id /\ ~(best.id # NoId /\ t.id <= best.id)
      BY <1>8, <1>10, <2>1, <2>2, <3>3 DEF ScanStep, AfterDelete
    <3> QED BY <3>1, <3>2, <3>3
  <2>4. \A i \in Nat : i < Len(es) => Named(es, i)
    BY <1>2, <1>3, <1>10
  <2>5. ~Unspliced(a)
    BY <1>6, <2>1
  <2>6. Tracks(new, a, AfterDelete(best, t.id), name)
    BY <1>3, <1>10, <2>4, <2>5, DeleteTracks
  <2> QED BY <1>1, <2>3, <2>6 DEF a
<1>11. CASE Kind(t) = "name" /\ NamesWith(es, new, t.id, t.val)
  <2>1. Kind(t) # "splice" /\ t.type \in {"super", "reg"} /\ t.type # "delete"
    BY <1>11, Kinds
  <2>2. ScanStep(best, t) = Nearer(best, t)
    BY <2>1 DEF ScanStep
  <2>3. t.val \in Int /\ (t.id >= Len(es) => Unspliced(log)) /\ (Unspliced(a) <=> Unspliced(log))
    BY <1>2, <1>6, <1>11, <2>1
  <2>4. /\ Tracks(new, a, AfterName(best, t.id, t.val), name)
        /\ t.val < name => Tracks(new, a, best, name)
    <3>1. Len(new) < NoId
      BY <1>2
    <3> QED BY <1>3, <1>4, <1>11, <2>3, <3>1, NameTracks
  <2>5. CASE t.type = "super"
    <3>1. Nearer(best, t) = best
      BY <2>5 DEF Nearer
    <3> QED BY <1>1, <2>2, <2>4, <2>5, <3>1 DEF a
  <2>6. CASE t.type = "reg"
    <3>1. Nearer(best, t) = AfterName(best, t.id, t.val)
      BY <2>6 DEF Nearer, AfterName
    <3> QED BY <1>1, <2>2, <2>4, <3>1 DEF a
  <2> QED BY <2>1, <2>5, <2>6
<1>12. CASE Kind(t) \notin {"name", "splice"} /\ SameNames(es, new)
  <2>1. t.type # "delete" /\ t.type # "reg"
    BY <1>12, Kinds
  <2>2. ScanStep(best, t) = best
    BY <1>12, <2>1 DEF ScanStep, Nearer
  <2>3. Tracks(new, a, best, name)
    BY <1>3, <1>6, <1>12, SameTracks
  <2> QED BY <1>1, <2>2, <2>3 DEF a
<1> QED BY <1>5, <1>9, <1>10, <1>11, <1>12

(* A log that is orderly with a tag more was, and the tag keeps the order. *)
LEMMA OrderlyMore ==
  ASSUME NEW V, NEW log \in Seq(Tags(V)), NEW t \in Tags(V), Orderly(Append(log, t))
  PROVE  Orderly(log) /\ Keeps(log, t)
<1> DEFINE a == Append(log, t)
<1>1. /\ Len(a) = Len(log) + 1 /\ Len(log) \in Nat
      /\ a[Len(log) + 1] = t
      /\ \A k \in 1..Len(log) : a[k] = log[k]
      /\ \A k \in 0..Len(log) : First(a, k) = First(log, k)
  BY FirstOfMore
<1>2. First(log, Len(log)) = log
  BY WholeFirst
<1>3. Orderly(a)
  OBVIOUS
<1> HIDE DEF a
<1>4. Orderly(log)
  <2>1. ASSUME NEW k \in 1..Len(log)  PROVE Keeps(First(log, k - 1), log[k])
    <3>1. k - 1 \in 0..Len(log) /\ k \in 1..Len(a)
      BY <1>1
    <3> QED BY <1>1, <1>3, <3>1 DEF Orderly
  <2> QED BY <2>1 DEF Orderly
<1>5. Keeps(log, t)
  <2>1. Len(log) + 1 \in 1..Len(a) /\ (Len(log) + 1) - 1 = Len(log) /\ Len(log) \in 0..Len(log)
    BY <1>1
  <2> QED BY <1>1, <1>2, <1>3, <2>1 DEF Orderly
<1> QED BY <1>4, <1>5

(* The superblock entry has no name that is looked for.                    *)
Below(log, name) == \A k \in 1..Len(log) : log[k].type = "super" => log[k].val < name

(* If the superblock entry is below a name with a tag more, it was.        *)
LEMMA BelowMore ==
  ASSUME NEW S, NEW log \in Seq(S), NEW t \in S, NEW name, Below(Append(log, t), name)
  PROVE  Below(log, name) /\ (t.type = "super" => t.val < name)
<1> DEFINE a == Append(log, t)
<1>1. /\ Len(a) = Len(log) + 1 /\ Len(log) \in Nat /\ a[Len(log) + 1] = t
      /\ \A k \in 1..Len(log) : a[k] = log[k]
  BY FirstOfMore
<1>2. Below(a, name)
  OBVIOUS
<1> HIDE DEF a
<1>3. Len(log) + 1 \in 1..Len(a) /\ \A k \in 1..Len(log) : k \in 1..Len(a)
  BY <1>1
<1> QED BY <1>1, <1>2, <1>3 DEF Below

(* Scanning a sound and orderly log (lfs_dir_fetchmatch with               *)
(* lfs_dir_find_match), the scan is always where the name is or would be.  *)
LEMMA ScanTracksAll ==
  ASSUME NEW V, NEW name \in Int
  PROVE  \A log \in Seq(Tags(V)) : Sound(log) /\ Orderly(log) /\ Below(log, name) =>
           /\ Ordered(Replay(log)) /\ Len(Replay(log)) < NoId
           /\ Tracks(Replay(log), log, Scan(log, name), name)
<1> DEFINE P(log) == /\ Ordered(Replay(log)) /\ Len(Replay(log)) < NoId
                     /\ Tracks(Replay(log), log, Scan(log, name), name)
           G == {log \in Seq(Tags(V)) : Sound(log) /\ Orderly(log) /\ Below(log, name) => P(log)}
<1>1. <<>> \in G
  <2>1. <<>> \in Seq(Tags(V)) /\ Replay(<<>>) = <<>> /\ Scan(<<>>, name) = Nowhere(name)
    BY ReplayLaws, ScanLaws
  <2>2. \A i \in Nat : ~Named(<<>>, i)
    BY DEF Named, ValueAt
  <2>3. Ordered(<<>>) /\ Len(<<>>) < NoId
    BY <2>2 DEF Ordered, NoId
  <2>4. Tracks(<<>>, <<>>, Nowhere(name), name)
    <3>1. /\ Nowhere(name) \in [name : {name}, hit : BOOLEAN, id : Int]
          /\ Nowhere(name).id = NoId /\ ~Nowhere(name).hit
      BY DEF Nowhere, NoId
    <3> QED BY <2>2, <3>1 DEF Tracks
  <2> QED BY <2>1, <2>3, <2>4
<1>2. ASSUME NEW log \in Seq(Tags(V)), NEW t \in Tags(V), log \in G
      PROVE  Append(log, t) \in G
  <2>1. Append(log, t) \in Seq(Tags(V))
    OBVIOUS
  <2> SUFFICES ASSUME Sound(Append(log, t)), Orderly(Append(log, t)), Below(Append(log, t), name)
               PROVE  P(Append(log, t))
    BY <2>1
  <2>2. /\ Sound(log) /\ Fit(Replay(log), t) /\ Orderly(log) /\ Keeps(log, t)
        /\ Below(log, name) /\ (t.type = "super" => t.val < name)
    BY SoundMore, OrderlyMore, BelowMore
  <2>3. P(log)
    BY <1>2, <2>2
  <2>4. Replay(log) \in Seq(Entries(V))
    BY <2>2, CountIsReplayed
  <2>5. Replay(Append(log, t)) = Applied(Replay(log), t)
    BY ReplayLaws
  <2>6. Scan(Append(log, t), name) = ScanStep(Scan(log, name), t)
    BY ScanLaws
  <2>7. InOrder(Applied(Replay(log), t)) /\ Len(Applied(Replay(log), t)) < NoId
    BY <2>2 DEF Keeps
  <2>8. Ordered(Applied(Replay(log), t))
    <3>1. Applied(Replay(log), t) \in Seq(Entries(V))
      BY <2>2, <2>4, AppliedTyped
    <3> QED BY <2>7, <3>1, InOrderOrdered
  <2>9. Tracks(Replay(Append(log, t)), Append(log, t), ScanStep(Scan(log, name), t), name)
    BY <2>2, <2>3, <2>4, ScanTracks
  <2> QED BY <2>5, <2>6, <2>7, <2>8, <2>9
<1> HIDE DEF G
<1>3. \A log \in Seq(Tags(V)) : log \in G
  BY <1>1, <1>2, SeqInduction
<1> QED BY <1>3 DEF G

(* lfs_dir_fetchmatch with lfs_dir_find_match: the scan of a sound and     *)
(* orderly log ends at the entry of the name, if there is one, and else at *)
(* the place between the smaller and the greater names, where lfs_dir_find *)
(* lets a new entry be created; it stops unless every name is smaller.     *)
THEOREM MatchIsReplayed ==
  ASSUME NEW V, NEW log \in Seq(Tags(V)), Sound(log), Orderly(log), NEW name \in Int,
         Below(log, name)
  PROVE  LET m  == Match(log, name, NoId)
             es == Replay(log)
         IN  /\ m.hit => /\ m.id \in 0..CountOf(log) - 1 /\ m.stop
                         /\ ValueAt(es, m.id, "name") = <<name>>
             /\ ~m.hit => /\ m.id \in 0..CountOf(log) /\ (m.stop <=> m.id < CountOf(log))
                          /\ \A i \in Nat : Named(es, i) =>
                               IF i < m.id THEN NameAt(es, i) < name ELSE NameAt(es, i) > name
<1> DEFINE m == Match(log, name, NoId)
           es == Replay(log)
           best == Scan(log, name)
           n == CountOf(log)
<1>1. es \in Seq(Entries(V)) /\ Len(es) = n /\ n \in Nat
  BY CountIsReplayed
<1>2. Ordered(es) /\ n < NoId /\ Tracks(es, log, best, name)
  BY <1>1, ScanTracksAll
<1>3. m = Verdict(PastMove(best, NoId), n)
  BY DEF Match
<1> HIDE DEF m, es, best, n
<1>4. best \in [name : {name}, hit : BOOLEAN, id : Int] /\ (best.id = NoId => ~best.hit)
  BY <1>2 DEF Tracks
<1>5. best.id # NoId => best.id \in Nat /\ best.id <= n /\ best.id < NoId
  <2>1. best.id # NoId => best.id \in Nat /\ best.id <= Len(es)
    BY <1>1, <1>2, AroundPlace
  <2> QED BY <1>1, <1>2, <2>1 DEF NoId
<1>6. PastMove(best, NoId) = best
  <2>1. CASE best.id = NoId
    <3>1. [best EXCEPT !.hit = FALSE] = best
      BY <1>4, <2>1
    <3> QED BY <2>1, <3>1 DEF PastMove
  <2>2. CASE best.id # NoId
    <3>1. ~(NoId < best.id)
      BY <1>5, <2>2 DEF NoId
    <3> QED BY <2>2, <3>1 DEF PastMove
  <2> QED BY <2>1, <2>2
<1>7. /\ m.hit = best.hit /\ m.stop = (best.hit \/ best.id < n)
      /\ m.id = IF best.id < n THEN best.id ELSE n
  BY <1>3, <1>6 DEF Verdict
<1>8. CASE best.hit
  <2>1. best.id \in Nat /\ Named(es, best.id) /\ NameAt(es, best.id) = name
    BY <1>2, <1>4, <1>8 DEF Tracks
  <2>2. best.id < n
    BY <1>1, <2>1, NamedIn
  <2>3. ValueAt(es, best.id, "name") = <<name>>
    <3>1. ValueAt(es, best.id, "name") \in Found(V)
      <4>1. es[best.id + 1] \in Entries(V) /\ "name" \in Sorts
        BY <1>1, <2>1, <2>2 DEF Sorts
      <4>2. es[best.id + 1]["name"] \in Found(V)
        BY <4>1, FoundTyped
      <4> QED BY <1>1, <2>2, <4>2 DEF ValueAt
    <3>2. ValueAt(es, best.id, "name") # <<>> /\ ValueAt(es, best.id, "name")[1] = name
      BY <2>1 DEF Named, NameAt
    <3> QED BY <3>1, <3>2 DEF Found
  <2>4. m.id = best.id /\ m.id \in 0..n - 1
    BY <1>1, <1>7, <2>1, <2>2
  <2> QED BY <1>7, <1>8, <2>3, <2>4 DEF m, es, n
<1>9. CASE ~best.hit
  <2>0. (m.stop <=> best.id < n) /\ (best.id < n => m.id = best.id) /\ (~(best.id < n) => m.id = n)
    <3>1. m.stop = (best.id < n)
      BY <1>7, <1>9
    <3> QED BY <1>7, <3>1
  <2>1. m.id \in 0..n /\ (m.stop <=> m.id < n)
    <3>1. CASE best.id < n
      <4>1. best.id \in Nat
        <5>1. best.id # NoId
          BY <1>1, <1>2, <3>1 DEF NoId
        <5> QED BY <1>5, <5>1
      <4>2. m.id = best.id
        BY <2>0, <3>1
      <4>3. m.id \in 0..n
        BY <1>1, <3>1, <4>1, <4>2
      <4> QED BY <2>0, <3>1, <4>2, <4>3
    <3>2. CASE ~(best.id < n)
      <4>1. m.id = n
        BY <2>0, <3>2
      <4>2. m.id \in 0..n /\ ~(m.id < n)
        BY <1>1, <4>1
      <4> QED BY <2>0, <3>2, <4>2
    <3> QED BY <3>1, <3>2
  <2>2. ASSUME NEW i \in Nat, Named(es, i)
        PROVE  IF i < m.id THEN NameAt(es, i) < name ELSE NameAt(es, i) > name
    <3>1. i < n
      BY <1>1, <2>2, NamedIn
    <3>2. CASE best.id = NoId
      <4>1. m.id = n /\ NameAt(es, i) < name
        BY <1>1, <1>2, <1>7, <2>2, <3>2 DEF Tracks
      <4> QED BY <3>1, <4>1
    <3>3. CASE best.id # NoId
      <4>1. IF i < best.id THEN NameAt(es, i) < name ELSE NameAt(es, i) > name
        BY <1>2, <1>9, <2>2, <3>3 DEF Tracks, Place
      <4>2. m.id = best.id
        <5>1. best.id < n \/ best.id = n
          BY <1>1, <1>5, <3>3
        <5> QED BY <2>0, <5>1
      <4> QED BY <4>1, <4>2
    <3> QED BY <3>2, <3>3
  <2> QED BY <1>7, <1>9, <2>1, <2>2 DEF m, es, n
<1> QED BY <1>4, <1>8, <1>9

(***************************************************************************)
(* The block allocator.                                                    *)
(***************************************************************************)
Trying == INSTANCE Recursion WITH FoldStep <- Again

(* Around the device, from a place of it.                                  *)
LEMMA Round ==
  ASSUME NEW o \in 0..BlockCount - 1, NEW d \in 0..BlockCount
  PROVE  Around(o + d) = IF o + d < BlockCount THEN o + d ELSE o + d - BlockCount
<1>1. BlockCount \in Nat /\ BlockCount > 0
  BY AllocAssumption
<1>2. CASE o + d < BlockCount
  BY <1>1, <1>2 DEF Around
<1>3. CASE ~(o + d < BlockCount)
  <2>1. o + d = 1 * BlockCount + (o + d - BlockCount) /\ o + d - BlockCount \in 0..BlockCount - 1
    BY <1>1, <1>3
  <2> QED BY <1>1, <1>3, <2>1 DEF Around
<1> QED BY <1>2, <1>3

(* Going on from a place, and different places of a window.                *)
LEMMA Rounds ==
  ASSUME NEW o \in 0..BlockCount - 1
  PROVE  /\ \A d \in 0..BlockCount : Around(o + d) \in 0..BlockCount - 1
         /\ \A d, k \in 0..BlockCount : d + k <= BlockCount =>
              Around(Around(o + d) + k) = Around(o + (d + k))
         /\ \A d, k \in 0..BlockCount - 1 : Around(o + d) = Around(o + k) => d = k
         /\ \A b \in 0..BlockCount - 1 : \E d \in 0..BlockCount - 1 : Around(o + d) = b
<1>1. BlockCount \in Nat /\ BlockCount > 0 /\ o \in Nat /\ o < BlockCount
  BY AllocAssumption
<1>2. ASSUME NEW d \in 0..BlockCount
      PROVE  Around(o + d) = IF o + d < BlockCount THEN o + d ELSE o + d - BlockCount
  BY Round
<1>3. ASSUME NEW d \in 0..BlockCount  PROVE Around(o + d) \in 0..BlockCount - 1
  BY <1>1, <1>2
<1>4. ASSUME NEW d \in 0..BlockCount, NEW k \in 0..BlockCount, d + k <= BlockCount
      PROVE  Around(Around(o + d) + k) = Around(o + (d + k))
  <2>1. Around(o + d) = IF o + d < BlockCount THEN o + d ELSE o + d - BlockCount
    BY <1>2
  <2>2. d + k \in 0..BlockCount /\ Around(o + d) \in 0..BlockCount - 1
    BY <1>1, <1>4, <2>1
  <2>3. Around(Around(o + d) + k)
          = IF Around(o + d) + k < BlockCount THEN Around(o + d) + k
            ELSE Around(o + d) + k - BlockCount
    BY <2>2, Round
  <2>4. Around(o + (d + k))
          = IF o + (d + k) < BlockCount THEN o + (d + k) ELSE o + (d + k) - BlockCount
    BY <1>2, <2>2
  <2> QED BY <1>1, <1>4, <2>1, <2>3, <2>4
<1>5. ASSUME NEW d \in 0..BlockCount - 1, NEW k \in 0..BlockCount - 1,
             Around(o + d) = Around(o + k)
      PROVE  d = k
  <2>1. d \in 0..BlockCount /\ k \in 0..BlockCount
    BY <1>1
  <2>2. /\ Around(o + d) = IF o + d < BlockCount THEN o + d ELSE o + d - BlockCount
        /\ Around(o + k) = IF o + k < BlockCount THEN o + k ELSE o + k - BlockCount
    BY <1>2, <2>1
  <2> QED BY <1>1, <1>5, <2>1, <2>2
<1>6. ASSUME NEW b \in 0..BlockCount - 1
      PROVE  \E d \in 0..BlockCount - 1 : Around(o + d) = b
  <2> DEFINE d == IF o <= b THEN b - o ELSE b + BlockCount - o
  <2>1. d \in 0..BlockCount - 1 /\ d \in 0..BlockCount
        /\ (o + d = b \/ o + d = b + BlockCount)
    BY <1>1
  <2> HIDE DEF d
  <2>2. Around(o + d) = IF o + d < BlockCount THEN o + d ELSE o + d - BlockCount
    BY <1>2, <2>1
  <2>3. Around(o + d) = b
    BY <1>1, <2>1, <2>2
  <2> QED BY <2>1, <2>3
<1> QED BY <1>3, <1>4, <1>5, <1>6

(* The next free place of the window, from k on, is there.                 *)
LEMMA NextFreeIs ==
  ASSUME NEW f, f.size \in Nat, NEW k \in 0..f.size
  PROVE  /\ NextFree(f, k) \in k..f.size
         /\ NextFree(f, k) = f.size \/ NextFree(f, k) \notin f.buffer
         /\ \A l \in k..NextFree(f, k) - 1 : l \in f.buffer
<1> DEFINE P(j) == /\ j = f.size \/ j \notin f.buffer
                   /\ \A l \in k..j - 1 : l \in f.buffer
           T == {j \in k..f.size : j = f.size \/ j \notin f.buffer}
<1>1. PICK j \in T : \A l \in T : j <= l
  <2>1. T \in SUBSET Nat /\ f.size \in T
    OBVIOUS
  <2>2. T # {}
    BY <2>1
  <2> HIDE DEF T
  <2> QED BY <2>1, <2>2, NatMinimum
<1>2. j \in k..f.size /\ P(j)
  <2>1. ASSUME NEW l \in k..j - 1  PROVE l \in f.buffer
    <3>1. l \in k..f.size /\ ~(j <= l)
      BY <1>1
    <3> QED BY <1>1, <3>1
  <2> QED BY <1>1, <2>1
<1>3. NextFree(f, k) = CHOOSE m \in k..f.size : P(m)
  BY DEF NextFree
<1> HIDE DEF P
<1>4. NextFree(f, k) \in k..f.size /\ P(NextFree(f, k))
  BY <1>2, <1>3
<1> QED BY <1>4 DEF P

(* Where the window of the allocator can be.                               *)
Windows == [off : 0..BlockCount - 1, size : 0..BlockCount, i : 0..BlockCount,
            ack : 0..BlockCount, buffer : SUBSET Nat]

(* Moving on in the window: only the place and the count of it change.     *)
LEMMA MovedOnIs ==
  ASSUME NEW f, Within(f), NEW k \in f.i..f.size
  PROVE  /\ Within(MovedOn(f, k))
         /\ MovedOn(f, k).i = k /\ MovedOn(f, k).ack = f.ack - (k - f.i)
         /\ MovedOn(f, k).off = f.off /\ MovedOn(f, k).size = f.size
         /\ MovedOn(f, k).buffer = f.buffer
<1> DEFINE g == MovedOn(f, k)
<1>1. BlockCount \in Nat /\ f \in Windows /\ f.i <= f.size /\ f.size - f.i <= f.ack
  BY AllocAssumption DEF Within, Windows
<1>2. f.i \in Nat /\ f.size \in 0..BlockCount /\ f.ack \in 0..BlockCount
  BY <1>1 DEF Windows
<1>3. k \in 0..BlockCount /\ k <= f.size /\ f.ack - (k - f.i) \in 0..BlockCount
  BY <1>1, <1>2
<1>4. g = [f EXCEPT !.i = k, !.ack = f.ack - (k - f.i)]
  BY DEF MovedOn
<1>5. g \in Windows
  BY <1>1, <1>3, <1>4 DEF Windows
<1>6. /\ g.i = k /\ g.ack = f.ack - (k - f.i) /\ g.off = f.off /\ g.size = f.size
      /\ g.buffer = f.buffer
  BY <1>1, <1>4 DEF Windows
<1>7. g.i <= g.size /\ g.size - g.i <= g.ack
  BY <1>1, <1>2, <1>3, <1>6
<1>8. Within(g)
  BY <1>5, <1>7 DEF Within, Windows
<1> QED BY <1>6, <1>8

(* A try in a window that has a free place ahead takes the first one.      *)
LEMMA TriedTakes ==
  ASSUME NEW f, Within(f), NEW looked, NextFree(f, f.i) < f.size
  PROVE  LET a == Tried(f, looked)
             k == NextFree(f, f.i)
         IN  /\ Within(a.free) /\ Ready(a.free) /\ a.err = "ok"
             /\ k \in f.i..f.size - 1 /\ k \notin f.buffer
             /\ a.block = Around(f.off + k)
             /\ a.free.i \in k + 1..f.size /\ a.free.off = f.off
             /\ a.free.size = f.size /\ a.free.buffer = f.buffer
<1> DEFINE a == Tried(f, looked)
           k == NextFree(f, f.i)
           e == NextFree(f, k + 1)
<1>1. BlockCount \in Nat /\ f.size \in Nat /\ f.i \in 0..f.size
  BY AllocAssumption DEF Within
<1>2. k \in f.i..f.size - 1 /\ k \notin f.buffer
  BY <1>1, NextFreeIs
<1>3. k + 1 \in 0..f.size
  BY <1>1, <1>2
<1>4. e \in k + 1..f.size /\ (e = f.size \/ e \notin f.buffer)
  BY <1>1, <1>3, NextFreeIs
<1>5. a = [free |-> MovedOn(f, e), block |-> Around(f.off + k), looked |-> looked, err |-> "ok"]
  BY DEF Tried, Taken
<1> HIDE DEF a, k, e
<1>6. a.free = MovedOn(f, e) /\ a.block = Around(f.off + k) /\ a.err = "ok"
  BY <1>5
<1>7. e \in f.i..f.size
  BY <1>1, <1>2, <1>4
<1>8. /\ Within(a.free) /\ a.free.i = e /\ a.free.off = f.off
      /\ a.free.size = f.size /\ a.free.buffer = f.buffer
  BY <1>6, <1>7, MovedOnIs
<1>9. Ready(a.free)
  BY <1>4, <1>8 DEF Ready
<1> QED BY <1>2, <1>4, <1>6, <1>8, <1>9 DEF a, k, e

(* A try in a window that has none goes to its end, where it gives up or   *)
(* not by what is left of ack.                                             *)
LEMMA TriedFails ==
  ASSUME NEW f, Within(f), NEW looked, ~(NextFree(f, f.i) < f.size)
  PROVE  LET a == Tried(f, looked)
         IN  /\ Within(a.free) /\ Ready(a.free)
             /\ a.free.i = f.size /\ a.free.size = f.size /\ a.free.off = f.off
             /\ a.free.ack = f.ack - (f.size - f.i)
             /\ \/ a.err = "NOSPC" /\ a.free.ack = 0
                \/ a.err = "again" /\ a.free.ack # 0
             /\ \A l \in f.i..f.size - 1 : l \in f.buffer
<1> DEFINE a == Tried(f, looked)
           k == NextFree(f, f.i)
           g == MovedOn(f, f.size)
<1>1. BlockCount \in Nat /\ f.size \in Nat /\ f.i \in 0..f.size
  BY AllocAssumption DEF Within
<1>2. k \in f.i..f.size /\ \A l \in f.i..k - 1 : l \in f.buffer
  BY <1>1, NextFreeIs
<1>3. k = f.size
  BY <1>1, <1>2
<1>4. a = [free |-> g, block |-> 0, looked |-> looked,
           err |-> IF g.ack = 0 THEN "NOSPC" ELSE "again"]
  BY DEF Tried
<1> HIDE DEF a, k
<1>5. f.size \in f.i..f.size
  BY <1>1
<1>6. /\ Within(g) /\ g.i = f.size /\ g.size = f.size /\ g.off = f.off
      /\ g.ack = f.ack - (f.size - f.i)
  BY <1>5, MovedOnIs
<1> HIDE DEF g
<1>7. a.free = g /\ a.err = IF g.ack = 0 THEN "NOSPC" ELSE "again"
  BY <1>4
<1>8. Ready(g)
  BY <1>6 DEF Ready
<1>9. \/ a.err = "NOSPC" /\ a.free.ack = 0
      \/ a.err = "again" /\ a.free.ack # 0
  BY <1>7
<1>10. \A l \in f.i..f.size - 1 : l \in f.buffer
  BY <1>2, <1>3
<1> QED BY <1>6, <1>7, <1>8, <1>9, <1>10 DEF a

(* What a try takes is a block that is not in use, and the rest of the     *)
(* window can still be trusted.                                            *)
LEMMA TriedFinds ==
  ASSUME NEW f, Within(f), NEW looked, NEW used, Trusted(f, used), NextFree(f, f.i) < f.size
  PROVE  LET a == Tried(f, looked)
         IN  /\ a.block \in 0..BlockCount - 1 /\ a.block \notin used
             /\ Trusted(a.free, used \union {a.block})
<1> DEFINE a == Tried(f, looked)
           k == NextFree(f, f.i)
<1>1. /\ k \in f.i..f.size - 1 /\ k \notin f.buffer
      /\ a.block = Around(f.off + k)
      /\ a.free.i \in k + 1..f.size /\ a.free.off = f.off
      /\ a.free.size = f.size /\ a.free.buffer = f.buffer
  BY TriedTakes
<1> HIDE DEF a, k
<1>2. /\ BlockCount \in Nat /\ f.off \in 0..BlockCount - 1 /\ f.size \in 0..BlockCount
      /\ f.i \in Nat
  BY AllocAssumption DEF Within
<1>3. k \in 0..BlockCount - 1 /\ k \in 0..BlockCount
  BY <1>1, <1>2
<1>4. a.block \in 0..BlockCount - 1
  <2>1. \A d \in 0..BlockCount : Around(f.off + d) \in 0..BlockCount - 1
    BY <1>2, Rounds
  <2> QED BY <1>1, <1>3, <2>1
<1>5. a.block \notin used
  BY <1>1 DEF Trusted
<1>6. ASSUME NEW j \in a.free.i..a.free.size - 1,
             Around(a.free.off + j) \in used \union {a.block}
      PROVE  j \in a.free.buffer
  <2>1. j \in f.i..f.size - 1 /\ j \in 0..BlockCount - 1 /\ j # k
    BY <1>1, <1>2, <1>3
  <2>2. Around(f.off + j) # Around(f.off + k)
    BY <1>2, <1>3, <2>1, Rounds
  <2>3. Around(f.off + j) \in used
    BY <1>1, <1>6, <2>2
  <2> QED BY <1>1, <2>1, <2>3 DEF Trusted
<1>7. Trusted(a.free, used \union {a.block})
  BY <1>6 DEF Trusted
<1> QED BY <1>4, <1>5, <1>7 DEF a

(* The next window, of blocks as they are in use: there is one while ack   *)
(* has blocks left.                                                        *)
LEMMA AdvancedIs ==
  ASSUME NEW f, Within(f), NEW used, f.ack # 0
  PROVE  LET g == Advanced(f, used)
         IN  /\ Within(g) /\ Trusted(g, used)
             /\ g.i = 0 /\ g.size > 0 /\ g.ack = f.ack
             /\ g.off = Around(f.off + f.size)
             /\ \A k \in 0..g.size - 1 : k \in g.buffer => Around(g.off + k) \in used
<1> DEFINE size == IF Lookahead < f.ack THEN Lookahead ELSE f.ack
           off  == Around(f.off + f.size)
           h    == [f EXCEPT !.off = off, !.size = size, !.i = 0]
           mask == {k \in 0..size - 1 : Around(off + k) \in used}
           g    == Advanced(f, used)
<1>1. /\ BlockCount \in Nat /\ BlockCount # 0 /\ Lookahead \in Nat /\ Lookahead # 0
      /\ f \in Windows
  BY AllocAssumption DEF Within, Windows
<1>2. f.off \in 0..BlockCount - 1 /\ f.size \in 0..BlockCount /\ f.ack \in 0..BlockCount
  BY <1>1 DEF Windows
<1>3. size \in 1..BlockCount /\ size <= f.ack
  BY <1>1, <1>2
<1>4. off \in 0..BlockCount - 1
  BY <1>2, Rounds
<1>5. h.off = off /\ h.size = size /\ h.i = 0
  BY <1>1 DEF Windows
<1>6. g = [h EXCEPT !.buffer = {k \in 0..h.size - 1 : Around(h.off + k) \in used}]
  BY DEF Advanced, Filled
<1>7. mask \in SUBSET Nat
  BY <1>3
<1>8. g = [h EXCEPT !.buffer = mask]
  BY <1>5, <1>6
<1> HIDE DEF size, off, mask, g
<1>9. g = [off |-> off, size |-> size, i |-> 0, ack |-> f.ack, buffer |-> mask]
  BY <1>1, <1>8 DEF Windows
<1>10. /\ g.off = off /\ g.size = size /\ g.i = 0 /\ g.ack = f.ack /\ g.buffer = mask
  BY <1>9
<1>11. g \in Windows
  BY <1>1, <1>2, <1>3, <1>4, <1>7, <1>9 DEF Windows
<1>12. Within(g)
  BY <1>3, <1>10, <1>11 DEF Within, Windows
<1>13. Trusted(g, used)
  BY <1>10 DEF Trusted, mask
<1>14. \A k \in 0..g.size - 1 : k \in g.buffer => Around(g.off + k) \in used
  BY <1>10 DEF mask
<1> QED BY <1>3, <1>10, <1>12, <1>13, <1>14 DEF g, off


(* What has been looked at when a search goes on: all the blocks from o    *)
(* on, as many as ack has been counted down.                               *)
SeenFrom(o, f, used) ==
  /\ \A d \in 0..BlockCount - f.ack - 1 : Around(o + d) \in used
  /\ Around(f.off + f.size) = Around(o + (BlockCount - f.ack))

(* A search from f, after n windows more than the first.                   *)
Searched(f, used, a, n) ==
  /\ Within(a.free) /\ Ready(a.free) /\ a.err \in {"ok", "NOSPC", "again"}
  /\ a.err = "ok" /\ Trusted(f, used) =>
       /\ a.block \in 0..BlockCount - 1 /\ a.block \notin used
       /\ Trusted(a.free, used \union {a.block})
  /\ a.err = "NOSPC" => a.free.ack = 0
  /\ a.err = "again" =>
       a.free.i = a.free.size /\ a.free.ack # 0 /\ a.free.ack <= BlockCount - n
  /\ a.err # "ok" /\ f.ack = BlockCount => SeenFrom(Around(f.off + f.size), a.free, used)

(* In the window there is: it fails only at its end.                       *)
LEMMA SearchStarts ==
  ASSUME NEW f, Within(f), Ready(f), NEW used
  PROVE  Searched(f, used, Tried(f, FALSE), 0)
<1> DEFINE a == Tried(f, FALSE)
<1>1. /\ BlockCount \in Nat /\ BlockCount > 0 /\ f.size \in 0..BlockCount /\ f.i \in 0..f.size
      /\ f.ack \in 0..BlockCount /\ f.off \in 0..BlockCount - 1
  BY AllocAssumption DEF Within
<1>2. CASE NextFree(f, f.i) < f.size
  <2>1. Within(a.free) /\ Ready(a.free) /\ a.err = "ok"
    BY <1>2, TriedTakes
  <2>2. Trusted(f, used) => /\ a.block \in 0..BlockCount - 1 /\ a.block \notin used
                            /\ Trusted(a.free, used \union {a.block})
    BY <1>2, TriedFinds
  <2> HIDE DEF a
  <2>3. Searched(f, used, a, 0)
    BY <2>1, <2>2 DEF Searched
  <2> QED BY <2>3 DEF a
<1>3. CASE ~(NextFree(f, f.i) < f.size)
  <2>1. /\ Within(a.free) /\ Ready(a.free)
        /\ a.free.i = f.size /\ a.free.size = f.size /\ a.free.off = f.off
        /\ a.free.ack = f.ack - (f.size - f.i)
        /\ \/ a.err = "NOSPC" /\ a.free.ack = 0
           \/ a.err = "again" /\ a.free.ack # 0
        /\ \A l \in f.i..f.size - 1 : l \in f.buffer
    BY <1>3, TriedFails
  <2> HIDE DEF a
  <2>2. f.i = f.size /\ a.free.ack = f.ack
    BY <1>1, <2>1 DEF Ready
  <2>3. ASSUME f.ack = BlockCount  PROVE SeenFrom(Around(f.off + f.size), a.free, used)
    <3> DEFINE o == Around(f.off + f.size)
    <3>1. o \in 0..BlockCount - 1
      BY <1>1, Rounds
    <3> HIDE DEF o
    <3>2. Around(o + 0) = o
      BY <1>1, <3>1, Round
    <3>3. BlockCount - a.free.ack = 0
      BY <1>1, <2>2, <2>3
    <3>4. Around(a.free.off + a.free.size) = Around(o + (BlockCount - a.free.ack))
      BY <2>1, <3>2, <3>3 DEF o
    <3>5. \A d \in 0..BlockCount - a.free.ack - 1 : Around(o + d) \in used
      BY <3>3
    <3>6. SeenFrom(o, a.free, used)
      BY <3>4, <3>5 DEF SeenFrom
    <3> QED BY <3>6 DEF o
  <2>4. a.free.i = a.free.size /\ a.free.ack <= BlockCount - 0
    BY <1>1, <2>1, <2>2
  <2>5. a.err \in {"NOSPC", "again"} /\ a.err # "ok"
    BY <2>1
  <2>6. Searched(f, used, a, 0)
    BY <2>1, <2>3, <2>4, <2>5 DEF Searched
  <2> QED BY <2>6 DEF a
<1> QED BY <1>2, <1>3

(* On to the next window: ack has come down by one or more.                *)
LEMMA SearchGoesOn ==
  ASSUME NEW f, Within(f), NEW used, NEW a, NEW n \in 1..BlockCount,
         Searched(f, used, a, n - 1)
  PROVE  Searched(f, used, Again(a, used), n)
<1>1. CASE a.err # "again"
  <2>1. Again(a, used) = a
    BY <1>1 DEF Again
  <2> QED BY <1>1, <2>1 DEF Searched
<1>2. CASE a.err = "again"
  <2> DEFINE g == Advanced(a.free, used)
             b == Tried(g, TRUE)
             o == Around(f.off + f.size)
  <2>1. Again(a, used) = b
    BY <1>2 DEF Again
  <2>2. /\ Within(a.free) /\ a.free.ack # 0 /\ a.free.ack <= BlockCount - (n - 1)
        /\ f.ack = BlockCount => SeenFrom(o, a.free, used)
    BY <1>2 DEF Searched
  <2> HIDE DEF o
  <2>3. /\ Within(g) /\ Trusted(g, used)
        /\ g.i = 0 /\ g.size > 0 /\ g.ack = a.free.ack
        /\ g.off = Around(a.free.off + a.free.size)
        /\ \A k \in 0..g.size - 1 : k \in g.buffer => Around(g.off + k) \in used
    BY <2>2, AdvancedIs
  <2> HIDE DEF g
  <2>4. CASE NextFree(g, g.i) < g.size
    <3>1. Within(b.free) /\ Ready(b.free) /\ b.err = "ok"
      BY <2>3, <2>4, TriedTakes
    <3>2. /\ b.block \in 0..BlockCount - 1 /\ b.block \notin used
          /\ Trusted(b.free, used \union {b.block})
      BY <2>3, <2>4, TriedFinds
    <3> HIDE DEF b
    <3>3. Searched(f, used, b, n)
      BY <3>1, <3>2 DEF Searched
    <3> QED BY <2>1, <3>3
  <2>5. CASE ~(NextFree(g, g.i) < g.size)
    <3>1. /\ Within(b.free) /\ Ready(b.free)
          /\ b.free.i = g.size /\ b.free.size = g.size /\ b.free.off = g.off
          /\ b.free.ack = g.ack - (g.size - g.i)
          /\ \/ b.err = "NOSPC" /\ b.free.ack = 0
             \/ b.err = "again" /\ b.free.ack # 0
          /\ \A l \in g.i..g.size - 1 : l \in g.buffer
      BY <2>3, <2>5, TriedFails
    <3> HIDE DEF b
    <3>2. /\ BlockCount \in Nat /\ g.size \in 1..BlockCount /\ g.ack \in 0..BlockCount
          /\ g.size <= g.ack
      BY <2>3, AllocAssumption DEF Within
    <3>3. b.free.ack = g.ack - g.size /\ b.free.ack \in Nat
      BY <2>3, <3>1, <3>2
    <3>4. b.free.ack <= BlockCount - n /\ b.free.i = b.free.size
      BY <2>2, <2>3, <3>1, <3>2, <3>3
    <3>5. ASSUME f.ack = BlockCount  PROVE SeenFrom(o, b.free, used)
      <4> DEFINE D == BlockCount - g.ack
      <4>1. o \in 0..BlockCount - 1
        <5>1. f.off \in 0..BlockCount - 1 /\ f.size \in 0..BlockCount
          BY DEF Within
        <5> QED BY <5>1, Rounds DEF o
      <4>2. D \in 0..BlockCount /\ D + g.size \in 0..BlockCount
            /\ BlockCount - b.free.ack = D + g.size
        BY <3>2, <3>3
      <4> HIDE DEF D
      <4>3. /\ \A d \in 0..D - 1 : Around(o + d) \in used
            /\ g.off = Around(o + D)
        BY <2>2, <2>3, <3>5 DEF SeenFrom, D
      <4>4. ASSUME NEW k \in 0..g.size
            PROVE  Around(g.off + k) = Around(o + (D + k))
        <5>1. k \in 0..BlockCount /\ D + k <= BlockCount
          BY <3>2, <4>2
        <5>2. \A d, l \in 0..BlockCount : d + l <= BlockCount =>
                Around(Around(o + d) + l) = Around(o + (d + l))
          BY <4>1, Rounds
        <5> QED BY <4>2, <4>3, <5>1, <5>2
      <4>5. ASSUME NEW d \in 0..D + g.size - 1  PROVE Around(o + d) \in used
        <5>1. CASE d < D
          <6>1. d \in 0..D - 1
            BY <3>2, <4>2, <5>1
          <6> QED BY <4>3, <6>1
        <5>2. CASE ~(d < D)
          <6>1. PICK k \in 0..g.size - 1 : d = D + k
            <7>1. d - D \in 0..g.size - 1 /\ d = D + (d - D)
              BY <3>2, <4>2, <5>2
            <7> QED BY <7>1
          <6>2. k \in g.buffer
            BY <2>3, <3>1
          <6>3. Around(g.off + k) \in used
            BY <2>3, <6>2
          <6>4. k \in 0..g.size
            BY <3>2
          <6>5. Around(g.off + k) = Around(o + (D + k))
            BY <4>4, <6>4
          <6> QED BY <6>1, <6>3, <6>5
        <5> QED BY <5>1, <5>2
      <4>6. Around(b.free.off + b.free.size) = Around(o + (D + g.size))
        <5>1. g.size \in 0..g.size
          BY <3>2
        <5> QED BY <3>1, <4>4, <5>1
      <4>7. /\ \A d \in 0..BlockCount - b.free.ack - 1 : Around(o + d) \in used
            /\ Around(b.free.off + b.free.size) = Around(o + (BlockCount - b.free.ack))
        <5>1. ASSUME NEW d \in 0..BlockCount - b.free.ack - 1  PROVE Around(o + d) \in used
          <6>1. BlockCount - b.free.ack - 1 = D + g.size - 1
            BY <3>2, <3>3, <4>2
          <6>2. d \in 0..D + g.size - 1
            BY <6>1
          <6> QED BY <4>5, <6>2
        <5> QED BY <4>2, <4>6, <5>1
      <4> QED BY <4>7 DEF SeenFrom
    <3>6. b.err \in {"NOSPC", "again"} /\ b.err # "ok"
      BY <3>1
    <3>7. Searched(f, used, b, n)
      BY <3>1, <3>4, <3>5, <3>6 DEF Searched, o
    <3> QED BY <2>1, <3>7
  <2> QED BY <2>4, <2>5
<1> QED BY <1>1, <1>2

(* The tries of a search, in a table.                                      *)
LEMMA AllocIs ==
  ASSUME NEW f, NEW used
  PROVE  \E t : /\ \A n \in 0..BlockCount :
                     t[n] = IF n = 0 THEN Tried(f, FALSE) ELSE Again(t[n - 1], used)
                /\ Alloc(f, used) = t[BlockCount]
<1> DEFINE s == [k \in 1..BlockCount |-> used]
           base == Tried(f, FALSE)
           Is(g) == g = [n \in 0..BlockCount |->
                           IF n = 0 THEN Tried(f, FALSE) ELSE Again(g[n - 1], used)]
           t == CHOOSE g : Is(g)
<1>1. BlockCount \in Nat
  BY AllocAssumption
<1>2. PICK g : Trying!IsFold(g, BlockCount, base, s)
  <2> HIDE DEF base, s
  <2> QED BY <1>1, Trying!FoldExists
<1>3. g = [k \in 0..BlockCount |-> IF k = 0 THEN base ELSE Again(g[k - 1], s[k])]
  BY <1>2 DEF Trying!IsFold
<1>4. Is(g)
  <2>1. ASSUME NEW n \in 0..BlockCount
        PROVE  (IF n = 0 THEN base ELSE Again(g[n - 1], s[n]))
                 = (IF n = 0 THEN base ELSE Again(g[n - 1], used))
    <3>1. CASE n = 0
      BY <3>1
    <3>2. CASE n # 0
      <4>1. n \in 1..BlockCount
        BY <1>1, <3>2
      <4>2. s[n] = used
        BY <4>1
      <4> HIDE DEF s, base
      <4> QED BY <3>2, <4>2
    <3> QED BY <3>1, <3>2
  <2> HIDE DEF s
  <2> QED BY <1>3, <2>1
<1>5. Is(t)
  BY <1>4
<1>6. Alloc(f, used) = t[BlockCount]
  BY DEF Alloc
<1> HIDE DEF t
<1>7. ASSUME NEW n \in 0..BlockCount
      PROVE  t[n] = IF n = 0 THEN Tried(f, FALSE) ELSE Again(t[n - 1], used)
  BY <1>5
<1> QED BY <1>6, <1>7

(* A block that lfs_alloc hands out is not in use, as long as the lookahead *)
(* buffer can be trusted, and the buffer can be trusted after it, of the   *)
(* blocks in use with that one; the count of the blocks to look at never   *)
(* falls short of the window, and the search ends.  And after an ack it    *)
(* fails only if every block of the device is in use: none is missed       *)
(* between the windows, though what is left of the first one is not read   *)
(* anew, for its place is always a free one, or its end.                   *)
THEOREM AllocFinds ==
  ASSUME NEW f, Within(f), Ready(f), NEW used
  PROVE  LET a == Alloc(f, used)
         IN  /\ Within(a.free) /\ Ready(a.free) /\ a.err \in {"ok", "NOSPC"}
             /\ a.err = "ok" /\ Trusted(f, used) =>
                  /\ a.block \in 0..BlockCount - 1 /\ a.block \notin used
                  /\ Trusted(a.free, used \union {a.block})
             /\ a.err = "NOSPC" /\ f.ack = BlockCount => 0..BlockCount - 1 \subseteq used
<1> DEFINE a == Alloc(f, used)
           o == Around(f.off + f.size)
<1>1. PICK t : /\ \A n \in 0..BlockCount :
                    t[n] = IF n = 0 THEN Tried(f, FALSE) ELSE Again(t[n - 1], used)
               /\ a = t[BlockCount]
  BY AllocIs
<1>2. BlockCount \in Nat /\ BlockCount > 0
  BY AllocAssumption
<1> HIDE DEF a
<1>3. Searched(f, used, a, BlockCount)
  <2> DEFINE P == {n \in 0..BlockCount : Searched(f, used, t[n], n)}
  <2>1. 0 \in P
    <3>0. 0 \in 0..BlockCount
      BY <1>2
    <3>1. t[0] = Tried(f, FALSE)
      BY <1>1, <3>0
    <3>2. Searched(f, used, t[0], 0)
      BY <3>1, SearchStarts
    <3> QED BY <1>2, <3>2
  <2>2. ASSUME NEW n \in 1..BlockCount, n - 1 \in P  PROVE n \in P
    <3>1. n \in 0..BlockCount /\ n # 0
      BY <1>2
    <3>2. t[n] = Again(t[n - 1], used)
      BY <1>1, <3>1
    <3>3. Searched(f, used, t[n - 1], n - 1)
      BY <2>2
    <3>4. Searched(f, used, t[n], n)
      BY <3>2, <3>3, SearchGoesOn
    <3> QED BY <3>1, <3>4
  <2> HIDE DEF P
  <2>3. \A n \in 0..BlockCount : n \in P
    BY <1>2, <2>1, <2>2, UpTo
  <2>4. BlockCount \in P
    BY <1>2, <2>3
  <2> QED BY <1>1, <2>4 DEF P
<1>4. a.free.ack \in Nat
  BY <1>3 DEF Searched, Within
<1>5. a.err # "again"
  <2> SUFFICES ASSUME a.err = "again"  PROVE FALSE
    OBVIOUS
  <2>1. a.free.ack # 0 /\ a.free.ack <= BlockCount - BlockCount
    BY <1>3 DEF Searched
  <2> QED BY <1>2, <1>4, <2>1
<1>6. ASSUME a.err = "NOSPC", f.ack = BlockCount, NEW b \in 0..BlockCount - 1
      PROVE  b \in used
  <2>1. a.free.ack = 0 /\ SeenFrom(o, a.free, used)
    BY <1>3, <1>6 DEF Searched
  <2>2. o \in 0..BlockCount - 1
    <3>1. f.off \in 0..BlockCount - 1 /\ f.size \in 0..BlockCount
      BY DEF Within
    <3> QED BY <3>1, Rounds
  <2> HIDE DEF o
  <2>3. PICK d \in 0..BlockCount - 1 : Around(o + d) = b
    BY <2>2, Rounds
  <2>4. d \in 0..BlockCount - a.free.ack - 1
    BY <1>2, <2>1
  <2> QED BY <2>1, <2>3, <2>4 DEF SeenFrom
<1>7. /\ Within(a.free) /\ Ready(a.free) /\ a.err \in {"ok", "NOSPC"}
      /\ a.err = "ok" /\ Trusted(f, used) =>
           /\ a.block \in 0..BlockCount - 1 /\ a.block \notin used
           /\ Trusted(a.free, used \union {a.block})
  BY <1>3, <1>5 DEF Searched
<1> QED BY <1>6, <1>7 DEF a

(* What the callers of the allocator do with it leaves it as lfs_alloc     *)
(* needs it: an ack, the window dropped (at the mount and by a traversal   *)
(* that fails, at whatever place the seed put it), and a block that is no  *)
(* longer in use.                                                          *)
THEOREM AllocatorIsKept ==
  ASSUME NEW f, Within(f), NEW used
  PROVE  /\ Within(Acked(f)) /\ Acked(f).ack = BlockCount
         /\ Ready(f) => Ready(Acked(f))
         /\ Trusted(f, used) => Trusted(Acked(f), used)
         /\ Within(DroppedWindow(f)) /\ Ready(DroppedWindow(f))
         /\ Trusted(DroppedWindow(f), used)
         /\ \A less \in SUBSET used : Trusted(f, used) => Trusted(f, less)
<1>1. /\ BlockCount \in Nat /\ f \in Windows /\ f.i \in 0..f.size /\ f.size \in 0..BlockCount
  BY AllocAssumption DEF Within, Windows
<1>2. ASSUME NEW g, g \in Windows, g.i \in 0..g.size, g.size \in 0..BlockCount
      PROVE  /\ Within(Acked(g)) /\ Acked(g).ack = BlockCount
             /\ Acked(g).i = g.i /\ Acked(g).size = g.size
             /\ Acked(g).off = g.off /\ Acked(g).buffer = g.buffer
  <2>1. Acked(g) = [g EXCEPT !.ack = BlockCount]
    BY DEF Acked
  <2>2. /\ Acked(g).ack = BlockCount /\ Acked(g).i = g.i /\ Acked(g).size = g.size
        /\ Acked(g).off = g.off /\ Acked(g).buffer = g.buffer
    BY <1>2, <2>1 DEF Windows
  <2>3. Acked(g) \in Windows
    BY <1>1, <1>2, <2>1 DEF Windows
  <2>4. Acked(g).i <= Acked(g).size /\ Acked(g).size - Acked(g).i <= Acked(g).ack
    BY <1>1, <1>2, <2>2
  <2> QED BY <2>2, <2>3, <2>4 DEF Within, Windows
<1>3. /\ Within(Acked(f)) /\ Acked(f).ack = BlockCount
      /\ Ready(f) => Ready(Acked(f))
      /\ Trusted(f, used) => Trusted(Acked(f), used)
  BY <1>1, <1>2 DEF Ready, Trusted
<1> DEFINE g == [f EXCEPT !.size = 0, !.i = 0]
<1>4. g \in Windows /\ g.i \in 0..g.size /\ g.size \in 0..BlockCount /\ g.i = 0 /\ g.size = 0
  <2>1. g.i = 0 /\ g.size = 0
    BY <1>1 DEF Windows
  <2>2. 0 \in 0..BlockCount
    BY <1>1
  <2>3. g \in Windows
    BY <1>1, <2>2 DEF Windows
  <2> HIDE DEF g
  <2> QED BY <2>1, <2>2, <2>3
<1>5. DroppedWindow(f) = Acked(g)
  BY DEF DroppedWindow
<1> HIDE DEF g
<1>6. Within(DroppedWindow(f)) /\ DroppedWindow(f).i = 0 /\ DroppedWindow(f).size = 0
  BY <1>2, <1>4, <1>5
<1>7. Ready(DroppedWindow(f)) /\ Trusted(DroppedWindow(f), used)
  BY <1>6 DEF Ready, Trusted
<1>8. \A less \in SUBSET used : Trusted(f, used) => Trusted(f, less)
  BY DEF Trusted
<1> QED BY <1>3, <1>6, <1>7, <1>8
=============================================================================
