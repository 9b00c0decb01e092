----------------------------- MODULE Recursion -----------------------------
(***************************************************************************)
(* Induction over the naturals, without an operator for what is proved: a  *)
(* set of naturals that is not empty has a least element, so that what     *)
(* fails for some number fails for a first one.  And what it is for here:  *)
(* a function defined by recursion over 0..n exists, and a sequence can be *)
(* folded, with any operator: a module with a fold of its own instantiates *)
(* this one with the operator it folds with.                               *)
(***************************************************************************)
EXTENDS Integers, Sequences, WellFoundedInduction, TLAPS

CONSTANT FoldStep(_, _)

(* The least element: < is well-founded.                                   *)
LEMMA NatMinimum ==
  ASSUME NEW T \in SUBSET Nat, T # {}
  PROVE  \E x \in T : \A y \in T : x <= y
<1> DEFINE R == OpToRel(<, Nat)
<1>1. \A x, y \in Nat : y < x => <<y, x>> \in R
  BY DEF OpToRel
<1>2. IsWellFoundedOn(R, Nat)
  BY NatLessThanWellFounded, Zenon
<1> HIDE DEF R
<1>3. PICK x \in T : \A y \in T : ~(<<y, x>> \in R)
  BY <1>2, WFMin
<1>4. ASSUME NEW y \in T  PROVE x <= y
  <2>1. ~(<<y, x>> \in R)
    BY <1>3
  <2>2. x \in Nat /\ y \in Nat
    OBVIOUS
  <2>3. ~(y < x)
    BY <1>1, <2>1, <2>2
  <2> QED BY <2>2, <2>3
<1> QED BY <1>4

(* Induction up to n, of a predicate given as the set of the numbers it    *)
(* holds for.                                                              *)
LEMMA UpTo ==
  ASSUME NEW n \in Nat, NEW P, 0 \in P,
         \A k \in 1..n : k - 1 \in P => k \in P
  PROVE  \A k \in 0..n : k \in P
<1> DEFINE T == {k \in 0..n : k \notin P}
<1>1. T = {}
  <2> SUFFICES ASSUME T # {}  PROVE FALSE
    OBVIOUS
  <2>1. PICK x \in T : \A y \in T : x <= y
    <3>1. T \in SUBSET Nat
      OBVIOUS
    <3> HIDE DEF T
    <3> QED BY <3>1, NatMinimum
  <2>2. x \in 1..n /\ x - 1 \in 0..n /\ ~(x <= x - 1) /\ x \notin P
    OBVIOUS
  <2>3. x - 1 \in P
    BY <2>1, <2>2
  <2> QED BY <2>2, <2>3
<1> QED BY <1>1

(* A table filled from entry 0 on, each entry from the one before it.      *)
IsTable(g, n, S, base, step) ==
  /\ g \in [0..n -> S]
  /\ g[0] = base
  /\ \A k \in 1..n : g[k] = step[<<k, g[k - 1]>>]

(* There is such a table, if every entry can be made from the one before.  *)
LEMMA TableExists ==
  ASSUME NEW n \in Nat, NEW S, NEW base \in S, NEW step \in [(1..n) \X S -> S]
  PROVE  \E g : IsTable(g, n, S, base, step)
<1> DEFINE P == {m \in 0..n : \E g : IsTable(g, m, S, base, step)}
<1>1. 0 \in P
  <2>1. IsTable([k \in 0..0 |-> base], 0, S, base, step)
    BY DEF IsTable
  <2> QED BY <2>1
<1>2. ASSUME NEW m \in 1..n, m - 1 \in P
      PROVE  m \in P
  <2>1. PICK g : IsTable(g, m - 1, S, base, step)
    BY <1>2
  <2> DEFINE x == step[<<m, g[m - 1]>>]
             h == [k \in 0..m |-> IF k = m THEN x ELSE g[k]]
  <2>2. /\ g \in [0..m - 1 -> S] /\ g[0] = base
        /\ \A k \in 1..m - 1 : g[k] = step[<<k, g[k - 1]>>]
    BY <2>1 DEF IsTable
  <2>3. g[m - 1] \in S /\ x \in S
    <3>1. g[m - 1] \in S
      BY <2>2
    <3> QED BY <3>1
  <2>4. h \in [0..m -> S]
    <3> HIDE DEF x
    <3> QED BY <2>2, <2>3
  <2>5. h[0] = base
    BY <2>2
  <2>6. \A k \in 1..m : h[k] = step[<<k, h[k - 1]>>]
    <3> TAKE k \in 1..m
    <3>1. k - 1 \in 0..m /\ k - 1 # m /\ h[k - 1] = g[k - 1]
      OBVIOUS
    <3>2. CASE k = m
      BY <3>1, <3>2
    <3>3. CASE k # m
      <4>1. k \in 1..m - 1 /\ h[k] = g[k]
        BY <3>3
      <4>2. g[k] = step[<<k, g[k - 1]>>]
        BY <2>2, <4>1
      <4> HIDE DEF h
      <4> QED BY <3>1, <4>1, <4>2
    <3> QED BY <3>2, <3>3
  <2>7. IsTable(h, m, S, base, step)
    <3> HIDE DEF h
    <3> QED BY <2>4, <2>5, <2>6 DEF IsTable
  <2> QED BY <2>7
<1>3. n \in P
  <2> HIDE DEF P
  <2>1. \A k \in 1..n : k - 1 \in P => k \in P
    BY <1>2
  <2>2. \A k \in 0..n : k \in P
    BY <1>1, <2>1, UpTo
  <2> QED BY <2>2
<1> QED BY <1>3

-----------------------------------------------------------------------------
(* A fold of a sequence, element by element from the left.                 *)
Fold(base, s) ==
  LET upTo[k \in 0..Len(s)] == IF k = 0 THEN base ELSE FoldStep(upTo[k - 1], s[k])
  IN  upTo[Len(s)]

IsFold(g, n, base, s) ==
  g = [k \in 0..n |-> IF k = 0 THEN base ELSE FoldStep(g[k - 1], s[k])]

(* A table of a fold, up to n, entry by entry.                             *)
LEMMA FoldAt ==
  ASSUME NEW n, NEW base, NEW s, NEW g, IsFold(g, n, base, s), NEW k \in 0..n
  PROVE  g[k] = IF k = 0 THEN base ELSE FoldStep(g[k - 1], s[k])
<1>1. g = [j \in 0..n |-> IF j = 0 THEN base ELSE FoldStep(g[j - 1], s[j])]
  BY DEF IsFold
<1> QED BY <1>1

(* There is such a table, so that the LET of a fold defines one.           *)
LEMMA FoldExists ==
  ASSUME NEW n \in Nat, NEW base, NEW s
  PROVE  \E g : IsFold(g, n, base, s)
<1> DEFINE P == {m \in 0..n : \E g : IsFold(g, m, base, s)}
<1>1. 0 \in P
  <2> DEFINE g == [k \in 0..0 |-> base]
  <2>1. g = [k \in 0..0 |-> IF k = 0 THEN base ELSE FoldStep(g[k - 1], s[k])]
    OBVIOUS
  <2>2. IsFold(g, 0, base, s)
    <3> HIDE DEF g
    <3> QED BY <2>1 DEF IsFold
  <2> QED BY <2>2
<1>2. ASSUME NEW m \in 1..n, m - 1 \in P  PROVE m \in P
  <2>1. PICK g : IsFold(g, m - 1, base, s)
    BY <1>2
  <2> DEFINE h == [k \in 0..m |-> IF k = m THEN FoldStep(g[m - 1], s[m]) ELSE g[k]]
  <2>2. \A k \in 0..m : h[k] = IF k = 0 THEN base ELSE FoldStep(h[k - 1], s[k])
    <3> SUFFICES ASSUME NEW k \in 0..m
                 PROVE  h[k] = IF k = 0 THEN base ELSE FoldStep(h[k - 1], s[k])
      OBVIOUS
    <3>1. CASE k = m
      BY <3>1
    <3>2. CASE k # m
      <4>1. k \in 0..m - 1 /\ h[k] = g[k] /\ (k # 0 => k - 1 \in 0..m /\ k - 1 # m)
        BY <3>2
      <4>2. k # 0 => h[k - 1] = g[k - 1]
        BY <4>1
      <4>3. g[k] = IF k = 0 THEN base ELSE FoldStep(g[k - 1], s[k])
        BY <2>1, <4>1, FoldAt
      <4> HIDE DEF h
      <4> QED BY <4>1, <4>2, <4>3
    <3> QED BY <3>1, <3>2
  <2>3. h = [k \in 0..m |-> IF k = 0 THEN base ELSE FoldStep(h[k - 1], s[k])]
    <3>1. h = [k \in 0..m |-> h[k]]
      OBVIOUS
    <3> HIDE DEF h
    <3> QED BY <2>2, <3>1
  <2>4. IsFold(h, m, base, s)
    <3> HIDE DEF h
    <3> QED BY <2>3 DEF IsFold
  <2> QED BY <2>4
<1>3. n \in P
  <2> HIDE DEF P
  <2>1. \A k \in 1..n : k - 1 \in P => k \in P
    BY <1>2
  <2> QED BY <1>1, <2>1, UpTo
<1> QED BY <1>3

(* Two sequences that begin alike are folded alike so far.                 *)
Alike(m, r, s) == \A k \in 1..m : r[k] = s[k]

(* Tables of folds of two sequences agree as far as the sequences do.      *)
LEMMA FoldsAgree ==
  ASSUME NEW m \in Nat, NEW n \in Nat, m <= n, NEW base, NEW s, NEW r,
         Alike(m, r, s),
         NEW g, IsFold(g, m, base, r), NEW h, IsFold(h, n, base, s)
  PROVE  \A k \in 0..m : g[k] = h[k]
<1> DEFINE P == {k \in 0..m : g[k] = h[k]}
<1>1. 0 \in P
  <2>1. 0 \in 0..m /\ 0 \in 0..n
    OBVIOUS
  <2>2. g[0] = base /\ h[0] = base
    BY <2>1, FoldAt
  <2> QED BY <2>1, <2>2
<1>2. ASSUME NEW k \in 1..m, k - 1 \in P  PROVE k \in P
  <2>1. k \in 0..m /\ k \in 0..n /\ k # 0 /\ g[k - 1] = h[k - 1]
    BY <1>2
  <2>2. g[k] = FoldStep(g[k - 1], r[k])
    BY <2>1, FoldAt
  <2>3. h[k] = FoldStep(h[k - 1], s[k])
    BY <2>1, FoldAt
  <2>4. r[k] = s[k]
    BY DEF Alike
  <2>5. g[k] = h[k]
    BY <2>1, <2>2, <2>3, <2>4
  <2> QED BY <2>1, <2>5
<1>3. \A k \in 0..m : k \in P
  <2> HIDE DEF P
  <2>1. \A k \in 1..m : k - 1 \in P => k \in P
    BY <1>2
  <2> QED BY <1>1, <2>1, UpTo
<1> QED BY <1>3

(* A fold is the last entry of its table.                                  *)
LEMMA FoldIs ==
  ASSUME NEW n \in Nat, NEW base, NEW s, Len(s) = n
  PROVE  \E g : IsFold(g, n, base, s) /\ Fold(base, s) = g[n]
<1> DEFINE g == CHOOSE f : IsFold(f, n, base, s)
<1>1. Fold(base, s) = g[n]
  BY Zenon DEF Fold, IsFold
<1>2. IsFold(g, n, base, s)
  BY FoldExists, Zenon
<1> QED BY <1>1, <1>2

(* The laws: of nothing, and of one element more.                          *)
LEMMA FoldNone ==
  ASSUME NEW base
  PROVE  Fold(base, <<>>) = base
<1>1. PICK g : IsFold(g, 0, base, <<>>) /\ Fold(base, <<>>) = g[0]
  BY FoldIs
<1>2. g[0] = base
  BY <1>1, FoldAt
<1> QED BY <1>1, <1>2

(* One element more is folded in last.                                     *)
LEMMA FoldAppend ==
  ASSUME NEW S, NEW s \in Seq(S), NEW x \in S, NEW base
  PROVE  Fold(base, Append(s, x)) = FoldStep(Fold(base, s), x)
<1> DEFINE n == Len(s)
           r == Append(s, x)
<1>1. n \in Nat /\ n + 1 \in Nat /\ Len(r) = n + 1 /\ n <= n + 1 /\ n + 1 \in 0..n + 1
  OBVIOUS
<1>2. Alike(n, s, r) /\ r[n + 1] = x
  BY DEF Alike
<1> HIDE DEF r
<1>3. PICK g : IsFold(g, n, base, s) /\ Fold(base, s) = g[n]
  BY <1>1, FoldIs
<1>4. PICK h : IsFold(h, n + 1, base, r) /\ Fold(base, r) = h[n + 1]
  BY <1>1, FoldIs
<1> HIDE DEF n
<1>5. g[n] = h[n]
  <2>1. \A k \in 0..n : g[k] = h[k]
    BY <1>1, <1>2, <1>3, <1>4, FoldsAgree
  <2> QED BY <1>1, <2>1
<1>6. h[n + 1] = FoldStep(h[n], r[n + 1])
  <2>1. h[n + 1] = IF n + 1 = 0 THEN base ELSE FoldStep(h[n + 1 - 1], r[n + 1])
    BY <1>1, <1>4, FoldAt
  <2>2. n + 1 # 0 /\ n + 1 - 1 = n
    BY <1>1
  <2> QED BY <2>1, <2>2
<1> QED BY <1>2, <1>3, <1>4, <1>5, <1>6 DEF r

-----------------------------------------------------------------------------
(* A fold from the right.                                                  *)
FoldBack(s, base) ==
  LET from[k \in 1..Len(s) + 1] ==
        IF k > Len(s) THEN base ELSE FoldStep(s[k], from[k + 1])
  IN  from[1]

IsFoldBack(g, m, n, s, base) ==
  g = [k \in m..n + 1 |-> IF k > n THEN base ELSE FoldStep(s[k], g[k + 1])]

(* A table of a fold from the right, from m on, entry by entry.            *)
LEMMA FoldBackAt ==
  ASSUME NEW m, NEW n, NEW base, NEW s, NEW g, IsFoldBack(g, m, n, s, base),
         NEW k \in m..n + 1
  PROVE  g[k] = IF k > n THEN base ELSE FoldStep(s[k], g[k + 1])
<1>1. g = [j \in m..n + 1 |-> IF j > n THEN base ELSE FoldStep(s[j], g[j + 1])]
  BY DEF IsFoldBack
<1> QED BY <1>1

(* There is such a table.                                                  *)
LEMMA FoldBackExists ==
  ASSUME NEW n \in Nat, NEW base, NEW s
  PROVE  \E g : IsFoldBack(g, 1, n, s, base)
<1> DEFINE P == {d \in 0..n : \E g : IsFoldBack(g, n + 1 - d, n, s, base)}
<1>1. 0 \in P
  <2> DEFINE g == [k \in n + 1..n + 1 |-> base]
  <2>1. g = [k \in n + 1..n + 1 |-> IF k > n THEN base ELSE FoldStep(s[k], g[k + 1])]
    OBVIOUS
  <2>2. IsFoldBack(g, n + 1, n, s, base)
    <3> HIDE DEF g
    <3> QED BY <2>1 DEF IsFoldBack
  <2>3. n + 1 - 0 = n + 1
    OBVIOUS
  <2> QED BY <2>2, <2>3
<1>2. ASSUME NEW d \in 1..n, d - 1 \in P  PROVE d \in P
  <2> DEFINE m == n + 1 - d
  <2>1. m \in 1..n /\ n + 1 - (d - 1) = m + 1
    OBVIOUS
  <2>2. PICK g : IsFoldBack(g, m + 1, n, s, base)
    BY <1>2, <2>1
  <2> HIDE DEF m
  <2> DEFINE h == [k \in m..n + 1 |-> IF k = m THEN FoldStep(s[m], g[m + 1]) ELSE g[k]]
  <2>3. \A k \in m..n + 1 : h[k] = IF k > n THEN base ELSE FoldStep(s[k], h[k + 1])
    <3> SUFFICES ASSUME NEW k \in m..n + 1
                 PROVE  h[k] = IF k > n THEN base ELSE FoldStep(s[k], h[k + 1])
      OBVIOUS
    <3>1. CASE k = m
      <4>1. ~(k > n) /\ h[k] = FoldStep(s[m], g[m + 1]) /\ h[m + 1] = g[m + 1]
        BY <2>1, <3>1
      <4> HIDE DEF h
      <4> QED BY <3>1, <4>1
    <3>2. CASE k # m
      <4>1. k \in m + 1..n + 1 /\ h[k] = g[k]
        BY <2>1, <3>2
      <4>2. k <= n => h[k + 1] = g[k + 1]
        BY <2>1, <3>2
      <4>3. g[k] = IF k > n THEN base ELSE FoldStep(s[k], g[k + 1])
        BY <2>2, <4>1, FoldBackAt
      <4>4. k > n \/ k <= n
        BY <2>1
      <4> HIDE DEF h
      <4> QED BY <4>1, <4>2, <4>3, <4>4
    <3> QED BY <3>1, <3>2
  <2>4. h = [k \in m..n + 1 |-> IF k > n THEN base ELSE FoldStep(s[k], h[k + 1])]
    <3>1. h = [k \in m..n + 1 |-> h[k]]
      OBVIOUS
    <3> HIDE DEF h
    <3> QED BY <2>3, <3>1
  <2>5. IsFoldBack(h, m, n, s, base)
    <3> HIDE DEF h
    <3> QED BY <2>4 DEF IsFoldBack
  <2>6. \E g1 : IsFoldBack(g1, n + 1 - d, n, s, base)
    BY <2>5 DEF m
  <2> QED BY <2>6
<1>3. n \in P
  <2> HIDE DEF P
  <2>1. \A k \in 1..n : k - 1 \in P => k \in P
    BY <1>2
  <2> QED BY <1>1, <2>1, UpTo
<1>4. n + 1 - n = 1
  OBVIOUS
<1> QED BY <1>3, <1>4

(* A fold from the right is the first entry of its table.                  *)
LEMMA FoldBackIs ==
  ASSUME NEW n \in Nat, NEW base, NEW s, Len(s) = n
  PROVE  \E g : IsFoldBack(g, 1, n, s, base) /\ FoldBack(s, base) = g[1]
<1> DEFINE g == CHOOSE f : IsFoldBack(f, 1, n, s, base)
<1>1. FoldBack(s, base) = g[1]
  BY Zenon DEF FoldBack, IsFoldBack
<1>2. IsFoldBack(g, 1, n, s, base)
  BY FoldBackExists, Zenon
<1> QED BY <1>1, <1>2

(* The laws, of nothing and of one element more at the end.                *)
LEMMA FoldBackNone ==
  ASSUME NEW base
  PROVE  FoldBack(<<>>, base) = base
<1>1. PICK g : IsFoldBack(g, 1, 0, <<>>, base) /\ FoldBack(<<>>, base) = g[1]
  BY FoldBackIs
<1>2. g[1] = base
  <2>1. 1 \in 1..0 + 1 /\ 1 > 0
    OBVIOUS
  <2> QED BY <1>1, <2>1, FoldBackAt
<1> QED BY <1>1, <1>2

(* One element more at the end is folded in first.                         *)
LEMMA FoldBackAppend ==
  ASSUME NEW S, NEW s \in Seq(S), NEW x \in S, NEW base
  PROVE  FoldBack(Append(s, x), base) = FoldBack(s, FoldStep(x, base))
<1> DEFINE n == Len(s)
           r == Append(s, x)
           b == FoldStep(x, base)
<1>1. n \in Nat /\ n + 1 \in Nat /\ Len(r) = n + 1
  OBVIOUS
<1>2. (\A k \in 1..n : s[k] = r[k]) /\ r[n + 1] = x
  OBVIOUS
<1> HIDE DEF r
<1>3. PICK g : IsFoldBack(g, 1, n, s, b) /\ FoldBack(s, b) = g[1]
  BY <1>1, FoldBackIs
<1>4. PICK h : IsFoldBack(h, 1, n + 1, r, base) /\ FoldBack(r, base) = h[1]
  BY <1>1, FoldBackIs
<1> HIDE DEF n
<1> DEFINE P == {d \in 0..n : g[n + 1 - d] = h[n + 1 - d]}
<1>5. 0 \in P
  <2>1. g[n + 1] = b
    <3>1. n + 1 \in 1..n + 1 /\ n + 1 > n
      BY <1>1
    <3> HIDE DEF b
    <3> QED BY <1>3, <3>1, FoldBackAt
  <2>2. h[n + 1] = FoldStep(r[n + 1], h[n + 1 + 1])
    <3>1. n + 1 \in 1..n + 1 + 1 /\ ~(n + 1 > n + 1)
      BY <1>1
    <3> QED BY <1>4, <3>1, FoldBackAt
  <2>3. h[n + 1 + 1] = base
    <3>1. n + 1 + 1 \in 1..n + 1 + 1 /\ n + 1 + 1 > n + 1
      BY <1>1
    <3> QED BY <1>4, <3>1, FoldBackAt
  <2>4. n + 1 - 0 = n + 1 /\ 0 \in 0..n
    BY <1>1
  <2> QED BY <1>2, <2>1, <2>2, <2>3, <2>4
<1>6. ASSUME NEW d \in 1..n, d - 1 \in P  PROVE d \in P
  <2> DEFINE k == n + 1 - d
  <2>1. /\ k \in 1..n /\ k \in 1..n + 1 /\ k \in 1..n + 1 + 1 /\ d \in 0..n
        /\ n + 1 - (d - 1) = k + 1 /\ ~(k > n) /\ ~(k > n + 1)
    BY <1>1
  <2>2. g[k + 1] = h[k + 1]
    BY <1>6, <2>1
  <2> HIDE DEF k
  <2>3. g[k] = FoldStep(s[k], g[k + 1])
    <3> HIDE DEF b
    <3> QED BY <1>3, <2>1, FoldBackAt
  <2>4. h[k] = FoldStep(r[k], h[k + 1])
    BY <1>4, <2>1, FoldBackAt
  <2>5. g[k] = h[k]
    BY <1>2, <2>1, <2>2, <2>3, <2>4
  <2> QED BY <2>1, <2>5 DEF k
<1>7. n \in P
  <2> HIDE DEF P
  <2>1. \A k \in 1..n : k - 1 \in P => k \in P
    BY <1>6
  <2>2. \A k \in 0..n : k \in P
    BY <1>1, <1>5, <2>1, UpTo
  <2> QED BY <1>1, <2>2
<1>8. n + 1 - n = 1
  BY <1>1
<1>9. g[1] = h[1]
  BY <1>7, <1>8
<1> QED BY <1>3, <1>4, <1>9 DEF r
=============================================================================
