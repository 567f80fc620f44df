------------------------ MODULE ModelOverlayProofs ------------------------
(***************************************************************************)
(* What the operators of ModelOverlay return, for lists of any length.     *)
(*                                                                         *)
(* Their loops are recursive functions over the positions of a list. A     *)
(* proof takes a set of positions in place of an operator: Induction is    *)
(* about a set P, and rests on the least position outside of P; Recursion  *)
(* shows that a recursive definition has a solution, whose steps are given *)
(* as a function. What is then proved of a loop is which items its result  *)
(* has (PickedItems, FlattenedItems), and where the first of them stands   *)
(* (FirstIndex, OrderedFirst).                                             *)
(***************************************************************************)
EXTENDS ModelOverlay, SequenceTheorems, WellFoundedInduction, TLAPS

\* Of any natural numbers, one is the least.
LEMMA Least ==
    ASSUME NEW T \in SUBSET Nat, T # {}
    PROVE  \E x \in T : \A y \in T : x <= y
<1> DEFINE R == OpToRel(<, Nat)
<1>1. IsWellFoundedOn(R, Nat)
  BY NatLessThanWellFounded
<1>2. \A x, y \in Nat : <<x, y>> \in R <=> x < y
  BY DEF OpToRel
<1> HIDE DEF R
<1>3. PICK x \in T : \A y \in T : ~(<<y, x>> \in R)
  BY <1>1, WFMin
<1>4. \A y \in T : y \in Nat /\ x \in Nat /\ ~(y < x)
  BY <1>2, <1>3
<1> QED
  BY <1>3, <1>4

\* Induction up to N, over a set: what is not in P has a least element.
LEMMA Induction ==
    ASSUME NEW N \in Nat, NEW P, 0 \in P, \A n \in 1..N : n - 1 \in P => n \in P
    PROVE  \A n \in 0..N : n \in P
<1> DEFINE T == {n \in 0..N : n \notin P}
<1>1. ASSUME T # {}
      PROVE  FALSE
  <2>1. T \in SUBSET Nat
    OBVIOUS
  <2>2. PICK n \in T : \A k \in T : n <= k
    <3> HIDE DEF T
    <3> QED
      BY <1>1, <2>1, Least
  <2>3. n \in 1..N /\ n - 1 \in 0..N /\ ~(n <= n - 1)
    BY <2>2
  <2>4. n - 1 \notin T
    BY <2>2, <2>3
  <2> QED
    BY <2>2, <2>3, <2>4
<1> QED
  BY <1>1

Recurses(S, init, N, step, f) ==
    f \in [0..N -> S] /\ f[0] = init /\ \A n \in 1..N : f[n] = step[n][f[n - 1]]

\* That a recursive definition defines something. step is a function, as no lemma
\* can take an operator.
LEMMA Recursion ==
    ASSUME NEW S, NEW init \in S, NEW N \in Nat, NEW step \in [1..N -> [S -> S]]
    PROVE  \E f : Recurses(S, init, N, step, f)
<1> DEFINE Solves(f, m) == f[0] = init /\ \A n \in 1..m : f[n] = step[n][f[n - 1]]
           P == {m \in 0..N : \E f \in [0..m -> S] : Solves(f, m)}
<1>1. 0 \in P
  <2>1. [n \in 0..0 |-> init] \in [0..0 -> S] /\ Solves([n \in 0..0 |-> init], 0)
    OBVIOUS
  <2>2. \E f \in [0..0 -> S] : Solves(f, 0)
    BY <2>1
  <2> HIDE DEF Solves
  <2> QED
    BY <2>2
<1>2. ASSUME NEW m \in 1..N, m - 1 \in P
      PROVE  m \in P
  <2>1. PICK f \in [0..(m - 1) -> S] : Solves(f, m - 1)
    BY <1>2
  <2> DEFINE g == [n \in 0..m |-> IF n = m THEN step[m][f[m - 1]] ELSE f[n]]
  <2>2. step[m][f[m - 1]] \in S
    OBVIOUS
  <2>3. g \in [0..m -> S]
    BY <2>2
  <2>4. g[0] = init
    BY <2>1
  <2>5. ASSUME NEW n \in 1..m
        PROVE  g[n] = step[n][g[n - 1]]
    <3>1. n \in 0..m /\ n - 1 \in 0..m /\ n - 1 # m
      OBVIOUS
    <3>2. g[n - 1] = f[n - 1]
      BY <3>1
    <3>3. CASE n = m
      <4>1. g[n] = step[m][f[m - 1]]
        BY <3>1, <3>3
      <4> QED
        BY <3>2, <3>3, <4>1
    <3>4. CASE n # m
      <4>1. g[n] = f[n] /\ n \in 1..(m - 1)
        BY <3>1, <3>4
      <4> HIDE DEF g
      <4> QED
        BY <3>2, <4>1, <2>1
    <3> QED
      BY <3>3, <3>4
  <2>6. Solves(g, m)
    BY <2>4, <2>5
  <2> HIDE DEF Solves, g
  <2> QED
    BY <2>3, <2>6
<1>3. N \in P
  <2> HIDE DEF P
  <2>1. \A n \in 0..N : n \in P
    BY <1>1, <1>2, Induction
  <2> QED
    BY <2>1
<1> QED
  BY <1>3 DEF Recurses

PicksUpTo(S, s, I, f) ==
    /\ f \in [0..Len(s) -> Seq(S)]
    /\ f[0] = <<>>
    /\ \A n \in 1..Len(s) : f[n] = IF n \in I THEN Append(f[n - 1], s[n]) ELSE f[n - 1]
    /\ picked(s, I) = f[Len(s)]

\* The recursion of picked has a solution.
LEMMA PickedUpTo ==
    ASSUME NEW S, NEW s \in Seq(S), NEW I
    PROVE  \E f : PicksUpTo(S, s, I, f)
<1> DEFINE N == Len(s)
           step == [n \in 1..N |-> [t \in Seq(S) |->
                      IF n \in I THEN Append(t, s[n]) ELSE t]]
           Picks(f) == f = [n \in 0..N |->
                              IF n = 0 THEN <<>>
                              ELSE IF n \in I THEN Append(f[n - 1], s[n]) ELSE f[n - 1]]
<1>1. N \in Nat /\ <<>> \in Seq(S) /\ \A n \in 1..N : s[n] \in S
  OBVIOUS
<1>2. step \in [1..N -> [Seq(S) -> Seq(S)]]
  BY <1>1
<1>3. PICK f : Recurses(Seq(S), <<>>, N, step, f)
  <2> HIDE DEF step, N
  <2> QED
    BY <1>1, <1>2, Recursion
<1>4. f \in [0..N -> Seq(S)] /\ f[0] = <<>> /\ \A n \in 1..N : f[n] = step[n][f[n - 1]]
  <2> HIDE DEF step, N
  <2> QED
    BY <1>3 DEF Recurses
<1>5. ASSUME NEW n \in 1..N
      PROVE  f[n] = IF n \in I THEN Append(f[n - 1], s[n]) ELSE f[n - 1]
  <2>1. n - 1 \in 0..N /\ f[n - 1] \in Seq(S)
    <3>1. n - 1 \in 0..N
      BY <1>1
    <3> HIDE DEF N
    <3> QED
      BY <1>4, <3>1
  <2>2. step[n][f[n - 1]] = IF n \in I THEN Append(f[n - 1], s[n]) ELSE f[n - 1]
    BY <2>1
  <2> HIDE DEF step
  <2> QED
    BY <1>4, <2>2
<1>6. \A n \in 0..N : n = 0 \/ n \in 1..N
  BY <1>1
<1>7. Picks(f)
  <2> HIDE DEF N
  <2> QED
    BY <1>1, <1>4, <1>5, <1>6
<1> DEFINE h == CHOOSE g : Picks(g)
<1>8. Picks(h)
  <2> HIDE DEF Picks
  <2> QED
    BY <1>7
<1>9. picked(s, I) = h[N]
  BY DEF picked
<1> HIDE DEF h
<1>10. /\ h[0] = <<>>
       /\ \A n \in 1..N : h[n] = IF n \in I THEN Append(h[n - 1], s[n]) ELSE h[n - 1]
  <2>1. 0 \in 0..N /\ \A n \in 1..N : n \in 0..N /\ n # 0
    BY <1>1
  <2> HIDE DEF N
  <2> QED
    BY <1>8, <2>1
<1> DEFINE P == {n \in 0..N : h[n] \in Seq(S)}
<1>11. 0 \in P
  <2>1. 0 \in 0..N
    BY <1>1
  <2> HIDE DEF N
  <2> QED
    BY <1>1, <1>10, <2>1
<1>12. ASSUME NEW n \in 1..N, n - 1 \in P
       PROVE  n \in P
  <2>1. h[n - 1] \in Seq(S) /\ s[n] \in S /\ n \in 0..N
    BY <1>1, <1>12
  <2>2. Append(h[n - 1], s[n]) \in Seq(S)
    BY <2>1
  <2>3. h[n] \in Seq(S)
    BY <1>10, <2>1, <2>2
  <2> QED
    BY <2>1, <2>3
<1>13. \A n \in 0..N : n \in P
  <2> HIDE DEF N, P
  <2> QED
    BY <1>1, <1>11, <1>12, Induction
<1>14. h \in [0..N -> Seq(S)]
  BY <1>8, <1>13
<1> QED
  BY <1>9, <1>10, <1>14 DEF PicksUpTo

Tracks(s, I, n, t, h) ==
    /\ h \in [1..Len(t) -> I \intersect (1..n)]
    /\ \A k \in 1..Len(t) : t[k] = s[h[k]]
    /\ \A k, l \in 1..Len(t) : k < l => h[k] < h[l]
    /\ \A i \in I \intersect (1..n) : \E k \in 1..Len(t) : h[k] = i

\* Each item that is picked comes from a position of its own, in the order of the
\* positions, and every position in I gives one.
LEMMA PickedFrom ==
    ASSUME NEW S, NEW s \in Seq(S), NEW I
    PROVE  picked(s, I) \in Seq(S) /\ \E h : Tracks(s, I, Len(s), picked(s, I), h)
<1>0. PICK f : PicksUpTo(S, s, I, f)
  BY PickedUpTo
<1>1. /\ f \in [0..Len(s) -> Seq(S)]
      /\ f[0] = <<>>
      /\ \A n \in 1..Len(s) : f[n] = IF n \in I THEN Append(f[n - 1], s[n]) ELSE f[n - 1]
      /\ picked(s, I) = f[Len(s)]
  BY <1>0 DEF PicksUpTo
<1> DEFINE N == Len(s)
           P == {n \in 0..N : \E h : Tracks(s, I, n, f[n], h)}
<1>2. N \in Nat /\ N \in 0..N /\ 0 \in 0..N
  OBVIOUS
<1> HIDE DEF N
<1>3. 0 \in P
  <2>1. Len(f[0]) = 0 /\ 1..0 = {}
    BY <1>1
  <2>2. Tracks(s, I, 0, f[0], <<>>)
    BY <2>1 DEF Tracks
  <2> QED
    BY <1>2, <2>2
<1>4. ASSUME NEW n \in 1..N, n - 1 \in P
      PROVE  n \in P
  <2>1. PICK h : Tracks(s, I, n - 1, f[n - 1], h)
    BY <1>4
  <2>2. n \in 0..N /\ n - 1 \in 0..N /\ n \in Nat
    BY <1>2
  <2> DEFINE t == f[n - 1]
             m == Len(t)
  <2>3. t \in Seq(S) /\ s[n] \in S /\ m \in Nat
    BY <1>1, <2>2 DEF N
  <2>4. f[n] = IF n \in I THEN Append(t, s[n]) ELSE t
    BY <1>1 DEF N
  <2>5. CASE n \notin I
    <3>1. I \intersect (1..n) = I \intersect (1..(n - 1))
      BY <2>2, <2>5
    <3>2. Tracks(s, I, n, f[n], h)
      BY <2>1, <2>4, <2>5, <3>1 DEF Tracks
    <3> QED
      BY <2>2, <3>2
  <2>6. CASE n \in I
    <3> DEFINE g == [k \in 1..(m + 1) |-> IF k = m + 1 THEN n ELSE h[k]]
    <3>1. /\ Len(f[n]) = m + 1 /\ f[n][m + 1] = s[n]
          /\ \A k \in 1..m : f[n][k] = t[k]
      BY <2>3, <2>4, <2>6
    <3>2. \A k \in 1..m : h[k] \in I /\ h[k] \in 1..(n - 1)
      BY <2>1 DEF Tracks
    <3>3. /\ \A k \in 1..m : k \in 1..(m + 1) /\ k # m + 1
          /\ \A k \in 1..(m + 1) : k = m + 1 \/ k \in 1..m
          /\ m + 1 \in 1..(m + 1)
      BY <2>3
    <3>4. g[m + 1] = n /\ \A k \in 1..m : g[k] = h[k]
      BY <3>3
    <3>5. g \in [1..(m + 1) -> I \intersect (1..n)]
      <4>1. \A k \in 1..m : h[k] \in I \intersect (1..n)
        BY <2>2, <3>2
      <4>2. n \in I \intersect (1..n)
        BY <2>2, <2>6
      <4> QED
        BY <3>3, <4>1, <4>2
    <3> HIDE DEF g, m, t
    <3>6. \A k \in 1..(m + 1) : f[n][k] = s[g[k]]
      BY <2>1, <3>1, <3>3, <3>4 DEF Tracks, m, t
    <3>7. \A k, l \in 1..(m + 1) : k < l => g[k] < g[l]
      <4> SUFFICES ASSUME NEW k \in 1..(m + 1), NEW l \in 1..(m + 1), k < l
                   PROVE  g[k] < g[l]
        OBVIOUS
      <4>1. k \in 1..m
        BY <2>3
      <4>2. CASE l = m + 1
        BY <2>2, <3>2, <3>4, <4>1, <4>2
      <4>3. CASE l \in 1..m
        <5>1. h[k] < h[l]
          BY <2>1, <4>1, <4>3 DEF Tracks, m, t
        <5> QED
          BY <3>4, <4>1, <4>3, <5>1
      <4> QED
        BY <3>3, <4>2, <4>3
    <3>8. ASSUME NEW i \in I \intersect (1..n)
          PROVE  \E k \in 1..(m + 1) : g[k] = i
      <4>1. CASE i = n
        BY <3>3, <3>4, <4>1
      <4>2. CASE i # n
        <5>1. i \in I \intersect (1..(n - 1))
          BY <2>2, <4>2
        <5>2. PICK k \in 1..m : h[k] = i
          BY <2>1, <5>1 DEF Tracks, m, t
        <5> QED
          BY <3>3, <3>4, <5>2
      <4> QED
        BY <4>1, <4>2
    <3>9. Tracks(s, I, n, f[n], g)
      BY <3>1, <3>5, <3>6, <3>7, <3>8 DEF Tracks
    <3> QED
      BY <2>2, <3>9
  <2> QED
    BY <2>5, <2>6
<1>5. \A n \in 0..N : n \in P
  <2> HIDE DEF P
  <2> QED
    BY <1>2, <1>3, <1>4, Induction
<1> QED
  BY <1>1, <1>2, <1>5 DEF N

\* What is picked is what stands at the positions.
LEMMA PickedItems ==
    ASSUME NEW S, NEW s \in Seq(S), NEW I \in SUBSET DOMAIN s
    PROVE  /\ picked(s, I) \in Seq(S)
           /\ ToSet(picked(s, I)) = {s[n] : n \in I}
           /\ (\A m, n \in I : s[m] = s[n] => m = n) => IsInjective(picked(s, I))
<1> DEFINE t == picked(s, I)
<1>1. t \in Seq(S)
  BY PickedFrom
<1>2. PICK h : Tracks(s, I, Len(s), t, h)
  BY PickedFrom
<1>3. DOMAIN t = 1..Len(t) /\ Len(t) \in Nat /\ I \intersect (1..Len(s)) = I
  BY <1>1
<1> HIDE DEF t
<1>4. ToSet(t) = {s[n] : n \in I}
  BY <1>2, <1>3 DEF Tracks, ToSet
<1>5. ASSUME \A m, n \in I : s[m] = s[n] => m = n
      PROVE  IsInjective(t)
  <2> SUFFICES ASSUME NEW a \in DOMAIN t, NEW b \in DOMAIN t, t[a] = t[b]
               PROVE  a = b
    BY DEF IsInjective
  <2>1. h[a] = h[b] /\ h[a] \in Nat
    BY <1>2, <1>3, <1>5 DEF Tracks
  <2>2. a \in Nat /\ b \in Nat /\ ~(a < b) /\ ~(b < a)
    BY <1>2, <1>3, <2>1 DEF Tracks
  <2> QED
    BY <2>2
<1> QED
  BY <1>1, <1>4, <1>5 DEF t

\* A list without some values (removeString, sanitizeHideList).
LEMMA WithoutItems ==
    ASSUME NEW S, NEW s \in Seq(S), NEW values
    PROVE  /\ without(s, values) \in Seq(S)
           /\ ToSet(without(s, values)) = ToSet(s) \ values
           /\ IsInjective(s) => IsInjective(without(s, values))
<1> DEFINE I == {n \in DOMAIN s : s[n] \notin values}
<1>1. I \in SUBSET DOMAIN s /\ without(s, values) = picked(s, I)
  BY DEF without
<1>2. {s[n] : n \in I} = ToSet(s) \ values
  BY DEF ToSet
<1>3. ASSUME IsInjective(s)
      PROVE  \A m, n \in I : s[m] = s[n] => m = n
  BY <1>3 DEF IsInjective
<1> HIDE DEF I
<1> QED
  BY <1>1, <1>2, <1>3, PickedItems

\* Where the items of two lists stand in the one list.
LEMMA ConcatPlaces ==
    ASSUME NEW S, NEW s \in Seq(S), NEW t \in Seq(S)
    PROVE  /\ s \o t \in Seq(S) /\ Len(s \o t) = Len(s) + Len(t)
           /\ \A k \in 1..Len(s) : k \in 1..Len(s \o t) /\ (s \o t)[k] = s[k]
           /\ \A k \in 1..Len(t) : /\ Len(s) + k \in 1..Len(s \o t)
                                   /\ (s \o t)[Len(s) + k] = t[k]
           /\ \A k \in 1..Len(s \o t) :
                 k \in 1..Len(s) \/ \E l \in 1..Len(t) : k = Len(s) + l
<1> DEFINE u == s \o t
<1>1. /\ u \in Seq(S) /\ Len(u) = Len(s) + Len(t)
      /\ \A k \in 1..Len(s) : u[k] = s[k]
      /\ \A k \in 1..Len(t) : u[Len(s) + k] = t[k]
  OBVIOUS
<1>2. \A k \in 1..Len(u) : k \in 1..Len(s) \/ \E l \in 1..Len(t) : k = Len(s) + l
  <2> TAKE k \in 1..Len(u)
  <2>1. CASE k <= Len(s)
    BY <2>1, <1>1
  <2>2. CASE ~(k <= Len(s))
    <3>1. k - Len(s) \in 1..Len(t) /\ k = Len(s) + (k - Len(s))
      BY <2>2, <1>1
    <3> QED
      BY <3>1
  <2> QED
    BY <2>1, <2>2
<1>3. /\ \A k \in 1..Len(s) : k \in 1..Len(u)
      /\ \A k \in 1..Len(t) : Len(s) + k \in 1..Len(u)
  BY <1>1
<1> QED
  BY <1>1, <1>2, <1>3

\* Putting lists together gives a list, and it is associative.
LEMMA ConcatIsSeq ==
    ASSUME NEW S, NEW s \in Seq(S), NEW t \in Seq(S)
    PROVE  s \o t \in Seq(S)
BY SMTT(30)

LEMMA ConcatAssociates ==
    ASSUME NEW S, NEW s \in Seq(S), NEW t \in Seq(S), NEW u \in Seq(S)
    PROVE  (s \o t) \o u = s \o (t \o u)
BY SMTT(30)

\* The first of five lists comes off.
FirstComesOff(s, t, v, w, x) ==
    (((s \o t) \o v) \o w) \o x = s \o (((t \o v) \o w) \o x)

LEMMA FirstOfFive ==
    ASSUME NEW S, NEW s \in Seq(S), NEW t \in Seq(S),
           NEW v \in Seq(S), NEW w \in Seq(S), NEW x \in Seq(S)
    PROVE  FirstComesOff(s, t, v, w, x)
<1> DEFINE Associate(p, q, r) == (p \o q) \o r = p \o (q \o r)
           a == t \o v
           b == a \o w
<1>1. ASSUME NEW p \in Seq(S), NEW q \in Seq(S), NEW r \in Seq(S)
      PROVE  Associate(p, q, r)
  BY SMTT(60)
<1>2. \A p, q \in Seq(S) : p \o q \in Seq(S)
  BY SMTT(60)
<1>3. Associate(s, t, v) /\ a \in Seq(S)
  <2> HIDE DEF Associate
  <2> QED
    BY <1>1, <1>2
<1>4. Associate(s, a, w) /\ b \in Seq(S)
  <2> HIDE DEF Associate, a
  <2> QED
    BY <1>1, <1>2, <1>3
<1>5. Associate(s, b, x)
  <2> HIDE DEF Associate, b
  <2> QED
    BY <1>1, <1>2, <1>4
<1> QED
  BY <1>3, <1>4, <1>5, Zenon DEF FirstComesOff

\* A list that repeats nothing but some items.
RepeatsOnly(list, X) ==
    \A m, n \in DOMAIN list : m # n /\ list[m] = list[n] => list[m] \in X

LEMMA RepeatsNothing ==
    ASSUME NEW list
    PROVE  IsInjective(list) <=> RepeatsOnly(list, {})
BY DEF IsInjective, RepeatsOnly

\* Lists one after the other repeat what each repeats and what they share.
LEMMA ConcatRepeats ==
    ASSUME NEW S, NEW s \in Seq(S), NEW t \in Seq(S), NEW X,
           RepeatsOnly(s, X), RepeatsOnly(t, X), ToSet(s) \intersect ToSet(t) \subseteq X
    PROVE  RepeatsOnly(s \o t, X)
<1> DEFINE u == s \o t
<1>1. /\ \A k \in 1..Len(s) : u[k] = s[k]
      /\ \A k \in 1..Len(t) : u[Len(s) + k] = t[k]
      /\ \A k \in 1..Len(u) : k \in 1..Len(s) \/ \E l \in 1..Len(t) : k = Len(s) + l
  BY ConcatPlaces
<1>2. DOMAIN u = 1..Len(u) /\ DOMAIN s = 1..Len(s) /\ DOMAIN t = 1..Len(t)
  BY ConcatPlaces
<1> HIDE DEF u
<1> SUFFICES ASSUME NEW a \in 1..Len(u), NEW b \in 1..Len(u), a # b, u[a] = u[b]
             PROVE  u[a] \in X
  BY <1>2 DEF RepeatsOnly, u
<1>3. \A k \in 1..Len(s), l \in 1..Len(t) : s[k] = t[l] => s[k] \in X
  BY <1>2 DEF ToSet
<1>4. /\ \A k, l \in 1..Len(s) : k # l /\ s[k] = s[l] => s[k] \in X
      /\ \A k, l \in 1..Len(t) : k # l /\ t[k] = t[l] => t[k] \in X
  BY <1>2 DEF RepeatsOnly
<1>5. CASE a \in 1..Len(s) /\ b \in 1..Len(s)
  BY <1>1, <1>4, <1>5
<1>6. CASE a \in 1..Len(s) /\ \E l \in 1..Len(t) : b = Len(s) + l
  BY <1>1, <1>3, <1>6
<1>7. CASE b \in 1..Len(s) /\ \E l \in 1..Len(t) : a = Len(s) + l
  BY <1>1, <1>3, <1>7
<1>8. CASE (\E l \in 1..Len(t) : a = Len(s) + l) /\ \E l \in 1..Len(t) : b = Len(s) + l
  <2>1. PICK k, l \in 1..Len(t) : a = Len(s) + k /\ b = Len(s) + l
    BY <1>8
  <2>2. k # l /\ u[a] = t[k] /\ u[b] = t[l]
    BY <1>1, <2>1
  <2> QED
    BY <1>4, <2>2
<1> QED
  BY <1>1, <1>5, <1>6, <1>7, <1>8

\* Lists one after the other have the items of both.
LEMMA ConcatItems ==
    ASSUME NEW S, NEW s \in Seq(S), NEW t \in Seq(S)
    PROVE  /\ s \o t \in Seq(S)
           /\ ToSet(s \o t) = ToSet(s) \union ToSet(t)
           /\ IsInjective(s) /\ IsInjective(t) /\ ToSet(s) \intersect ToSet(t) = {}
                 => IsInjective(s \o t)
<1> DEFINE u == s \o t
<1>1. /\ u \in Seq(S)
      /\ \A k \in 1..Len(s) : k \in 1..Len(u) /\ u[k] = s[k]
      /\ \A k \in 1..Len(t) : Len(s) + k \in 1..Len(u) /\ u[Len(s) + k] = t[k]
      /\ \A k \in 1..Len(u) : k \in 1..Len(s) \/ \E l \in 1..Len(t) : k = Len(s) + l
  BY ConcatPlaces
<1>2. DOMAIN u = 1..Len(u) /\ DOMAIN s = 1..Len(s) /\ DOMAIN t = 1..Len(t)
  BY <1>1
<1> HIDE DEF u
<1>3. ToSet(u) \subseteq ToSet(s) \union ToSet(t)
  <2>1. \A k \in 1..Len(u) : u[k] \in ToSet(s) \union ToSet(t)
    BY <1>1, <1>2 DEF ToSet
  <2> QED
    BY <1>2, <2>1 DEF ToSet
<1>4. ToSet(s) \union ToSet(t) \subseteq ToSet(u)
  <2>1. \A k \in 1..Len(s) : s[k] \in ToSet(u)
    BY <1>1, <1>2 DEF ToSet
  <2>2. \A k \in 1..Len(t) : t[k] \in ToSet(u)
    BY <1>1, <1>2 DEF ToSet
  <2> QED
    BY <1>2, <2>1, <2>2 DEF ToSet
<1>5. ASSUME IsInjective(s), IsInjective(t), ToSet(s) \intersect ToSet(t) = {}
      PROVE  IsInjective(u)
  BY <1>5, RepeatsNothing, ConcatRepeats DEF u
<1> QED
  BY <1>1, <1>3, <1>4, <1>5 DEF u

\* Merging adds what is missing, and repeats nothing (catalogMerger.add).
LEMMA AppendNewItems ==
    ASSUME NEW S, NEW s \in Seq(S), NEW more \in Seq(S)
    PROVE  /\ appendNew(s, more) \in Seq(S)
           /\ ToSet(appendNew(s, more)) = ToSet(s) \union ToSet(more)
           /\ IsInjective(s) => IsInjective(appendNew(s, more))
           /\ \A X : RepeatsOnly(s, X) => RepeatsOnly(appendNew(s, more), X)
<1> DEFINE I == {n \in DOMAIN more : /\ ~Contains(s, more[n])
                                    /\ \A m \in 1..(n - 1) : more[m] # more[n]}
           t == picked(more, I)
<1>1. I \in SUBSET DOMAIN more /\ appendNew(s, more) = s \o t
  BY DEF appendNew
<1>2. \A n \in I : /\ n \in 1..Len(more) /\ n \in Nat
                   /\ \A k \in 1..Len(s) : s[k] # more[n]
                   /\ \A m \in 1..(n - 1) : more[m] # more[n]
  BY DEF Contains
<1>3. \A m, n \in I : more[m] = more[n] => m = n
  <2> HIDE DEF I
  <2> TAKE m, n \in I
  <2>1. m < n => m \in 1..(n - 1)
    BY <1>2
  <2>2. n < m => n \in 1..(m - 1)
    BY <1>2
  <2> QED
    BY <1>2, <2>1, <2>2
<1>4. ASSUME NEW i \in DOMAIN more
      PROVE  more[i] \in ToSet(s) \/ \E n \in I : more[n] = more[i]
  <2> DEFINE T == {n \in DOMAIN more : more[n] = more[i]}
  <2>1. T # {} /\ T \in SUBSET Nat
    OBVIOUS
  <2>2. PICK n \in T : \A m \in T : n <= m
    <3> HIDE DEF T
    <3> QED
      BY <2>1, Least
  <2>3. n \in 1..Len(more) /\ more[n] = more[i]
    BY <2>2
  <2>4. ASSUME NEW m \in 1..(n - 1), more[m] = more[n]
        PROVE  FALSE
    <3>1. m \in T /\ ~(n <= m)
      BY <2>3, <2>4
    <3> QED
      BY <2>2, <3>1
  <2>5. CASE Contains(s, more[i])
    BY <2>5 DEF Contains, ToSet
  <2>6. CASE ~Contains(s, more[i])
    BY <2>3, <2>4, <2>6
  <2> QED
    BY <2>5, <2>6
<1> HIDE DEF I
<1>5. /\ t \in Seq(S) /\ ToSet(t) = {more[n] : n \in I} /\ IsInjective(t)
  BY <1>1, <1>3, PickedItems
<1> HIDE DEF t
<1>6. ToSet(s \o t) = ToSet(s) \union ToSet(t)
  BY <1>5, ConcatItems
<1>7. ToSet(t) \union ToSet(s) = ToSet(s) \union ToSet(more)
  BY <1>1, <1>4, <1>5 DEF ToSet
<1>8. ToSet(s) \intersect ToSet(t) = {}
  <2>1. \A n \in I : more[n] \notin ToSet(s)
    BY <1>2 DEF ToSet
  <2> QED
    BY <1>5, <2>1
<1>9. ASSUME NEW X, RepeatsOnly(s, X)
      PROVE  RepeatsOnly(s \o t, X)
  <2>1. RepeatsOnly(t, X)
    BY <1>5 DEF IsInjective, RepeatsOnly
  <2> QED
    BY <1>5, <1>8, <1>9, <2>1, ConcatRepeats
<1> QED
  BY <1>1, <1>5, <1>6, <1>7, <1>8, <1>9, ConcatItems

FlattensUpTo(S, seqs, f) ==
    /\ f \in [0..Len(seqs) -> Seq(S)]
    /\ f[0] = <<>>
    /\ \A n \in 1..Len(seqs) : f[n] = f[n - 1] \o seqs[n]
    /\ FlattenSeq(seqs) = f[Len(seqs)]

\* The recursion of FlattenSeq has a solution.
LEMMA FlattenedUpTo ==
    ASSUME NEW S, NEW seqs \in Seq(Seq(S))
    PROVE  \E f : FlattensUpTo(S, seqs, f)
<1> DEFINE N == Len(seqs)
           T == Seq(S)
           step == [n \in 1..N |-> [t \in T |-> t \o seqs[n]]]
           init == <<>>
           Flattens(f) == f = [i \in 1..N |-> IF i = 1 THEN seqs[i] ELSE f[i - 1] \o seqs[i]]
<1>1. N \in Nat /\ init \in T /\ \A n \in 1..N : seqs[n] \in T
  OBVIOUS
<1>2. step \in [1..N -> [T -> T]]
  BY <1>1
<1>0. PICK f : Recurses(T, init, N, step, f)
  <2> HIDE DEF N, T, step, init
  <2> QED
    BY <1>1, <1>2, Recursion
<1>3. f \in [0..N -> T] /\ f[0] = init /\ \A n \in 1..N : f[n] = step[n][f[n - 1]]
  <2> HIDE DEF N, T, step, init
  <2> QED
    BY <1>0 DEF Recurses
<1>4. ASSUME NEW n \in 1..N
      PROVE  n - 1 \in 0..N /\ f[n - 1] \in T /\ f[n] = f[n - 1] \o seqs[n]
  <2>1. n - 1 \in 0..N
    BY <1>1
  <2>2. f[n - 1] \in T
    BY <1>3, <2>1
  <2>3. step[n][f[n - 1]] = f[n - 1] \o seqs[n]
    BY <2>2
  <2> HIDE DEF step
  <2> QED
    BY <1>3, <2>1, <2>2, <2>3
<1>5. CASE N = 0
  <2>1. FlattenSeq(seqs) = <<>>
    BY <1>5 DEF FlattenSeq
  <2>2. f[N] = <<>>
    BY <1>3, <1>5
  <2> QED
    BY <1>3, <1>4, <2>1, <2>2 DEF FlattensUpTo
<1>6. CASE N # 0
  <2> DEFINE g == [i \in 1..N |-> f[i]]
             h == CHOOSE x : Flattens(x)
             P == {n \in 0..N : n = 0 \/ h[n] = f[n]}
  <2>1. FlattenSeq(seqs) = h[N]
    BY <1>6 DEF FlattenSeq
  <2>2. Flattens(g)
    <3>1. ASSUME NEW i \in 1..N
          PROVE  f[i] = IF i = 1 THEN seqs[i] ELSE g[i - 1] \o seqs[i]
      <4>1. CASE i = 1
        <5>1. f[i - 1] = <<>> /\ seqs[i] \in Seq(S)
          BY <1>1, <1>3, <4>1
        <5> QED
          BY <1>4, <4>1, <5>1, ConcatEmptySeq
      <4>2. CASE i # 1
        <5>1. i - 1 \in 1..N
          BY <1>1, <4>2
        <5> QED
          BY <1>4, <4>2, <5>1
      <4> QED
        BY <4>1, <4>2
    <3> QED
      BY <3>1
  <2>3. Flattens(h)
    <3> HIDE DEF Flattens
    <3> QED
      BY <2>2
  <2> HIDE DEF h
  <2>4. \A i \in 1..N : h[i] = IF i = 1 THEN seqs[i] ELSE h[i - 1] \o seqs[i]
    <3> HIDE DEF N
    <3> QED
      BY <2>3
  <2>5. 0 \in P
    BY <1>1
  <2>6. ASSUME NEW n \in 1..N, n - 1 \in P
        PROVE  n \in P
    <3>1. n \in 0..N
      BY <1>1
    <3>2. CASE n = 1
      <4>1. f[n - 1] = <<>> /\ seqs[n] \in Seq(S)
        BY <1>1, <1>3, <3>2
      <4>2. <<>> \o seqs[n] = seqs[n]
        BY <4>1, ConcatEmptySeq
      <4>3. f[n] = seqs[n]
        BY <1>4, <4>1, <4>2
      <4>4. h[n] = seqs[n]
        BY <2>4, <3>2
      <4> QED
        BY <3>1, <4>3, <4>4
    <3>3. CASE n # 1
      <4>1. h[n - 1] = f[n - 1]
        BY <1>1, <2>6, <3>3
      <4>2. h[n] = f[n]
        BY <1>4, <2>4, <3>3, <4>1
      <4> QED
        BY <3>1, <4>2
    <3> QED
      BY <3>2, <3>3
  <2>7. \A n \in 0..N : n \in P
    <3> HIDE DEF N, P
    <3> QED
      BY <1>1, <2>5, <2>6, Induction
  <2>8. h[N] = f[N]
    BY <1>1, <1>6, <2>7
  <2> QED
    BY <1>3, <1>4, <2>1, <2>8 DEF FlattensUpTo
<1> QED
  BY <1>5, <1>6

\* It comes apart between any two of the sequences.
SplitsAt(S, seqs, k, s, t) ==
    /\ s \in Seq(S) /\ t \in Seq(S)
    /\ FlattenSeq(seqs) = s \o t
    /\ ToSet(s) = UNION {ToSet(seqs[i]) : i \in 1..k}
    /\ ToSet(t) = UNION {ToSet(seqs[i]) : i \in (k + 1)..Len(seqs)}

\* A flattened list splits where any of its parts begins.
LEMMA FlattenedItems ==
    ASSUME NEW S, NEW seqs \in Seq(Seq(S)), NEW k \in 0..Len(seqs)
    PROVE  \E s, t : SplitsAt(S, seqs, k, s, t)
<1> DEFINE N == Len(seqs)
           Items(i, j) == UNION {ToSet(seqs[m]) : m \in i..j}
<1>1. PICK f : FlattensUpTo(S, seqs, f)
  BY FlattenedUpTo
<1>2. /\ f \in [0..N -> Seq(S)]
      /\ f[0] = <<>>
      /\ \A n \in 1..N : f[n] = f[n - 1] \o seqs[n]
      /\ FlattenSeq(seqs) = f[N]
  BY <1>1 DEF FlattensUpTo
<1>3. N \in Nat /\ k \in 0..N /\ 0 \in 0..N /\ N \in 0..N /\ \A n \in 1..N : seqs[n] \in Seq(S)
  OBVIOUS
<1> HIDE DEF N
<1>4. ASSUME NEW n \in 1..N
      PROVE  /\ n \in 0..N /\ n - 1 \in 0..N
             /\ f[n - 1] \in Seq(S) /\ seqs[n] \in Seq(S) /\ f[n] = f[n - 1] \o seqs[n]
  <2>1. n \in 0..N /\ n - 1 \in 0..N
    BY <1>3
  <2> QED
    BY <1>2, <1>3, <2>1
<1>5. ToSet(f[k]) = Items(1, k)
  <2> DEFINE P == {n \in 0..N : ToSet(f[n]) = Items(1, n)}
  <2>1. 0 \in P
    <3>1. 1..0 = {} /\ ToSet(<<>>) = {}
      BY DEF ToSet
    <3> QED
      BY <1>2, <1>3, <3>1
  <2>2. ASSUME NEW n \in 1..N, n - 1 \in P
        PROVE  n \in P
    <3>1. ToSet(f[n]) = ToSet(f[n - 1]) \union ToSet(seqs[n])
      <4> DEFINE a == f[n - 1]
                 b == seqs[n]
      <4>1. a \in Seq(S) /\ b \in Seq(S) /\ f[n] = a \o b
        BY <1>4
      <4> HIDE DEF a, b
      <4>2. ToSet(a \o b) = ToSet(a) \union ToSet(b)
        BY <4>1, ConcatItems
      <4> QED
        BY <4>1, <4>2 DEF a, b
    <3>2. 1..n = (1..(n - 1)) \union {n}
      BY <1>3
    <3>3. Items(1, n) = Items(1, n - 1) \union ToSet(seqs[n])
      BY <3>2
    <3> QED
      BY <1>4, <2>2, <3>1, <3>3
  <2>3. \A n \in 0..N : n \in P
    <3> HIDE DEF P
    <3> QED
      BY <1>3, <2>1, <2>2, Induction
  <2> QED
    BY <1>3, <2>3
<1>6. \E t \in Seq(S) : f[N] = f[k] \o t /\ ToSet(t) = Items(k + 1, N)
  <2> DEFINE Rest(n, t) == t \in Seq(S) /\ f[n] = f[k] \o t /\ ToSet(t) = Items(k + 1, n)
             P == {n \in 0..N : k <= n => \E t : Rest(n, t)}
  <2>1. Rest(k, <<>>)
    <3>1. (k + 1)..k = {} /\ ToSet(<<>>) = {}
      BY <1>3 DEF ToSet
    <3>2. f[k] \in Seq(S)
      BY <1>2, <1>3
    <3>3. f[k] \o <<>> = f[k]
      BY <3>2
    <3> QED
      BY <3>1, <3>3
  <2>2. 0 \in P
    <3>1. k <= 0 => k = 0
      BY <1>3
    <3> HIDE DEF Rest
    <3> QED
      BY <1>3, <2>1, <3>1
  <2>3. ASSUME NEW n \in 1..N, n - 1 \in P
        PROVE  n \in P
    <3>1. CASE k = n
      <4> HIDE DEF Rest
      <4> QED
        BY <1>4, <2>1, <3>1
    <3>2. CASE k > n
      <4> HIDE DEF Rest
      <4>1. ~(k <= n)
        BY <1>3, <3>2
      <4> QED
        BY <1>4, <4>1
    <3>3. CASE k < n
      <4>1. k <= n - 1
        BY <1>3, <3>3
      <4>2. PICK t : Rest(n - 1, t)
        <5> HIDE DEF Rest
        <5> QED
          BY <2>3, <4>1
      <4> DEFINE u == t \o seqs[n]
      <4>3. u \in Seq(S) /\ ToSet(u) = ToSet(t) \union ToSet(seqs[n])
        <5> DEFINE b == seqs[n]
        <5>1. t \in Seq(S) /\ b \in Seq(S)
          BY <1>4, <4>2
        <5> HIDE DEF b
        <5>2. t \o b \in Seq(S) /\ ToSet(t \o b) = ToSet(t) \union ToSet(b)
          BY <5>1, ConcatItems
        <5> QED
          BY <5>2 DEF b
      <4>4. f[n] = f[k] \o u
        <5>1. f[k] \in Seq(S) /\ t \in Seq(S) /\ seqs[n] \in Seq(S)
          BY <1>2, <1>3, <1>4, <4>2
        <5>2. (f[k] \o t) \o seqs[n] = f[k] \o (t \o seqs[n])
          <6> DEFINE a == f[k]
                     b == seqs[n]
          <6>1. a \in Seq(S)
            BY <5>1
          <6>2. t \in Seq(S)
            BY <5>1
          <6>3. b \in Seq(S)
            BY <5>1
          <6> HIDE DEF a, b
          <6>4. (a \o t) \o b = a \o (t \o b)
            BY <6>1, <6>2, <6>3, ConcatAssociates
          <6> QED
            BY <6>4 DEF a, b
        <5> QED
          BY <1>4, <4>2, <5>2
      <4>5. (k + 1)..n = ((k + 1)..(n - 1)) \union {n}
        BY <1>3, <3>3
      <4>6. Items(k + 1, n) = Items(k + 1, n - 1) \union ToSet(seqs[n])
        BY <4>5
      <4>7. Rest(n, u)
        BY <4>2, <4>3, <4>4, <4>6
      <4> HIDE DEF Rest, u
      <4> QED
        BY <1>4, <4>7
    <3>4. n \in Nat /\ k \in Nat
      BY <1>3
    <3> HIDE DEF P
    <3> QED
      BY <3>1, <3>2, <3>3, <3>4
  <2>4. \A n \in 0..N : n \in P
    <3> HIDE DEF P
    <3> QED
      BY <1>3, <2>2, <2>3, Induction
  <2>5. N \in P /\ k <= N
    <3> HIDE DEF P
    <3> QED
      BY <1>3, <2>4
  <2> QED
    BY <2>5
<1>7. f[k] \in Seq(S)
  BY <1>2, <1>3
<1> QED
  BY <1>2, <1>5, <1>6, <1>7 DEF N, SplitsAt

\* Flattened lists repeat nothing if none of them does and no two share an item.
LEMMA FlattenedOnce ==
    ASSUME NEW S, NEW seqs \in Seq(Seq(S)),
           \A i \in DOMAIN seqs : IsInjective(seqs[i]),
           \A i, j \in DOMAIN seqs : i # j => ToSet(seqs[i]) \intersect ToSet(seqs[j]) = {}
    PROVE  IsInjective(FlattenSeq(seqs))
<1> DEFINE N == Len(seqs)
           Items(n) == UNION {ToSet(seqs[m]) : m \in 1..n}
<1>1. PICK f : FlattensUpTo(S, seqs, f)
  BY FlattenedUpTo
<1>2. /\ f \in [0..N -> Seq(S)]
      /\ f[0] = <<>>
      /\ \A n \in 1..N : f[n] = f[n - 1] \o seqs[n]
      /\ FlattenSeq(seqs) = f[N]
  BY <1>1 DEF FlattensUpTo
<1>3. /\ N \in Nat /\ 0 \in 0..N /\ N \in 0..N /\ DOMAIN seqs = 1..N
      /\ \A n \in 1..N : seqs[n] \in Seq(S)
  OBVIOUS
<1> HIDE DEF N
<1> DEFINE P == {n \in 0..N : IsInjective(f[n]) /\ ToSet(f[n]) = Items(n)}
<1>4. 0 \in P
  <2>1. 1..0 = {} /\ ToSet(<<>>) = {} /\ IsInjective(<<>>)
    BY DEF ToSet, IsInjective
  <2> QED
    BY <1>2, <1>3, <2>1
<1>5. ASSUME NEW n \in 1..N, n - 1 \in P
      PROVE  n \in P
  <2>1. n \in 0..N /\ n - 1 \in 0..N /\ 1..n = (1..(n - 1)) \union {n}
        /\ \A m \in 1..(n - 1) : m \in 1..N /\ m # n
    BY <1>3
  <2> DEFINE a == f[n - 1]
             b == seqs[n]
  <2>2. a \in Seq(S) /\ b \in Seq(S) /\ f[n] = a \o b
    BY <1>2, <1>3, <2>1
  <2>3. IsInjective(a) /\ ToSet(a) = Items(n - 1) /\ IsInjective(b)
    BY <1>3, <1>5
  <2>4. Items(n) = Items(n - 1) \union ToSet(b)
    BY <2>1
  <2>5. Items(n - 1) \intersect ToSet(b) = {}
    BY <1>3, <2>1
  <2> HIDE DEF a, b, Items
  <2>6. ToSet(a \o b) = ToSet(a) \union ToSet(b) /\ IsInjective(a \o b)
    BY <2>2, <2>3, <2>5, ConcatItems
  <2> QED
    BY <2>1, <2>2, <2>3, <2>4, <2>6
<1>6. N \in P
  <2> HIDE DEF P
  <2>1. \A n \in 0..N : n \in P
    BY <1>3, <1>4, <1>5, Induction
  <2> QED
    BY <1>3, <2>1
<1> QED
  BY <1>2, <1>6

-----------------------------------------------------------------------------

\* A list and the set of its items.
LEMMA ItemsOf ==
    ASSUME NEW S, NEW s \in Seq(S)
    PROVE  /\ \A x : Contains(s, x) <=> x \in ToSet(s)
           /\ ToSet(s) \subseteq S
           /\ \A T : ToSet(s) \subseteq T => s \in Seq(T)
           /\ s # <<>> => ToSet(s) # {}
<1>1. DOMAIN s = 1..Len(s) /\ Len(s) \in Nat /\ \A n \in 1..Len(s) : s[n] \in S
  OBVIOUS
<1>2. \A x : Contains(s, x) <=> x \in ToSet(s)
  BY <1>1 DEF Contains, ToSet
<1>3. ToSet(s) \subseteq S
  BY <1>1 DEF ToSet
<1>4. ASSUME NEW T, ToSet(s) \subseteq T
      PROVE  s \in Seq(T)
  <2>1. \A n \in 1..Len(s) : s[n] \in T
    BY <1>1, <1>4 DEF ToSet
  <2> QED
    BY <1>1, <2>1
<1>5. ASSUME s # <<>>
      PROVE  ToSet(s) # {}
  <2>1. Len(s) # 0
    BY <1>5
  <2>2. s[1] \in ToSet(s)
    BY <1>1, <2>1 DEF ToSet
  <2> QED
    BY <2>2
<1> QED
  BY <1>2, <1>3, <1>4, <1>5

\* appendUnique adds one item.
LEMMA AppendUniqueItems ==
    ASSUME NEW S, NEW s \in Seq(S), NEW x \in S
    PROVE  appendUnique(s, x) \in Seq(S) /\ ToSet(appendUnique(s, x)) = ToSet(s) \union {x}
<1>1. CASE Contains(s, x)
  BY <1>1, ItemsOf DEF appendUnique
<1>2. CASE ~Contains(s, x)
  <2> DEFINE t == <<x>>
  <2>1. Append(s, x) = s \o t /\ t \in Seq(S) /\ ToSet(t) = {x}
    BY AppendIsConcat DEF ToSet
  <2> HIDE DEF t
  <2>2. Append(s, x) \in Seq(S) /\ ToSet(Append(s, x)) = ToSet(s) \union {x}
    BY <2>1, ConcatItems
  <2> QED
    BY <1>2, <2>2 DEF appendUnique
<1> QED
  BY <1>1, <1>2

IndexOf(s, x) == SelectInSeq(s, LAMBDA y : y = x)

\* SelectInSeq finds the first position.
LEMMA FirstIndex ==
    ASSUME NEW S, NEW s \in Seq(S), NEW x \in ToSet(s)
    PROVE  /\ IndexOf(s, x) \in 1..Len(s)
           /\ s[IndexOf(s, x)] = x
           /\ \A n \in 1..Len(s) : s[n] = x => IndexOf(s, x) <= n
<1> DEFINE T == {n \in 1..Len(s) : s[n] = x}
<1>1. T # {} /\ T \in SUBSET Nat
  BY DEF ToSet
<1>2. IndexOf(s, x) = Min(T)
  BY <1>1 DEF IndexOf, SelectInSeq
<1>3. \E n \in T : \A m \in T : n <= m
  <2> HIDE DEF T
  <2> QED
    BY <1>1, Least
<1>4. Min(T) \in T /\ \A m \in T : Min(T) <= m
  <2> HIDE DEF T
  <2> QED
    BY <1>3 DEF Min
<1> QED
  BY <1>2, <1>4

\* What is moved is before what it is dropped on, or that is not in the list.
\* The value is in the list, and there is no `before` before it.
LiesBefore(t, value, before) ==
    \E k \in DOMAIN t : t[k] = value /\ \A j \in 1..k : t[j] # before

\* A move puts the value where nothing it was moved before comes earlier.
LEMMA MoveStringPlaces ==
    ASSUME NEW S, NEW s \in Seq(S), NEW value \in S, NEW before
    PROVE  /\ moveString(s, value, before) \in Seq(S)
           /\ before # value => LiesBefore(moveString(s, value, before), value, before)
<1> DEFINE rest == removeString(s, value)
           t == moveString(s, value, before)
<1>1. rest \in Seq(S) /\ Len(rest) \in Nat
  BY WithoutItems DEF removeString
<1> HIDE DEF rest
<1>2. CASE Contains(rest, before)
  <2> DEFINE i == IndexOf(rest, before)
             head == SubSeq(rest, 1, i - 1)
             tail == SubSeq(rest, i, Len(rest))
  <2>1. t = head \o <<value>> \o tail
    BY <1>2 DEF moveString, InsertAt, IndexOf, rest
  <2>2. i \in 1..Len(rest) /\ \A n \in 1..Len(rest) : rest[n] = before => i <= n
    BY <1>1, <1>2, ItemsOf, FirstIndex
  <2> HIDE DEF i
  <2>3. head \in Seq(S) /\ Len(head) = i - 1 /\ \A n \in 1..(i - 1) : head[n] = rest[n]
    BY <1>1, <2>2
  <2>4. tail \in Seq(S)
    BY <1>1, <2>2
  <2> HIDE DEF head, tail
  <2>5. /\ t \in Seq(S) /\ i \in 1..Len(t) /\ t[i] = value
        /\ \A n \in 1..(i - 1) : t[n] = head[n]
    BY <2>1, <2>2, <2>3, <2>4
  <2> HIDE DEF t
  <2>6. ASSUME NEW j \in 1..(i - 1)
        PROVE  t[j] # before
    <3>1. j \in 1..Len(rest) /\ ~(i <= j)
      BY <1>1, <2>2
    <3>2. t[j] = rest[j]
      BY <2>3, <2>5
    <3> QED
      BY <2>2, <3>1, <3>2
  <2>7. \A j \in 1..i : j = i \/ j \in 1..(i - 1)
    BY <2>2
  <2> QED
    BY <2>5, <2>6, <2>7 DEF LiesBefore, t
<1>3. CASE ~Contains(rest, before)
  <2>1. t = Append(rest, value)
    BY <1>3 DEF moveString, rest
  <2>2. /\ t \in Seq(S) /\ Len(t) = Len(rest) + 1 /\ t[Len(rest) + 1] = value
        /\ \A n \in 1..Len(rest) : t[n] = rest[n]
    BY <1>1, <2>1
  <2>3. \A n \in 1..Len(rest) : t[n] # before
    BY <1>3, <2>2 DEF Contains
  <2>4. Len(rest) + 1 \in DOMAIN t
    BY <1>1, <2>2
  <2>5. \A j \in 1..(Len(rest) + 1) : j = Len(rest) + 1 \/ j \in 1..Len(rest)
    BY <1>1
  <2> QED
    BY <2>2, <2>3, <2>4, <2>5 DEF LiesBefore
<1> QED
  BY <1>2, <1>3

-----------------------------------------------------------------------------

\* An id is hidden by its own entry or its family's.
LEMMA HidesItems ==
    ASSUME NEW hide \in Seq(Entries), NEW id
    PROVE  hides(hide, id) <=> id \in ToSet(hide) \/ Family[id] \in ToSet(hide)
BY ItemsOf DEF hides

\* For each entry of the order, what is visible of that name.
NamedIn(visible, order) ==
    [i \in DOMAIN order |-> picked(visible, {n \in DOMAIN visible : visible[n] = order[i]})]

\* The visible models of one entry are that model alone.
LEMMA NamedItems ==
    ASSUME NEW visible \in Seq(ModelIds), NEW order \in Seq(Entries)
    PROVE  /\ NamedIn(visible, order) \in Seq(Seq(ModelIds))
           /\ Len(NamedIn(visible, order)) = Len(order)
           /\ DOMAIN NamedIn(visible, order) = DOMAIN order
           /\ \A i \in DOMAIN order :
                 /\ ToSet(NamedIn(visible, order)[i]) = ToSet(visible) \intersect {order[i]}
                 /\ IsInjective(visible) => IsInjective(NamedIn(visible, order)[i])
<1> DEFINE named == NamedIn(visible, order)
<1>1. ASSUME NEW i \in DOMAIN order
      PROVE  /\ named[i] \in Seq(ModelIds)
             /\ ToSet(named[i]) = ToSet(visible) \intersect {order[i]}
             /\ IsInjective(visible) => IsInjective(named[i])
  <2> DEFINE I == {n \in DOMAIN visible : visible[n] = order[i]}
  <2>1. {visible[n] : n \in I} = ToSet(visible) \intersect {order[i]}
    BY DEF ToSet
  <2>2. I \in SUBSET DOMAIN visible /\ named[i] = picked(visible, I)
    BY DEF NamedIn
  <2>0. IsInjective(visible) => \A m, n \in I : visible[m] = visible[n] => m = n
    BY DEF IsInjective
  <2> HIDE DEF I, named
  <2>3. /\ picked(visible, I) \in Seq(ModelIds)
        /\ ToSet(picked(visible, I)) = {visible[n] : n \in I}
        /\ IsInjective(visible) => IsInjective(picked(visible, I))
    BY <2>0, <2>2, PickedItems
  <2> QED
    BY <2>1, <2>2, <2>3
<1>2. DOMAIN named = DOMAIN order /\ DOMAIN order = 1..Len(order) /\ Len(order) \in Nat
      /\ named = [i \in DOMAIN order |-> named[i]]
  BY DEF NamedIn
<1> HIDE DEF named
<1>3. named \in Seq(Seq(ModelIds)) /\ Len(named) = Len(order)
  BY <1>1, <1>2
<1> QED
  BY <1>1, <1>2, <1>3 DEF named

\* Clients are shown what is not hidden, of the catalog and of what was added.
LEMMA ApplyItems ==
    ASSUME NEW base \in Seq(ModelIds), NEW overlay \in Overlays
    PROVE  /\ applyModelOverlay(base, overlay) \in Seq(ModelIds)
           /\ ToSet(applyModelOverlay(base, overlay))
                 = (ToSet(base) \union ToSet(overlay.add)) \ hidden(overlay)
<1> DEFINE visible == without(base, hidden(overlay))
           order == overlay.order
           named == NamedIn(visible, order)
           rest == without(visible, ToSet(order))
           add == without(overlay.add, hidden(overlay))
<1>1. order \in Seq(Entries) /\ overlay.add \in Seq(ModelIds) /\ DOMAIN order = 1..Len(order)
  BY DEF Overlays
<1>2. visible \in Seq(ModelIds) /\ ToSet(visible) = ToSet(base) \ hidden(overlay)
  BY WithoutItems
<1>3. add \in Seq(ModelIds) /\ ToSet(add) = ToSet(overlay.add) \ hidden(overlay)
  BY <1>1, WithoutItems
<1> HIDE DEF visible, order, add
<1>4. rest \in Seq(ModelIds) /\ ToSet(rest) = ToSet(visible) \ ToSet(order)
  BY <1>2, WithoutItems
<1>5. /\ named \in Seq(Seq(ModelIds)) /\ Len(named) = Len(order)
      /\ \A i \in DOMAIN order : ToSet(named[i]) = ToSet(visible) \intersect {order[i]}
  BY <1>1, <1>2, NamedItems
<1> HIDE DEF named, rest
<1>6. applyModelOverlay(base, overlay) = FlattenSeq(named) \o rest \o add
  BY DEF applyModelOverlay, named, NamedIn, rest, add, visible, order
<1>7. FlattenSeq(named) \in Seq(ModelIds)
      /\ ToSet(FlattenSeq(named)) = ToSet(visible) \intersect ToSet(order)
  <2>1. Len(named) \in 0..Len(named) /\ 1..Len(named) = DOMAIN order
    BY <1>1, <1>5
  <2>2. PICK s, t : SplitsAt(ModelIds, named, Len(named), s, t)
    BY <1>5, <2>1, FlattenedItems
  <2>3. ToSet(s) = ToSet(visible) \intersect ToSet(order)
    <3>1. ToSet(s) = UNION {ToSet(named[i]) : i \in DOMAIN order}
      BY <2>1, <2>2 DEF SplitsAt
    <3>2. \A x : x \in ToSet(order) <=> \E i \in DOMAIN order : x = order[i]
      BY DEF ToSet
    <3> QED
      BY <1>5, <3>1, <3>2
  <2>4. ToSet(t) = {}
    <3>1. (Len(named) + 1)..Len(named) = {}
      BY <2>1
    <3> QED
      BY <2>2, <3>1 DEF SplitsAt
  <2>5. s \in Seq(ModelIds) /\ t \in Seq(ModelIds) /\ FlattenSeq(named) = s \o t
    BY <2>2 DEF SplitsAt
  <2>6. s \o t \in Seq(ModelIds) /\ ToSet(s \o t) = ToSet(s) \union ToSet(t)
    BY <2>5, ConcatItems
  <2> QED
    BY <2>3, <2>4, <2>5, <2>6
<1> DEFINE first == FlattenSeq(named)
           both == first \o rest
<1> HIDE DEF first
<1>8. both \in Seq(ModelIds) /\ ToSet(both) = ToSet(first) \union ToSet(rest)
  BY <1>4, <1>7, ConcatItems DEF first
<1> HIDE DEF both
<1>9. both \o add \in Seq(ModelIds) /\ ToSet(both \o add) = ToSet(both) \union ToSet(add)
  BY <1>3, <1>8, ConcatItems
<1>10. applyModelOverlay(base, overlay) = both \o add
  BY <1>6 DEF both, first
<1> QED
  BY <1>2, <1>3, <1>4, <1>7, <1>8, <1>9, <1>10 DEF first

\* What clients are shown repeats nothing but a model that is in the catalog and was
\* added as well.
LEMMA ApplyRepeats ==
    ASSUME NEW base \in Seq(ModelIds), NEW overlay \in Overlays,
           IsInjective(base), IsInjective(overlay.order), IsInjective(overlay.add)
    PROVE  RepeatsOnly(applyModelOverlay(base, overlay), ToSet(base) \intersect ToSet(overlay.add))
<1> DEFINE visible == without(base, hidden(overlay))
           order == overlay.order
           named == NamedIn(visible, order)
           first == FlattenSeq(named)
           rest == without(visible, ToSet(order))
           add == without(overlay.add, hidden(overlay))
           both == first \o rest
           X == ToSet(base) \intersect ToSet(overlay.add)
<1>1. order \in Seq(Entries) /\ overlay.add \in Seq(ModelIds)
  BY DEF Overlays
<1>2. /\ visible \in Seq(ModelIds) /\ IsInjective(visible)
      /\ ToSet(visible) = ToSet(base) \ hidden(overlay)
  BY WithoutItems
<1>3. /\ add \in Seq(ModelIds) /\ IsInjective(add)
      /\ ToSet(add) = ToSet(overlay.add) \ hidden(overlay)
  BY <1>1, WithoutItems
<1>4. applyModelOverlay(base, overlay) = both \o add
  BY DEF applyModelOverlay, NamedIn
<1>5. \A i, j \in DOMAIN order : i # j => order[i] # order[j]
  BY DEF IsInjective
<1> HIDE DEF visible, order, add
<1>6. /\ named \in Seq(Seq(ModelIds)) /\ DOMAIN named = DOMAIN order
      /\ \A i \in DOMAIN order : /\ ToSet(named[i]) = ToSet(visible) \intersect {order[i]}
                                 /\ IsInjective(named[i])
  <2> HIDE DEF named
  <2>1. /\ named \in Seq(Seq(ModelIds)) /\ DOMAIN named = DOMAIN order
        /\ \A i \in DOMAIN order : /\ ToSet(named[i]) = ToSet(visible) \intersect {order[i]}
                                   /\ IsInjective(visible) => IsInjective(named[i])
    BY <1>1, <1>2, NamedItems DEF named
  <2> QED
    BY <1>2, <2>1
<1>7. rest \in Seq(ModelIds) /\ IsInjective(rest) /\ ToSet(rest) = ToSet(visible) \ ToSet(order)
  BY <1>2, WithoutItems
<1> HIDE DEF named, rest
<1>8. IsInjective(first)
  BY <1>5, <1>6, FlattenedOnce
<1>9. first \in Seq(ModelIds) /\ ToSet(first) \subseteq ToSet(visible) \intersect ToSet(order)
  <2>1. Len(named) \in 0..Len(named) /\ 1..Len(named) = DOMAIN order
    BY <1>6
  <2>2. PICK s, t : SplitsAt(ModelIds, named, Len(named), s, t)
    BY <1>6, <2>1, FlattenedItems
  <2>3. /\ s \in Seq(ModelIds) /\ t \in Seq(ModelIds) /\ first = s \o t
        /\ ToSet(s) = UNION {ToSet(named[i]) : i \in DOMAIN order}
        /\ ToSet(t) = {}
    <3>1. (Len(named) + 1)..Len(named) = {}
      BY <2>1
    <3>2. /\ s \in Seq(ModelIds) /\ t \in Seq(ModelIds) /\ first = s \o t
          /\ ToSet(s) = UNION {ToSet(named[i]) : i \in 1..Len(named)}
          /\ ToSet(t) = UNION {ToSet(named[i]) : i \in (Len(named) + 1)..Len(named)}
      BY <2>2 DEF SplitsAt
    <3> HIDE DEF first
    <3>3. ToSet(t) = {}
      BY <3>1, <3>2
    <3> QED
      BY <2>1, <3>2, <3>3
  <2>4. \A i \in DOMAIN order : order[i] \in ToSet(order)
    BY DEF ToSet
  <2>5. s \o t \in Seq(ModelIds) /\ ToSet(s \o t) = ToSet(s) \union ToSet(t)
    BY <2>3, ConcatItems
  <2> QED
    BY <1>6, <2>3, <2>4, <2>5
<1> HIDE DEF first
<1>10. both \in Seq(ModelIds) /\ IsInjective(both) /\ ToSet(both) \subseteq ToSet(visible)
  <2>1. ToSet(first) \intersect ToSet(rest) = {}
    BY <1>7, <1>9
  <2> QED
    BY <1>7, <1>8, <1>9, <2>1, ConcatItems
<1> HIDE DEF both
<1>11. RepeatsOnly(both, X) /\ RepeatsOnly(add, X) /\ ToSet(both) \intersect ToSet(add) \subseteq X
  <2>1. ToSet(both) \intersect ToSet(add) \subseteq X
    BY <1>2, <1>3, <1>10
  <2> HIDE DEF X
  <2> QED
    BY <1>3, <1>10, <2>1 DEF IsInjective, RepeatsOnly
<1> HIDE DEF X
<1>12. RepeatsOnly(both \o add, X)
  BY <1>3, <1>10, <1>11, ConcatRepeats
<1> QED
  BY <1>4, <1>12 DEF X

\* The panel is shown all of the catalog, and what was added and is not hidden.
LEMMA AdminItems ==
    ASSUME NEW base \in Seq(ModelIds), NEW overlay \in Overlays
    PROVE  /\ applyModelOverlayForAdmin(base, overlay) \in Seq(ModelIds)
           /\ ToSet(applyModelOverlayForAdmin(base, overlay))
                 = ToSet(base) \union (ToSet(overlay.add) \ hidden(overlay))
           /\ \A X : RepeatsOnly(applyModelOverlay(base, overlay), X)
                       => RepeatsOnly(applyModelOverlayForAdmin(base, overlay), X)
<1> DEFINE shown == applyModelOverlay(base, overlay)
           gone == without(base, ModelIds \ hidden(overlay))
<1>1. /\ shown \in Seq(ModelIds)
      /\ ToSet(shown) = (ToSet(base) \union ToSet(overlay.add)) \ hidden(overlay)
  BY ApplyItems
<1>2. gone \in Seq(ModelIds) /\ ToSet(gone) = ToSet(base) \ (ModelIds \ hidden(overlay))
  BY WithoutItems
<1>3. ToSet(base) \subseteq ModelIds
  BY ItemsOf
<1> HIDE DEF shown, gone
<1>4. /\ appendNew(shown, gone) \in Seq(ModelIds)
      /\ ToSet(appendNew(shown, gone)) = ToSet(shown) \union ToSet(gone)
      /\ \A X : RepeatsOnly(shown, X) => RepeatsOnly(appendNew(shown, gone), X)
  BY <1>1, <1>2, AppendNewItems
<1>5. applyModelOverlayForAdmin(base, overlay) = appendNew(shown, gone)
  BY DEF applyModelOverlayForAdmin, shown, gone
<1> QED
  BY <1>1, <1>2, <1>3, <1>4, <1>5 DEF shown

\* What is in the first of two lists comes before what is only in the second.
LEMMA FirstInPrefix ==
    ASSUME NEW S, NEW s \in Seq(S), NEW t \in Seq(S),
           NEW x \in ToSet(s), NEW y \in ToSet(s \o t), y \notin ToSet(s)
    PROVE  IndexOf(s \o t, x) < IndexOf(s \o t, y)
<1> DEFINE u == s \o t
           i == IndexOf(u, x)
           j == IndexOf(u, y)
<1>1. u \in Seq(S) /\ Len(u) = Len(s) + Len(t) /\ \A k \in 1..Len(s) : u[k] = s[k]
  OBVIOUS
<1>2. x \in ToSet(u) /\ y \in ToSet(u)
  BY ConcatItems
<1> HIDE DEF u
<1>3. /\ i \in 1..Len(u) /\ \A n \in 1..Len(u) : u[n] = x => i <= n
      /\ j \in 1..Len(u) /\ u[j] = y
  BY <1>1, <1>2, FirstIndex
<1> HIDE DEF i, j
<1>4. PICK k \in 1..Len(s) : s[k] = x
  BY DEF ToSet
<1>5. k \in 1..Len(u) /\ u[k] = x
  BY <1>1, <1>4
<1>6. i <= Len(s)
  BY <1>1, <1>3, <1>4, <1>5
<1>7. ~(j <= Len(s))
  <2> SUFFICES ASSUME j \in 1..Len(s)
               PROVE  FALSE
    BY <1>1, <1>3
  <2> QED
    BY <1>1, <1>3 DEF ToSet
<1>8. i < j
  BY <1>1, <1>3, <1>6, <1>7
<1> QED
  BY <1>8 DEF i, j, u

\* What is in the order is shown before what is not, or comes later in it.
LEMMA OrderedFirst ==
    ASSUME NEW base \in Seq(ModelIds), NEW overlay \in Overlays,
           NEW id \in ToSet(base) \ hidden(overlay),
           NEW other \in ToSet(base) \ hidden(overlay),
           NEW k \in DOMAIN overlay.order, overlay.order[k] = id,
           \A j \in 1..k : overlay.order[j] # other
    PROVE  LET list == applyModelOverlayForAdmin(base, overlay)
           IN  IndexOf(list, id) < IndexOf(list, other)
<1> DEFINE visible == without(base, hidden(overlay))
           order == overlay.order
           named == NamedIn(visible, order)
           rest == without(visible, ToSet(order))
           add == without(overlay.add, hidden(overlay))
           Fresh(list, n) == /\ ~Contains(applyModelOverlay(base, overlay), list[n])
                             /\ \A m \in 1..(n - 1) : list[m] # list[n]
           gone == without(base, ModelIds \ hidden(overlay))
           news == picked(gone, {n \in DOMAIN gone : Fresh(gone, n)})
           list == applyModelOverlayForAdmin(base, overlay)
<1>1. order \in Seq(Entries) /\ overlay.add \in Seq(ModelIds) /\ DOMAIN order = 1..Len(order)
  BY DEF Overlays
<1>2. visible \in Seq(ModelIds) /\ ToSet(visible) = ToSet(base) \ hidden(overlay)
  BY WithoutItems
<1>3. add \in Seq(ModelIds)
  BY <1>1, WithoutItems
<1>4. gone \in Seq(ModelIds)
  BY WithoutItems
<1>5. news \in Seq(ModelIds)
  <2> DEFINE I == {n \in DOMAIN gone : Fresh(gone, n)}
  <2>1. I \in SUBSET DOMAIN gone
    OBVIOUS
  <2> HIDE DEF I, gone
  <2>2. picked(gone, I) \in Seq(ModelIds)
    BY <1>4, <2>1, PickedItems
  <2> QED
    BY <2>2 DEF I
<1>6. list = (FlattenSeq(named) \o rest \o add) \o news
  BY DEF applyModelOverlayForAdmin, appendNew, applyModelOverlay, NamedIn
<1>7. list \in Seq(ModelIds) /\ other \in ToSet(list)
  BY AdminItems
<1> HIDE DEF visible, order, add, gone, news, list
<1>8. rest \in Seq(ModelIds)
  BY <1>2, WithoutItems
<1>9. /\ named \in Seq(Seq(ModelIds)) /\ Len(named) = Len(order)
      /\ \A i \in DOMAIN order : ToSet(named[i]) = ToSet(visible) \intersect {order[i]}
  BY <1>1, <1>2, NamedItems
<1> HIDE DEF named, rest
<1>10. k \in 0..Len(named) /\ k \in 1..k /\ k \in 1..Len(order) /\ 1..k \subseteq DOMAIN order
  BY <1>1, <1>9 DEF order
<1>11. PICK s, t : SplitsAt(ModelIds, named, k, s, t)
  BY <1>9, <1>10, FlattenedItems
<1>12. /\ s \in Seq(ModelIds) /\ t \in Seq(ModelIds) /\ FlattenSeq(named) = s \o t
       /\ ToSet(s) = UNION {ToSet(named[i]) : i \in 1..k}
  BY <1>11 DEF SplitsAt
<1>13. id \in ToSet(s)
  BY <1>2, <1>9, <1>10, <1>12 DEF order
<1>14. other \notin ToSet(s)
  <2>1. \A i \in 1..k : ToSet(named[i]) = ToSet(visible) \intersect {order[i]}
    BY <1>9, <1>10
  <2>2. \A i \in 1..k : order[i] # other
    BY DEF order
  <2>3. \A i \in 1..k : other \notin ToSet(named[i])
    BY <2>1, <2>2
  <2> QED
    BY <1>12, <2>3
<1> DEFINE u == ((t \o rest) \o add) \o news
<1>15. u \in Seq(ModelIds) /\ list = s \o u
  <2>1. list = (((s \o t) \o rest) \o add) \o news
    BY <1>6, <1>12
  <2>2. s \in Seq(ModelIds) /\ t \in Seq(ModelIds)
    BY <1>12
  <2>3. FirstComesOff(s, t, rest, add, news)
    BY <1>3, <1>5, <1>8, <2>2, FirstOfFive
  <2>4. u \in Seq(ModelIds)
    BY <1>3, <1>5, <1>8, <2>2, ConcatIsSeq
  <2> QED
    BY <2>1, <2>3, <2>4 DEF FirstComesOff
<1> HIDE DEF u
<1>16. IndexOf(s \o u, id) < IndexOf(s \o u, other)
  BY <1>7, <1>12, <1>13, <1>14, <1>15, FirstInPrefix
<1> QED
  BY <1>15, <1>16 DEF list
===========================================================================
