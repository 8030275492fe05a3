--------------------------- MODULE DataInduction ---------------------------
(***************************************************************************)
(* Induction over the natural numbers in a form without an operator        *)
(* parameter, and what follows from it for the recursive operators the     *)
(* models are built from.                                                  *)
(***************************************************************************)
EXTENDS Integers, Sequences, FiniteSetsExt, WellFoundedInduction, TLAPS

Below == {pair \in Nat \X Nat : pair[1] < pair[2]}

LEMMA BelowWellFounded == IsWellFoundedOn(Below, Nat)
<1>1. OpToRel(<, Nat) = Below
  BY Zenon DEF OpToRel, Below
<1> QED BY Zenon, <1>1, NatLessThanWellFounded

\* A set of natural numbers that is not empty has a least element.
LEMMA LeastNumber ==
  ASSUME NEW T \in SUBSET Nat, T # {}
  PROVE  \E x \in T : \A y \in T : x <= y
<1>1. PICK x \in T : \A y \in T : ~ (<<y, x>> \in Below)
  BY Zenon, BelowWellFounded, WFMin
<1>2. ASSUME NEW y \in T, y < x PROVE FALSE
  <2> DEFINE z == <<y, x>>
  <2>1. z \in Nat \X Nat /\ z[1] = y /\ z[2] = x
    OBVIOUS
  <2>2. z \in Below
    BY <2>1, <1>2, Zenon DEF Below
  <2> QED BY <2>2, <1>1
<1> QED BY <1>2

\* Induction: what 0 and the successor of each of its elements are in, is all
\* of Nat.
LEMMA NatInduct ==
  ASSUME NEW S \in SUBSET Nat, 0 \in S, \A n \in S : n + 1 \in S
  PROVE  S = Nat
<1> SUFFICES ASSUME S # Nat PROVE FALSE
  OBVIOUS
<1>1. PICK x \in Nat \ S : \A y \in Nat \ S : x <= y
  BY LeastNumber
<1>2. x - 1 \in S
  BY <1>1
<1> QED BY <1>1, <1>2

-----------------------------------------------------------------------------
(***************************************************************************)
(* FoldLeft of the community modules.  Its steps are given as a function g *)
(* on A \X X; Folded is what they lead to.                                 *)
(***************************************************************************)

IsFold(f, A, g, base, s) ==
  /\ f \in [0..Len(s) -> A] /\ f[0] = base
  /\ \A n \in 1..Len(s) : f[n] = g[<<f[n - 1], s[n]>>]

\* The steps over s, from base, stay in A.
FoldStays(A, g, base, s) ==
  /\ base \in A /\ Len(s) \in Nat
  /\ \A a \in A : \A n \in 1..Len(s) : g[<<a, s[n]>>] \in A

Folded(A, g, base, s) == (CHOOSE f : IsFold(f, A, g, base, s))[Len(s)]

LEMMA FoldExists ==
  ASSUME NEW A, NEW g, NEW base, NEW s, FoldStays(A, g, base, s)
  PROVE  \E f : IsFold(f, A, g, base, s)
<1> DEFINE Part(f, k) == /\ f \in [0..k -> A] /\ f[0] = base
                         /\ \A n \in 1..k : f[n] = g[<<f[n - 1], s[n]>>]
           S == {k \in Nat : k <= Len(s) => \E f : Part(f, k)}
<1>0. /\ base \in A /\ Len(s) \in Nat
      /\ \A a \in A : \A n \in 1..Len(s) : g[<<a, s[n]>>] \in A
  BY DEF FoldStays
<1>1. 0 \in S
  <2>1. Part([i \in 0..0 |-> base], 0)
    BY <1>0
  <2> QED BY <2>1
<1>2. ASSUME NEW k \in S PROVE k + 1 \in S
  <2> SUFFICES ASSUME k + 1 <= Len(s) PROVE \E f : Part(f, k + 1)
    OBVIOUS
  <2>1. PICK f : Part(f, k)
    OBVIOUS
  <2> DEFINE last == g[<<f[k], s[k + 1]>>]
  <2>2. last \in A
    <3>1. f[k] \in A /\ k + 1 \in 1..Len(s)
      BY <1>0, <2>1
    <3> QED BY <1>0, <3>1
  <2> HIDE DEF last
  <2> DEFINE h == [i \in 0..(k + 1) |-> IF i = k + 1 THEN last ELSE f[i]]
  <2>3. h \in [0..(k + 1) -> A] /\ h[0] = base
    BY <2>1, <2>2
  <2>4. ASSUME NEW n \in 1..(k + 1) PROVE h[n] = g[<<h[n - 1], s[n]>>]
    <3>1. CASE n = k + 1
      <4>1. h[n] = last /\ h[n - 1] = f[k]
        BY <3>1
      <4> QED BY <3>1, <4>1 DEF last
    <3>2. CASE n # k + 1
      <4>1. n \in 1..k /\ n \in 0..(k + 1) /\ n - 1 \in 0..(k + 1) /\ n - 1 # k + 1
        BY <3>2
      <4>2. h[n] = f[n] /\ h[n - 1] = f[n - 1]
        BY <3>2, <4>1
      <4> QED BY <2>1, <4>1, <4>2
    <3> QED BY <3>1, <3>2
  <2> QED BY <2>3, <2>4
<1> HIDE DEF S
<1>3. S \in SUBSET Nat
  BY DEF S
<1>4. S = Nat
  BY <1>1, <1>2, <1>3, NatInduct
<1>5. PICK f : Part(f, Len(s))
  BY <1>0, <1>4 DEF S
<1> QED BY <1>5 DEF IsFold

\* Two functions that make the same steps end alike.
LEMMA FoldUnique ==
  ASSUME NEW A, NEW g, NEW base, NEW s, NEW f, NEW h, Len(s) \in Nat,
         IsFold(f, A, g, base, s), IsFold(h, A, g, base, s)
  PROVE  f[Len(s)] = h[Len(s)]
<1> DEFINE S == {n \in Nat : n <= Len(s) => f[n] = h[n]}
<1>1. 0 \in S
  BY DEF IsFold
<1>2. ASSUME NEW n \in S PROVE n + 1 \in S
  <2> SUFFICES ASSUME n + 1 <= Len(s) PROVE f[n + 1] = h[n + 1]
    OBVIOUS
  <2>1. n + 1 \in 1..Len(s) /\ n + 1 - 1 = n
    OBVIOUS
  <2>2. f[n + 1] = g[<<f[n], s[n + 1]>>] /\ h[n + 1] = g[<<h[n], s[n + 1]>>]
    BY <2>1 DEF IsFold
  <2> QED BY <2>1, <2>2
<1> HIDE DEF S
<1>3. S \in SUBSET Nat
  BY DEF S
<1>4. S = Nat
  BY <1>1, <1>2, <1>3, NatInduct
<1> QED BY <1>4 DEF S

LEMMA FoldedIs ==
  ASSUME NEW A, NEW g, NEW base, NEW s, Len(s) \in Nat,
         NEW f, IsFold(f, A, g, base, s)
  PROVE  Folded(A, g, base, s) = f[Len(s)]
<1> DEFINE c == CHOOSE h : IsFold(h, A, g, base, s)
<1>1. IsFold(c, A, g, base, s)
  OBVIOUS
<1> HIDE DEF c
<1>2. c[Len(s)] = f[Len(s)]
  BY <1>1, FoldUnique
<1> QED BY <1>2 DEF Folded, c

\* t is s and x.
IsAppend(t, s, x) ==
  /\ Len(s) \in Nat /\ Len(t) = Len(s) + 1 /\ t[Len(s) + 1] = x
  /\ \A i \in 1..Len(s) : t[i] = s[i]

FoldGrows(A, g, base, s, x, t) ==
  Folded(A, g, base, t) = g[<<Folded(A, g, base, s), x>>]

\* What a fold over nothing, and over one element more, gives.
LEMMA FoldedType ==
  ASSUME NEW A, NEW g, NEW base, NEW s, FoldStays(A, g, base, s)
  PROVE  Folded(A, g, base, s) \in A
<1>1. PICK f : IsFold(f, A, g, base, s)
  BY FoldExists
<1>2. Len(s) \in 0..Len(s) /\ Len(s) \in Nat
  BY DEF FoldStays
<1>3. Folded(A, g, base, s) = f[Len(s)]
  BY <1>1, <1>2, FoldedIs
<1> QED BY <1>1, <1>2, <1>3 DEF IsFold

LEMMA FoldedNone ==
  ASSUME NEW A, NEW g, NEW base \in A
  PROVE  Folded(A, g, base, <<>>) = base
<1>1. FoldStays(A, g, base, <<>>) /\ Len(<<>>) = 0
  BY DEF FoldStays
<1>2. PICK e : IsFold(e, A, g, base, <<>>)
  BY <1>1, FoldExists
<1>3. Folded(A, g, base, <<>>) = e[Len(<<>>)]
  BY <1>1, <1>2, FoldedIs
<1> QED BY <1>1, <1>2, <1>3 DEF IsFold

LEMMA FoldedAppend ==
  ASSUME NEW A, NEW g, NEW base, NEW s, NEW x, NEW t,
         FoldStays(A, g, base, t), IsAppend(t, s, x)
  PROVE  FoldGrows(A, g, base, s, x, t)
<1>5. /\ Len(s) \in Nat /\ Len(t) = Len(s) + 1 /\ t[Len(s) + 1] = x
      /\ \A i \in 1..Len(s) : t[i] = s[i]
  BY DEF IsAppend
<1>6. PICK h : IsFold(h, A, g, base, t)
  BY FoldExists
<1>7. Folded(A, g, base, t) = h[Len(s) + 1]
  <2>1. Folded(A, g, base, t) = h[Len(t)]
    BY <1>5, <1>6, FoldedIs
  <2> QED BY <1>5, <2>1
<1>8. h[Len(s)] = Folded(A, g, base, s)
  <2> DEFINE r == [i \in 0..Len(s) |-> h[i]]
  <2>1. \A n \in 1..Len(s) : n \in 1..Len(t) /\ n \in 0..Len(s) /\ n - 1 \in 0..Len(s)
    BY <1>5
  <2>2. \A n \in 1..Len(s) : r[n] = g[<<r[n - 1], s[n]>>]
    BY <1>5, <1>6, <2>1 DEF IsFold
  <2>3. r \in [0..Len(s) -> A] /\ r[0] = base /\ r[Len(s)] = h[Len(s)]
    BY <1>5, <1>6 DEF IsFold
  <2> HIDE DEF r
  <2>4. IsFold(r, A, g, base, s)
    BY <2>2, <2>3 DEF IsFold
  <2> QED BY <1>5, <2>3, <2>4, FoldedIs
<1>9. h[Len(s) + 1] = g[<<h[Len(s)], x>>]
  <2>1. Len(s) + 1 \in 1..Len(t) /\ Len(s) + 1 - 1 = Len(s)
    BY <1>5
  <2> QED BY <1>5, <1>6, <2>1 DEF IsFold
<1> QED BY <1>7, <1>8, <1>9 DEF FoldGrows

\* FoldLeft folds over the set of indices, the largest one last.
SetFold(iter, g, base, s) ==
  \A t \in SUBSET (1..Len(s)) :
    iter[t] = IF t = {} THEN base ELSE g[<<iter[t \ {Max(t)}], s[Max(t)]>>]

LEMMA MaxIn ==
  ASSUME NEW n \in Nat, NEW t \in SUBSET (1..n), t # {}
  PROVE  Max(t) \in t /\ \A y \in t : Max(t) >= y
<1> DEFINE mirror == {m \in Nat : m <= n /\ n - m \in t}
<1>1. PICK y \in t : TRUE
  OBVIOUS
<1>2. n - y \in mirror
  OBVIOUS
<1>3. PICK m \in mirror : \A k \in mirror : m <= k
  <2> HIDE DEF mirror
  <2>1. mirror \in SUBSET Nat
    BY DEF mirror
  <2> QED BY <1>2, <2>1, LeastNumber
<1>4. n - m \in t /\ \A z \in t : n - m >= z
  <2>1. ASSUME NEW z \in t PROVE n - m >= z
    <3>1. n - z \in mirror /\ z \in Nat
      OBVIOUS
    <3>2. m <= n - z /\ m \in Nat
      BY <1>3, <3>1
    <3> QED BY <3>1, <3>2
  <2> QED BY <1>3, <2>1
<1> QED BY <1>4 DEF Max

LEMMA MaxOfFirst ==
  ASSUME NEW n \in Nat, n # 0
  PROVE  Max(1..n) = n /\ (1..n) \ {n} = 1..(n - 1) /\ 1..n # {}
<1>1. 1..n \in SUBSET (1..n) /\ 1..n # {} /\ n \in 1..n
  OBVIOUS
<1>2. Max(1..n) \in 1..n /\ Max(1..n) >= n
  BY <1>1, MaxIn
<1> QED BY <1>1, <1>2

LEMMA SetFoldExists ==
  ASSUME NEW A, NEW g, NEW base, NEW s, FoldStays(A, g, base, s)
  PROVE  \E iter \in [SUBSET (1..Len(s)) -> A] : SetFold(iter, g, base, s)
<1>0. /\ base \in A /\ Len(s) \in Nat
      /\ \A a \in A : \A n \in 1..Len(s) : g[<<a, s[n]>>] \in A
  BY DEF FoldStays
<1> DEFINE Part(f, k) ==
             /\ f \in [SUBSET (1..k) -> A]
             /\ \A t \in SUBSET (1..k) :
                  f[t] = IF t = {} THEN base ELSE g[<<f[t \ {Max(t)}], s[Max(t)]>>]
<1> HIDE DEF Part
<1> DEFINE S == {k \in Nat : k <= Len(s) => \E f : Part(f, k)}
<1>1. 0 \in S
  <2> DEFINE f == [t \in SUBSET (1..0) |-> base]
  <2>1. f \in [SUBSET (1..0) -> A] /\ \A t \in SUBSET (1..0) : t = {} /\ f[t] = base
    BY <1>0
  <2> HIDE DEF f
  <2>2. Part(f, 0)
    BY <2>1 DEF Part
  <2> QED BY <2>2
<1>2. ASSUME NEW k \in S PROVE k + 1 \in S
  <2> SUFFICES ASSUME k + 1 <= Len(s) PROVE \E f : Part(f, k + 1)
    OBVIOUS
  <2>1. PICK f : Part(f, k)
    OBVIOUS
  <2> DEFINE last(t) == g[<<f[t \ {k + 1}], s[k + 1]>>]
  <2>2. ASSUME NEW t \in SUBSET (1..(k + 1))
        PROVE  /\ t \ {k + 1} \in SUBSET (1..k)
               /\ k + 1 \in t => Max(t) = k + 1
               /\ k + 1 \notin t => t \in SUBSET (1..k)
    <3>1. CASE k + 1 \in t
      <4> DEFINE n == k + 1
      <4>1. n \in Nat /\ t \in SUBSET (1..n) /\ t # {} /\ n \in t
        BY <3>1
      <4> HIDE DEF n
      <4>2. Max(t) \in t /\ Max(t) >= n
        BY <4>1, MaxIn
      <4>3. Max(t) = n
        <5>1. Max(t) \in 1..n
          BY <4>1, <4>2
        <5> QED BY <4>1, <4>2, <5>1
      <4>4. t \ {k + 1} \in SUBSET (1..k)
        OBVIOUS
      <4> QED BY <3>1, <4>3, <4>4 DEF n
    <3> QED BY <3>1
  <2>3. ASSUME NEW t \in SUBSET (1..(k + 1)) PROVE last(t) \in A
    <3>1. f[t \ {k + 1}] \in A
      BY <2>1, <2>2 DEF Part
    <3>2. k + 1 \in 1..Len(s)
      BY <1>0
    <3> QED BY <1>0, <3>1, <3>2
  <2> HIDE DEF last
  <2> DEFINE h == [t \in SUBSET (1..(k + 1)) |-> IF k + 1 \in t THEN last(t) ELSE f[t]]
  <2>4. h \in [SUBSET (1..(k + 1)) -> A]
    BY <2>1, <2>2, <2>3 DEF Part
  <2>5. ASSUME NEW t \in SUBSET (1..(k + 1))
        PROVE  h[t] = IF t = {} THEN base ELSE g[<<h[t \ {Max(t)}], s[Max(t)]>>]
    <3>1. CASE k + 1 \in t
      <4>1. h[t] = last(t)
        BY <3>1
      <4>2. h[t \ {k + 1}] = f[t \ {k + 1}]
        OBVIOUS
      <4> QED BY <2>2, <3>1, <4>1, <4>2 DEF last
    <3>2. CASE k + 1 \notin t
      <4>1. h[t] = f[t] /\ h[t \ {Max(t)}] = f[t \ {Max(t)}]
        BY <3>2
      <4> QED BY <2>1, <2>2, <3>2, <4>1 DEF Part
    <3> QED BY <3>1, <3>2
  <2> HIDE DEF h
  <2> QED BY <2>4, <2>5 DEF Part
<1> HIDE DEF S
<1>3. S \in SUBSET Nat
  BY DEF S
<1>4. S = Nat
  BY <1>1, <1>2, <1>3, NatInduct
<1>5. PICK f : Part(f, Len(s))
  <2>1. Len(s) \in S /\ Len(s) <= Len(s)
    BY <1>0, <1>4
  <2> QED BY <2>1 DEF S
<1> QED BY <1>5 DEF SetFold, Part

SetSteps(iter, A, g, base, s) ==
  /\ iter[{}] = base
  /\ \A n \in 1..Len(s) :
       iter[1..(n - 1)] \in A => iter[1..n] = g[<<iter[1..(n - 1)], s[n]>>]

\* What follows such steps over all indices is the fold.
LEMMA SetFoldIs ==
  ASSUME NEW A, NEW g, NEW base, NEW s, FoldStays(A, g, base, s),
         NEW iter, SetSteps(iter, A, g, base, s)
  PROVE  iter[1..Len(s)] = Folded(A, g, base, s)
<1>0. /\ base \in A /\ Len(s) \in Nat
      /\ \A a \in A : \A n \in 1..Len(s) : g[<<a, s[n]>>] \in A
  BY DEF FoldStays
<1> DEFINE S == {n \in Nat : n <= Len(s) => iter[1..n] \in A}
<1>1. 1..0 = {} /\ 0 \in S
  BY <1>0 DEF SetSteps
<1>2. ASSUME NEW n \in S PROVE n + 1 \in S
  <2> SUFFICES ASSUME n + 1 <= Len(s) PROVE iter[1..(n + 1)] \in A
    OBVIOUS
  <2>1. n + 1 \in 1..Len(s) /\ n + 1 - 1 = n /\ iter[1..n] \in A
    BY <1>0
  <2>2. iter[1..(n + 1)] = g[<<iter[1..n], s[n + 1]>>]
    BY <2>1 DEF SetSteps
  <2> QED BY <1>0, <2>1, <2>2
<1> HIDE DEF S
<1>3. S \in SUBSET Nat
  BY DEF S
<1>4. S = Nat
  BY <1>1, <1>2, <1>3, NatInduct
<1> DEFINE f == [n \in 0..Len(s) |-> iter[1..n]]
<1>5. f \in [0..Len(s) -> A] /\ f[0] = base
  BY <1>0, <1>1, <1>4 DEF S, SetSteps
<1>6. ASSUME NEW n \in 1..Len(s) PROVE f[n] = g[<<f[n - 1], s[n]>>]
  <2>1. n - 1 \in 0..Len(s) /\ n \in 0..Len(s) /\ iter[1..(n - 1)] \in A
    BY <1>0, <1>4 DEF S
  <2> QED BY <2>1 DEF SetSteps
<1>7. f[Len(s)] = iter[1..Len(s)]
  BY <1>0
<1> HIDE DEF f
<1>8. IsFold(f, A, g, base, s)
  BY <1>5, <1>6 DEF IsFold
<1> QED BY <1>0, <1>7, <1>8, FoldedIs
=============================================================================
