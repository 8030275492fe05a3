------------------------- MODULE ConversationProofs ------------------------
(***************************************************************************)
(* Proofs about one conversation with the model, for every set of          *)
(* overlapping calls, every context size, message length and history       *)
(* limit, and every answer: answers are saved, nothing unsaid is, and no   *)
(* call is sent a history out of order; for every history and context,     *)
(* what is sent and what is summarized ends where the budgets say; what is *)
(* read of a streamed answer is a beginning of it, and all of it in the    *)
(* end; a search of the memory returns the best it has; and a path is read *)
(* only if its robots.txt lets the tools read it.                          *)
(***************************************************************************)
EXTENDS ChatHistory, MCAlgorithms, DataInduction, SequenceTheorems,
        FiniteSetTheorems

(***************************************************************************)
(* The selection operators of ContextWindow: where a walk or a boundary    *)
(* can fall, and what the part of a history from there on is.              *)
(***************************************************************************)
\* A set of indices that is not empty has a largest one.
LEMMA LargestIndex ==
  ASSUME NEW n \in Nat, NEW S \in SUBSET (1..n), S # {}
  PROVE  Largest(S) \in S /\ \A j \in S : j <= Largest(S)
<1>1. Max(S) \in S /\ \A j \in S : j <= Max(S)
  BY MaxIn
<1> QED BY <1>1 DEF Largest

\* The oldest message kept is one of the history, or the end of it.
LEMMA WalkBackRange ==
  ASSUME NEW M, NEW h \in Seq(M), NEW budget
  PROVE  WalkBack(h, budget) \in 1..(Len(h) + 1)
<1> DEFINE tooMuch == {i \in 1..Len(h) : SuffixTokens(h)[i] > budget}
<1>1. Len(h) \in Nat
  BY LenProperties
<1>2. CASE tooMuch = {}
  BY <1>1, <1>2 DEF WalkBack
<1>3. CASE tooMuch # {}
  <2>1. tooMuch \in SUBSET (1..Len(h))
    OBVIOUS
  <2>2. Largest(tooMuch) \in 1..Len(h)
    <3> HIDE DEF tooMuch
    <3> QED BY <1>1, <1>3, <2>1, LargestIndex
  <2> QED BY <1>1, <1>3, <2>2 DEF WalkBack
<1> QED BY <1>2, <1>3

\* The context starts at a summary with none after it, or at the first row
\* when there is none at all.
LEMMA ActiveStartRange ==
  ASSUME NEW M, NEW h \in Seq(M)
  PROVE  /\ ActiveStart(h) \in 1..(Len(h) + 1)
         /\ \A i \in 1..Len(h) : i > ActiveStart(h) => h[i].source # "summary"
         /\ h # <<>> => ActiveStart(h) \in 1..Len(h)
<1> DEFINE summaries == {i \in 1..Len(h) : h[i].source = "summary"}
<1>1. Len(h) \in Nat /\ (h # <<>> => Len(h) >= 1)
  BY LenProperties, EmptySeq
<1>2. CASE summaries = {}
  BY <1>1, <1>2 DEF ActiveStart
<1>3. CASE summaries # {}
  <2>1. summaries \in SUBSET (1..Len(h))
    OBVIOUS
  <2>2. /\ Largest(summaries) \in summaries
        /\ \A i \in summaries : i <= Largest(summaries)
    <3> HIDE DEF summaries
    <3> QED BY <1>1, <1>3, <2>1, LargestIndex
  <2>3. ActiveStart(h) = Largest(summaries)
    BY <1>3 DEF ActiveStart
  <2>4. \A i \in 1..Len(h) : i > ActiveStart(h) => i \notin summaries
    BY <2>2, <2>3
  <2>5. ActiveStart(h) \in 1..Len(h)
    BY <2>2, <2>3
  <2> QED BY <1>1, <2>4, <2>5
<1> QED BY <1>2, <1>3

\* The part of a history between two places is the messages between them.
LEMMA Part ==
  ASSUME NEW M, NEW h \in Seq(M), NEW i \in 1..(Len(h) + 1), NEW n \in 0..Len(h)
  PROVE  LET p == SubSeq(h, i, n)
         IN  /\ p \in Seq(M)
             /\ Len(p) = IF i <= n THEN n - i + 1 ELSE 0
             /\ \A k \in 1..Len(p) : p[k] = h[k + i - 1] /\ k + i - 1 \in 1..Len(h)
<1>1. Len(h) \in Nat /\ i \in Int /\ n \in Int
  BY LenProperties
<1>2. \A k \in i..n : h[k] \in M
  BY <1>1, ElementOfSeq
<1>3. /\ SubSeq(h, i, n) \in Seq(M)
      /\ Len(SubSeq(h, i, n)) = IF i <= n THEN n - i + 1 ELSE 0
      /\ \A k \in 1..(n - i + 1) : SubSeq(h, i, n)[k] = h[i + k - 1]
  BY <1>1, <1>2, SubSeqProperties
<1>4. ASSUME NEW k \in 1..Len(SubSeq(h, i, n))
      PROVE  /\ k \in 1..(n - i + 1) /\ k + i - 1 \in 1..Len(h)
             /\ k + i - 1 = i + k - 1
  BY <1>1, <1>3
<1> QED BY <1>3, <1>4

-----------------------------------------------------------------------------
(***************************************************************************)
(* What the walks over a history add up.  Total is the cost of a part of   *)
(* it, one message after the other; a walk adds it up from the other end.  *)
(***************************************************************************)
Sized == [source : {"turn", "summary"}, len : Nat]

AddTokens == [pair \in Nat \X Sized |-> pair[1] + MessageTokens(pair[2])]
Total(s) == Folded(Nat, AddTokens, 0, s)

LEMMA TokensType ==
  ASSUME NEW m \in Sized
  PROVE  MessageTokens(m) \in Nat /\ \A n \in Nat : AddTokens[<<n, m>>] = n + MessageTokens(m)
<1>1. m.len \in Nat
  BY DEF Sized
<1>2. MessageTokens(m) \in Nat
  BY <1>1 DEF MessageTokens, EstimateTokens
<1> QED BY <1>2 DEF AddTokens

LEMMA TotalStays ==
  ASSUME NEW s \in Seq(Sized)
  PROVE  FoldStays(Nat, AddTokens, 0, s)
<1>1. \A n \in 1..Len(s) : s[n] \in Sized
  OBVIOUS
<1>2. \A a \in Nat : \A n \in 1..Len(s) : AddTokens[<<a, s[n]>>] \in Nat
  BY <1>1, TokensType
<1> QED BY <1>2 DEF FoldStays

LEMMA TotalIs ==
  ASSUME NEW s \in Seq(Sized)
  PROVE  FoldLeft(LAMBDA sum, m : sum + MessageTokens(m), 0, s) = Total(s)
<1> DEFINE E(iter) ==
             iter = [t \in SUBSET DOMAIN s |->
                       IF t = {} THEN 0
                       ELSE iter[t \ {Max(t)}] + MessageTokens(s[Max(t)])]
           c == CHOOSE iter : E(iter)
<1>0. FoldStays(Nat, AddTokens, 0, s)
  BY TotalStays
<1>1. DOMAIN s = 1..Len(s) /\ Len(s) \in Nat /\ \A n \in 1..Len(s) : s[n] \in Sized
  OBVIOUS
<1>2. FoldLeft(LAMBDA sum, m : sum + MessageTokens(m), 0, s) = c[DOMAIN s]
  BY DEF FoldLeft, MapThenFoldSet
<1>3. \E iter : E(iter)
  <2>1. PICK h \in [SUBSET (1..Len(s)) -> Nat] : SetFold(h, AddTokens, 0, s)
    BY <1>0, SetFoldExists
  <2>2. ASSUME NEW t \in SUBSET DOMAIN s, t # {}
        PROVE  h[t] = h[t \ {Max(t)}] + MessageTokens(s[Max(t)])
    <3>1. Max(t) \in 1..Len(s)
      BY <1>1, <2>2, MaxIn
    <3>2. s[Max(t)] \in Sized /\ h[t \ {Max(t)}] \in Nat
      BY <1>1, <3>1
    <3>3. h[t] = AddTokens[<<h[t \ {Max(t)}], s[Max(t)]>>]
      BY <1>1, <2>1, <2>2 DEF SetFold
    <3> QED BY <3>2, <3>3, TokensType
  <2>3. h[{}] = 0
    BY <2>1 DEF SetFold
  <2>4. E(h)
    BY <1>1, <2>2, <2>3
  <2> QED BY <2>4
<1>4. E(c)
  BY <1>3
<1> HIDE DEF c
<1>5. c[{}] = 0
  BY <1>4
<1>6. ASSUME NEW n \in 1..Len(s), c[1..(n - 1)] \in Nat
      PROVE  c[1..n] = AddTokens[<<c[1..(n - 1)], s[n]>>]
  <2>0. n \in Nat /\ n # 0
    BY <1>1
  <2>1. Max(1..n) = n /\ (1..n) \ {n} = 1..(n - 1) /\ 1..n # {}
    BY <2>0, MaxOfFirst
  <2>2. 1..n \in SUBSET DOMAIN s
    BY <1>1
  <2>3. c[1..n] = c[(1..n) \ {Max(1..n)}] + MessageTokens(s[Max(1..n)])
    BY <1>4, <2>1, <2>2, Zenon
  <2>4. c[1..n] = c[1..(n - 1)] + MessageTokens(s[n])
    BY <2>1, <2>3
  <2> QED BY <1>1, <1>6, <2>4, TokensType
<1> HIDE DEF E
<1>7. SetSteps(c, Nat, AddTokens, 0, s)
  BY <1>5, <1>6 DEF SetSteps
<1>8. c[1..Len(s)] = Total(s)
  BY <1>0, <1>7, SetFoldIs DEF Total
<1> QED BY <1>1, <1>2, <1>8

LEMMA TotalType == ASSUME NEW s \in Seq(Sized) PROVE Total(s) \in Nat
BY TotalStays, FoldedType DEF Total

LEMMA TotalGrows ==
  ASSUME NEW s \in Seq(Sized), NEW t \in Seq(Sized), NEW m \in Sized, IsAppend(t, s, m)
  PROVE  Total(t) = Total(s) + MessageTokens(m)
<1>1. FoldGrows(Nat, AddTokens, 0, s, m, t)
  BY TotalStays, FoldedAppend
<1> QED BY <1>1, TotalType, TokensType DEF FoldGrows, Total

\* The first message's cost can be taken out.
LEMMA TotalFirst ==
  ASSUME NEW h \in Seq(Sized), NEW i \in 1..Len(h)
  PROVE  Total(From(h, i)) = MessageTokens(h[i]) + Total(From(h, i + 1))
<1> DEFINE P(a, n) == SubSeq(h, a, n)
           Taken(n) == Total(P(i, n)) = MessageTokens(h[i]) + Total(P(i + 1, n))
           S == {k \in Nat : i + k <= Len(h) => Taken(i + k)}
<1>0. /\ Len(h) \in Nat /\ i \in Nat /\ i # 0 /\ i <= Len(h) /\ i + 1 \in 1..(Len(h) + 1)
      /\ i \in 1..(Len(h) + 1)
  OBVIOUS
<1>1. ASSUME NEW a \in 1..(Len(h) + 1), NEW n \in 0..Len(h)
      PROVE  /\ P(a, n) \in Seq(Sized) /\ Len(P(a, n)) = IF a <= n THEN n - a + 1 ELSE 0
             /\ \A k \in 1..Len(P(a, n)) : P(a, n)[k] = h[k + a - 1]
  BY Part
<1>2. ASSUME NEW a \in 1..(Len(h) + 1), NEW n \in 0..Len(h), a <= n + 1, n + 1 <= Len(h)
      PROVE  Total(P(a, n + 1)) = Total(P(a, n)) + MessageTokens(h[n + 1])
  <2> DEFINE t == P(a, n + 1)
             s == P(a, n)
  <2>1. n + 1 \in 0..Len(h) /\ h[n + 1] \in Sized
    BY <1>0, <1>2
  <2>2. /\ t \in Seq(Sized) /\ Len(t) = n - a + 2
        /\ \A k \in 1..Len(t) : t[k] = h[k + a - 1]
    <3> HIDE DEF P
    <3>1. Len(t) = IF a <= n + 1 THEN n + 1 - a + 1 ELSE 0
      BY <1>1, <2>1
    <3>2. Len(t) = n - a + 2
      BY <1>0, <1>2, <3>1
    <3> QED BY <1>1, <2>1, <3>2
  <2>3. /\ s \in Seq(Sized) /\ Len(s) = n - a + 1
        /\ \A k \in 1..Len(s) : s[k] = h[k + a - 1]
    <3> HIDE DEF P
    <3>1. Len(s) = IF a <= n THEN n - a + 1 ELSE 0
      BY <1>1
    <3>2. Len(s) = n - a + 1
      BY <1>0, <1>2, <3>1
    <3> QED BY <1>1, <3>2
  <2> HIDE DEF s, t
  <2>4. IsAppend(t, s, h[n + 1])
    <3>1. Len(s) \in Nat /\ Len(t) = Len(s) + 1
      BY <2>2, <2>3
    <3>2. Len(s) + 1 \in 1..Len(t) /\ Len(s) + 1 + a - 1 = n + 1
      BY <2>2, <2>3, <3>1
    <3> DEFINE last == Len(s) + 1
    <3> HIDE DEF last
    <3>3. t[last] = h[n + 1]
      <4>1. t[last] = h[last + a - 1] /\ last + a - 1 = n + 1
        BY <2>2, <3>2 DEF last
      <4> QED BY <4>1
    <3>4. \A k \in 1..Len(s) : k \in 1..Len(t)
      BY <3>1
    <3>5. \A k \in 1..Len(s) : t[k] = s[k]
      BY <2>2, <2>3, <3>4
    <3> QED BY <3>1, <3>3, <3>5 DEF IsAppend, last
  <2> QED BY <2>1, <2>2, <2>3, <2>4, TotalGrows DEF s, t
<1>3. 0 \in S
  <2>1. i - 1 \in 0..Len(h) /\ i \in 0..Len(h) /\ i - 1 + 1 = i
    BY <1>0
  <2>2. P(i, i - 1) \in Seq(Sized) /\ Len(P(i, i - 1)) = 0
    BY <1>0, <1>1, <2>1
  <2>3. P(i + 1, i) \in Seq(Sized) /\ Len(P(i + 1, i)) = 0
    BY <1>0, <1>1, <2>1
  <2>4. Total(<<>>) = 0
    BY FoldedNone DEF Total
  <2>5. Total(P(i, i - 1)) = 0 /\ Total(P(i + 1, i)) = 0
    BY <2>2, <2>3, <2>4, EmptySeq
  <2> DEFINE j == i - 1
  <2>6. j \in 0..Len(h) /\ i <= j + 1 /\ j + 1 <= Len(h) /\ j + 1 = i /\ Total(P(i, j)) = 0
    BY <1>0, <2>1, <2>5
  <2> HIDE DEF j, P
  <2>7. Total(P(i, j + 1)) = Total(P(i, j)) + MessageTokens(h[j + 1])
    BY <1>0, <1>2, <2>6
  <2>8. MessageTokens(h[i]) \in Nat
    BY TokensType
  <2> QED BY <1>0, <2>5, <2>6, <2>7, <2>8
<1>4. ASSUME NEW k \in S PROVE k + 1 \in S
  <2> SUFFICES ASSUME i + k + 1 <= Len(h) PROVE Taken(i + k + 1)
    BY <1>0
  <2> DEFINE n == i + k
  <2>1. /\ n \in 0..Len(h) /\ i <= n + 1 /\ i + 1 <= n + 1 /\ n + 1 <= Len(h)
        /\ n + 1 = i + k + 1 /\ n \in Nat
    BY <1>0
  <2>2. Taken(n)
    BY <2>1
  <2> HIDE DEF n
  <2>3. P(i, n) \in Seq(Sized) /\ P(i + 1, n) \in Seq(Sized)
    BY <1>0, <1>1, <2>1
  <2> HIDE DEF P
  <2>4. /\ Total(P(i, n + 1)) = Total(P(i, n)) + MessageTokens(h[n + 1])
        /\ Total(P(i + 1, n + 1)) = Total(P(i + 1, n)) + MessageTokens(h[n + 1])
    BY <1>0, <1>2, <2>1
  <2>5. /\ MessageTokens(h[n + 1]) \in Nat /\ MessageTokens(h[i]) \in Nat
        /\ Total(P(i, n)) \in Nat /\ Total(P(i + 1, n)) \in Nat
    <3>1. h[n + 1] \in Sized /\ h[i] \in Sized
      BY <1>0, <2>1
    <3> QED BY <2>3, <3>1, TokensType, TotalType
  <2>6. Taken(n + 1)
    BY <2>2, <2>4, <2>5
  <2> QED BY <2>1, <2>6
<1> HIDE DEF S
<1>5. S \in SUBSET Nat
  BY DEF S
<1>6. S = Nat
  BY <1>3, <1>4, <1>5, NatInduct
<1> DEFINE d == Len(h) - i
<1>7. d \in S /\ i + d = Len(h)
  BY <1>0, <1>6
<1> HIDE DEF d, Taken
<1>8. Taken(i + d)
  BY <1>0, <1>7 DEF S
<1> QED BY <1>7, <1>8 DEF Taken, From
LEMMA CostIs ==
  ASSUME NEW h \in Seq(Sized), NEW i \in 1..(Len(h) + 1)
  PROVE  /\ Cost(h, i) = Total(From(h, i)) /\ Cost(h, i) \in Nat
         /\ From(h, i) \in Seq(Sized)
         /\ i = Len(h) + 1 => Cost(h, i) = 0
         /\ i <= Len(h) => /\ MessageTokens(h[i]) \in Nat
                           /\ Cost(h, i) = MessageTokens(h[i]) + Cost(h, i + 1)
<1>0. Len(h) \in Nat /\ Len(h) \in 0..Len(h)
  OBVIOUS
<1>1. ASSUME NEW a \in 1..(Len(h) + 1)
      PROVE  /\ From(h, a) \in Seq(Sized)
             /\ a = Len(h) + 1 => Len(From(h, a)) = 0
             /\ Cost(h, a) = Total(From(h, a))
  <2> DEFINE p == From(h, a)
  <2>1. p \in Seq(Sized) /\ Len(p) = IF a <= Len(h) THEN Len(h) - a + 1 ELSE 0
    BY <1>0, Part DEF From
  <2> HIDE DEF p
  <2>2. FoldLeft(LAMBDA sum, m : sum + MessageTokens(m), 0, p) = Total(p)
    BY <2>1, TotalIs
  <2>3. Cost(h, a) = Total(p)
    BY <2>2 DEF Cost, p
  <2> QED BY <1>0, <2>1, <2>3 DEF p
<1>2. ASSUME i = Len(h) + 1 PROVE Cost(h, i) = 0
  <2>1. From(h, i) = <<>>
    BY <1>1, <1>2, EmptySeq
  <2>2. Total(<<>>) = 0
    BY FoldedNone DEF Total
  <2> QED BY <1>1, <2>1, <2>2
<1>3. ASSUME i <= Len(h)
      PROVE  /\ MessageTokens(h[i]) \in Nat
             /\ Cost(h, i) = MessageTokens(h[i]) + Cost(h, i + 1)
  <2>1. i \in 1..Len(h) /\ i + 1 \in 1..(Len(h) + 1) /\ h[i] \in Sized
    BY <1>0, <1>3
  <2>2. Cost(h, i) = Total(From(h, i)) /\ Cost(h, i + 1) = Total(From(h, i + 1))
    BY <1>1, <2>1
  <2> QED BY <2>1, <2>2, TotalFirst, TokensType
<1>4. Cost(h, i) = Total(From(h, i)) /\ Cost(h, i) \in Nat /\ From(h, i) \in Seq(Sized)
  BY <1>1, TotalType
<1> QED BY <1>2, <1>3, <1>4

\* A walk from the newest message back adds up the same.
SumsUp(sum, h) ==
  sum = [i \in 1..(Len(h) + 1) |->
           IF i = Len(h) + 1 THEN 0 ELSE MessageTokens(h[i]) + sum[i + 1]]

LEMMA SumIsUnique ==
  ASSUME NEW h \in Seq(Sized), NEW sum, SumsUp(sum, h)
  PROVE  \A i \in 1..(Len(h) + 1) : sum[i] = Cost(h, i)
<1> DEFINE n == Len(h) + 1
           S == {k \in Nat : k < n => sum[n - k] = Cost(h, n - k)}
<1>0. n \in Nat \ {0} /\ Len(h) = n - 1
  OBVIOUS
<1>1. 0 \in S
  <2>1. sum[n] = 0 /\ n \in 1..n /\ n - 0 = n
    BY <1>0 DEF SumsUp
  <2> QED BY <1>0, <2>1, CostIs
<1>2. ASSUME NEW k \in S PROVE k + 1 \in S
  <2> SUFFICES ASSUME k + 1 < n PROVE sum[n - (k + 1)] = Cost(h, n - (k + 1))
    OBVIOUS
  <2> DEFINE i == n - (k + 1)
  <2>1. i \in 1..n /\ i # n /\ i <= Len(h) /\ i + 1 = n - k /\ k < n
    BY <1>0
  <2>2. sum[n - k] = Cost(h, n - k)
    BY <2>1
  <2> HIDE DEF i, S
  <2>3. sum[i] = MessageTokens(h[i]) + sum[i + 1]
    BY <2>1 DEF SumsUp
  <2>4. Cost(h, i) = MessageTokens(h[i]) + Cost(h, i + 1)
    BY <2>1, CostIs
  <2> QED BY <2>1, <2>2, <2>3, <2>4 DEF i
<1> HIDE DEF S
<1>3. S \in SUBSET Nat
  BY DEF S
<1>4. S = Nat
  BY <1>1, <1>2, <1>3, NatInduct
<1>5. ASSUME NEW i \in 1..n PROVE sum[i] = Cost(h, i)
  <2>1. n - i \in S /\ n - i < n /\ n - (n - i) = i
    BY <1>0, <1>4
  <2> QED BY <2>1 DEF S
<1> QED BY <1>5

LEMMA SuffixIs ==
  ASSUME NEW h \in Seq(Sized)
  PROVE  \A i \in 1..(Len(h) + 1) : SuffixTokens(h)[i] = Cost(h, i)
<1> DEFINE costs == [i \in 1..(Len(h) + 1) |-> Cost(h, i)]
           c == CHOOSE sum : SumsUp(sum, h)
<1>1. SumsUp(costs, h)
  <2>1. ASSUME NEW i \in 1..(Len(h) + 1)
        PROVE  costs[i] = IF i = Len(h) + 1 THEN 0 ELSE MessageTokens(h[i]) + costs[i + 1]
    <3>1. CASE i = Len(h) + 1
      BY <3>1, CostIs
    <3>2. CASE i # Len(h) + 1
      <4>1. i <= Len(h) /\ i + 1 \in 1..(Len(h) + 1)
        BY <3>2
      <4> QED BY <3>2, <4>1, CostIs
    <3> QED BY <3>1, <3>2
  <2> QED BY <2>1 DEF SumsUp
<1> HIDE DEF costs
<1>2. SumsUp(c, h)
  BY <1>1
<1>3. SuffixTokens(h) = c
  BY DEF SuffixTokens, SumsUp
<1> HIDE DEF c
<1> QED BY <1>2, <1>3, SumIsUnique

\* An older start costs no less.
LEMMA CostFalls ==
  ASSUME NEW h \in Seq(Sized), NEW j \in 1..(Len(h) + 1)
  PROVE  \A i \in 1..j : Cost(h, j) <= Cost(h, i)
<1> DEFINE S == {k \in Nat : k < j => Cost(h, j) <= Cost(h, j - k)}
<1>0. Len(h) \in Nat /\ j \in Nat \ {0} /\ j <= Len(h) + 1
  OBVIOUS
<1>1. 0 \in S
  <2>1. Cost(h, j) \in Nat /\ j - 0 = j
    BY <1>0, CostIs
  <2> QED BY <2>1
<1>2. ASSUME NEW k \in S PROVE k + 1 \in S
  <2> SUFFICES ASSUME k + 1 < j PROVE Cost(h, j) <= Cost(h, j - (k + 1))
    OBVIOUS
  <2> DEFINE i == j - (k + 1)
  <2>1. i \in 1..(Len(h) + 1) /\ i <= Len(h) /\ i + 1 = j - k /\ i + 1 \in 1..(Len(h) + 1) /\ k < j
    BY <1>0
  <2>2. Cost(h, j) <= Cost(h, j - k)
    BY <2>1
  <2> HIDE DEF i, S
  <2>3. /\ MessageTokens(h[i]) \in Nat /\ Cost(h, i + 1) \in Nat /\ Cost(h, j) \in Nat
        /\ Cost(h, i) = MessageTokens(h[i]) + Cost(h, i + 1)
    BY <2>1, CostIs
  <2> QED BY <2>1, <2>2, <2>3 DEF i
<1> HIDE DEF S
<1>3. S \in SUBSET Nat
  BY DEF S
<1>4. S = Nat
  BY <1>1, <1>2, <1>3, NatInduct
<1>5. ASSUME NEW i \in 1..j PROVE Cost(h, j) <= Cost(h, i)
  <2>1. j - i \in S /\ j - i < j /\ j - (j - i) = i
    BY <1>0, <1>4
  <2> QED BY <2>1 DEF S
<1> QED BY <1>5

\* What a walk keeps is within the budget, and with one message more is not.
Within(h, budget, w) ==
  /\ w \in 1..(Len(h) + 1) /\ Cost(h, w) <= budget
  /\ \A i \in 1..(w - 1) : Cost(h, i) > budget

LEMMA WalkIs ==
  ASSUME NEW h \in Seq(Sized), NEW budget \in Nat
  PROVE  Within(h, budget, WalkBack(h, budget))
<1> DEFINE n == Len(h)
           w == WalkBack(h, budget)
           tooMuch == {i \in 1..n : SuffixTokens(h)[i] > budget}
<1>0. n \in Nat /\ tooMuch \in SUBSET (1..n)
  OBVIOUS
<1>1. \A i \in 1..n : i \in tooMuch <=> Cost(h, i) > budget
  BY <1>0, SuffixIs
<1>2. w = IF tooMuch = {} THEN 1 ELSE Largest(tooMuch) + 1
  BY DEF WalkBack
<1>3. \A i \in 1..(n + 1) : Cost(h, i) \in Nat /\ (i = n + 1 => Cost(h, i) = 0)
  BY CostIs
<1> HIDE DEF w, tooMuch
<1>4. CASE tooMuch = {}
  <2>1. w = 1 /\ 1 \in 1..(n + 1) /\ (1 = n + 1 \/ 1 \in 1..n)
    BY <1>0, <1>2, <1>4
  <2>2. Cost(h, 1) <= budget
    BY <1>1, <1>3, <1>4, <2>1
  <2> QED BY <2>1, <2>2 DEF Within, w
<1>5. CASE tooMuch # {}
  <2> DEFINE l == Largest(tooMuch)
  <2>1. l \in tooMuch /\ \A i \in tooMuch : i <= l
    BY <1>0, <1>5, LargestIndex
  <2>2. w = l + 1
    BY <1>2, <1>5
  <2> HIDE DEF l
  <2>3. l \in 1..n /\ l \in 1..(n + 1)
    BY <1>0, <2>1
  <2>4. w \in 1..(n + 1) /\ w - 1 = l /\ (w = n + 1 \/ w \in 1..n)
    BY <1>0, <2>2, <2>3
  <2>5. Cost(h, w) <= budget
    <3>1. CASE w = n + 1
      BY <1>3, <2>4, <3>1
    <3>2. CASE w \in 1..n
      <4>1. w \notin tooMuch
        BY <2>1, <2>2, <2>3
      <4>2. ~(Cost(h, w) > budget) /\ Cost(h, w) \in Nat
        BY <1>1, <1>3, <2>4, <3>2, <4>1
      <4> QED BY <4>2
    <3> QED BY <2>4, <3>1, <3>2
  <2>6. \A i \in 1..l : Cost(h, l) <= Cost(h, i)
    BY <2>3, CostFalls
  <2>7. ASSUME NEW i \in 1..l PROVE Cost(h, i) > budget
    <3>1. Cost(h, l) > budget /\ Cost(h, l) \in Nat /\ Cost(h, i) \in Nat
      <4>1. i \in 1..(n + 1)
        BY <1>0, <2>3
      <4> QED BY <1>1, <1>3, <2>1, <2>3, <4>1
    <3> QED BY <2>6, <3>1
  <2> QED BY <2>4, <2>5, <2>7 DEF Within, w
<1> QED BY <1>4, <1>5

LEMMA TrimIs ==
  ASSUME history \in Seq(Sized), sysTokens \in Nat
  PROVE  TrimLongest
<1> DEFINE budget == TrimBudget(sysTokens)
           w == WalkBack(history, budget)
           fits == {i \in 1..(Len(history) + 1) : Cost(history, i) <= budget}
<1>0. Len(history) \in Nat
  OBVIOUS
<1>1. budget \in Int
  <2>1. ContextBudget \in Nat
    BY ContextAssumption DEF ContextBudget
  <2> QED BY <2>1, ContextAssumption DEF TrimBudget
<1>2. CASE budget <= 0
  BY <1>2 DEF TrimLongest, TrimHistory
<1>3. CASE ~(budget <= 0)
  <2>1. budget \in Nat
    BY <1>1, <1>3
  <2>2. TrimHistory(sysTokens, history) = From(history, w)
    BY <1>3 DEF TrimHistory
  <2> HIDE DEF budget
  <2>3. Within(history, budget, w)
    BY <2>1, WalkIs
  <2> HIDE DEF w
  <2>4. w \in fits
    BY <2>3 DEF Within
  <2>5. ASSUME NEW i \in fits PROVE w <= i
    <3>1. i \in Nat /\ i >= 1 /\ w \in Nat /\ Cost(history, i) <= budget /\ Cost(history, i) \in Nat
      BY <1>0, <2>3, CostIs DEF Within
    <3>2. CASE i < w
      <4>1. i \in 1..(w - 1)
        BY <3>1, <3>2
      <4> QED BY <2>1, <2>3, <3>1, <4>1 DEF Within
    <3> QED BY <3>1, <3>2
  <2>6. \A i \in fits : i \in Nat
    BY <1>0
  <2> HIDE DEF fits
  <2>7. Min(fits) \in fits /\ \A i \in fits : Min(fits) <= i
    BY <2>4, <2>5 DEF Min
  <2>8. Min(fits) = w
    BY <2>4, <2>5, <2>6, <2>7
  <2>9. TrimHistory(sysTokens, history) = From(history, Min(fits))
    BY <2>2, <2>8
  <2> QED BY <1>3, <2>9 DEF TrimLongest, fits, budget
<1> QED BY <1>2, <1>3

\* The thresholds, for any context.
LEMMA Budgets ==
  LET b == ContextBudget
  IN  /\ b \in Nat /\ (b * 40) \div 100 \in Nat /\ (b * 60) \div 100 \in Nat
      /\ (b * 40) \div 100 <= (b * 60) \div 100
      /\ (b * 20) \div 100 \in Nat /\ (b * 20) \div 100 >= 10
      /\ (b * 20) \div 100 + (b * 40) \div 100 <= (b * 60) \div 100
<1> DEFINE b == ContextBudget
<1>1. b \in Nat /\ b >= 50
  BY ContextAssumption DEF ContextBudget
<1> HIDE DEF b
<1>2. /\ b * 20 \in Nat /\ b * 20 >= 1000 /\ b * 40 \in Nat /\ b * 60 \in Nat
      /\ b * 20 + b * 40 = b * 60
  BY <1>1
<1> QED BY <1>1, <1>2 DEF b

LEMMA ActiveType ==
  ASSUME NEW h \in Seq(Sized)
  PROVE  ActiveContext(h) \in Seq(Sized)
BY ActiveStartRange, CostIs DEF ActiveContext

LEMMA SplitIs ==
  ASSUME NEW h \in Seq(Sized), NeedsCompaction(h)
  PROVE  LET recent == (ContextBudget * 40) \div 100
             split  == SplitIndex(h)
         IN  /\ Compacts(h) /\ Cost(h, split) <= recent /\ Cost(h, split - 1) > recent
             /\ split \in 1..(Len(h) + 1)
<1> DEFINE recent == (ContextBudget * 40) \div 100
           split  == SplitIndex(h)
<1>1. recent \in Nat /\ (ContextBudget * 60) \div 100 \in Nat /\ recent <= (ContextBudget * 60) \div 100
  BY Budgets
<1>2. Cost(h, 1) > (ContextBudget * 60) \div 100 /\ Cost(h, 1) \in Nat
  <2>1. 1 \in 1..(Len(h) + 1)
    OBVIOUS
  <2> QED BY <2>1, SuffixIs, CostIs DEF NeedsCompaction, TotalTokens
<1>3. split = WalkBack(h, recent)
  BY DEF SplitIndex
<1> HIDE DEF recent, split
<1>4. Within(h, recent, split)
  BY <1>1, <1>3, WalkIs
<1>5. split # 1
  BY <1>1, <1>2, <1>4 DEF Within, recent
<1>6. split \in 1..(Len(h) + 1) /\ split > 1 /\ split - 1 \in 1..(split - 1)
  BY <1>4, <1>5 DEF Within
<1> QED BY <1>4, <1>6 DEF Within, Compacts, recent, split

\* A summary costs at most 20%, what is kept 40%.
LEMMA SettlesIs ==
  ASSUME history \in Seq(Sized), sysTokens \in Nat
  PROVE  CompactionSettles
<1> DEFINE h == ActiveContext(history)
           recent == From(h, SplitIndex(h))
           after == <<MCSummary>> \o recent
<1> SUFFICES ASSUME Compacts(h)
             PROVE  ~NeedsCompaction(CompactHistory(sysTokens, history, MCSummary))
  BY DEF CompactionSettles
<1>1. h \in Seq(Sized)
  BY ActiveType
<1>2. CompactHistory(sysTokens, history, MCSummary) = after
  BY DEF CompactHistory, RecentPart
<1> DEFINE split == SplitIndex(h)
<1>3. split \in 1..(Len(h) + 1) /\ Cost(h, split) <= (ContextBudget * 40) \div 100
  <2> HIDE DEF h
  <2> QED BY <1>1, SplitIs DEF Compacts
<1>4. recent \in Seq(Sized) /\ Cost(h, split) = Total(recent) /\ Cost(h, split) \in Nat
  <2> HIDE DEF h
  <2> QED BY <1>1, <1>3, CostIs
<1>5. MCSummary \in Sized /\ MessageTokens(MCSummary) = (ContextBudget * 20) \div 100
  <2> DEFINE k == (ContextBudget * 20) \div 100
  <2>1. k \in Nat /\ k >= 10
    BY Budgets
  <2> HIDE DEF k
  <2>2. 4 * (k - 10) \in Nat /\ (4 * (k - 10) + 3) \div 4 = k - 10
    BY <2>1
  <2>3. MCSummary = [source |-> "summary", len |-> 4 * (k - 10)]
    BY DEF MCSummary, k
  <2>4. MessageTokens(MCSummary) = k
    BY <2>1, <2>2, <2>3 DEF MessageTokens, EstimateTokens
  <2> QED BY <2>2, <2>3, <2>4 DEF Sized, k
<1> HIDE DEF h, recent, split
<1>6. /\ after \in Seq(Sized) /\ Len(after) = Len(recent) + 1 /\ after[1] = MCSummary
      /\ \A i \in 1..Len(recent) : after[i + 1] = recent[i]
  <2>1. /\ <<MCSummary>> \in Seq(Sized) /\ Len(<<MCSummary>>) = 1
        /\ <<MCSummary>>[1] = MCSummary /\ Len(recent) \in Nat
    BY <1>4, <1>5
  <2> QED BY <1>4, <2>1
<1> HIDE DEF after
<1>7. From(after, 2) = recent
  <2> DEFINE p == From(after, 2)
  <2>0. Len(recent) \in Nat /\ Len(after) \in 0..Len(after) /\ 2 \in 1..(Len(after) + 1)
    BY <1>4, <1>6
  <2>1. /\ p \in Seq(Sized) /\ Len(p) = IF 2 <= Len(after) THEN Len(after) - 2 + 1 ELSE 0
        /\ \A k \in 1..Len(p) : p[k] = after[k + 2 - 1]
    BY <1>6, <2>0, Part DEF From
  <2>2. Len(p) = Len(recent)
    BY <1>6, <2>0, <2>1
  <2> HIDE DEF p
  <2>3. \A k \in 1..Len(p) : p[k] = recent[k]
    <3> TAKE k \in 1..Len(p)
    <3>1. k \in 1..Len(recent) /\ k + 2 - 1 = k + 1
      BY <2>0, <2>2
    <3> QED BY <1>6, <2>1, <3>1
  <2>4. p = recent
    BY <1>4, <2>1, <2>2, <2>3, SeqEqual
  <2> QED BY <2>4 DEF p
<1>8. Cost(after, 1) = MessageTokens(MCSummary) + Cost(h, split)
  <2>1. Len(recent) \in Nat /\ 1 \in 1..(Len(after) + 1) /\ 1 <= Len(after)
        /\ 2 \in 1..(Len(after) + 1) /\ 1 + 1 = 2
    BY <1>4, <1>6
  <2>2. Cost(after, 1) = MessageTokens(after[1]) + Cost(after, 1 + 1)
    BY <1>6, <2>1, CostIs
  <2>3. Cost(after, 2) = Total(From(after, 2))
    BY <1>6, <2>1, CostIs
  <2> QED BY <1>4, <1>6, <1>7, <2>1, <2>2, <2>3
<1>9. TotalTokens(after) = Cost(after, 1)
  <2>1. 1 \in 1..(Len(after) + 1)
    BY <1>6
  <2> QED BY <1>6, <2>1, SuffixIs DEF TotalTokens
<1> DEFINE b == ContextBudget
<1>10. /\ (b * 20) \div 100 \in Nat /\ (b * 40) \div 100 \in Nat /\ (b * 60) \div 100 \in Nat
       /\ (b * 20) \div 100 + (b * 40) \div 100 <= (b * 60) \div 100
  BY Budgets
<1>11. TotalTokens(after) <= (b * 60) \div 100 /\ TotalTokens(after) \in Nat
  BY <1>3, <1>4, <1>5, <1>8, <1>9, <1>10
<1> QED BY <1>2, <1>10, <1>11 DEF NeedsCompaction

-----------------------------------------------------------------------------
Grown == history \in Seq(Sized) /\ sysTokens \in Nat

LEMMA GrownStep == ASSUME Grown, [AlgorithmsNext]_allVars PROVE Grown'
<1>1. CASE UNCHANGED historyVars
  BY <1>1 DEF Grown, historyVars
<1>2. CASE Grow
  <2>1. PICK n \in Lengths, s \in {"turn", "summary"} :
          history' = Append(history, [source |-> s, len |-> n])
    BY <1>2 DEF Grow
  <2>2. [source |-> s, len |-> n] \in Sized
    BY ContextAssumption DEF Sized
  <2> QED BY <1>2, <2>1, <2>2, AppendProperties DEF Grow, Grown
<1> QED BY <1>1, <1>2 DEF AlgorithmsNext, GrowHistory, GrowStream, GrowRobots, GrowSearch,
                          allVars, historyVars

(***************************************************************************)
(* For any history, context and prompt, trimming keeps the longest suffix  *)
(* that fits, a compaction splits where 40% is used up, and with a summary *)
(* of at most 20% it leaves no more than the 60% that start one.           *)
(***************************************************************************)
THEOREM WalksAreExact == AlgorithmsSpec => []WalksExact
<1>1. AlgorithmsInit => Grown
  <2> SUFFICES ASSUME AlgorithmsInit PROVE Grown
    OBVIOUS
  <2>1. history = <<>> /\ sysTokens \in SysCosts \cup {0}
    BY DEF AlgorithmsInit
  <2> QED BY <2>1, ContextAssumption DEF Grown
<1>2. Grown => WalksExact
  <2> SUFFICES ASSUME Grown PROVE WalksExact
    OBVIOUS
  <2>1. TrimLongest /\ CompactionSettles
    BY TrimIs, SettlesIs DEF Grown
  <2>2. ActiveContext(history) \in Seq(Sized)
    BY ActiveType DEF Grown
  <2>3. CompactionSplits
    BY <2>2, SplitIs DEF CompactionSplits
  <2> QED BY <2>1, <2>3 DEF WalksExact
<1> QED BY <1>1, <1>2, GrownStep, PTL DEF AlgorithmsSpec

-----------------------------------------------------------------------------
(***************************************************************************)
(* The readers of StreamAssembly: their types, and that one more event is  *)
(* one more step of the scan, for any stream.                              *)
(***************************************************************************)
BlockOf == [kind : {"text", "call"}, parts : Nat \ {0}]
PieceOf == Nat \X Nat
CallOf  == [id : Nat, args : Seq(PieceOf)]
Filed   == UNION {[D -> CallOf] : D \in SUBSET Nat}
Event   == [type : {"text", "call", "start_text", "start_call", "start_message",
                    "done", "bad"}, key : Nat, piece : PieceOf]
Reader  == [content : Seq(PieceOf), announced : SUBSET Nat, calls : Filed,
            order : Seq(Nat), usage : SUBSET {"input", "output"}, stopped : BOOLEAN]

LEMMA NothingIsReader == NothingRead \in Reader
<1>1. <<>> \in Seq(PieceOf) /\ <<>> \in Seq(Nat) 
  OBVIOUS
<1>2. <<>> \in Filed
  <2>1. <<>> \in [{} -> CallOf]
    OBVIOUS
  <2> QED BY <2>1 DEF Filed
<1> QED BY <1>1, <1>2 DEF NothingRead, Reader

LEMMA NewCallIs ==
  ASSUME NEW acc \in Reader, NEW e \in Event, NEW args \in Seq(PieceOf)
  PROVE  LET n == NewCall(acc, e, args)
         IN /\ n \in Reader
            /\ n.content = acc.content
            /\ n.announced = acc.announced
            /\ n.stopped = acc.stopped
            /\ n.order = Append(acc.order, e.key)
            /\ DOMAIN n.calls = DOMAIN acc.calls \cup {e.key}
            /\ n.calls[e.key] = [id |-> e.piece[1], args |-> args]
            /\ \A k \in DOMAIN acc.calls : k # e.key => n.calls[k] = acc.calls[k]
<1> DEFINE c == [k \in DOMAIN acc.calls \cup {e.key} |->
                   IF k = e.key THEN [id |-> e.piece[1], args |-> args] ELSE acc.calls[k]]
           n == NewCall(acc, e, args)
<1>0. acc.calls \in Filed /\ e.key \in Nat /\ e.piece[1] \in Nat /\ acc.order \in Seq(Nat)
  BY DEF Reader, Event, PieceOf
<1>1. n.calls = c
  BY DEF NewCall, Reader
<1>2. c \in Filed
  <2>1. PICK D \in SUBSET Nat : acc.calls \in [D -> CallOf]
    BY <1>0 DEF Filed
  <2>2. DOMAIN acc.calls \cup {e.key} \in SUBSET Nat
    BY <1>0, <2>1
  <2>3. c \in [(DOMAIN acc.calls \cup {e.key}) -> CallOf]
    BY <1>0, <2>1 DEF CallOf
  <2> QED BY <2>2, <2>3 DEF Filed
<1>3. n.order = Append(acc.order, e.key) /\ n.order \in Seq(Nat)
  BY <1>0 DEF NewCall, Reader
<1>4. /\ n = [acc EXCEPT !.calls = c, !.order = n.order]
      BY <1>1 DEF NewCall, Reader
<1> HIDE DEF n
<1>5. n \in Reader /\ n.content = acc.content /\ n.announced = acc.announced
      /\ n.stopped = acc.stopped
  <2> HIDE DEF c
  <2> QED BY <1>2, <1>3, <1>4 DEF Reader
<1> QED BY <1>1, <1>3, <1>5 DEF n

LEMMA WriteTextIs ==
  ASSUME NEW acc \in Reader, NEW e \in Event
  PROVE  LET n == WriteText(acc, e)
         IN  /\ n \in Reader
             /\ n.content = Append(acc.content, e.piece)
             /\ n.announced = acc.announced /\ n.stopped = acc.stopped
             /\ n.order = acc.order /\ n.calls = acc.calls
<1>1. Append(acc.content, e.piece) \in Seq(PieceOf)
  BY DEF Reader, Event
<1> QED BY <1>1 DEF WriteText, Reader

LEMMA AnnounceIs ==
  ASSUME NEW acc \in Reader, NEW e \in Event
  PROVE  LET n == Announce(acc, e)
         IN  /\ n \in Reader
             /\ n.announced = acc.announced \cup {e.key}
             /\ n.content = acc.content /\ n.stopped = acc.stopped
             /\ n.order = acc.order /\ n.calls = acc.calls
<1>1. acc.announced \cup {e.key} \in SUBSET Nat
  BY DEF Reader, Event
<1> QED BY <1>1 DEF Announce, Reader

\* Arguments for a call that is not known change nothing.
LEMMA WriteArgsIs ==
  ASSUME NEW acc \in Reader, NEW e \in Event
  PROVE  LET n == WriteArgs(acc, e)
         IN  /\ n \in Reader
             /\ n.content = acc.content /\ n.announced = acc.announced
             /\ n.stopped = acc.stopped /\ n.order = acc.order
             /\ DOMAIN n.calls = DOMAIN acc.calls
             /\ \A k \in DOMAIN acc.calls : k # e.key => n.calls[k] = acc.calls[k]
             /\ e.key \in DOMAIN acc.calls =>
                  n.calls[e.key] = [id |-> acc.calls[e.key].id,
                                    args |-> Append(acc.calls[e.key].args, e.piece)]
<1> DEFINE n == WriteArgs(acc, e)
           c == [k \in DOMAIN acc.calls |->
                   IF k = e.key
                   THEN [id |-> acc.calls[k].id, args |-> Append(acc.calls[k].args, e.piece)]
                   ELSE acc.calls[k]]
<1>1. PICK D \in SUBSET Nat : acc.calls \in [D -> CallOf]
  BY DEF Reader, Filed
<1>2. e.piece \in PieceOf
  BY DEF Event
<1>3. c \in [D -> CallOf]
  <2>1. ASSUME NEW k \in D PROVE c[k] \in CallOf
    <3>1. acc.calls[k] \in CallOf /\ k \in DOMAIN acc.calls
      BY <1>1
    <3>2. Append(acc.calls[k].args, e.piece) \in Seq(PieceOf)
      BY <1>2, <3>1 DEF CallOf
    <3> QED BY <3>1, <3>2 DEF CallOf
  <2>2. DOMAIN acc.calls = D
    BY <1>1
  <2> HIDE DEF c
  <2>3. DOMAIN c = D /\ c = [k \in DOMAIN c |-> c[k]]
    BY <2>2 DEF c
  <2> QED BY <2>1, <2>3
<1>4. n.calls = c
  <2> DEFINE old == acc.calls
             k == e.key
  <2>1. n.calls = [old EXCEPT ![k] = [old[k] EXCEPT !.args = Append(@, e.piece)]]
    BY DEF WriteArgs, Reader
  <2> HIDE DEF n
  <2>2. DOMAIN old = D /\ \A d \in D : old[d] \in CallOf
    BY <1>1
  <2>3. k \in D => [old[k] EXCEPT !.args = Append(@, e.piece)]
                    = [id |-> old[k].id, args |-> Append(old[k].args, e.piece)]
    <3> SUFFICES ASSUME k \in D
                 PROVE  [old[k] EXCEPT !.args = Append(@, e.piece)]
                          = [id |-> old[k].id, args |-> Append(old[k].args, e.piece)]
      OBVIOUS
    <3> DEFINE r == old[k]
               x == Append(r.args, e.piece)
    <3>1. r \in CallOf
      BY <2>2
    <3> HIDE DEF r, x
    <3>2. [r EXCEPT !.args = x] = [id |-> r.id, args |-> x]
      BY <3>1 DEF CallOf
    <3> QED BY <3>2 DEF r, x
  <2> HIDE DEF old, k
  <2>4. n.calls = [d \in D |-> IF d = k THEN [id |-> old[d].id, args |-> Append(old[d].args, e.piece)] ELSE old[d]]
    BY <2>1, <2>2, <2>3
  <2> QED BY <2>2, <2>4 DEF old, k
<1>5. n = [acc EXCEPT !.calls = c]
  BY <1>4 DEF WriteArgs, Reader
<1>6. c \in Filed
  <2> HIDE DEF c
  <2> QED BY <1>3 DEF Filed
<1>7. /\ n \in Reader /\ n.content = acc.content /\ n.announced = acc.announced
      /\ n.stopped = acc.stopped /\ n.order = acc.order
  <2> HIDE DEF n, c
  <2> QED BY <1>5, <1>6 DEF Reader
<1>8. /\ DOMAIN c = DOMAIN acc.calls
      /\ \A k \in DOMAIN acc.calls : k # e.key => c[k] = acc.calls[k]
      /\ e.key \in DOMAIN acc.calls =>
           c[e.key] = [id |-> acc.calls[e.key].id,
                       args |-> Append(acc.calls[e.key].args, e.piece)]
  OBVIOUS
<1> HIDE DEF n, c
<1>9. /\ DOMAIN n.calls = DOMAIN acc.calls
      /\ \A k \in DOMAIN acc.calls : k # e.key => n.calls[k] = acc.calls[k]
      /\ e.key \in DOMAIN acc.calls =>
           n.calls[e.key] = [id |-> acc.calls[e.key].id,
                             args |-> Append(acc.calls[e.key].args, e.piece)]
  BY <1>4, <1>8
<1> QED BY <1>7, <1>9 DEF n

LEMMA ScanEventType ==
  ASSUME NEW a \in {"chat", "messages", "responses"}, NEW acc \in Reader, NEW e \in Event
  PROVE  ScanEvent(a, acc, e) \in Reader
<1>1. e.piece \in PieceOf /\ <<e.piece>> \in Seq(PieceOf) /\ <<>> \in Seq(PieceOf)
  BY DEF Event
<1>2. /\ Announce(acc, e) \in Reader /\ WriteText(acc, e) \in Reader
      /\ WriteArgs(acc, e) \in Reader
  BY AnnounceIs, WriteTextIs, WriteArgsIs
<1>3. /\ NewCall(acc, e, <<e.piece>>) \in Reader
      /\ NewCall(Announce(acc, e), e, <<>>) \in Reader
  BY <1>1, <1>2, NewCallIs
<1>4. FileDelta(acc, e) \in Reader
  BY <1>2, <1>3 DEF FileDelta
<1>5. /\ [acc EXCEPT !.stopped = TRUE] \in Reader
      /\ [acc EXCEPT !.usage = @ \cup {"input"}] \in Reader
      /\ [acc EXCEPT !.usage = @ \cup {"output"}] \in Reader
      /\ [acc EXCEPT !.stopped = TRUE, !.usage = {"input", "output"}] \in Reader
  BY DEF Reader
<1>6. ChatEvent(acc, e) \in Reader
  BY <1>2, <1>4, <1>5 DEF ChatEvent
<1>7. MessagesEvent(acc, e) \in Reader
  BY <1>2, <1>3, <1>5 DEF MessagesEvent
<1>8. ResponsesEvent(acc, e) \in Reader
  BY <1>2, <1>4, <1>5 DEF ResponsesEvent
<1> QED BY <1>6, <1>7, <1>8 DEF ScanEvent

ScanStep(a) == [pair \in Reader \X Event |-> ScanEvent(a, pair[1], pair[2])]

LEMMA ScanStepType ==
  ASSUME NEW a \in {"chat", "messages", "responses"}, NEW acc \in Reader, NEW e \in Event
  PROVE  /\ ScanStep(a)[<<acc, e>>] = ScanEvent(a, acc, e)
         /\ ScanStep(a)[<<acc, e>>] \in Reader
BY ScanEventType DEF ScanStep

LEMMA ScanClosed ==
  ASSUME NEW a \in {"chat", "messages", "responses"}, NEW s \in Seq(Event)
  PROVE  FoldStays(Reader, ScanStep(a), NothingRead, s)
<1>1. \A acc \in Reader : \A n \in 1..Len(s) : ScanStep(a)[<<acc, s[n]>>] \in Reader
  <2> TAKE acc \in Reader
  <2> TAKE n \in 1..Len(s)
  <2>1. s[n] \in Event
    OBVIOUS
  <2> QED BY <2>1, ScanStepType
<1> QED BY <1>1, NothingIsReader DEF FoldStays

LEMMA ScanIs ==
  ASSUME NEW a \in {"chat", "messages", "responses"}, NEW s \in Seq(Event)
  PROVE  Scan(a, s) = Folded(Reader, ScanStep(a), NothingRead, s)
<1> DEFINE E(iter) ==
             iter = [t \in SUBSET DOMAIN s |->
                       IF t = {} THEN NothingRead
                       ELSE ScanEvent(a, iter[t \ {Max(t)}], s[Max(t)])]
           c == CHOOSE iter : E(iter)
<1>1. DOMAIN s = 1..Len(s) /\ Len(s) \in Nat
  OBVIOUS
<1>2. Scan(a, s) = c[DOMAIN s]
  BY DEF Scan, FoldLeft, MapThenFoldSet
<1>3. \E iter : E(iter)
  <2>1. PICK h \in [SUBSET (1..Len(s)) -> Reader] : SetFold(h, ScanStep(a), NothingRead, s)
    BY ScanClosed, SetFoldExists
  <2>2. ASSUME NEW t \in SUBSET DOMAIN s, t # {}
        PROVE  h[t] = ScanEvent(a, h[t \ {Max(t)}], s[Max(t)])
    <3>1. Max(t) \in 1..Len(s)
      BY <1>1, <2>2, MaxIn
    <3>2. s[Max(t)] \in Event /\ h[t \ {Max(t)}] \in Reader
      BY <1>1, <3>1
    <3>3. h[t] = ScanStep(a)[<<h[t \ {Max(t)}], s[Max(t)]>>]
      BY <1>1, <2>1, <2>2 DEF SetFold
    <3> QED BY <3>2, <3>3, ScanStepType
  <2>3. h[{}] = NothingRead
    BY <2>1 DEF SetFold
  <2>4. E(h)
    BY <1>1, <2>2, <2>3
  <2> QED BY <2>4
<1>4. E(c)
  BY <1>3
<1> HIDE DEF c
<1>5. c[{}] = NothingRead
  BY <1>4
<1>6. ASSUME NEW n \in 1..Len(s), c[1..(n - 1)] \in Reader
      PROVE  c[1..n] = ScanStep(a)[<<c[1..(n - 1)], s[n]>>]
  <2>0. n \in Nat /\ n # 0
    BY <1>1
  <2>1. Max(1..n) = n /\ (1..n) \ {n} = 1..(n - 1) /\ 1..n # {}
    BY <2>0, MaxOfFirst
  <2>2. 1..n \in SUBSET DOMAIN s
    BY <1>1
  <2>3. c[1..n] = ScanEvent(a, c[(1..n) \ {Max(1..n)}], s[Max(1..n)])
    BY <1>4, <2>1, <2>2, Zenon
  <2>4. c[1..n] = ScanEvent(a, c[1..(n - 1)], s[n])
    BY <2>1, <2>3
  <2>5. s[n] \in Event
    OBVIOUS
  <2> QED BY <1>6, <2>4, <2>5, ScanStepType
<1> HIDE DEF E
<1>7. c[1..Len(s)] = Folded(Reader, ScanStep(a), NothingRead, s)
  <2>1. SetSteps(c, Reader, ScanStep(a), NothingRead, s)
    BY <1>5, <1>6 DEF SetSteps
  <2> QED BY <2>1, ScanClosed, SetFoldIs
<1> QED BY <1>1, <1>2, <1>7

LEMMA ScanNone ==
  ASSUME NEW a \in {"chat", "messages", "responses"}
  PROVE  Scan(a, <<>>) = NothingRead
<1>1. <<>> \in Seq(Event)
  OBVIOUS
<1>2. Folded(Reader, ScanStep(a), NothingRead, <<>>) = NothingRead
  BY NothingIsReader, FoldedNone
<1> QED BY <1>1, <1>2, ScanIs

LEMMA ScanAppend ==
  ASSUME NEW a \in {"chat", "messages", "responses"}, NEW s \in Seq(Event), NEW e \in Event
  PROVE  /\ Scan(a, s) \in Reader
         /\ Scan(a, Append(s, e)) = ScanEvent(a, Scan(a, s), e)
<1> DEFINE t == Append(s, e)
           g == ScanStep(a)
<1>1. t \in Seq(Event) /\ IsAppend(t, s, e)
  BY DEF IsAppend
<1> HIDE DEF t
<1>2. FoldStays(Reader, g, NothingRead, t) /\ FoldStays(Reader, g, NothingRead, s)
  BY <1>1, ScanClosed
<1>3. Scan(a, s) = Folded(Reader, g, NothingRead, s) /\ Scan(a, t) = Folded(Reader, g, NothingRead, t)
  BY <1>1, ScanIs
<1> HIDE DEF g
<1>4. Folded(Reader, g, NothingRead, s) \in Reader
  BY <1>2, FoldedType
<1>5. FoldGrows(Reader, g, NothingRead, s, e, t)
  BY <1>1, <1>2, FoldedAppend, Zenon
<1>6. Scan(a, s) \in Reader /\ Scan(a, t) = g[<<Scan(a, s), e>>]
  BY <1>3, <1>4, <1>5 DEF FoldGrows
<1> QED BY <1>6, ScanStepType DEF t, g

(***************************************************************************)
(* readFull: what the whole answer says as far as each of its blocks.      *)
(***************************************************************************)
LEMMA PiecesAre ==
  ASSUME NEW ans \in Seq(BlockOf), NEW b \in 1..Len(ans)
  PROVE  /\ Pieces(ans, b) \in Seq(PieceOf) /\ Len(Pieces(ans, b)) = ans[b].parts
         /\ ans[b].parts \in Nat \ {0} /\ ans[b].kind \in {"text", "call"}
         /\ Pieces(ans, b) = [k \in 1..ans[b].parts |-> <<b, k>>]
         /\ b \in Nat
<1>1. ans[b] \in BlockOf /\ b \in Nat
  OBVIOUS
<1>2. ans[b].parts \in Nat \ {0} /\ ans[b].kind \in {"text", "call"}
  BY <1>1 DEF BlockOf
<1> DEFINE p == [k \in 1..ans[b].parts |-> <<b, k>>]
<1>3. \A k \in 1..ans[b].parts : p[k] \in PieceOf
  BY <1>1 DEF PieceOf
<1>4. p \in Seq(PieceOf) /\ Len(p) = ans[b].parts
  <2> DEFINE n == ans[b].parts
             q == [k \in 1..n |-> <<b, k>>]
  <2>1. n \in Nat /\ \A k \in 1..n : q[k] \in PieceOf
    BY <1>2, <1>3
  <2> HIDE DEF n
  <2>2. \A k \in 1..n : <<b, k>> \in PieceOf
    BY <2>1
  <2>3. q \in Seq(PieceOf) /\ Len(q) = n
    BY <2>1, <2>2
  <2> QED BY <2>3 DEF n
<1> QED BY <1>1, <1>2, <1>4 DEF Pieces

Telling == [content : Seq(PieceOf), calls : Seq(CallOf)]
TellNothing == [content |-> <<>>, calls |-> <<>>]
TellStep(ans) == [pair \in Telling \X (1..Len(ans)) |-> FullStep(ans, pair[1], pair[2])]
FirstBlocks(n) == [b \in 1..n |-> b]

\* The whole answer as far as block n.
Upto(ans, n) == Folded(Telling, TellStep(ans), TellNothing, FirstBlocks(n))

LEMMA TellNothingIsTold == TellNothing \in Telling
BY DEF TellNothing, Telling

LEMMA TellStepIs ==
  ASSUME NEW ans \in Seq(BlockOf), NEW acc \in Telling, NEW b \in 1..Len(ans)
  PROVE  /\ TellStep(ans)[<<acc, b>>] = FullStep(ans, acc, b)
         /\ FullStep(ans, acc, b) \in Telling
         /\ ans[b].kind = "text" =>
              /\ FullStep(ans, acc, b).content = acc.content \o Pieces(ans, b)
              /\ FullStep(ans, acc, b).calls = acc.calls
         /\ ans[b].kind # "text" =>
              /\ FullStep(ans, acc, b).content = acc.content
              /\ FullStep(ans, acc, b).calls
                   = Append(acc.calls, [id |-> b, args |-> Pieces(ans, b)])
<1>1. /\ Pieces(ans, b) \in Seq(PieceOf) /\ b \in Nat
      /\ acc.content \in Seq(PieceOf) /\ acc.calls \in Seq(CallOf)
  BY PiecesAre DEF Telling
<1> DEFINE p == Pieces(ans, b)
           rec == [id |-> b, args |-> p]
<1> HIDE DEF p
<1>2. acc.content \o p \in Seq(PieceOf) /\ rec \in CallOf
  BY <1>1 DEF p, CallOf
<1> HIDE DEF rec
<1>3. Append(acc.calls, rec) \in Seq(CallOf)
  BY <1>1, <1>2
<1>4. FullStep(ans, acc, b) = IF ans[b].kind = "text" THEN [acc EXCEPT !.content = @ \o p]
                              ELSE [acc EXCEPT !.calls = Append(@, rec)]
  BY DEF FullStep, p, rec
<1>5. FullStep(ans, acc, b) \in Telling
  BY <1>2, <1>3, <1>4 DEF Telling
<1>6. TellStep(ans)[<<acc, b>>] = FullStep(ans, acc, b)
  BY DEF TellStep
<1>7. /\ ans[b].kind = "text" =>
              /\ FullStep(ans, acc, b).content = acc.content \o p
              /\ FullStep(ans, acc, b).calls = acc.calls
      /\ ans[b].kind # "text" =>
              /\ FullStep(ans, acc, b).content = acc.content
              /\ FullStep(ans, acc, b).calls = Append(acc.calls, rec)
  BY <1>4 DEF Telling
<1> QED BY <1>5, <1>6, <1>7 DEF p, rec

LEMMA TellClosed ==
  ASSUME NEW ans \in Seq(BlockOf), NEW n \in 0..Len(ans)
  PROVE  FoldStays(Telling, TellStep(ans), TellNothing, FirstBlocks(n))
<1>1. /\ n \in Nat /\ Len(FirstBlocks(n)) = n
      /\ \A i \in 1..n : FirstBlocks(n)[i] = i /\ i \in 1..Len(ans)
  BY DEF FirstBlocks
<1>2. \A acc \in Telling : \A i \in 1..n : TellStep(ans)[<<acc, i>>] \in Telling
  BY <1>1, TellStepIs
<1> QED BY <1>1, <1>2, TellNothingIsTold DEF FoldStays

LEMMA UptoType ==
  ASSUME NEW ans \in Seq(BlockOf), NEW n \in 0..Len(ans)
  PROVE  /\ Upto(ans, n) \in Telling
         /\ Upto(ans, n).content \in Seq(PieceOf) /\ Upto(ans, n).calls \in Seq(CallOf)
<1>1. Upto(ans, n) \in Telling
  BY TellClosed, FoldedType DEF Upto
<1> QED BY <1>1 DEF Telling

LEMMA UptoNone ==
  ASSUME NEW ans \in Seq(BlockOf)
  PROVE  Upto(ans, 0).content = <<>> /\ Upto(ans, 0).calls = <<>>
<1>1. FirstBlocks(0) = <<>>
  BY DEF FirstBlocks
<1>2. Upto(ans, 0) = TellNothing
  BY <1>1, TellNothingIsTold, FoldedNone DEF Upto
<1> QED BY <1>2 DEF TellNothing

LEMMA UptoNext ==
  ASSUME NEW ans \in Seq(BlockOf), NEW n \in 0..Len(ans), n + 1 <= Len(ans)
  PROVE  LET was == Upto(ans, n)
             now == Upto(ans, n + 1)
             b   == n + 1
         IN  /\ ans[b].kind = "text" => /\ now.content = was.content \o Pieces(ans, b)
                                        /\ now.calls = was.calls
             /\ ans[b].kind # "text" =>
                  /\ now.content = was.content
                  /\ now.calls = Append(was.calls, [id |-> b, args |-> Pieces(ans, b)])
<1> DEFINE s == FirstBlocks(n)
           b == n + 1
           t == FirstBlocks(b)
           g == TellStep(ans)
<1>1. n \in Nat /\ b \in 1..Len(ans) /\ b \in 0..Len(ans) /\ b \in Nat
  OBVIOUS
<1>2. IsAppend(t, s, b)
  BY <1>1 DEF IsAppend, FirstBlocks
<1>3. FoldStays(Telling, g, TellNothing, t)
  BY <1>1, TellClosed
<1> HIDE DEF s, t, g
<1>4. FoldGrows(Telling, g, TellNothing, s, b, t)
  BY <1>2, <1>3, FoldedAppend, Zenon
<1>5. Upto(ans, b) = g[<<Upto(ans, n), b>>]
  BY <1>4 DEF FoldGrows, Upto, g, s, t
<1>6. Upto(ans, n) \in Telling
  BY UptoType
<1> DEFINE was == Upto(ans, n)
<1>7. was \in Telling
  BY <1>6
<1>8. Upto(ans, b) = FullStep(ans, was, b)
  BY <1>1, <1>5, <1>6, TellStepIs DEF g
<1> HIDE DEF b, was
<1>9. /\ ans[b].kind = "text" =>
              /\ FullStep(ans, was, b).content = was.content \o Pieces(ans, b)
              /\ FullStep(ans, was, b).calls = was.calls
      /\ ans[b].kind # "text" =>
              /\ FullStep(ans, was, b).content = was.content
              /\ FullStep(ans, was, b).calls
                   = Append(was.calls, [id |-> b, args |-> Pieces(ans, b)])
  BY <1>1, <1>7, TellStepIs
<1> QED BY <1>8, <1>9 DEF b, was

LEMMA FullIs ==
  ASSUME NEW ans \in Seq(BlockOf)
  PROVE  Full(ans) = Upto(ans, Len(ans))
<1> DEFINE s == FirstBlocks(Len(ans))
           g == TellStep(ans)
           E(iter) ==
             iter = [t \in SUBSET DOMAIN s |->
                       IF t = {} THEN TellNothing
                       ELSE FullStep(ans, iter[t \ {Max(t)}], s[Max(t)])]
           c == CHOOSE iter : E(iter)
<1>1. /\ DOMAIN s = 1..Len(s) /\ Len(s) = Len(ans) /\ Len(ans) \in Nat
      /\ \A i \in 1..Len(s) : s[i] \in 1..Len(ans)
  BY DEF FirstBlocks
<1>2. Full(ans) = c[DOMAIN s]
  BY DEF Full, FoldLeft, MapThenFoldSet, TellNothing, FirstBlocks
<1> HIDE DEF s, g
<1>0. FoldStays(Telling, g, TellNothing, s)
  BY <1>1, TellClosed DEF s, g
<1>3. \E iter : E(iter)
  <2>1. PICK h \in [SUBSET (1..Len(s)) -> Telling] : SetFold(h, g, TellNothing, s)
    BY <1>0, SetFoldExists
  <2>2. ASSUME NEW t \in SUBSET DOMAIN s, t # {}
        PROVE  h[t] = FullStep(ans, h[t \ {Max(t)}], s[Max(t)])
    <3>1. Max(t) \in 1..Len(s)
      BY <1>1, <2>2, MaxIn
    <3>2. s[Max(t)] \in 1..Len(ans) /\ h[t \ {Max(t)}] \in Telling
      BY <1>1, <3>1
    <3>3. h[t] = g[<<h[t \ {Max(t)}], s[Max(t)]>>]
      BY <1>1, <2>1, <2>2 DEF SetFold
    <3> QED BY <3>2, <3>3, TellStepIs DEF g
  <2>3. h[{}] = TellNothing
    BY <2>1 DEF SetFold
  <2>4. E(h)
    BY <1>1, <2>2, <2>3
  <2> QED BY <2>4
<1>4. E(c)
  BY <1>3
<1> HIDE DEF c
<1>5. c[{}] = TellNothing
  BY <1>4
<1>6. ASSUME NEW n \in 1..Len(s), c[1..(n - 1)] \in Telling
      PROVE  c[1..n] = g[<<c[1..(n - 1)], s[n]>>]
  <2>0. n \in Nat /\ n # 0
    BY <1>1
  <2>1. Max(1..n) = n /\ (1..n) \ {n} = 1..(n - 1) /\ 1..n # {}
    BY <2>0, MaxOfFirst
  <2>2. 1..n \in SUBSET DOMAIN s
    BY <1>1
  <2>3. c[1..n] = FullStep(ans, c[(1..n) \ {Max(1..n)}], s[Max(1..n)])
    BY <1>4, <2>1, <2>2, Zenon
  <2>4. c[1..n] = FullStep(ans, c[1..(n - 1)], s[n])
    BY <2>1, <2>3
  <2>5. s[n] \in 1..Len(ans)
    BY <1>1
  <2> QED BY <1>6, <2>4, <2>5, TellStepIs DEF g
<1> HIDE DEF E
<1>7. c[1..Len(s)] = Folded(Telling, g, TellNothing, s)
  <2>1. SetSteps(c, Telling, g, TellNothing, s)
    BY <1>5, <1>6 DEF SetSteps
  <2> QED BY <2>1, <1>0, SetFoldIs
<1> QED BY <1>1, <1>2, <1>7 DEF s, g, Upto

(***************************************************************************)
(* Prefixes of texts.                                                      *)
(***************************************************************************)
IsText(ans, b) == ans[b].kind = "text"

Begins(s, t) ==
  Len(s) \in Nat /\ Len(t) \in Nat /\ Len(s) <= Len(t) /\ \A i \in 1..Len(s) : s[i] = t[i]

LEMMA BeginsIsPrefix ==
  ASSUME NEW S, NEW s \in Seq(S), NEW t \in Seq(S), Begins(s, t)
  PROVE  IsPrefix(s, t)
<1>1. /\ Len(s) \in Nat /\ Len(t) \in Nat /\ Len(s) <= Len(t)
      /\ \A i \in 1..Len(s) : s[i] = t[i]
  BY DEF Begins
<1>2. SubSeq(s, 1, Len(s)) = SubSeq(t, 1, Len(s))
  BY <1>1
<1> QED BY <1>1, <1>2 DEF IsPrefix

LEMMA ConcatBegins ==
  ASSUME NEW S, NEW s \in Seq(S), NEW t \in Seq(S)
  PROVE  /\ Begins(s, s \o t) /\ s \o t \in Seq(S)
         /\ Len(s \o t) = Len(s) + Len(t)
         /\ \A i \in 1..Len(t) : (s \o t)[Len(s) + i] = t[i]
  BY DEF Begins

LEMMA BeginsTrans ==
  ASSUME NEW r, NEW s, NEW t, Begins(r, s), Begins(s, t)
  PROVE  Begins(r, t)
  BY DEF Begins

LEMMA SameSequence ==
  ASSUME NEW S, NEW s \in Seq(S), NEW t \in Seq(S), Begins(s, t), Len(s) = Len(t)
  PROVE  s = t
  BY DEF Begins

\* The content of more blocks begins with that of fewer; it is the same when
\* none of those between is text.
LEMMA ContentGrows ==
  ASSUME NEW ans \in Seq(BlockOf), NEW m \in 0..Len(ans), NEW n \in 0..Len(ans), m <= n
  PROVE  /\ Begins(Upto(ans, m).content, Upto(ans, n).content)
         /\ (\A c \in (m + 1)..n : ~IsText(ans, c)) =>
              Upto(ans, n).content = Upto(ans, m).content
<1> DEFINE C(k) == Upto(ans, k).content
           Good(k) == /\ Begins(C(m), C(k))
                      /\ (\A c \in (m + 1)..k : ~IsText(ans, c)) => C(k) = C(m)
           S == {j \in Nat : j <= Len(ans) - m => Good(m + j)}
<1>0. \A k \in 0..Len(ans) : C(k) \in Seq(PieceOf)
  BY UptoType
<1>1. 0 \in S
  <2>1. Begins(C(m), C(m)) /\ m + 0 = m
    BY <1>0 DEF Begins
  <2> QED BY <2>1
<1>2. ASSUME NEW j \in S PROVE j + 1 \in S
  <2> SUFFICES ASSUME j + 1 <= Len(ans) - m PROVE Good(m + j + 1)
    OBVIOUS
  <2> DEFINE k == m + j
             b == k + 1
  <2>1. k \in 0..Len(ans) /\ b \in 1..Len(ans) /\ b \in 0..Len(ans) /\ k + 1 <= Len(ans)
    OBVIOUS
  <2>2. Good(k)
    OBVIOUS
  <2>3. /\ C(k) \in Seq(PieceOf) /\ C(b) \in Seq(PieceOf)
        /\ IsText(ans, b) => C(b) = C(k) \o Pieces(ans, b)
        /\ ~IsText(ans, b) => C(b) = C(k)
    BY <1>0, <2>1, UptoNext DEF IsText
  <2>4. Begins(C(k), C(b))
    <3>1. Pieces(ans, b) \in Seq(PieceOf)
      BY <2>1, PiecesAre
    <3> HIDE DEF C
    <3>2. Begins(C(k), C(k)) 
      BY <2>3 DEF Begins
    <3>3. IsText(ans, b) => Begins(C(k), C(b))
      BY <2>3, <3>1, ConcatBegins
    <3> QED BY <2>3, <3>2, <3>3
  <2>5. Begins(C(m), C(b))
    BY <2>2, <2>4, BeginsTrans
  <2>6. (\A c \in (m + 1)..b : ~IsText(ans, c)) => C(b) = C(m)
    <3> SUFFICES ASSUME \A c \in (m + 1)..b : ~IsText(ans, c) PROVE C(b) = C(m)
      OBVIOUS
    <3>1. b \in (m + 1)..b /\ \A c \in (m + 1)..k : c \in (m + 1)..b
      BY <2>1
    <3> QED BY <2>2, <2>3, <3>1
  <2>7. m + j + 1 = b
    OBVIOUS
  <2> QED BY <2>5, <2>6, <2>7
<1> HIDE DEF S
<1>3. S \in SUBSET Nat
  BY DEF S
<1>4. S = Nat
  BY <1>1, <1>2, <1>3, NatInduct
<1>5. n - m \in S /\ n - m \in Nat /\ m + (n - m) = n
  BY <1>4
<1>6. Good(n)
  BY <1>5 DEF S
<1> QED BY <1>6

(***************************************************************************)
(* The text: what was sent of the blocks begins the text of the answer.    *)
(***************************************************************************)
FirstOf(b, k) == [i \in 1..k |-> <<b, i>>]

\* How many pieces of each block were sent.
Counts(ans, s) ==
  /\ s \in [1..Len(ans) -> Nat]
  /\ \A b \in 1..Len(ans) : s[b] <= ans[b].parts

\* The text that was sent ends in block b.
EndsIn(ans, s, content, b) ==
  /\ b \in 1..Len(ans) /\ IsText(ans, b) /\ s[b] > 0
  /\ \A c \in 1..(b - 1) : IsText(ans, c) => s[c] = ans[c].parts
  /\ \A c \in (b + 1)..Len(ans) : IsText(ans, c) => s[c] = 0
  /\ content = Upto(ans, b - 1).content \o FirstOf(b, s[b])

Reached(ans, s, content) ==
  \/ content = <<>> /\ \A b \in 1..Len(ans) : IsText(ans, b) => s[b] = 0
  \/ \E b \in 1..Len(ans) : EndsIn(ans, s, content, b)

LongerBy(s, t, x) == Append(s \o t, x) = s \o Append(t, x)

LEMMA AppendToConcat ==
  ASSUME NEW S, NEW s \in Seq(S), NEW t \in Seq(S), NEW x \in S
  PROVE  LongerBy(s, t, x)
<1>1. <<x>> \in Seq(S) /\ s \o t \in Seq(S)
  OBVIOUS
<1>2. Append(s \o t, x) = (s \o t) \o <<x>> /\ Append(t, x) = t \o <<x>>
  BY <1>1, AppendIsConcat
<1> QED BY <1>1, <1>2, ConcatAssociative DEF LongerBy

LEMMA ConcatLonger ==
  ASSUME NEW S, NEW u \in Seq(S), NEW v \in Seq(S), NEW p \in Seq(S),
         Len(v) <= Len(p), \A i \in 1..Len(v) : v[i] = p[i]
  PROVE  Begins(u \o v, u \o p)
<1>1. Len(u) \in Nat /\ Len(v) \in Nat /\ Len(p) \in Nat
  OBVIOUS
<1>2. /\ Len(u \o v) = Len(u) + Len(v) /\ Len(u \o p) = Len(u) + Len(p)
      /\ \A i \in 1..(Len(u) + Len(v)) :
           (u \o v)[i] = IF i <= Len(u) THEN u[i] ELSE v[i - Len(u)]
      /\ \A i \in 1..(Len(u) + Len(p)) :
           (u \o p)[i] = IF i <= Len(u) THEN u[i] ELSE p[i - Len(u)]
  BY ConcatProperties
<1>3. ASSUME NEW i \in 1..(Len(u) + Len(v)) PROVE (u \o v)[i] = (u \o p)[i]
  <2>1. i \in 1..(Len(u) + Len(p))
    BY <1>1
  <2>2. i > Len(u) => i - Len(u) \in 1..Len(v)
    BY <1>1
  <2> QED BY <1>1, <1>2, <2>1, <2>2
<1> QED BY <1>1, <1>2, <1>3 DEF Begins

LEMMA FirstOfIs ==
  ASSUME NEW b \in Nat, NEW k \in Nat
  PROVE  /\ FirstOf(b, k) \in Seq(PieceOf) /\ Len(FirstOf(b, k)) = k
         /\ \A i \in 1..k : FirstOf(b, k)[i] = <<b, i>>
         /\ FirstOf(b, k + 1) = Append(FirstOf(b, k), <<b, k + 1>>)
         /\ FirstOf(b, 0) = <<>>
         /\ <<b, k + 1>> \in PieceOf
<1>1. \A i \in Nat : <<b, i>> \in PieceOf
  BY DEF PieceOf
<1>2. \A j \in Nat : FirstOf(b, j) \in Seq(PieceOf) /\ Len(FirstOf(b, j)) = j
  BY <1>1 DEF FirstOf
<1>3. \A j \in Nat : \A i \in 1..j : FirstOf(b, j)[i] = <<b, i>>
  BY DEF FirstOf
<1> DEFINE x == <<b, k + 1>>
           s == FirstOf(b, k)
           j == k + 1
           t == FirstOf(b, j)
<1>9. j \in Nat /\ \A i \in 1..k : i \in 1..j /\ j \in 1..j
  OBVIOUS
<1>8. /\ s \in Seq(PieceOf) /\ Len(s) = k /\ t \in Seq(PieceOf) /\ Len(t) = j
  BY <1>2, <1>9
<1>7. t[j] = x /\ \A i \in 1..k : t[i] = s[i]
  <2>1. j \in 1..j
    OBVIOUS
  <2> QED BY <1>3, <1>9, <2>1
<1>4. /\ s \in Seq(PieceOf) /\ t \in Seq(PieceOf) /\ x \in PieceOf
      /\ Len(s) = k /\ Len(t) = k + 1 /\ t[k + 1] = x
      /\ \A i \in 1..k : t[i] = s[i]
  BY <1>1, <1>7, <1>8
<1> HIDE DEF s, t, x
<1>5. t = Append(s, x)
  BY <1>4
<1> QED BY <1>1, <1>2, <1>3, <1>5 DEF s, t, x, FirstOf

\* A text piece comes next in its block, all text before it being complete.
LEMMA ReachedGrows ==
  ASSUME NEW ans \in Seq(BlockOf), NEW s, Counts(ans, s), NEW content, Reached(ans, s, content),
         NEW b \in 1..Len(ans), IsText(ans, b), s[b] < ans[b].parts,
         \A c \in 1..(b - 1) : IsText(ans, c) => s[c] = ans[c].parts
  PROVE  Reached(ans, [s EXCEPT ![b] = @ + 1], Append(content, <<b, s[b] + 1>>))
<1> DEFINE k == s[b]
           r == [s EXCEPT ![b] = @ + 1]
           x == <<b, k + 1>>
           more == Append(content, x)
           C(n) == Upto(ans, n).content
<1>0. /\ b \in Nat /\ k \in Nat /\ s \in [1..Len(ans) -> Nat] /\ Len(ans) \in Nat
      /\ \A c \in 1..Len(ans) : s[c] \in Nat /\ s[c] <= ans[c].parts /\ ans[c].parts \in Nat \ {0}
  BY PiecesAre DEF Counts
<1>1. r[b] = k + 1 /\ \A c \in 1..Len(ans) : c # b => r[c] = s[c]
  BY <1>0
<1>2. /\ FirstOf(b, k) \in Seq(PieceOf) /\ FirstOf(b, k + 1) = Append(FirstOf(b, k), x)
      /\ FirstOf(b, 0) = <<>> /\ x \in PieceOf
  BY <1>0, FirstOfIs
<1>3. b - 1 \in 0..Len(ans) /\ C(b - 1) \in Seq(PieceOf)
  BY <1>0, UptoType
<1>4. content = C(b - 1) \o FirstOf(b, k) /\ \A c \in (b + 1)..Len(ans) : IsText(ans, c) => s[c] = 0
  <2>1. ASSUME content = <<>>, \A c \in 1..Len(ans) : IsText(ans, c) => s[c] = 0
        PROVE  content = C(b - 1) \o FirstOf(b, k) /\ \A c \in (b + 1)..Len(ans) : IsText(ans, c) => s[c] = 0
    <3>1. \A c \in 1..(b - 1) : c \in 1..Len(ans) /\ ~IsText(ans, c)
      BY <1>0, <2>1
    <3>2. C(b - 1) = <<>>
      <4>1. 0 \in 0..Len(ans) /\ 0 <= b - 1 /\ \A c \in (0 + 1)..(b - 1) : ~IsText(ans, c)
        BY <1>0, <3>1
      <4>2. C(b - 1) = C(0)
        BY <1>3, <4>1, ContentGrows
      <4> QED BY <4>2, UptoNone
    <3>3. k = 0
      BY <2>1
    <3>4. \A c \in (b + 1)..Len(ans) : c \in 1..Len(ans)
      BY <1>0
    <3> QED BY <1>2, <2>1, <3>2, <3>3, <3>4
  <2>2. ASSUME NEW d \in 1..Len(ans), EndsIn(ans, s, content, d)
        PROVE  content = C(b - 1) \o FirstOf(b, k) /\ \A c \in (b + 1)..Len(ans) : IsText(ans, c) => s[c] = 0
    <3>0. /\ d \in Nat /\ IsText(ans, d) /\ s[d] > 0
          /\ \A c \in 1..(d - 1) : IsText(ans, c) => s[c] = ans[c].parts
          /\ \A c \in (d + 1)..Len(ans) : IsText(ans, c) => s[c] = 0
          /\ content = C(d - 1) \o FirstOf(d, s[d])
      BY <2>2 DEF EndsIn
    <3>1. CASE b < d
      <4>1. b \in 1..(d - 1)
        BY <1>0, <3>0, <3>1
      <4>2. s[b] = ans[b].parts
        BY <3>0, <4>1
      <4> QED BY <1>0, <4>2
    <3>2. CASE b = d
      BY <3>0, <3>2
    <3>3. CASE d < b
      <4>1. d \in 1..(b - 1) /\ s[d] = ans[d].parts
        BY <1>0, <3>0, <3>3
      <4>2. \A c \in (d + 1)..(b - 1) : ~IsText(ans, c)
        <5> TAKE c \in (d + 1)..(b - 1)
        <5> SUFFICES ASSUME IsText(ans, c) PROVE FALSE
          OBVIOUS
        <5>1. c \in (d + 1)..Len(ans) /\ c \in 1..(b - 1) /\ c \in 1..Len(ans)
          BY <1>0, <3>0
        <5>2. s[c] = 0 /\ s[c] = ans[c].parts
          BY <3>0, <5>1
        <5> QED BY <1>0, <5>1, <5>2
      <4>3. C(b - 1) = C(d)
        <5>1. d \in 0..Len(ans) /\ d <= b - 1
          BY <1>0, <3>0, <3>3
        <5> QED BY <1>3, <4>2, <5>1, ContentGrows
      <4>4. C(d) = C(d - 1) \o Pieces(ans, d)
        <5>1. d - 1 \in 0..Len(ans) /\ (d - 1) + 1 <= Len(ans) /\ (d - 1) + 1 = d
          BY <3>0
        <5> QED BY <3>0, <5>1, UptoNext DEF IsText
      <4>5. Pieces(ans, d) = FirstOf(d, s[d])
        BY <4>1, PiecesAre DEF FirstOf
      <4>6. k = 0
        <5>1. b \in (d + 1)..Len(ans)
          BY <1>0, <3>0, <3>3
        <5> QED BY <3>0, <5>1
      <4>7. C(b - 1) \o FirstOf(b, k) = C(b - 1)
        <5>1. FirstOf(b, k) = <<>>
          BY <1>2, <4>6
        <5> QED BY <1>3, <5>1, ConcatEmptySeq
      <4>8. \A c \in (b + 1)..Len(ans) : c \in (d + 1)..Len(ans)
        BY <1>0, <3>0, <3>3
      <4>9. content = C(d)
        BY <3>0, <4>4, <4>5
      <4>10. \A c \in (b + 1)..Len(ans) : IsText(ans, c) => s[c] = 0
        BY <3>0, <4>8
      <4> HIDE DEF C, k
      <4> QED BY <4>3, <4>7, <4>9, <4>10, Zenon
    <3>4. b < d \/ b = d \/ d < b
      BY <1>0, <3>0
    <3> HIDE DEF C, k
    <3> QED BY <3>1, <3>2, <3>3, <3>4, Zenon
  <2> QED BY <2>1, <2>2 DEF Reached
<1>5. more = C(b - 1) \o FirstOf(b, k + 1)
  <2> DEFINE u == C(b - 1)
             v == FirstOf(b, k)
             P == PieceOf
  <2>1. u \in Seq(P) /\ v \in Seq(P) /\ x \in P
    BY <1>2, <1>3
  <2> HIDE DEF u, v, x, P
  <2>2. Append(u \o v, x) = u \o Append(v, x)
    <3>1. LongerBy(u, v, x)
      BY <2>1, AppendToConcat
    <3> QED BY <3>1 DEF LongerBy
  <2> QED BY <1>2, <1>4, <2>2 DEF u, v
<1>6. /\ \A c \in 1..(b - 1) : c \in 1..Len(ans) /\ c # b
      /\ \A c \in (b + 1)..Len(ans) : c \in 1..Len(ans) /\ c # b
  BY <1>0
<1> HIDE DEF r, more, C, k, x
<1>7. EndsIn(ans, r, more, b)
  BY <1>0, <1>1, <1>4, <1>5, <1>6 DEF EndsIn, C
<1> QED BY <1>7 DEF Reached, r, more, x, k

\* A call's piece leaves the text as it is.
LEMMA ReachedStays ==
  ASSUME NEW ans \in Seq(BlockOf), NEW s, Counts(ans, s), NEW content, Reached(ans, s, content),
         NEW b \in 1..Len(ans), ~IsText(ans, b)
  PROVE  Reached(ans, [s EXCEPT ![b] = @ + 1], content)
<1> DEFINE r == [s EXCEPT ![b] = @ + 1]
<1>1. \A c \in 1..Len(ans) : IsText(ans, c) => r[c] = s[c]
  BY DEF Counts
<1> HIDE DEF r
<1>2. ASSUME NEW d \in 1..Len(ans), EndsIn(ans, s, content, d)
      PROVE  EndsIn(ans, r, content, d)
  <2>1. /\ \A c \in 1..(d - 1) : c \in 1..Len(ans)
        /\ \A c \in (d + 1)..Len(ans) : c \in 1..Len(ans)
    OBVIOUS
  <2> QED BY <1>1, <1>2, <2>1 DEF EndsIn
<1> QED BY <1>1, <1>2 DEF Reached, r

\* What was sent begins the text of the answer, and is all of it in the end.
LEMMA ReachedBegins ==
  ASSUME NEW ans \in Seq(BlockOf), NEW s, Counts(ans, s), NEW content, Reached(ans, s, content)
  PROVE  /\ Begins(content, Upto(ans, Len(ans)).content) /\ content \in Seq(PieceOf)
         /\ (\A b \in 1..Len(ans) : s[b] = ans[b].parts) =>
              content = Upto(ans, Len(ans)).content
<1> DEFINE N == Len(ans)
           C(n) == Upto(ans, n).content
<1>0. /\ N \in Nat /\ 0 \in 0..N /\ N \in 0..N /\ s \in [1..N -> Nat]
      /\ \A c \in 1..N : s[c] \in Nat /\ s[c] <= ans[c].parts /\ ans[c].parts \in Nat \ {0}
  BY PiecesAre DEF Counts
<1>00. C(N) \in Seq(PieceOf)
  BY <1>0, UptoType
<1>1. ASSUME content = <<>>, \A b \in 1..N : IsText(ans, b) => s[b] = 0
      PROVE  /\ Begins(content, C(N)) /\ content \in Seq(PieceOf)
             /\ (\A b \in 1..N : s[b] = ans[b].parts) => content = C(N)
  <2>1. Begins(content, C(N)) /\ content \in Seq(PieceOf)
    BY <1>00, <1>1 DEF Begins
  <2>2. ASSUME \A b \in 1..N : s[b] = ans[b].parts PROVE content = C(N)
    <3>1. \A b \in (0 + 1)..N : ~IsText(ans, b)
      BY <1>0, <1>1, <2>2
    <3>2. C(N) = C(0)
      BY <1>0, <3>1, ContentGrows
    <3> QED BY <1>1, <3>2, UptoNone
  <2> QED BY <2>1, <2>2
<1>2. ASSUME NEW b \in 1..N, EndsIn(ans, s, content, b)
      PROVE  /\ Begins(content, C(N)) /\ content \in Seq(PieceOf)
             /\ (\A c \in 1..N : s[c] = ans[c].parts) => content = C(N)
  <2>0. /\ b \in Nat /\ IsText(ans, b) /\ s[b] > 0
        /\ \A c \in (b + 1)..N : IsText(ans, c) => s[c] = 0
        /\ content = C(b - 1) \o FirstOf(b, s[b])
    BY <1>2 DEF EndsIn
  <2>1. /\ b - 1 \in 0..N /\ b \in 0..N /\ b <= N /\ (b - 1) + 1 <= N /\ (b - 1) + 1 = b
    BY <1>0, <2>0
  <2> DEFINE u == C(b - 1)
             v == FirstOf(b, s[b])
             p == Pieces(ans, b)
  <2>2. u \in Seq(PieceOf) /\ C(b) = u \o p
    BY <2>0, <2>1, UptoType, UptoNext DEF IsText
  <2>3. /\ v \in Seq(PieceOf) /\ Len(v) = s[b] /\ \A i \in 1..s[b] : v[i] = <<b, i>>
    BY <1>0, <2>0, FirstOfIs
  <2>4. /\ p \in Seq(PieceOf) /\ Len(p) = ans[b].parts /\ \A i \in 1..ans[b].parts : p[i] = <<b, i>>
    BY PiecesAre
  <2>5. Begins(C(b), C(N))
    BY <1>0, <2>1, ContentGrows
  <2> HIDE DEF u, v, p, C
  <2>6. content \in Seq(PieceOf) /\ Begins(content, C(b))
    <3>1. \A i \in 1..Len(v) : v[i] = p[i]
      <4>1. s[b] <= ans[b].parts /\ s[b] \in Nat /\ ans[b].parts \in Nat
        BY <1>0
      <4>2. \A i \in 1..s[b] : i \in 1..ans[b].parts
        BY <4>1
      <4> QED BY <2>3, <2>4, <4>2
    <3>2. Len(v) <= Len(p)
      BY <1>0, <2>3, <2>4
    <3>3. Begins(u \o v, u \o p)
      BY <2>2, <2>3, <2>4, <3>1, <3>2, ConcatLonger
    <3>4. content = u \o v /\ u \o v \in Seq(PieceOf)
      BY <2>0, <2>2, <2>3 DEF u, v, C
    <3> QED BY <2>2, <3>3, <3>4
  <2>7. ASSUME \A c \in 1..N : s[c] = ans[c].parts PROVE content = C(N)
    <3>1. v = p
      <4>1. Len(v) = Len(p) /\ \A i \in 1..Len(v) : v[i] = p[i]
        BY <2>3, <2>4, <2>7
      <4> QED BY <2>3, <2>4, <4>1, SeqEqual
    <3>2. \A c \in (b + 1)..N : ~IsText(ans, c)
      <4> TAKE c \in (b + 1)..N
      <4>1. c \in 1..N
        BY <2>0
      <4> QED BY <1>0, <2>0, <2>7, <4>1
    <3>3. C(N) = C(b)
      BY <1>0, <2>1, <3>2, ContentGrows DEF C
    <3> QED BY <2>0, <2>2, <3>1, <3>3 DEF u, v
  <2> QED BY <2>5, <2>6, <2>7, BeginsTrans
<1> QED BY <1>1, <1>2 DEF Reached

(***************************************************************************)
(* The calls of the whole answer, each at its place.                       *)
(***************************************************************************)
CallsIn(ans, n) == {c \in 1..n : ans[c].kind = "call"}

\* How many calls come before block b.
Place(ans, b) == Cardinality(CallsIn(ans, b - 1))

\* calls are the whole calls of the first n blocks, each at its place.
CallsTold(ans, n, calls) ==
  /\ Len(calls) = Cardinality(CallsIn(ans, n))
  /\ \A i \in 1..Len(calls) : /\ calls[i].id \in CallsIn(ans, n)
                              /\ calls[i].args = Pieces(ans, calls[i].id)
  /\ \A i, j \in 1..Len(calls) : i < j => calls[i].id < calls[j].id
  /\ \A b \in CallsIn(ans, n) : /\ Place(ans, b) + 1 \in 1..Len(calls)
                                /\ calls[Place(ans, b) + 1].id = b

LEMMA CallsCounted ==
  ASSUME NEW ans, NEW n \in Nat
  PROVE  /\ IsFiniteSet(CallsIn(ans, n)) /\ Cardinality(CallsIn(ans, n)) \in Nat
         /\ Cardinality(CallsIn(ans, n + 1)) =
              Cardinality(CallsIn(ans, n)) + IF ans[n + 1].kind = "call" THEN 1 ELSE 0
<1>1. IsFiniteSet(1..n) /\ CallsIn(ans, n) \in SUBSET (1..n)
  BY FS_Interval DEF CallsIn
<1>2. IsFiniteSet(CallsIn(ans, n)) /\ Cardinality(CallsIn(ans, n)) \in Nat
  BY <1>1, FS_Subset, FS_CardinalityType
<1>3. CASE ans[n + 1].kind = "call"
  <2>1. CallsIn(ans, n + 1) = CallsIn(ans, n) \cup {n + 1} /\ n + 1 \notin CallsIn(ans, n)
    BY <1>3 DEF CallsIn
  <2>2. Cardinality(CallsIn(ans, n) \cup {n + 1}) = Cardinality(CallsIn(ans, n)) + 1
    BY <1>2, <2>1, FS_AddElement
  <2> QED BY <1>2, <1>3, <2>1, <2>2
<1>4. CASE ans[n + 1].kind # "call"
  <2>1. CallsIn(ans, n + 1) = CallsIn(ans, n)
    BY <1>4 DEF CallsIn
  <2> QED BY <1>2, <1>4, <2>1
<1> QED BY <1>3, <1>4

LEMMA UptoCalls ==
  ASSUME NEW ans \in Seq(BlockOf), NEW n \in 0..Len(ans)
  PROVE  CallsTold(ans, n, Upto(ans, n).calls)
<1> DEFINE K(k) == Upto(ans, k).calls
           S == {k \in Nat : k <= Len(ans) => CallsTold(ans, k, K(k))}
<1>0. \A k \in 0..Len(ans) : K(k) \in Seq(CallOf)
  BY UptoType
<1>1. 0 \in S
  <2>1. K(0) = <<>> /\ Len(<<>>) = 0 /\ CallsIn(ans, 0) = {} /\ Cardinality({}) = 0
    BY UptoNone, FS_EmptySet DEF CallsIn
  <2> DEFINE e == K(0)
  <2>3. Len(e) = 0 /\ 1..Len(e) = {}
    BY <2>1
  <2> HIDE DEF K, e
  <2>2. CallsTold(ans, 0, e)
    BY <2>1, <2>3, Zenon DEF CallsTold
  <2> QED BY <2>2 DEF e
<1>2. ASSUME NEW k \in S PROVE k + 1 \in S
  <2> SUFFICES ASSUME k + 1 <= Len(ans) PROVE CallsTold(ans, k + 1, K(k + 1))
    OBVIOUS
  <2> DEFINE b == k + 1
             was == K(k)
             now == K(b)
             rec == [id |-> b, args |-> Pieces(ans, b)]
  <2>1. /\ k \in Nat /\ k \in 0..Len(ans) /\ b \in 1..Len(ans) /\ b \in 0..Len(ans)
        /\ b \in Nat /\ b - 1 = k
    OBVIOUS
  <2>2. CallsTold(ans, k, was)
    BY <2>1
  <2>3. /\ was \in Seq(CallOf) /\ now \in Seq(CallOf)
        /\ ans[b].kind = "text" => now = was
        /\ ans[b].kind # "text" => now = Append(was, rec)
        /\ ans[b].kind \in {"text", "call"}
    BY <1>0, <2>1, UptoNext, PiecesAre
  <2>4. /\ Cardinality(CallsIn(ans, k)) \in Nat
        /\ Cardinality(CallsIn(ans, b)) =
              Cardinality(CallsIn(ans, k)) + IF ans[b].kind = "call" THEN 1 ELSE 0
    BY <2>1, CallsCounted
  <2>5. /\ rec.id = b /\ rec.args = Pieces(ans, b) /\ rec \in CallOf
    BY <2>1, PiecesAre DEF CallOf
  <2>6. CallsIn(ans, b) = CallsIn(ans, k) \cup (IF ans[b].kind = "call" THEN {b} ELSE {})
    BY <2>1 DEF CallsIn
  <2>7. Place(ans, b) = Cardinality(CallsIn(ans, k))
    BY <2>1 DEF Place
  <2>8. \A c \in CallsIn(ans, k) : c \in 1..k
    BY DEF CallsIn
  <2> HIDE DEF was, now, rec, b
  <2>9. CASE ans[b].kind = "text"
    BY <2>2, <2>3, <2>4, <2>6, <2>9 DEF CallsTold, now, b
  <2>10. CASE ans[b].kind = "call"
    <3>1. /\ now = Append(was, rec) /\ CallsIn(ans, b) = CallsIn(ans, k) \cup {b}
          /\ Len(now) = Len(was) + 1 /\ Len(was) \in Nat
          /\ \A i \in 1..Len(was) : now[i] = was[i]
          /\ now[Len(was) + 1] = rec
      BY <2>3, <2>5, <2>6, <2>10
    <3>2. Len(was) = Cardinality(CallsIn(ans, k)) /\ Len(now) = Cardinality(CallsIn(ans, b))
      BY <2>2, <2>4, <2>10, <3>1 DEF CallsTold
    <3>3. ASSUME NEW i \in 1..Len(now)
          PROVE  now[i].id \in CallsIn(ans, b) /\ now[i].args = Pieces(ans, now[i].id)
      <4>1. CASE i \in 1..Len(was)
        BY <2>2, <3>1, <4>1 DEF CallsTold
      <4>2. CASE i = Len(was) + 1
        BY <2>5, <3>1, <4>2
      <4> QED BY <3>1, <4>1, <4>2
    <3>4. ASSUME NEW i \in 1..Len(now), NEW j \in 1..Len(now), i < j
          PROVE  now[i].id < now[j].id
      <4>0. i \in 1..Len(was)
        BY <3>1, <3>4
      <4>1. CASE j \in 1..Len(was)
        BY <2>2, <3>1, <3>4, <4>0, <4>1 DEF CallsTold
      <4>2. CASE j = Len(was) + 1
        <5>1. was[i].id \in 1..k
          BY <2>2, <2>8, <4>0 DEF CallsTold
        <5>2. now[j].id = b /\ now[i].id = was[i].id
          BY <2>5, <3>1, <4>0, <4>2
        <5> QED BY <2>1, <5>1, <5>2 DEF b
      <4> QED BY <3>1, <4>1, <4>2
    <3>5. ASSUME NEW d \in CallsIn(ans, b)
          PROVE  Place(ans, d) + 1 \in 1..Len(now) /\ now[Place(ans, d) + 1].id = d
      <4>1. CASE d \in CallsIn(ans, k)
        BY <2>2, <3>1, <4>1 DEF CallsTold
      <4>2. CASE d = b
        BY <2>5, <2>7, <3>1, <3>2, <4>2
      <4> QED BY <3>1, <4>1, <4>2
    <3>6. CallsTold(ans, b, now)
      BY <3>2, <3>3, <3>4, <3>5 DEF CallsTold
    <3> QED BY <3>6 DEF now, b
  <2> QED BY <2>3, <2>9, <2>10
<1> HIDE DEF S
<1>3. S \in SUBSET Nat
  BY DEF S
<1>4. S = Nat
  BY <1>1, <1>2, <1>3, NatInduct
<1> QED BY <1>4 DEF S

\* Every call is told at its place, and at the place of no other.
LEMMA Places ==
  ASSUME NEW ans \in Seq(BlockOf)
  PROVE  LET calls == Upto(ans, Len(ans)).calls
             all == CallsIn(ans, Len(ans))
         IN  /\ CallsTold(ans, Len(ans), calls)
             /\ Len(calls) \in Nat /\ calls \in Seq(CallOf)
             /\ \A b \in all : Place(ans, b) \in Nat
             /\ \A i \in 1..Len(calls) : Place(ans, calls[i].id) = i - 1
             /\ \A b, c \in all : Place(ans, b) = Place(ans, c) => b = c
<1> DEFINE calls == Upto(ans, Len(ans)).calls
           all == CallsIn(ans, Len(ans))
<1>1. Len(ans) \in Nat /\ Len(ans) \in 0..Len(ans)
  OBVIOUS
<1>2. CallsTold(ans, Len(ans), calls) /\ calls \in Seq(CallOf) /\ Len(calls) \in Nat
  BY <1>1, UptoCalls, UptoType
<1> HIDE DEF calls
<1>3. ASSUME NEW b \in all PROVE Place(ans, b) \in Nat
  <2>1. b - 1 \in Nat
    BY DEF CallsIn
  <2> QED BY <2>1, CallsCounted DEF Place
<1>4. ASSUME NEW i \in 1..Len(calls) PROVE Place(ans, calls[i].id) = i - 1
  <2> DEFINE b == calls[i].id
             j == Place(ans, b) + 1
  <2>1. b \in all /\ j \in 1..Len(calls) /\ calls[j].id = b
    BY <1>2 DEF CallsTold
  <2>2. \A p, q \in 1..Len(calls) : p < q => calls[p].id < calls[q].id
    BY <1>2 DEF CallsTold
  <2>3. b \in Int
    BY <2>1 DEF CallsIn
  <2>4. j \in Int /\ i \in Int /\ Place(ans, b) \in Nat
    BY <2>1, <1>3
  <2>5. j = i
    <3> HIDE DEF j
    <3>1. ~ (j < i)
      BY <2>1, <2>2, <2>3 
    <3>2. ~ (i < j)
      BY <2>1, <2>2, <2>3
    <3> QED BY <2>4, <3>1, <3>2
  <2> HIDE DEF b
  <2> QED BY <2>4, <2>5 DEF b
<1>5. \A b, c \in all : Place(ans, b) = Place(ans, c) => b = c
  BY <1>2 DEF CallsTold
<1> QED BY <1>2, <1>3, <1>4, <1>5 DEF calls

(***************************************************************************)
(* How the chat client collects its calls: by the keys from 0 on.          *)
(***************************************************************************)
\* The keys from 0 to n - 1 that calls has, as the chat client collects them.
KeepStep(calls) == [pair \in Seq(Nat) \X Nat |-> KeepKey(calls, pair[1], pair[2])]
FirstKeys(n) == [i \in 1..n |-> i - 1]
KeptKeys(calls, n) == Folded(Seq(Nat), KeepStep(calls), <<>>, FirstKeys(n))

LEMMA KeepStepIs ==
  ASSUME NEW calls, NEW keys \in Seq(Nat), NEW i \in Nat
  PROVE  /\ KeepStep(calls)[<<keys, i>>] = KeepKey(calls, keys, i)
         /\ KeepKey(calls, keys, i) \in Seq(Nat)
<1>1. KeepKey(calls, keys, i) \in Seq(Nat)
  BY DEF KeepKey
<1> QED BY <1>1 DEF KeepStep

LEMMA KeepClosed ==
  ASSUME NEW calls, NEW n \in Nat
  PROVE  FoldStays(Seq(Nat), KeepStep(calls), <<>>, FirstKeys(n))
<1>1. Len(FirstKeys(n)) = n /\ \A i \in 1..n : FirstKeys(n)[i] \in Nat
  BY DEF FirstKeys
<1>2. \A keys \in Seq(Nat) : \A i \in 1..n : KeepStep(calls)[<<keys, FirstKeys(n)[i]>>] \in Seq(Nat)
  BY <1>1, KeepStepIs
<1> QED BY <1>1, <1>2 DEF FoldStays

LEMMA KeptKeysIs ==
  ASSUME NEW acc, NEW n \in Nat, n = Cardinality(DOMAIN acc.calls)
  PROVE  CollectKeys("chat", acc) = KeptKeys(acc.calls, n)
<1> DEFINE calls == acc.calls
           s == FirstKeys(n)
           g == KeepStep(calls)
           E(iter) ==
             iter = [t \in SUBSET DOMAIN s |->
                       IF t = {} THEN <<>>
                       ELSE KeepKey(calls, iter[t \ {Max(t)}], s[Max(t)])]
           c == CHOOSE iter : E(iter)
<1>1. /\ DOMAIN s = 1..Len(s) /\ Len(s) = n
      /\ \A i \in 1..Len(s) : s[i] \in Nat
  BY DEF FirstKeys
<1>2. CollectKeys("chat", acc) = c[DOMAIN s]
  BY DEF CollectKeys, FoldLeft, MapThenFoldSet, FirstKeys
<1> HIDE DEF s, g, calls
<1>0. FoldStays(Seq(Nat), g, <<>>, s)
  BY <1>1, KeepClosed DEF s, g
<1>3. \E iter : E(iter)
  <2>1. PICK h \in [SUBSET (1..Len(s)) -> Seq(Nat)] : SetFold(h, g, <<>>, s)
    BY <1>0, SetFoldExists
  <2>2. ASSUME NEW t \in SUBSET DOMAIN s, t # {}
        PROVE  h[t] = KeepKey(calls, h[t \ {Max(t)}], s[Max(t)])
    <3>1. Max(t) \in 1..Len(s)
      BY <1>1, <2>2, MaxIn
    <3>2. s[Max(t)] \in Nat /\ h[t \ {Max(t)}] \in Seq(Nat)
      BY <1>1, <3>1
    <3>3. h[t] = g[<<h[t \ {Max(t)}], s[Max(t)]>>]
      BY <1>1, <2>1, <2>2 DEF SetFold
    <3> QED BY <3>2, <3>3, KeepStepIs DEF g
  <2>3. h[{}] = <<>>
    BY <2>1 DEF SetFold
  <2>4. E(h)
    BY <1>1, <2>2, <2>3
  <2> QED BY <2>4
<1>4. E(c)
  BY <1>3
<1> HIDE DEF c
<1>5. c[{}] = <<>>
  BY <1>4
<1>6. ASSUME NEW m \in 1..Len(s), c[1..(m - 1)] \in Seq(Nat)
      PROVE  c[1..m] = g[<<c[1..(m - 1)], s[m]>>]
  <2>0. m \in Nat /\ m # 0
    BY <1>1
  <2>1. Max(1..m) = m /\ (1..m) \ {m} = 1..(m - 1) /\ 1..m # {}
    BY <2>0, MaxOfFirst
  <2>2. 1..m \in SUBSET DOMAIN s
    BY <1>1
  <2>3. c[1..m] = KeepKey(calls, c[(1..m) \ {Max(1..m)}], s[Max(1..m)])
    BY <1>4, <2>1, <2>2, Zenon
  <2>4. c[1..m] = KeepKey(calls, c[1..(m - 1)], s[m])
    BY <2>1, <2>3
  <2>5. s[m] \in Nat
    BY <1>1
  <2> QED BY <1>6, <2>4, <2>5, KeepStepIs DEF g
<1> HIDE DEF E
<1>7. c[1..Len(s)] = Folded(Seq(Nat), g, <<>>, s)
  <2>1. SetSteps(c, Seq(Nat), g, <<>>, s)
    BY <1>5, <1>6 DEF SetSteps
  <2> QED BY <2>1, <1>0, SetFoldIs
<1> QED BY <1>1, <1>2, <1>7 DEF s, g, KeptKeys, calls

\* In order, and known; all of them when all are known.
Kept(calls, n, keys) ==
  /\ \A i \in 1..Len(keys) : keys[i] \in DOMAIN calls /\ keys[i] < n
  /\ \A i, j \in 1..Len(keys) : i < j => keys[i] < keys[j]
  /\ 0..(n - 1) \subseteq DOMAIN calls => /\ Len(keys) = n
                                         /\ \A i \in 1..n : keys[i] = i - 1

LEMMA KeptKeysAre ==
  ASSUME NEW calls, NEW n \in Nat
  PROVE  KeptKeys(calls, n) \in Seq(Nat) /\ Kept(calls, n, KeptKeys(calls, n))
<1> DEFINE K(k) == KeptKeys(calls, k)
           S == {k \in Nat : Kept(calls, k, K(k))}
<1>0. \A k \in Nat : K(k) \in Seq(Nat)
  BY KeepClosed, FoldedType DEF KeptKeys
<1>1. 0 \in S
  <2>1. FirstKeys(0) = <<>> /\ <<>> \in Seq(Nat)
    BY DEF FirstKeys
  <2>2. K(0) = <<>>
    BY <2>1, FoldedNone DEF KeptKeys
  <2> DEFINE e == K(0)
  <2>3. Len(e) = 0 /\ 1..Len(e) = {} /\ 1..0 = {}
    BY <2>2
  <2> HIDE DEF K, e
  <2>4. Kept(calls, 0, e)
    BY <2>3, Zenon DEF Kept
  <2> QED BY <2>4 DEF e
<1>2. ASSUME NEW k \in S PROVE k + 1 \in S
  <2> DEFINE m == k + 1
             s == FirstKeys(k)
             t == FirstKeys(m)
             g == KeepStep(calls)
             was == K(k)
             now == K(m)
  <2>1. k \in Nat /\ m \in Nat /\ Kept(calls, k, was) /\ was \in Seq(Nat) /\ now \in Seq(Nat)
    BY <1>0
  <2>2. IsAppend(t, s, k)
    BY <2>1 DEF IsAppend, FirstKeys
  <2>3. FoldStays(Seq(Nat), g, <<>>, t)
    BY <2>1, KeepClosed
  <2> HIDE DEF s, t, g
  <2>4. FoldGrows(Seq(Nat), g, <<>>, s, k, t)
    BY <2>2, <2>3, FoldedAppend, Zenon
  <2>5. now = g[<<was, k>>]
    BY <2>4 DEF FoldGrows, KeptKeys, g, s, t
  <2>6. now = KeepKey(calls, was, k)
    BY <2>1, <2>5, KeepStepIs DEF g
  <2>0. m = k + 1
    OBVIOUS
  <2> HIDE DEF was, now, m
  <2>7. ASSUME k \in DOMAIN calls PROVE Kept(calls, m, now)
    <3>1. /\ now = Append(was, k) /\ Len(now) = Len(was) + 1 /\ Len(was) \in Nat
          /\ \A i \in 1..Len(was) : now[i] = was[i]
          /\ now[Len(was) + 1] = k
      BY <2>1, <2>6, <2>7 DEF KeepKey
    <3>2. ASSUME NEW i \in 1..Len(now) PROVE now[i] \in DOMAIN calls /\ now[i] < m
      <4>1. CASE i \in 1..Len(was)
        BY <2>0, <2>1, <3>1, <4>1 DEF Kept
      <4>2. CASE i = Len(was) + 1
        BY <2>0, <2>1, <2>7, <3>1, <4>2
      <4> QED BY <3>1, <4>1, <4>2
    <3>3. ASSUME NEW i \in 1..Len(now), NEW j \in 1..Len(now), i < j PROVE now[i] < now[j]
      <4>0. i \in 1..Len(was)
        BY <3>1, <3>3
      <4>1. CASE j \in 1..Len(was)
        BY <2>1, <3>1, <3>3, <4>0, <4>1 DEF Kept
      <4>2. CASE j = Len(was) + 1
        BY <2>1, <3>1, <4>0, <4>2 DEF Kept
      <4> QED BY <3>1, <4>1, <4>2
    <3>4. ASSUME 0..(m - 1) \subseteq DOMAIN calls
          PROVE  Len(now) = m /\ \A i \in 1..m : now[i] = i - 1
      <4>1. 0..(k - 1) \subseteq DOMAIN calls
        BY <2>0, <2>1, <3>4
      <4>2. Len(was) = k /\ \A i \in 1..k : was[i] = i - 1
        BY <2>1, <4>1 DEF Kept
      <4> QED BY <2>0, <2>1, <3>1, <4>2
    <3> QED BY <3>2, <3>3, <3>4 DEF Kept
  <2>8. ASSUME k \notin DOMAIN calls PROVE Kept(calls, m, now)
    <3>1. now = was
      BY <2>6, <2>8 DEF KeepKey
    <3>2. ~ (0..(m - 1) \subseteq DOMAIN calls)
      BY <2>0, <2>1, <2>8
    <3>3. \A i \in 1..Len(was) : was[i] \in Nat
      BY <2>1
    <3> QED BY <2>0, <2>1, <3>1, <3>2, <3>3 DEF Kept
  <2>9. Kept(calls, m, now)
    BY <2>7, <2>8
  <2> QED BY <2>1, <2>9 DEF m, now
<1> HIDE DEF S
<1>3. S \in SUBSET Nat
  BY DEF S
<1>4. S = Nat
  BY <1>1, <1>2, <1>3, NatInduct
<1> QED BY <1>0, <1>4 DEF S

(***************************************************************************)
(* Calls that are filed by key while their pieces come in.                 *)
(***************************************************************************)
Begun(ans, open) == CallsIn(ans, Len(ans)) \cap open

\* What the API a files call b under.
FiledKey(a, ans, b) == IF a = "chat" THEN Place(ans, b) ELSE b

\* The calls that were begun are filed with what was sent of them, and apart
\* from chat in the order of the answer.
FiledAs(a, ans, s, open, calls, order) ==
  LET all == Upto(ans, Len(ans)).calls
  IN  /\ DOMAIN calls = {FiledKey(a, ans, b) : b \in Begun(ans, open)}
      /\ \A b \in Begun(ans, open) :
           calls[FiledKey(a, ans, b)] = [id |-> b, args |-> FirstOf(b, s[b])]
      /\ a # "chat" =>
           /\ Len(order) \in 0..Len(all)
           /\ \A i \in 1..Len(order) : order[i] = all[i].id
           /\ Begun(ans, open) = {all[i].id : i \in 1..Len(order)}

\* Blocks are begun in order.
InTurn(open) == \A c \in open, b \in Nat : 0 < b /\ b < c => b \in open

LEMMA FiledKeys ==
  ASSUME NEW a, NEW ans \in Seq(BlockOf), NEW b \in CallsIn(ans, Len(ans)),
         NEW c \in CallsIn(ans, Len(ans)), FiledKey(a, ans, b) = FiledKey(a, ans, c)
  PROVE  b = c
BY Places DEF FiledKey

\* A text block changes nothing.
LEMMA FiledStays ==
  ASSUME NEW a, NEW ans \in Seq(BlockOf), NEW s, NEW open, NEW calls, NEW order,
         FiledAs(a, ans, s, open, calls, order),
         NEW r, NEW wide, open \subseteq wide,
         \A b \in wide \ open : ans[b].kind # "call",
         \A b \in Begun(ans, open) : r[b] = s[b]
  PROVE  FiledAs(a, ans, r, wide, calls, order)
<1>1. Begun(ans, wide) = Begun(ans, open)
  BY DEF Begun, CallsIn
<1> QED BY <1>1 DEF FiledAs

\* more is calls with x written to the call at key, or with a call filed there.
Writes(calls, more, key, x) ==
  /\ DOMAIN more = DOMAIN calls
  /\ \A k \in DOMAIN calls : k # key => more[k] = calls[k]
  /\ more[key] = [id |-> calls[key].id, args |-> Append(calls[key].args, x)]

Files(calls, more, key, call) ==
  /\ DOMAIN more = DOMAIN calls \cup {key}
  /\ \A k \in DOMAIN calls : k # key => more[k] = calls[k]
  /\ more[key] = call

\* One more piece for a call that was begun.
LEMMA FiledMore ==
  ASSUME NEW a, NEW ans \in Seq(BlockOf), NEW s, NEW open, NEW calls, NEW order,
         FiledAs(a, ans, s, open, calls, order),
         NEW b \in Begun(ans, open), s[b] \in Nat,
         NEW r, r[b] = s[b] + 1, \A c \in Begun(ans, open) : c # b => r[c] = s[c],
         NEW more, Writes(calls, more, FiledKey(a, ans, b), <<b, s[b] + 1>>)
  PROVE  FiledAs(a, ans, r, open, more, order)
<1>2. /\ DOMAIN more = DOMAIN calls
      /\ \A k \in DOMAIN calls : k # FiledKey(a, ans, b) => more[k] = calls[k]
      /\ more[FiledKey(a, ans, b)] =
           [id   |-> calls[FiledKey(a, ans, b)].id,
            args |-> Append(calls[FiledKey(a, ans, b)].args, <<b, s[b] + 1>>)]
  BY DEF Writes
<1>1. ASSUME NEW c \in Begun(ans, open)
      PROVE  more[FiledKey(a, ans, c)] = [id |-> c, args |-> FirstOf(c, r[c])]
  <2>1. CASE c = b
    <3>1. b \in Nat
      BY DEF Begun, CallsIn
    <3>2. FirstOf(b, s[b] + 1) = Append(FirstOf(b, s[b]), <<b, s[b] + 1>>)
      BY <3>1, FirstOfIs
    <3>3. calls[FiledKey(a, ans, b)] = [id |-> b, args |-> FirstOf(b, s[b])]
      BY DEF FiledAs
    <3> DEFINE key == FiledKey(a, ans, b)
    <3>4. calls[key].id = b /\ calls[key].args = FirstOf(b, s[b])
      BY <3>3
    <3>5. more[key] = [id |-> b, args |-> FirstOf(b, s[b] + 1)]
      BY <1>2, <3>2, <3>4
    <3> HIDE DEF key
    <3> QED BY <2>1, <3>5 DEF key
  <2>2. CASE c # b
    <3>1. FiledKey(a, ans, c) # FiledKey(a, ans, b)
      BY <2>2, FiledKeys DEF Begun
    <3>2. FiledKey(a, ans, c) \in DOMAIN calls
      BY DEF FiledAs
    <3> QED BY <1>2, <2>2, <3>1, <3>2 DEF FiledAs
  <2> QED BY <2>1, <2>2
<1> QED BY <1>1, <1>2 DEF FiledAs

\* A call is begun.
LEMMA FiledNew ==
  ASSUME NEW a, NEW ans \in Seq(BlockOf), NEW s, NEW open, NEW calls, NEW order \in Seq(Nat),
         FiledAs(a, ans, s, open, calls, order),
         NEW b \in CallsIn(ans, Len(ans)), b \notin open,
         a # "chat" => InTurn(open) /\ \A c \in 1..(b - 1) : c \in open,
         NEW r, \A c \in Begun(ans, open) : r[c] = s[c],
         NEW more,
         Files(calls, more, FiledKey(a, ans, b), [id |-> b, args |-> FirstOf(b, r[b])])
  PROVE  FiledAs(a, ans, r, open \cup {b}, more, Append(order, FiledKey(a, ans, b)))
<1> DEFINE wide == open \cup {b}
           all  == Upto(ans, Len(ans)).calls
           L    == Len(order)
           key  == FiledKey(a, ans, b)
           long == Append(order, key)
<1>1. Begun(ans, wide) = Begun(ans, open) \cup {b} /\ b \notin Begun(ans, open)
  BY DEF Begun
<1>5. /\ DOMAIN more = DOMAIN calls \cup {key}
      /\ \A k \in DOMAIN calls : k # key => more[k] = calls[k]
      /\ more[key] = [id |-> b, args |-> FirstOf(b, r[b])]
  BY DEF Files
<1>2. DOMAIN more = {FiledKey(a, ans, c) : c \in Begun(ans, wide)}
  BY <1>1, <1>5 DEF FiledAs
<1>3. ASSUME NEW c \in Begun(ans, wide)
      PROVE  more[FiledKey(a, ans, c)] = [id |-> c, args |-> FirstOf(c, r[c])]
  <2>1. CASE c = b
    BY <1>5, <2>1
  <2>2. CASE c # b
    <3>1. c \in Begun(ans, open)
      BY <1>1, <2>2
    <3>2. FiledKey(a, ans, c) # FiledKey(a, ans, b)
      BY <2>2, <3>1, FiledKeys DEF Begun
    <3>3. FiledKey(a, ans, c) \in DOMAIN calls
      BY <3>1 DEF FiledAs
    <3> QED BY <1>5, <3>1, <3>2, <3>3 DEF FiledAs
  <2> QED BY <2>1, <2>2
<1>4. ASSUME a # "chat"
      PROVE  /\ Len(long) \in 0..Len(all)
             /\ \A i \in 1..Len(long) : long[i] = all[i].id
             /\ Begun(ans, wide) = {all[i].id : i \in 1..Len(long)}
  <2> DEFINE p == Place(ans, b) + 1
  <2>1. /\ L \in 0..Len(all) /\ Len(all) \in Nat /\ L \in Nat
        /\ \A i \in 1..L : order[i] = all[i].id
        /\ Begun(ans, open) = {all[i].id : i \in 1..L}
    BY <1>4, Places DEF FiledAs
  <2>2. CallsTold(ans, Len(ans), all) /\ key = b
    BY <1>4, Places DEF FiledKey
  <2>3. p \in 1..Len(all) /\ all[p].id = b
    BY <2>2 DEF CallsTold
  <2>4. \A i, j \in 1..Len(all) : i < j => all[i].id < all[j].id
    BY <2>2 DEF CallsTold
  <2>5. \A i \in 1..Len(all) : all[i].id \in CallsIn(ans, Len(ans))
    BY <2>2 DEF CallsTold
  <2> HIDE DEF all, p, L
  <2>6. p > L
    <3>1. p \notin 1..L
      BY <1>1, <2>1, <2>3
    <3> QED BY <2>1, <2>3, <3>1
  <2>7. p <= L + 1
    <3> SUFFICES ASSUME L + 1 < p PROVE FALSE
      BY <2>1, <2>3
    <3> DEFINE q == L + 1
               d == all[q].id
    <3>1. q \in 1..Len(all) /\ q < p
      BY <2>1, <2>3
    <3>2. d < b /\ d \in CallsIn(ans, Len(ans))
      BY <2>3, <2>4, <2>5, <3>1
    <3>3. d \in 1..(b - 1)
      BY <3>2 DEF CallsIn
    <3>4. d \in Begun(ans, open)
      BY <1>4, <3>2, <3>3 DEF Begun
    <3>5. PICK i \in 1..L : all[i].id = d
      BY <2>1, <3>4
    <3>6. i < q /\ i \in 1..Len(all)
      BY <2>1
    <3>7. all[i].id < all[q].id /\ d \in Nat
      BY <2>4, <3>1, <3>3, <3>6
    <3> QED BY <3>5, <3>7
  <2>8. p = L + 1
    BY <2>1, <2>3, <2>6, <2>7
  <2>9. Len(long) = L + 1 /\ long[L + 1] = b /\ \A i \in 1..L : long[i] = order[i]
    BY <2>2 DEF L
  <2> HIDE DEF long
  <2>10. Begun(ans, open) \cup {b} = {all[i].id : i \in 1..(L + 1)}
    <3>1. 1..(L + 1) = (1..L) \cup {L + 1}
      BY <2>1
    <3> QED BY <2>1, <2>3, <2>8, <3>1
  <2>11. \A i \in 1..(L + 1) : long[i] = all[i].id
    BY <2>1, <2>3, <2>8, <2>9
  <2>12. L + 1 \in 0..Len(all)
    BY <2>1, <2>3, <2>8
  <2> HIDE DEF wide
  <2> QED BY <1>1, <2>9, <2>10, <2>11, <2>12 DEF wide
<1> HIDE DEF wide, long, all
<1> QED BY <1>2, <1>3, <1>4 DEF FiledAs, wide, long, all

(***************************************************************************)
(* What the reader hands on of the calls it filed.                         *)
(***************************************************************************)
\* What was begun is handed on in order, each call with the arguments so far;
\* everything once it is all sent.
Handed(a, acc) ==
  LET keys == CollectKeys(a, acc) IN [i \in 1..Len(keys) |-> acc.calls[keys[i]]]

HandsOn(ans, s, open, got) ==
  LET all == Upto(ans, Len(ans)).calls
  IN  /\ \A i \in 1..Len(got) :
           /\ i > 1 => got[i - 1].id < got[i].id
           /\ \E j \in 1..Len(all) : all[j].id = got[i].id /\ IsPrefix(got[i].args, all[j].args)
      /\ (/\ \A b \in 1..Len(ans) : s[b] = ans[b].parts
          /\ CallsIn(ans, Len(ans)) \subseteq open) => got = all

LEMMA HandedOn ==
  ASSUME NEW a \in {"chat", "messages", "responses"}, NEW ans \in Seq(BlockOf),
         NEW s, Counts(ans, s), NEW open, NEW acc \in Reader,
         FiledAs(a, ans, s, open, acc.calls, acc.order)
  PROVE  HandsOn(ans, s, open, Handed(a, acc))
<1> SUFFICES
      LET keys == CollectKeys(a, acc)
          got  == [i \in 1..Len(keys) |-> acc.calls[keys[i]]]
          all  == Upto(ans, Len(ans)).calls
      IN  /\ \A i \in 1..Len(got) :
               /\ i > 1 => got[i - 1].id < got[i].id
               /\ \E j \in 1..Len(all) : all[j].id = got[i].id
                                         /\ IsPrefix(got[i].args, all[j].args)
          /\ (/\ \A b \in 1..Len(ans) : s[b] = ans[b].parts
              /\ CallsIn(ans, Len(ans)) \subseteq open) => got = all
  BY DEF HandsOn, Handed
<1> DEFINE keys == CollectKeys(a, acc)
           got  == [i \in 1..Len(keys) |-> acc.calls[keys[i]]]
           all  == Upto(ans, Len(ans)).calls
           whole == /\ \A b \in 1..Len(ans) : s[b] = ans[b].parts
                    /\ CallsIn(ans, Len(ans)) \subseteq open
           began == Begun(ans, open)
           calls == acc.calls
           n == Cardinality(DOMAIN calls)
           pos(i) == IF a = "chat" THEN keys[i] + 1 ELSE i
<1>0. /\ Len(ans) \in Nat /\ s \in [1..Len(ans) -> Nat]
      /\ \A b \in 1..Len(ans) : s[b] \in Nat /\ s[b] <= ans[b].parts /\ ans[b].parts \in Nat
  BY PiecesAre DEF Counts
<1>1. /\ Len(all) \in Nat /\ all \in Seq(CallOf)
      /\ \A i \in 1..Len(all) : /\ all[i].id \in CallsIn(ans, Len(ans))
                                /\ all[i].args = Pieces(ans, all[i].id)
                                /\ Place(ans, all[i].id) = i - 1
      /\ \A i, j \in 1..Len(all) : i < j => all[i].id < all[j].id
      /\ \A b \in CallsIn(ans, Len(ans)) : /\ Place(ans, b) + 1 \in 1..Len(all)
                                           /\ all[Place(ans, b) + 1].id = b
                                           /\ Place(ans, b) \in Nat
  <2>1. CallsTold(ans, Len(ans), all)
    BY Places
  <2>2. /\ Len(all) \in Nat /\ all \in Seq(CallOf)
        /\ \A i \in 1..Len(all) : Place(ans, all[i].id) = i - 1
        /\ \A b \in CallsIn(ans, Len(ans)) : Place(ans, b) \in Nat
    BY Places
  <2> HIDE DEF all
  <2> QED BY <2>1, <2>2 DEF CallsTold
<1>2. /\ began \subseteq CallsIn(ans, Len(ans))
      /\ DOMAIN calls = {FiledKey(a, ans, b) : b \in began}
      /\ \A b \in began : calls[FiledKey(a, ans, b)] = [id |-> b, args |-> FirstOf(b, s[b])]
  BY DEF FiledAs, Begun
<1>3. /\ a # "chat" =>
           /\ Len(acc.order) \in 0..Len(all)
           /\ \A i \in 1..Len(acc.order) : acc.order[i] = all[i].id
           /\ began = {all[i].id : i \in 1..Len(acc.order)}
  BY DEF FiledAs
<1>4. whole => began = CallsIn(ans, Len(ans))
  BY DEF Begun
<1>5. \A b \in CallsIn(ans, Len(ans)) : b \in 1..Len(ans)
  BY DEF CallsIn
<1> HIDE DEF all, began
<1>6. ASSUME a = "chat"
      PROVE  /\ keys \in Seq(Nat)
             /\ \A i \in 1..Len(keys) :
                  /\ pos(i) \in 1..Len(all) /\ all[pos(i)].id \in began
                  /\ keys[i] = FiledKey(a, ans, all[pos(i)].id)
             /\ \A i, j \in 1..Len(keys) : i < j => pos(i) < pos(j)
             /\ whole => Len(keys) = Len(all) /\ \A i \in 1..Len(keys) : pos(i) = i
  <2>1. DOMAIN calls = {Place(ans, b) : b \in began}
    BY <1>2, <1>6 DEF FiledKey
  <2>2. n \in Nat
    <3>1. DOMAIN calls \in SUBSET (0..Len(all))
      <4> SUFFICES ASSUME NEW b \in began PROVE Place(ans, b) \in 0..Len(all)
        BY <2>1
      <4> QED BY <1>1, <1>2
    <3>2. IsFiniteSet(0..Len(all))
      BY <1>1, FS_Interval
    <3> QED BY <3>1, <3>2, FS_Subset, FS_CardinalityType
  <2>3. keys = KeptKeys(calls, n)
    BY <1>6, <2>2, KeptKeysIs
  <2>4. keys \in Seq(Nat) /\ Kept(calls, n, keys)
    BY <2>2, <2>3, KeptKeysAre
  <2>5. ASSUME NEW i \in 1..Len(keys)
        PROVE  /\ pos(i) \in 1..Len(all) /\ all[pos(i)].id \in began
               /\ keys[i] = FiledKey(a, ans, all[pos(i)].id)
    <3>1. keys[i] \in DOMAIN calls
      BY <2>4 DEF Kept
    <3>2. PICK b \in began : keys[i] = Place(ans, b)
      BY <2>1, <3>1
    <3>3. Place(ans, b) + 1 \in 1..Len(all) /\ all[Place(ans, b) + 1].id = b
      BY <1>1, <1>2
    <3> HIDE DEF keys
    <3> QED BY <1>6, <3>2, <3>3 DEF FiledKey
  <2>6. ASSUME NEW i \in 1..Len(keys), NEW j \in 1..Len(keys), i < j PROVE pos(i) < pos(j)
    <3>1. keys[i] < keys[j] /\ keys[i] \in Nat /\ keys[j] \in Nat
      BY <2>4, <2>6 DEF Kept
    <3> HIDE DEF keys
    <3> QED BY <1>6, <3>1
  <2>7. ASSUME whole PROVE Len(keys) = Len(all) /\ \A i \in 1..Len(keys) : pos(i) = i
    <3>1. DOMAIN calls = 0..(Len(all) - 1)
      <4>1. ASSUME NEW b \in began PROVE Place(ans, b) \in 0..(Len(all) - 1)
        BY <1>1, <1>2
      <4>2. ASSUME NEW k \in 0..(Len(all) - 1) PROVE \E b \in began : k = Place(ans, b)
        <5> DEFINE i == k + 1
        <5>1. i \in 1..Len(all) /\ i - 1 = k
          BY <1>1
        <5> HIDE DEF i
        <5>2. all[i].id \in began /\ Place(ans, all[i].id) = k
          BY <1>1, <1>4, <2>7, <5>1
        <5> QED BY <5>2
      <4> QED BY <2>1, <4>1, <4>2
    <3>2. n = Len(all)
      <4>1. 0 \in Int /\ Len(all) - 1 \in Int
        BY <1>1
      <4>2. Cardinality(0..(Len(all) - 1)) = IF 0 > Len(all) - 1 THEN 0 ELSE Len(all) - 1 - 0 + 1
        BY <4>1, FS_Interval
      <4> QED BY <1>1, <3>1, <4>2
    <3>3. Len(keys) = n /\ \A i \in 1..n : keys[i] = i - 1
      BY <2>4, <3>1, <3>2 DEF Kept
    <3> HIDE DEF keys, n
    <3> QED BY <1>1, <1>6, <3>2, <3>3
  <2> QED BY <2>4, <2>5, <2>6, <2>7
<1>7. ASSUME a # "chat"
      PROVE  /\ keys \in Seq(Nat)
             /\ \A i \in 1..Len(keys) :
                  /\ pos(i) \in 1..Len(all) /\ all[pos(i)].id \in began
                  /\ keys[i] = FiledKey(a, ans, all[pos(i)].id)
             /\ \A i, j \in 1..Len(keys) : i < j => pos(i) < pos(j)
             /\ whole => Len(keys) = Len(all) /\ \A i \in 1..Len(keys) : pos(i) = i
  <2>1. keys = acc.order /\ acc.order \in Seq(Nat)
    BY <1>7 DEF CollectKeys, Reader
  <2>2. Len(keys) \in 0..Len(all) /\ \A i \in 1..Len(keys) : keys[i] = all[i].id /\ all[i].id \in began
    BY <1>3, <1>7, <2>1
  <2>3. ASSUME whole PROVE Len(keys) = Len(all)
    <3> SUFFICES ASSUME Len(keys) # Len(all) PROVE FALSE
      OBVIOUS
    <3> DEFINE m == Len(all)
    <3>1. m \in 1..Len(all) /\ Len(keys) < m /\ Len(keys) \in Nat
      BY <1>1, <2>2
    <3>2. all[m].id \in began
      BY <1>1, <1>4, <2>3, <3>1
    <3>3. PICK i \in 1..Len(keys) : all[i].id = all[m].id
      BY <1>3, <1>7, <2>1, <3>2
    <3>4. Place(ans, all[i].id) = i - 1 /\ Place(ans, all[m].id) = m - 1
      BY <1>1, <2>2, <3>1
    <3> HIDE DEF keys, m
    <3> QED BY <3>1, <3>3, <3>4
  <2> HIDE DEF keys
  <2>4. \A i \in 1..Len(keys) : pos(i) = i /\ i \in 1..Len(all)
    BY <1>1, <1>7, <2>2
  <2> QED BY <1>7, <2>1, <2>2, <2>3, <2>4 DEF FiledKey
<1> HIDE DEF keys
<1>8. /\ keys \in Seq(Nat) /\ Len(keys) \in Nat
      /\ \A i \in 1..Len(keys) :
           /\ pos(i) \in 1..Len(all) /\ all[pos(i)].id \in began
           /\ keys[i] = FiledKey(a, ans, all[pos(i)].id)
      /\ \A i, j \in 1..Len(keys) : i < j => pos(i) < pos(j)
      /\ whole => Len(keys) = Len(all) /\ \A i \in 1..Len(keys) : pos(i) = i
  BY <1>6, <1>7
<1> HIDE DEF pos, whole
<1>9. ASSUME NEW i \in 1..Len(keys)
      PROVE  got[i] = [id |-> all[pos(i)].id, args |-> FirstOf(all[pos(i)].id, s[all[pos(i)].id])]
  BY <1>2, <1>8
<1>10. Len(got) = Len(keys)
  BY <1>8
<1>13. ASSUME NEW i \in 1..Len(keys)
       PROVE  LET b == all[pos(i)].id
              IN  got[i].id = b /\ got[i].args = FirstOf(b, s[b])
  <2> DEFINE b == all[pos(i)].id
             u == FirstOf(b, s[b])
  <2>1. got[i] = [id |-> b, args |-> u]
    BY <1>9
  <2> HIDE DEF b, u, got
  <2>2. got[i].id = b /\ got[i].args = u
    BY <2>1
  <2> QED BY <2>2 DEF b, u
<1> HIDE DEF got
<1>11. ASSUME NEW i \in 1..Len(got)
       PROVE  /\ i > 1 => got[i - 1].id < got[i].id
              /\ \E j \in 1..Len(all) : /\ all[j].id = got[i].id
                                        /\ IsPrefix(got[i].args, all[j].args)
  <2>1. ASSUME i > 1 PROVE got[i - 1].id < got[i].id
    <3> DEFINE h == i - 1
    <3>1. h \in 1..Len(keys) /\ i \in 1..Len(keys) /\ h < i
      BY <1>8, <1>10, <2>1
    <3> HIDE DEF h
    <3>2. pos(h) < pos(i) /\ pos(h) \in 1..Len(all) /\ pos(i) \in 1..Len(all)
      BY <1>8, <3>1
    <3>3. got[h].id = all[pos(h)].id /\ got[i].id = all[pos(i)].id
      BY <1>13, <3>1
    <3>4. got[h].id < got[i].id
      BY <1>1, <3>2, <3>3
    <3> QED BY <3>4 DEF h
  <2>2. \E j \in 1..Len(all) : all[j].id = got[i].id /\ IsPrefix(got[i].args, all[j].args)
    <3> DEFINE j == pos(i)
               b == all[j].id
               u == FirstOf(b, s[b])
               v == Pieces(ans, b)
    <3>1. i \in 1..Len(keys) /\ j \in 1..Len(all)
      BY <1>8, <1>10
    <3>2. /\ got[i].id = b /\ got[i].args = u /\ all[j].args = v
          /\ b \in CallsIn(ans, Len(ans)) /\ b \in 1..Len(ans)
      BY <1>1, <1>5, <1>13, <3>1
    <3> HIDE DEF j, b
    <3>3. /\ s[b] \in Nat /\ s[b] <= ans[b].parts /\ ans[b].parts \in Nat /\ b \in Nat
      BY <1>0, <3>2
    <3>4. /\ u \in Seq(PieceOf) /\ Len(u) = s[b] /\ \A k \in 1..s[b] : u[k] = <<b, k>>
      BY <3>3, FirstOfIs
    <3>5. /\ v \in Seq(PieceOf) /\ Len(v) = ans[b].parts
          /\ \A k \in 1..ans[b].parts : v[k] = <<b, k>>
      BY <3>2, PiecesAre
    <3> HIDE DEF u, v
    <3>6. \A k \in 1..s[b] : k \in 1..ans[b].parts
      BY <3>3
    <3>7. Begins(u, v)
      BY <3>3, <3>4, <3>5, <3>6 DEF Begins
    <3>8. IsPrefix(u, v)
      BY <3>4, <3>5, <3>7, BeginsIsPrefix
    <3> QED BY <3>1, <3>2, <3>8 DEF b
  <2> QED BY <2>1, <2>2
<1>12. ASSUME whole PROVE got = all
  <2>1. Len(got) = Len(all) /\ got = [i \in 1..Len(all) |-> got[i]]
    BY <1>8, <1>10, <1>12 DEF got
  <2>2. ASSUME NEW i \in 1..Len(all) PROVE got[i] = all[i]
    <3> DEFINE b == all[i].id
    <3>1. i \in 1..Len(keys) /\ pos(i) = i
      BY <1>8, <1>12
    <3>2. got[i] = [id |-> b, args |-> FirstOf(b, s[b])]
      BY <1>9, <3>1
    <3>3. b \in 1..Len(ans) /\ all[i].args = Pieces(ans, b) /\ all[i] \in CallOf
      BY <1>1, <1>5
    <3>4. s[b] = ans[b].parts
      BY <1>12, <3>3 DEF whole
    <3>5. FirstOf(b, s[b]) = Pieces(ans, b)
      BY <3>3, <3>4, PiecesAre DEF FirstOf
    <3> QED BY <3>2, <3>3, <3>5 DEF CallOf
  <2>3. all = [i \in 1..Len(all) |-> all[i]]
    BY <1>1
  <2> QED BY <2>1, <2>2, <2>3
<1> QED BY <1>11, <1>12 DEF got, all, keys, whole

(***************************************************************************)
(* What one event does, and what was sent after one more.                  *)
(***************************************************************************)
\* What one event does to a reader that has not stopped.
LEMMA EventDoes ==
  ASSUME NEW a \in {"chat", "messages", "responses"}, NEW acc \in Reader,
         acc.stopped = FALSE, NEW e \in Event
  PROVE  LET n == ScanEvent(a, acc, e)
         IN  /\ e.type = "text" /\ (a = "messages" => e.key \in acc.announced) =>
                  n = WriteText(acc, e)
             /\ e.type = "call" /\ a # "messages" => n = FileDelta(acc, e)
             /\ e.type = "call" /\ a = "messages" /\ e.key \in acc.announced =>
                  n = WriteArgs(acc, e)
             /\ e.type = "start_text" /\ a = "messages" => n = Announce(acc, e)
             /\ e.type = "start_call" /\ a = "messages" =>
                  n = NewCall(Announce(acc, e), e, <<>>)
             /\ e.type \in {"bad", "done", "start_message"} =>
                  /\ n.content = acc.content /\ n.announced = acc.announced
                  /\ n.calls = acc.calls /\ n.order = acc.order
                  /\ e.type # "done" => n.stopped = FALSE
<1> DEFINE n == ScanEvent(a, acc, e)
<1>1. CASE a = "chat"
  <2>1. n = ChatEvent(acc, e)
    BY <1>1 DEF ScanEvent
  <2>2. e.type = "text" => n = WriteText(acc, e)
    BY <2>1 DEF ChatEvent
  <2>3. e.type = "call" => n = FileDelta(acc, e)
    BY <2>1 DEF ChatEvent
  <2>4. e.type = "done" => n = [acc EXCEPT !.stopped = TRUE]
    BY <2>1 DEF ChatEvent
  <2>5. e.type \in {"bad", "start_message"} => n = acc
    BY <2>1 DEF ChatEvent
  <2>6. e.type = "done" => /\ n.content = acc.content /\ n.announced = acc.announced
                           /\ n.calls = acc.calls /\ n.order = acc.order
    BY <2>4 DEF Reader
  <2> HIDE DEF n
  <2> QED BY <1>1, <2>2, <2>3, <2>5, <2>6 DEF n
<1>2. CASE a = "messages"
  <2>1. n = MessagesEvent(acc, e)
    BY <1>2 DEF ScanEvent
  <2>2. e.type = "text" /\ e.key \in acc.announced => n = WriteText(acc, e)
    BY <2>1 DEF MessagesEvent
  <2>3. e.type = "call" /\ e.key \in acc.announced => n = WriteArgs(acc, e)
    BY <2>1 DEF MessagesEvent
  <2>4. e.type = "start_text" => n = Announce(acc, e)
    BY <2>1 DEF MessagesEvent
  <2>5. e.type = "start_call" => n = NewCall(Announce(acc, e), e, <<>>)
    BY <2>1 DEF MessagesEvent
  <2>6. e.type = "bad" => n = acc
    BY <2>1 DEF MessagesEvent
  <2>7. e.type = "done" => n = [acc EXCEPT !.usage = @ \union {"output"}]
    BY <2>1 DEF MessagesEvent
  <2>8. e.type = "start_message" => n = [acc EXCEPT !.usage = @ \union {"input"}]
    BY <2>1 DEF MessagesEvent
  <2>9. e.type \in {"done", "start_message"} =>
          /\ n.content = acc.content /\ n.announced = acc.announced
          /\ n.calls = acc.calls /\ n.order = acc.order /\ n.stopped = FALSE
    BY <2>7, <2>8 DEF Reader
  <2> HIDE DEF n
  <2> QED BY <1>2, <2>2, <2>3, <2>4, <2>5, <2>6, <2>9 DEF n
<1>3. CASE a = "responses"
  <2>1. n = ResponsesEvent(acc, e)
    BY <1>3 DEF ScanEvent
  <2>2. e.type = "text" => n = WriteText(acc, e)
    BY <2>1 DEF ResponsesEvent
  <2>3. e.type = "call" => n = FileDelta(acc, e)
    BY <2>1 DEF ResponsesEvent
  <2>4. e.type = "done" => n = [acc EXCEPT !.stopped = TRUE, !.usage = {"input", "output"}]
    BY <2>1 DEF ResponsesEvent
  <2>5. e.type \in {"bad", "start_message"} => n = acc
    BY <2>1 DEF ResponsesEvent
  <2>6. e.type = "done" => /\ n.content = acc.content /\ n.announced = acc.announced
                           /\ n.calls = acc.calls /\ n.order = acc.order
    BY <2>4 DEF Reader
  <2> HIDE DEF n
  <2> QED BY <1>3, <2>2, <2>3, <2>5, <2>6 DEF n
<1> HIDE DEF n
<1> QED BY <1>1, <1>2, <1>3 DEF n

IsPieceOf(e, b) == e.type \in {"text", "call"} /\ e.piece[1] = b
SentIn(evs, b) == Cardinality({i \in 1..Len(evs) :
                    evs[i].type \in {"text", "call"} /\ evs[i].piece[1] = b})
HasIn(evs, type) == \E i \in 1..Len(evs) : evs[i].type = type
AnnouncedIn(evs, b) ==
  \E i \in 1..Len(evs) :
    evs[i].type \in {"start_text", "start_call"} /\ evs[i].key = b

LEMMA SentGrows ==
  ASSUME NEW evs \in Seq(Event), NEW e \in Event, NEW b
  PROVE  /\ SentIn(evs, b) \in Nat
         /\ SentIn(Append(evs, e), b) = SentIn(evs, b) + IF IsPieceOf(e, b) THEN 1 ELSE 0
<1> DEFINE n == Len(evs)
           t == Append(evs, e)
           P(s) == {i \in 1..Len(s) : IsPieceOf(s[i], b)}
<1>1. n \in Nat /\ Len(t) = n + 1 /\ t[n + 1] = e /\ \A i \in 1..n : t[i] = evs[i]
  OBVIOUS
<1> HIDE DEF t
<1>2. P(t) = P(evs) \cup (IF IsPieceOf(e, b) THEN {n + 1} ELSE {})
  BY <1>1
<1>3. n + 1 \notin P(evs)
  BY <1>1
<1>4. IsFiniteSet(P(evs))
  <2>1. IsFiniteSet(1..n) /\ P(evs) \in SUBSET (1..n)
    BY <1>1, FS_Interval
  <2> QED BY <2>1, FS_Subset
<1>5. SentIn(evs, b) = Cardinality(P(evs)) /\ SentIn(t, b) = Cardinality(P(t))
  BY DEF SentIn, IsPieceOf
<1> HIDE DEF P
<1>6. Cardinality(P(evs)) \in Nat
  BY <1>4, FS_CardinalityType
<1>7. CASE IsPieceOf(e, b)
  <2>1. Cardinality(P(evs) \cup {n + 1}) = Cardinality(P(evs)) + 1
    BY <1>3, <1>4, FS_AddElement
  <2> QED BY <1>2, <1>5, <1>6, <1>7, <2>1 DEF t
<1>8. CASE ~IsPieceOf(e, b)
  <2>1. P(t) = P(evs)
    BY <1>2, <1>8
  <2> QED BY <1>5, <1>6, <1>8, <2>1 DEF t
<1> QED BY <1>7, <1>8

LEMMA HasGrows ==
  ASSUME NEW evs \in Seq(Event), NEW e \in Event
  PROVE  /\ \A type : HasIn(Append(evs, e), type) <=> HasIn(evs, type) \/ e.type = type
         /\ \A b : AnnouncedIn(Append(evs, e), b) <=>
              \/ AnnouncedIn(evs, b)
              \/ e.type \in {"start_text", "start_call"} /\ e.key = b
<1> DEFINE n == Len(evs)
           t == Append(evs, e)
<1>1. n \in Nat /\ Len(t) = n + 1 /\ t[n + 1] = e /\ \A i \in 1..n : t[i] = evs[i]
  OBVIOUS
<1> HIDE DEF t
<1>2. 1..Len(t) = (1..n) \cup {n + 1}
  BY <1>1
<1>3. \A type : HasIn(t, type) <=> HasIn(evs, type) \/ e.type = type
  BY <1>1, <1>2 DEF HasIn
<1>4. \A b : AnnouncedIn(t, b) <=> \/ AnnouncedIn(evs, b)
                                   \/ e.type \in {"start_text", "start_call"} /\ e.key = b
  BY <1>1, <1>2 DEF AnnouncedIn
<1> QED BY <1>3, <1>4 DEF t

-----------------------------------------------------------------------------
SentsIn(ans, evs) == [b \in 1..Len(ans) |-> SentIn(evs, b)]

OpensIn(a, ans, evs) ==
  {b \in 1..Len(ans) : IF a = "messages" THEN AnnouncedIn(evs, b) ELSE SentIn(evs, b) > 0}

\* The inductive invariant: what the reader holds after the events evs.
StreamOK(a, ans, evs) ==
  LET s    == SentsIn(ans, evs)
      open == OpensIn(a, ans, evs)
      acc  == Scan(a, evs)
  IN  /\ Counts(ans, s)
      /\ \A b \in 1..Len(ans) : s[b] > 0 => b \in open
      /\ a # "chat" => InTurn(open)
      /\ HasIn(evs, "done") => /\ \A b \in 1..Len(ans) : s[b] = ans[b].parts
      /\ ~HasIn(evs, "done") => acc.stopped = FALSE
      /\ a = "messages" => acc.announced = open
      /\ Reached(ans, s, acc.content)
      /\ FiledAs(a, ans, s, open, acc.calls, acc.order)

StreamTypes(a, ans, evs) ==
  /\ a \in {"chat", "messages", "responses"} /\ ans \in Seq(BlockOf) /\ evs \in Seq(Event)

LEMMA StreamBegins ==
  ASSUME NEW a, NEW ans, StreamTypes(a, ans, <<>>)
  PROVE  StreamOK(a, ans, <<>>)
<1> DEFINE evs == <<>>
           s == SentsIn(ans, evs)
           open == OpensIn(a, ans, evs)
           acc == Scan(a, evs)
<1>1. a \in {"chat", "messages", "responses"} /\ ans \in Seq(BlockOf)
  BY DEF StreamTypes
<1>2. 1..Len(<<>>) = {}
  OBVIOUS
<1>3. /\ \A b : SentIn(evs, b) = 0 /\ ~AnnouncedIn(evs, b)
      /\ ~HasIn(evs, "done")
  BY <1>2, FS_EmptySet DEF SentIn, AnnouncedIn, HasIn
<1>4. acc = NothingRead
  BY <1>1, ScanNone
<1>5. s = [b \in 1..Len(ans) |-> 0] /\ open = {}
  BY <1>3 DEF SentsIn, OpensIn
<1>6. acc.content = <<>> /\ acc.announced = {} /\ acc.calls = <<>> /\ acc.order = <<>> /\ acc.stopped = FALSE
  BY <1>4 DEF NothingRead
<1>7. \A b \in 1..Len(ans) : ans[b].parts \in Nat
  BY <1>1, PiecesAre
<1> HIDE DEF s, open, acc, evs
<1>8. Counts(ans, s)
  BY <1>5, <1>7 DEF Counts
<1>9. Reached(ans, s, acc.content)
  BY <1>5, <1>6 DEF Reached
<1>10. FiledAs(a, ans, s, open, acc.calls, acc.order)
  <2>1. Len(Upto(ans, Len(ans)).calls) \in Nat
    BY <1>1, Places
  <2>2. Begun(ans, open) = {}
    BY <1>5 DEF Begun
  <2>3. DOMAIN acc.calls = {} /\ Len(acc.order) = 0
    BY <1>6
  <2>4. 1..0 = {} /\ \A n \in Nat : 0 \in 0..n
    OBVIOUS
  <2> QED BY <2>1, <2>2, <2>3, <2>4 DEF FiledAs
<1>11. InTurn(open)
  BY <1>5 DEF InTurn
<1>12. \A b \in 1..Len(ans) : ~ (s[b] > 0)
  BY <1>5
<1> QED BY <1>3, <1>5, <1>6, <1>8, <1>9, <1>10, <1>11, <1>12 DEF StreamOK, s, open, acc, evs

(***************************************************************************)
(* The inductive invariant, kept by every piece of text or call.           *)
(***************************************************************************)
\* A piece of block b may be sent.
MaySend(a, ans, evs, b) ==
  /\ StreamTypes(a, ans, evs) /\ StreamOK(a, ans, evs) /\ ~HasIn(evs, "done")
  /\ b \in 1..Len(ans) /\ SentIn(evs, b) < ans[b].parts
  /\ a = "messages" => AnnouncedIn(evs, b)
  /\ a = "responses" => \A c \in 1..(b - 1) : SentIn(evs, c) > 0

LEMMA PieceSent ==
  ASSUME NEW a, NEW ans, NEW evs, NEW b, MaySend(a, ans, evs, b),
         NEW e \in Event, IsPieceOf(e, b)
  PROVE  LET s    == SentsIn(ans, evs)
             more == Append(evs, e)
             r    == SentsIn(ans, more)
             wide == OpensIn(a, ans, more)
         IN  /\ r = [s EXCEPT ![b] = @ + 1] /\ Counts(ans, r) /\ r[b] = s[b] + 1
             /\ \A c \in 1..Len(ans) : c # b => r[c] = s[c]
             /\ wide = OpensIn(a, ans, evs) \cup {b}
             /\ \A c \in 1..Len(ans) : r[c] > 0 => c \in wide
             /\ a # "chat" => InTurn(wide)
             /\ ~HasIn(more, "done")
<1> DEFINE s    == SentsIn(ans, evs)
           open == OpensIn(a, ans, evs)
           more == Append(evs, e)
           r    == SentsIn(ans, more)
           wide == OpensIn(a, ans, more)
<1>0. /\ a \in {"chat", "messages", "responses"} /\ ans \in Seq(BlockOf) /\ evs \in Seq(Event)
      /\ ~HasIn(evs, "done") /\ b \in 1..Len(ans) /\ SentIn(evs, b) < ans[b].parts
      /\ a = "messages" => AnnouncedIn(evs, b)
      /\ a = "responses" => \A c \in 1..(b - 1) : SentIn(evs, c) > 0
      /\ Counts(ans, s)
      /\ \A c \in 1..Len(ans) : s[c] > 0 => c \in open
  BY DEF MaySend, StreamTypes, StreamOK
<1>01. a # "chat" => InTurn(open)
  BY DEF MaySend, StreamOK
<1>1. \A c \in 1..Len(ans) : SentIn(evs, c) \in Nat
                             /\ SentIn(more, c) = SentIn(evs, c) + IF c = b THEN 1 ELSE 0
  BY <1>0, SentGrows DEF IsPieceOf
<1>2. /\ \A c : AnnouncedIn(more, c) <=> AnnouncedIn(evs, c)
      /\ ~HasIn(more, "done")
  BY <1>0, HasGrows DEF IsPieceOf
<1>3. \A c \in 1..Len(ans) : s[c] = SentIn(evs, c) /\ r[c] = SentIn(more, c)
  BY DEF SentsIn
<1>4. r = [s EXCEPT ![b] = @ + 1]
  BY <1>1 DEF SentsIn
<1>5. /\ b \in wide /\ wide = open \cup {b}
  <2>1. \A c \in 1..Len(ans) : c \in wide <=> c \in open \/ c = b
    BY <1>0, <1>1, <1>2 DEF OpensIn
  <2>2. wide \subseteq 1..Len(ans) /\ open \subseteq 1..Len(ans)
    BY DEF OpensIn
  <2> QED BY <1>0, <2>1, <2>2
<1>6. r[b] = s[b] + 1 /\ \A c \in 1..Len(ans) : c # b => r[c] = s[c]
  BY <1>0, <1>1, <1>3
<1>7. Counts(ans, r)
  <2>1. r \in [1..Len(ans) -> Nat]
    BY <1>1 DEF SentsIn
  <2>2. \A c \in 1..Len(ans) : ans[c].parts \in Nat
    BY <1>0, PiecesAre
  <2> HIDE DEF r, s
  <2>3. ASSUME NEW c \in 1..Len(ans) PROVE r[c] <= ans[c].parts
    <3>1. s[c] \in Nat /\ s[c] <= ans[c].parts
      BY <1>0 DEF Counts
    <3>2. c = b => s[c] < ans[c].parts
      BY <1>0, <1>3
    <3> QED BY <1>6, <2>2, <3>1, <3>2
  <2> QED BY <2>1, <2>3 DEF Counts
<1>8. \A c \in 1..Len(ans) : r[c] > 0 => c \in wide
  BY <1>0, <1>5, <1>6
<1>9. a # "chat" => InTurn(wide)
  <2>1. CASE a = "messages"
    <3>1. b \in open
      BY <1>0, <2>1 DEF OpensIn
    <3>2. wide = open
      BY <1>5, <3>1
    <3> QED BY <1>01, <3>2
  <2>2. CASE a = "responses"
    <3>1. \A c \in 1..(b - 1) : c \in open
      BY <1>0, <2>2 DEF OpensIn
    <3>2. \A c \in Nat : 0 < c /\ c < b => c \in 1..(b - 1)
      BY <1>0
    <3> HIDE DEF open, wide
    <3> QED BY <1>01, <1>5, <2>2, <3>1, <3>2 DEF InTurn
  <2> QED BY <1>0, <2>1, <2>2
<1> HIDE DEF s, open, r, wide, more
<1>10. /\ r = [s EXCEPT ![b] = @ + 1] /\ Counts(ans, r) /\ r[b] = s[b] + 1
       /\ \A c \in 1..Len(ans) : c # b => r[c] = s[c]
       /\ wide = open \cup {b}
       /\ \A c \in 1..Len(ans) : r[c] > 0 => c \in wide
       /\ ~HasIn(more, "done")
  BY <1>2, <1>4, <1>5, <1>6, <1>7, <1>8
<1> QED BY <1>9, <1>10 DEF s, open, r, wide, more

LEMMA TextSent ==
  ASSUME NEW a, NEW ans, NEW evs, NEW b, MaySend(a, ans, evs, b), IsText(ans, b),
         \A c \in 1..(b - 1) : IsText(ans, c) => SentIn(evs, c) = ans[c].parts,
         NEW e \in Event, e.type = "text", e.key = b, e.piece = <<b, SentIn(evs, b) + 1>>
  PROVE  StreamOK(a, ans, Append(evs, e))
<1> DEFINE s    == SentsIn(ans, evs)
           open == OpensIn(a, ans, evs)
           acc  == Scan(a, evs)
           more == Append(evs, e)
           r    == SentsIn(ans, more)
           wide == OpensIn(a, ans, more)
           n    == Scan(a, more)
<1>0. /\ a \in {"chat", "messages", "responses"} /\ ans \in Seq(BlockOf) /\ evs \in Seq(Event)
      /\ b \in 1..Len(ans) /\ SentIn(evs, b) < ans[b].parts /\ ~HasIn(evs, "done")
      /\ a = "messages" => AnnouncedIn(evs, b)
      /\ Counts(ans, s) /\ acc.stopped = FALSE /\ Reached(ans, s, acc.content)
      /\ FiledAs(a, ans, s, open, acc.calls, acc.order)
  BY DEF MaySend, StreamTypes, StreamOK
<1>01. a = "messages" => acc.announced = open
  BY DEF MaySend, StreamOK
<1>1. IsPieceOf(e, b)
  BY DEF IsPieceOf
<1>2. /\ r = [s EXCEPT ![b] = @ + 1] /\ Counts(ans, r)
      /\ \A c \in 1..Len(ans) : c # b => r[c] = s[c]
      /\ wide = open \cup {b}
      /\ \A c \in 1..Len(ans) : r[c] > 0 => c \in wide
      /\ ~HasIn(more, "done")
  BY <1>1, PieceSent
<1>02. a # "chat" => InTurn(wide)
  BY <1>1, PieceSent
<1>3. a = "messages" => b \in open
  BY <1>0 DEF OpensIn
<1>4. acc \in Reader /\ n = ScanEvent(a, acc, e)
  BY <1>0, ScanAppend
<1>5. n = WriteText(acc, e)
  <2>1. a = "messages" => e.key \in acc.announced
    BY <1>01, <1>3
  <2> HIDE DEF n, acc
  <2> QED BY <1>0, <1>4, <2>1, EventDoes
<1>6. \A c \in 1..Len(ans) : s[c] = SentIn(evs, c)
  BY DEF SentsIn
<1> HIDE DEF s, open, acc, more, r, wide, n
<1>7. /\ n.content = Append(acc.content, <<b, s[b] + 1>>)
      /\ n.announced = acc.announced /\ n.stopped = FALSE
      /\ n.order = acc.order /\ n.calls = acc.calls
  BY <1>0, <1>4, <1>5, <1>6, WriteTextIs
<1>8. Reached(ans, r, n.content)
  <2>1. s[b] < ans[b].parts /\ \A c \in 1..(b - 1) : IsText(ans, c) => s[c] = ans[c].parts
    BY <1>0, <1>6
  <2>2. Reached(ans, [s EXCEPT ![b] = @ + 1], Append(acc.content, <<b, s[b] + 1>>))
    BY <1>0, <2>1, ReachedGrows
  <2> QED BY <1>2, <1>7, <2>2
<1>9. FiledAs(a, ans, r, wide, n.calls, n.order)
  <2>1. ans[b].kind # "call"
    BY DEF IsText
  <2>2. b \notin Begun(ans, open) /\ \A c \in Begun(ans, open) : c \in 1..Len(ans)
    BY <2>1 DEF Begun, CallsIn
  <2>3. /\ open \subseteq wide /\ \A c \in wide \ open : ans[c].kind # "call"
        /\ \A c \in Begun(ans, open) : r[c] = s[c]
    BY <1>2, <2>1, <2>2
  <2>4. FiledAs(a, ans, r, wide, acc.calls, acc.order)
    BY <1>0, <2>3, FiledStays
  <2> QED BY <1>7, <2>4
<1>10. a = "messages" => n.announced = wide
  BY <1>01, <1>2, <1>3, <1>7
<1> QED BY <1>02, <1>2, <1>7, <1>8, <1>9, <1>10 DEF StreamOK, s, open, acc, more, r, wide, n

LEMMA CallSent ==
  ASSUME NEW a, NEW ans, NEW evs, NEW b, MaySend(a, ans, evs, b), ans[b].kind = "call",
         NEW e \in Event, e.type = "call", e.key = FiledKey(a, ans, b),
         e.piece = <<b, SentIn(evs, b) + 1>>
  PROVE  StreamOK(a, ans, Append(evs, e))
<1> DEFINE s    == SentsIn(ans, evs)
           open == OpensIn(a, ans, evs)
           acc  == Scan(a, evs)
           more == Append(evs, e)
           r    == SentsIn(ans, more)
           wide == OpensIn(a, ans, more)
           n    == Scan(a, more)
           key  == FiledKey(a, ans, b)
<1>0. /\ a \in {"chat", "messages", "responses"} /\ ans \in Seq(BlockOf) /\ evs \in Seq(Event)
      /\ b \in 1..Len(ans) /\ SentIn(evs, b) < ans[b].parts /\ ~HasIn(evs, "done")
      /\ a = "messages" => AnnouncedIn(evs, b)
      /\ a = "responses" => \A c \in 1..(b - 1) : SentIn(evs, c) > 0
      /\ Counts(ans, s) /\ acc.stopped = FALSE /\ Reached(ans, s, acc.content)
      /\ FiledAs(a, ans, s, open, acc.calls, acc.order)
  BY DEF MaySend, StreamTypes, StreamOK
<1>01. /\ a = "messages" => acc.announced = open
       /\ a # "chat" => InTurn(open)
  BY DEF MaySend, StreamOK
<1>1. IsPieceOf(e, b)
  BY DEF IsPieceOf
<1>2. /\ r = [s EXCEPT ![b] = @ + 1] /\ Counts(ans, r) /\ r[b] = s[b] + 1
      /\ \A c \in 1..Len(ans) : c # b => r[c] = s[c]
      /\ wide = open \cup {b}
      /\ \A c \in 1..Len(ans) : r[c] > 0 => c \in wide
      /\ ~HasIn(more, "done")
  BY <1>1, PieceSent
<1>02. a # "chat" => InTurn(wide)
  BY <1>1, PieceSent
<1>3. a = "messages" => b \in open
  BY <1>0 DEF OpensIn
<1>4. acc \in Reader /\ n = ScanEvent(a, acc, e)
  BY <1>0, ScanAppend
<1>6. \A c \in 1..Len(ans) : s[c] = SentIn(evs, c) /\ s[c] \in Nat
  BY <1>0 DEF SentsIn, Counts
<1>11. a # "messages" => (b \in open <=> s[b] > 0)
  BY <1>0, <1>6 DEF OpensIn
<1>12. a = "responses" => \A c \in 1..(b - 1) : c \in open
  BY <1>0 DEF OpensIn
<1>13. b \in CallsIn(ans, Len(ans)) /\ b \in Nat
  BY <1>0 DEF CallsIn
<1> HIDE DEF s, open, acc, more, r, wide, n, key
<1>14. \A c \in Begun(ans, open) : c \in 1..Len(ans)
  BY DEF Begun, CallsIn
<1>5. b \in open => n = WriteArgs(acc, e) /\ key \in DOMAIN acc.calls
  <2> SUFFICES ASSUME b \in open PROVE n = WriteArgs(acc, e) /\ key \in DOMAIN acc.calls
    OBVIOUS
  <2>1. b \in Begun(ans, open)
    BY <1>13 DEF Begun
  <2>2. key \in DOMAIN acc.calls
    BY <1>0, <2>1 DEF FiledAs, key
  <2>3. CASE a = "messages"
    <3>1. e.key \in acc.announced
      BY <1>01, <2>3 DEF FiledKey
    <3> QED BY <1>0, <1>4, <2>2, <2>3, <3>1, EventDoes
  <2>4. CASE a # "messages"
    <3>1. n = FileDelta(acc, e)
      BY <1>0, <1>4, <2>4, EventDoes
    <3> QED BY <2>2, <3>1 DEF FileDelta, key
  <2> QED BY <2>3, <2>4
<1>7. b \notin open => n = NewCall(acc, e, <<e.piece>>) /\ a # "messages"
  <2> SUFFICES ASSUME b \notin open PROVE n = NewCall(acc, e, <<e.piece>>) /\ a # "messages"
    OBVIOUS
  <2>1. a # "messages"
    BY <1>3
  <2>2. key \notin DOMAIN acc.calls
    <3> SUFFICES ASSUME key \in DOMAIN acc.calls PROVE FALSE
      OBVIOUS
    <3>1. PICK c \in Begun(ans, open) : key = FiledKey(a, ans, c)
      BY <1>0 DEF FiledAs
    <3>2. c \in CallsIn(ans, Len(ans)) /\ c \in open
      BY DEF Begun
    <3>3. b = c
      BY <1>0, <1>13, <3>1, <3>2, FiledKeys DEF key
    <3> QED BY <3>2, <3>3
  <2>3. n = FileDelta(acc, e)
    BY <1>0, <1>4, <2>1, EventDoes
  <2> QED BY <2>1, <2>2, <2>3 DEF FileDelta, key
<1>8. ASSUME b \in open
      PROVE  /\ n.content = acc.content /\ n.announced = acc.announced /\ n.stopped = FALSE
             /\ FiledAs(a, ans, r, wide, n.calls, n.order)
  <2>1. /\ n.content = acc.content /\ n.announced = acc.announced
        /\ n.stopped = FALSE /\ n.order = acc.order
        /\ Writes(acc.calls, n.calls, key, <<b, s[b] + 1>>)
    <3> DEFINE w == WriteArgs(acc, e)
    <3>1. e.key = key /\ e.piece = <<b, s[b] + 1>> /\ key \in DOMAIN acc.calls /\ n = w
      BY <1>0, <1>5, <1>6, <1>8 DEF key
    <3>2. /\ w.content = acc.content /\ w.announced = acc.announced
          /\ w.stopped = acc.stopped /\ w.order = acc.order
          /\ DOMAIN w.calls = DOMAIN acc.calls
          /\ \A k \in DOMAIN acc.calls : k # e.key => w.calls[k] = acc.calls[k]
          /\ e.key \in DOMAIN acc.calls =>
               w.calls[e.key] = [id |-> acc.calls[e.key].id,
                                 args |-> Append(acc.calls[e.key].args, e.piece)]
      BY <1>4, WriteArgsIs
    <3> HIDE DEF w
    <3> QED BY <1>0, <3>1, <3>2 DEF Writes
  <2>2. b \in Begun(ans, open) /\ wide = open
    BY <1>2, <1>8, <1>13 DEF Begun
  <2>3. s[b] \in Nat /\ \A c \in Begun(ans, open) : c # b => r[c] = s[c]
    BY <1>0, <1>2, <1>6, <1>14
  <2> DEFINE calls == acc.calls
             order == acc.order
             now   == n.calls
  <2>4. FiledAs(a, ans, s, open, calls, order)
    BY <1>0
  <2>5. Writes(calls, now, FiledKey(a, ans, b), <<b, s[b] + 1>>) /\ r[b] = s[b] + 1
    BY <1>2, <2>1 DEF key
  <2> HIDE DEF calls, order, now
  <2>6. FiledAs(a, ans, r, open, now, order)
    BY <1>0, <2>2, <2>3, <2>4, <2>5, FiledMore
  <2> QED BY <2>1, <2>2, <2>6 DEF now, order
<1>9. ASSUME b \notin open
      PROVE  /\ n.content = acc.content /\ n.announced = acc.announced /\ n.stopped = FALSE
             /\ FiledAs(a, ans, r, wide, n.calls, n.order)
  <2>0. s[b] = 0
    BY <1>0, <1>6, <1>7, <1>9, <1>11
  <2>1. e.piece = <<b, 1>> /\ <<e.piece>> \in Seq(PieceOf) /\ e.piece[1] = b
    <3>1. SentIn(evs, b) = 0 /\ e.piece \in PieceOf
      BY <1>0, <1>6, <2>0 DEF Event
    <3>2. e.piece = <<b, 1>>
      BY <3>1
    <3> QED BY <3>1, <3>2
  <2>2. FirstOf(b, r[b]) = <<e.piece>>
    <3>1. r[b] = 1
      BY <1>2, <2>0
    <3>2. FirstOf(b, 1) = <<<<b, 1>>>>
      BY DEF FirstOf
    <3> QED BY <2>1, <3>1, <3>2
  <2>3. /\ n.content = acc.content /\ n.announced = acc.announced
        /\ n.stopped = FALSE /\ n.order = Append(acc.order, key)
        /\ Files(acc.calls, n.calls, key, [id |-> b, args |-> FirstOf(b, r[b])])
    <3> DEFINE args == <<e.piece>>
               w == NewCall(acc, e, args)
    <3>1. e.key = key /\ n = w /\ args \in Seq(PieceOf) /\ FirstOf(b, r[b]) = args /\ e.piece[1] = b
      BY <1>0, <1>7, <1>9, <2>1, <2>2 DEF key
    <3> HIDE DEF args
    <3>2. /\ w.content = acc.content /\ w.announced = acc.announced
          /\ w.stopped = acc.stopped /\ w.order = Append(acc.order, e.key)
          /\ DOMAIN w.calls = DOMAIN acc.calls \cup {e.key}
          /\ w.calls[e.key] = [id |-> e.piece[1], args |-> args]
          /\ \A k \in DOMAIN acc.calls : k # e.key => w.calls[k] = acc.calls[k]
      BY <1>4, <3>1, NewCallIs
    <3> HIDE DEF w
    <3> QED BY <1>0, <3>1, <3>2 DEF Files
  <2>4. a # "chat" => InTurn(open) /\ \A c \in 1..(b - 1) : c \in open
    BY <1>0, <1>01, <1>7, <1>9, <1>12
  <2>5. \A c \in Begun(ans, open) : r[c] = s[c]
    <3>1. b \notin Begun(ans, open)
      BY <1>9 DEF Begun
    <3> QED BY <1>2, <1>14, <3>1
  <2> DEFINE calls == acc.calls
             order == acc.order
             now   == n.calls
  <2>6. FiledAs(a, ans, s, open, calls, order) /\ order \in Seq(Nat)
    BY <1>0, <1>4 DEF Reader
  <2>7. Files(calls, now, FiledKey(a, ans, b), [id |-> b, args |-> FirstOf(b, r[b])])
    BY <2>3 DEF key
  <2>8. n.order = Append(order, FiledKey(a, ans, b))
    BY <2>3 DEF key
  <2> HIDE DEF calls, order, now
  <2>9. FiledAs(a, ans, r, open \cup {b}, now, Append(order, FiledKey(a, ans, b)))
    BY <1>0, <1>9, <1>13, <2>4, <2>5, <2>6, <2>7, FiledNew
  <2> QED BY <1>2, <2>3, <2>8, <2>9 DEF now
<1>10. Reached(ans, r, acc.content)
  <2>1. ~IsText(ans, b)
    BY DEF IsText
  <2>2. Reached(ans, [s EXCEPT ![b] = @ + 1], acc.content)
    BY <1>0, <2>1, ReachedStays
  <2> QED BY <1>2, <2>2
<1>15. /\ n.content = acc.content /\ n.announced = acc.announced /\ n.stopped = FALSE
       /\ FiledAs(a, ans, r, wide, n.calls, n.order)
  BY <1>8, <1>9
<1>16. a = "messages" => n.announced = wide
  BY <1>01, <1>2, <1>3, <1>15
<1> QED BY <1>02, <1>2, <1>10, <1>15, <1>16 DEF StreamOK, s, open, acc, more, r, wide, n

(***************************************************************************)
(* The events that are no pieces, and the blocks a Messages stream         *)
(* announces.                                                              *)
(***************************************************************************)
\* What the events that are no pieces leave alone.
LEMMA NoPieceSent ==
  ASSUME NEW a, NEW ans, NEW evs, StreamTypes(a, ans, evs),
         NEW e \in Event, e.type \notin {"text", "call"}
  PROVE  LET more == Append(evs, e)
         IN  /\ SentsIn(ans, more) = SentsIn(ans, evs)
             /\ a # "messages" => OpensIn(a, ans, more) = OpensIn(a, ans, evs)
             /\ e.type \notin {"start_text", "start_call"} =>
                  OpensIn(a, ans, more) = OpensIn(a, ans, evs)
<1> DEFINE more == Append(evs, e)
<1>0. evs \in Seq(Event)
  BY DEF StreamTypes
<1>1. \A b : SentIn(more, b) = SentIn(evs, b)
  <2> TAKE b
  <2>1. ~IsPieceOf(e, b)
    BY DEF IsPieceOf
  <2> QED BY <1>0, <2>1, SentGrows
<1>2. e.type \notin {"start_text", "start_call"} =>
        \A b : AnnouncedIn(more, b) <=> AnnouncedIn(evs, b)
  BY <1>0, HasGrows
<1> HIDE DEF more
<1> QED BY <1>1, <1>2 DEF SentsIn, OpensIn, more

\* A malformed event, and the start of the message.
LEMMA IdleSent ==
  ASSUME NEW a, NEW ans, NEW evs, StreamTypes(a, ans, evs), StreamOK(a, ans, evs),
         ~HasIn(evs, "done"), NEW e \in Event, e.type \in {"bad", "start_message"}
  PROVE  StreamOK(a, ans, Append(evs, e))
<1> DEFINE acc  == Scan(a, evs)
           more == Append(evs, e)
           n    == Scan(a, more)
<1>0. /\ a \in {"chat", "messages", "responses"} /\ evs \in Seq(Event)
      /\ acc.stopped = FALSE
  BY DEF StreamTypes, StreamOK
<1>1. acc \in Reader /\ n = ScanEvent(a, acc, e)
  BY <1>0, ScanAppend
<1>2. /\ SentsIn(ans, more) = SentsIn(ans, evs)
      /\ OpensIn(a, ans, more) = OpensIn(a, ans, evs)
  BY NoPieceSent
<1>3. ~HasIn(more, "done")
  BY <1>0, HasGrows
<1> HIDE DEF n, acc, more
<1>4. /\ n.content = acc.content /\ n.announced = acc.announced
      /\ n.calls = acc.calls /\ n.order = acc.order /\ n.stopped = FALSE
  BY <1>0, <1>1, EventDoes
<1> QED BY <1>2, <1>3, <1>4 DEF StreamOK, n, acc, more

LEMMA DoneSent ==
  ASSUME NEW a, NEW ans, NEW evs, StreamTypes(a, ans, evs), StreamOK(a, ans, evs),
         ~HasIn(evs, "done"), \A b \in 1..Len(ans) : SentIn(evs, b) = ans[b].parts,
         NEW e \in Event, e.type = "done"
  PROVE  StreamOK(a, ans, Append(evs, e))
<1> DEFINE acc  == Scan(a, evs)
           more == Append(evs, e)
           n    == Scan(a, more)
<1>0. /\ a \in {"chat", "messages", "responses"} /\ evs \in Seq(Event)
      /\ acc.stopped = FALSE
  BY DEF StreamTypes, StreamOK
<1>1. acc \in Reader /\ n = ScanEvent(a, acc, e)
  BY <1>0, ScanAppend
<1>2. /\ SentsIn(ans, more) = SentsIn(ans, evs)
      /\ OpensIn(a, ans, more) = OpensIn(a, ans, evs)
  BY NoPieceSent
<1>3. HasIn(more, "done")
  BY <1>0, HasGrows
<1>4. \A b \in 1..Len(ans) : SentsIn(ans, evs)[b] = ans[b].parts
  BY DEF SentsIn
<1> HIDE DEF n, acc, more
<1>5. /\ n.content = acc.content /\ n.announced = acc.announced
      /\ n.calls = acc.calls /\ n.order = acc.order
  BY <1>0, <1>1, EventDoes
<1> QED BY <1>2, <1>3, <1>4, <1>5 DEF StreamOK, n, acc, more

\* A block of a Messages stream is announced.
LEMMA StartSent ==
  ASSUME NEW ans, NEW evs, StreamTypes("messages", ans, evs),
         StreamOK("messages", ans, evs), ~HasIn(evs, "done"),
         NEW b \in 1..Len(ans), ~AnnouncedIn(evs, b),
         \A c \in 1..(b - 1) : AnnouncedIn(evs, c),
         NEW e \in Event, e.key = b, e.piece = <<b, 0>>,
         e.type = IF IsText(ans, b) THEN "start_text" ELSE "start_call"
  PROVE  StreamOK("messages", ans, Append(evs, e))
<1> DEFINE a    == "messages"
           s    == SentsIn(ans, evs)
           open == OpensIn(a, ans, evs)
           acc  == Scan(a, evs)
           more == Append(evs, e)
           r    == SentsIn(ans, more)
           wide == OpensIn(a, ans, more)
           n    == Scan(a, more)
<1>0. /\ ans \in Seq(BlockOf) /\ evs \in Seq(Event)
      /\ Counts(ans, s) /\ acc.stopped = FALSE /\ Reached(ans, s, acc.content)
      /\ FiledAs(a, ans, s, open, acc.calls, acc.order)
      /\ InTurn(open) /\ acc.announced = open
      /\ \A c \in 1..Len(ans) : s[c] > 0 => c \in open
  BY DEF StreamTypes, StreamOK
<1>1. r = s
  BY NoPieceSent
<1>2. wide = open \cup {b} /\ b \notin open
  <2>1. \A c \in 1..Len(ans) : AnnouncedIn(more, c) <=> AnnouncedIn(evs, c) \/ c = b
    BY <1>0, HasGrows
  <2> QED BY <2>1 DEF OpensIn
<1>3. ~HasIn(more, "done")
  BY <1>0, HasGrows
<1>4. acc \in Reader /\ n = ScanEvent(a, acc, e)
  BY <1>0, ScanAppend
<1>5. \A c \in 1..(b - 1) : c \in open
  BY DEF OpensIn
<1>6. open \subseteq 1..Len(ans)
  BY DEF OpensIn
<1>7. s[b] = 0
  BY <1>0, <1>2 DEF Counts
<1>8. ans[b].kind \in {"text", "call"} /\ b \in Nat
  BY <1>0, PiecesAre
<1> HIDE DEF s, open, acc, more, r, wide, n
<1>9. InTurn(wide)
  <2>1. \A c \in Nat : 0 < c /\ c < b => c \in 1..(b - 1)
    BY <1>8
  <2> QED BY <1>0, <1>2, <1>5, <2>1 DEF InTurn
<1>10. ASSUME IsText(ans, b)
       PROVE  /\ n.content = acc.content /\ n.announced = wide /\ n.stopped = FALSE
              /\ FiledAs(a, ans, r, wide, n.calls, n.order)
  <2> DEFINE w == Announce(acc, e)
  <2>1. n = w
    BY <1>0, <1>4, <1>10, EventDoes
  <2>2. /\ w.announced = acc.announced \cup {b}
        /\ w.content = acc.content /\ w.stopped = acc.stopped
        /\ w.order = acc.order /\ w.calls = acc.calls
    BY <1>4, AnnounceIs
  <2> HIDE DEF w
  <2>3. \A c \in wide \ open : ans[c].kind # "call"
    BY <1>2, <1>10 DEF IsText
  <2>4. FiledAs(a, ans, r, wide, acc.calls, acc.order)
    BY <1>0, <1>1, <1>2, <2>3, FiledStays
  <2> QED BY <1>0, <1>2, <2>1, <2>2, <2>4
<1>11. ASSUME ~IsText(ans, b)
       PROVE  /\ n.content = acc.content /\ n.announced = wide /\ n.stopped = FALSE
              /\ FiledAs(a, ans, r, wide, n.calls, n.order)
  <2> DEFINE v == Announce(acc, e)
             args == <<>>
             w == NewCall(v, e, args)
  <2>1. n = w
    BY <1>0, <1>4, <1>11, EventDoes
  <2>2. /\ v \in Reader /\ v.announced = acc.announced \cup {b}
        /\ v.content = acc.content /\ v.stopped = acc.stopped
        /\ v.order = acc.order /\ v.calls = acc.calls
    BY <1>4, AnnounceIs
  <2> HIDE DEF v
  <2>3. args \in Seq(PieceOf) /\ args = <<>>
    OBVIOUS
  <2> HIDE DEF args
  <2>12. e.piece[1] = b /\ e.key = b
    OBVIOUS
  <2>4. /\ w.content = v.content /\ w.announced = v.announced
        /\ w.stopped = v.stopped /\ w.order = Append(v.order, e.key)
        /\ DOMAIN w.calls = DOMAIN v.calls \cup {e.key}
        /\ w.calls[e.key] = [id |-> e.piece[1], args |-> args]
        /\ \A k \in DOMAIN v.calls : k # e.key => w.calls[k] = v.calls[k]
    <3>1. v \in Reader /\ e \in Event /\ args \in Seq(PieceOf)
      BY <2>2, <2>3
    <3> QED BY ONLY <3>1, NewCallIs
  <2> HIDE DEF w
  <2>5. FirstOf(b, r[b]) = <<>>
    BY <1>1, <1>7, <1>8, FirstOfIs
  <2> DEFINE calls == acc.calls
             order == acc.order
             now   == w.calls
  <2>6. Files(calls, now, b, [id |-> b, args |-> FirstOf(b, r[b])])
    BY <2>2, <2>3, <2>4, <2>5, <2>12 DEF Files
  <2>7. FiledAs(a, ans, s, open, calls, order) /\ order \in Seq(Nat)
    BY <1>0, <1>4 DEF Reader
  <2>8. b \in CallsIn(ans, Len(ans))
    BY <1>8, <1>11 DEF CallsIn, IsText
  <2>9. FiledKey(a, ans, b) = b
    BY DEF FiledKey
  <2> HIDE DEF calls, order, now
  <2>10. FiledAs(a, ans, r, open \cup {b}, now, Append(order, FiledKey(a, ans, b)))
    BY <1>0, <1>1, <1>2, <1>5, <2>6, <2>7, <2>8, <2>9, FiledNew
  <2> QED BY <1>0, <1>2, <2>1, <2>2, <2>3, <2>4, <2>9, <2>10 DEF now, order
<1>12. /\ n.content = acc.content /\ n.announced = wide /\ n.stopped = FALSE
       /\ FiledAs(a, ans, r, wide, n.calls, n.order)
  BY <1>10, <1>11
<1>13. Reached(ans, r, n.content) /\ Counts(ans, r)
  BY <1>0, <1>1, <1>12
<1>14. \A c \in 1..Len(ans) : r[c] > 0 => c \in wide
  BY <1>0, <1>1, <1>2
<1> QED BY <1>3, <1>9, <1>12, <1>13, <1>14 DEF StreamOK, s, open, acc, more, r, wide, n

(***************************************************************************)
(* The invariant in the module's own actions, and the theorem.             *)
(***************************************************************************)
StreamInv ==
  kind = "stream" => StreamTypes(api, answer, events) /\ StreamOK(api, answer, events)

\* A piece of a block is sent.
LEMMA PieceStep ==
  ASSUME kind = "stream", StreamInv, NEW b \in 1..Len(answer), SendPiece(b)
  PROVE  /\ events' \in Seq(Event)
         /\ StreamOK(api, answer, events')
<1> DEFINE e == [type |-> answer[b].kind, key |-> Key(b), piece |-> <<b, SentOf(b) + 1>>]
<1>0. /\ api \in {"chat", "messages", "responses"} /\ answer \in Seq(BlockOf)
      /\ events \in Seq(Event)
  BY DEF StreamInv, StreamTypes
<1>1. SentOf(b) = SentIn(events, b) /\ \A c : SentOf(c) = SentIn(events, c)
  BY DEF SentOf, SentIn
<1>2. Announced(b) <=> AnnouncedIn(events, b)
  BY DEF Announced, AnnouncedIn
<1>3. HasSent("done") <=> HasIn(events, "done")
  BY DEF HasSent, HasIn
<1>4. events' = Append(events, e) /\ ~HasIn(events, "done")
  BY <1>3 DEF SendPiece, Emit
<1>5. MaySend(api, answer, events, b)
  BY <1>1, <1>2, <1>4 DEF MaySend, SendPiece, StreamInv
<1>6. b \in Nat /\ answer[b].kind \in {"text", "call"} /\ SentIn(events, b) \in Nat
  <2>1. [type |-> "bad", key |-> 0, piece |-> <<0, 0>>] \in Event
    BY DEF Event, PieceOf
  <2> QED BY <1>0, <2>1, PiecesAre, SentGrows
<1>7. answer[b].kind = "call" => Key(b) = FiledKey(api, answer, b) /\ b \in CallsIn(answer, Len(answer))
  BY DEF Key, FiledKey, Place, CallsIn
<1>8. answer[b].kind = "text" => Key(b) = b
  BY DEF Key
<1>9. e \in Event
  <2>1. Key(b) \in Nat
    <3>1. CASE answer[b].kind = "call"
      BY <1>0, <1>6, <1>7, <3>1, Places DEF FiledKey
    <3> QED BY <1>6, <1>8, <3>1
  <2> QED BY <1>1, <1>6, <2>1 DEF Event, PieceOf
<1>10. /\ e.type = answer[b].kind /\ e.key = Key(b) /\ e.piece = <<b, SentIn(events, b) + 1>>
  BY <1>1
<1> HIDE DEF e
<1>11. CASE answer[b].kind = "text"
  <2>1. \A c \in 1..(b - 1) : IsText(answer, c) => SentIn(events, c) = answer[c].parts
    BY <1>1, <1>11 DEF SendPiece, TextSentBefore, IsText
  <2>2. StreamOK(api, answer, Append(events, e))
    BY <1>5, <1>8, <1>9, <1>10, <1>11, <2>1, TextSent DEF IsText
  <2> QED BY <1>0, <1>4, <1>9, <2>2
<1>12. CASE answer[b].kind = "call"
  <2>1. StreamOK(api, answer, Append(events, e))
    BY <1>5, <1>7, <1>9, <1>10, <1>12, CallSent
  <2> QED BY <1>0, <1>4, <1>9, <2>1
<1> QED BY <1>6, <1>11, <1>12

LEMMA StartStep ==
  ASSUME kind = "stream", StreamInv, NEW b \in 1..Len(answer), SendStart(b)
  PROVE  /\ events' \in Seq(Event)
         /\ StreamOK(api, answer, events')
<1> DEFINE type == IF answer[b].kind = "text" THEN "start_text" ELSE "start_call"
           e == [type |-> type, key |-> b, piece |-> <<b, 0>>]
<1>0. /\ api = "messages" /\ answer \in Seq(BlockOf) /\ events \in Seq(Event)
      /\ StreamTypes("messages", answer, events) /\ StreamOK("messages", answer, events)
  BY DEF StreamInv, StreamTypes, SendStart
<1>1. \A c : Announced(c) <=> AnnouncedIn(events, c)
  BY DEF Announced, AnnouncedIn
<1>2. HasSent("done") <=> HasIn(events, "done")
  BY DEF HasSent, HasIn
<1>3. events' = Append(events, e) /\ ~HasIn(events, "done")
  BY <1>2 DEF SendStart, Emit
<1>4. ~AnnouncedIn(events, b) /\ \A c \in 1..(b - 1) : AnnouncedIn(events, c)
  BY <1>1 DEF SendStart
<1>5. b \in Nat
  OBVIOUS
<1>6. e \in Event
  BY <1>5 DEF Event, PieceOf
<1>7. e.key = b /\ e.piece = <<b, 0>> /\ e.type = IF IsText(answer, b) THEN "start_text" ELSE "start_call"
  BY DEF IsText
<1> HIDE DEF e
<1>8. StreamOK("messages", answer, Append(events, e))
  BY <1>0, <1>3, <1>4, <1>6, <1>7, StartSent
<1> QED BY <1>0, <1>3, <1>6, <1>8

LEMMA OtherStep ==
  ASSUME kind = "stream", StreamInv, SendMessageStart \/ SendDone \/ SendBad
  PROVE  /\ events' \in Seq(Event)
         /\ StreamOK(api, answer, events')
<1> DEFINE first == [type |-> "start_message", key |-> 0, piece |-> <<0, 0>>]
           done  == [type |-> "done", key |-> 0, piece |-> <<0, 0>>]
           bad   == [type |-> "bad", key |-> 0, piece |-> <<0, 0>>]
<1>0. /\ StreamTypes(api, answer, events) /\ StreamOK(api, answer, events)
      /\ events \in Seq(Event)
  BY DEF StreamInv, StreamTypes
<1>1. HasSent("done") <=> HasIn(events, "done")
  BY DEF HasSent, HasIn
<1>2. /\ first \in Event /\ first.type = "start_message"
      /\ done \in Event /\ done.type = "done"
      /\ bad \in Event /\ bad.type = "bad"
  BY DEF Event, PieceOf
<1>6. CASE SendMessageStart
  <2>1. /\ events' = Append(events, first) /\ ~HasIn(events, "done")
    BY <1>1, <1>6 DEF SendMessageStart, Emit
  <2> HIDE DEF first, done, bad
  <2>2. StreamOK(api, answer, Append(events, first))
    BY <1>0, <1>2, <2>1, IdleSent
  <2> QED BY <1>0, <1>2, <2>1, <2>2
<1>7. CASE SendBad
  <2>1. /\ events' = Append(events, bad) /\ ~HasIn(events, "done")
    BY <1>1, <1>7 DEF SendBad, Emit
  <2> HIDE DEF first, done, bad
  <2>2. StreamOK(api, answer, Append(events, bad))
    BY <1>0, <1>2, <2>1, IdleSent
  <2> QED BY <1>0, <1>2, <2>1, <2>2
<1>8. CASE SendDone
  <2>1. /\ events' = Append(events, done) /\ ~HasIn(events, "done")
        /\ \A b \in 1..Len(answer) : SentIn(events, b) = answer[b].parts
    BY <1>1, <1>8 DEF SendDone, Emit, AllSent, SentOf, SentIn
  <2> HIDE DEF first, done, bad
  <2>2. StreamOK(api, answer, Append(events, done))
    BY <1>0, <1>2, <2>1, DoneSent
  <2> QED BY <1>0, <1>2, <2>1, <2>2
<1> QED BY <1>6, <1>7, <1>8

LEMMA StreamInvStep == StreamInv /\ [AlgorithmsNext]_allVars => StreamInv'
<1> SUFFICES ASSUME StreamInv, [AlgorithmsNext]_allVars, kind' = "stream"
             PROVE  StreamTypes(api', answer', events') /\ StreamOK(api', answer', events')
  BY DEF StreamInv
<1>1. CASE UNCHANGED allVars
  BY <1>1 DEF allVars, StreamInv
<1>2. CASE GrowStream
  <2>1. kind = "stream" /\ api' = api /\ answer' = answer
    BY <1>2 DEF GrowStream
  <2>2. events' \in Seq(Event) /\ StreamOK(api, answer, events')
    <3>1. CASE \E b \in 1..Len(answer) : SendPiece(b) \/ SendStart(b)
      BY <2>1, <3>1, PieceStep, StartStep
    <3>2. CASE SendMessageStart \/ SendDone \/ SendBad
      BY <2>1, <3>2, OtherStep
    <3> QED BY <1>2, <3>1, <3>2 DEF GrowStream
  <2> QED BY <2>1, <2>2 DEF StreamInv, StreamTypes
<1>3. kind \in {"history", "robots", "search"} \/ UNCHANGED allVars \/ GrowStream
  BY DEF AlgorithmsNext, GrowHistory, GrowRobots, GrowSearch
<1>4. CASE ~GrowStream /\ ~UNCHANGED allVars
  <2>1. kind' = kind
    BY <1>4 DEF AlgorithmsNext, GrowHistory, GrowRobots, GrowSearch
  <2> QED BY <1>3, <1>4, <2>1
<1> QED BY <1>1, <1>2, <1>4

LEMMA StreamInvInit == AlgorithmsInit => StreamInv
<1> SUFFICES ASSUME AlgorithmsInit, kind = "stream"
             PROVE  StreamTypes(api, answer, events) /\ StreamOK(api, answer, events)
  BY DEF StreamInv
<1>1. events = <<>> /\ api \in {"chat", "messages", "responses"} /\ answer \in Answers
  BY DEF AlgorithmsInit
<1>2. StreamTypes(api, answer, <<>>)
  <2>1. answer \in Seq(BlockOf)
    BY <1>1, AnswersAssumption DEF BlockOf
  <2> QED BY <1>1, <2>1 DEF StreamTypes
<1>3. StreamOK(api, answer, <<>>)
  BY <1>2, StreamBegins
<1> QED BY <1>1, <1>2, <1>3

LEMMA StreamInvAssembles == StreamInv => StreamsAssembled
<1> SUFFICES ASSUME StreamInv, kind = "stream" PROVE StreamsAssembled
  BY DEF StreamsAssembled
<1> DEFINE a    == api
           ans  == answer
           s    == SentsIn(ans, events)
           open == OpensIn(a, ans, events)
           acc  == Scan(a, events)
           keys == CollectKeys(a, acc)
           now  == [i \in 1..Len(keys) |-> acc.calls[keys[i]]]
           all  == Upto(ans, Len(ans)).calls
           text == Upto(ans, Len(ans)).content
<1>1. /\ a \in {"chat", "messages", "responses"} /\ ans \in Seq(BlockOf) /\ events \in Seq(Event)
      /\ Counts(ans, s) /\ Reached(ans, s, acc.content)
      /\ FiledAs(a, ans, s, open, acc.calls, acc.order)
      /\ \A b \in 1..Len(ans) : s[b] > 0 => b \in open
  BY DEF StreamInv, StreamTypes, StreamOK
<1>2. HasIn(events, "done") => \A b \in 1..Len(ans) : s[b] = ans[b].parts
  BY DEF StreamInv, StreamOK
<1>3. HasSent("done") <=> HasIn(events, "done")
  BY DEF HasSent, HasIn
<1>4. acc \in Reader
  <2>1. [type |-> "bad", key |-> 0, piece |-> <<0, 0>>] \in Event
    BY DEF Event, PieceOf
  <2> QED BY <1>1, <2>1, ScanAppend
<1>5. /\ ReadStream(a, events).content = acc.content
      /\ ReadStream(a, events).calls = now
  BY DEF ReadStream
<1>6. ReadFull(a, ans).content = text /\ ReadFull(a, ans).calls = all
  <2>1. Full(ans) = Upto(ans, Len(ans))
    BY <1>1, FullIs
  <2> QED BY <2>1 DEF ReadFull
<1>7. text \in Seq(PieceOf)
  BY <1>1, UptoType
<1>8. (\A b \in 1..Len(ans) : s[b] = ans[b].parts) => CallsIn(ans, Len(ans)) \subseteq open
  <2>1. \A b \in 1..Len(ans) : ans[b].parts \in Nat \ {0}
    BY <1>1, PiecesAre
  <2>2. CallsIn(ans, Len(ans)) \subseteq 1..Len(ans)
    BY DEF CallsIn
  <2> QED BY <1>1, <2>1, <2>2
<1> HIDE DEF s, open, acc
<1>9. /\ Begins(acc.content, text) /\ acc.content \in Seq(PieceOf)
      /\ (\A b \in 1..Len(ans) : s[b] = ans[b].parts) => acc.content = text
  BY <1>1, ReachedBegins
<1>10. /\ \A i \in 1..Len(now) :
             /\ i > 1 => now[i - 1].id < now[i].id
             /\ \E j \in 1..Len(all) : all[j].id = now[i].id /\ IsPrefix(now[i].args, all[j].args)
       /\ (\A b \in 1..Len(ans) : s[b] = ans[b].parts) => now = all
  <2>1. /\ \A i \in 1..Len(now) :
             /\ i > 1 => now[i - 1].id < now[i].id
             /\ \E j \in 1..Len(all) : all[j].id = now[i].id /\ IsPrefix(now[i].args, all[j].args)
        /\ (/\ \A b \in 1..Len(ans) : s[b] = ans[b].parts
            /\ CallsIn(ans, Len(ans)) \subseteq open) => now = all
    <3>1. HandsOn(ans, s, open, Handed(a, acc))
      BY <1>1, <1>4, HandedOn
    <3> QED BY <3>1 DEF HandsOn, Handed
  <2> HIDE DEF now, all
  <2> QED BY <2>1, <1>8
<1> HIDE DEF now, all, text
<1>11. IsPrefix(acc.content, text)
  BY <1>7, <1>9, BeginsIsPrefix
<1> QED BY <1>2, <1>3, <1>5, <1>6, <1>9, <1>10, <1>11 DEF StreamsAssembled

(***************************************************************************)
(* A reader of a stream holds, at any point, a beginning of the answer:    *)
(* the text as far as it came, and the calls in their order with their     *)
(* arguments so far; after the end it holds what readFull makes of the     *)
(* whole answer (readStream and readFull of the three clients in           *)
(* agent/llmclient*.go).                                                   *)
(***************************************************************************)
THEOREM StreamsAreAssembled == AlgorithmsSpec => []StreamsAssembled
<1>1. AlgorithmsInit => StreamInv
  BY StreamInvInit
<1>2. StreamInv /\ [AlgorithmsNext]_allVars => StreamInv'
  BY StreamInvStep
<1>3. StreamInv => StreamsAssembled
  BY StreamInvAssembles
<1> QED BY <1>1, <1>2, <1>3, PTL DEF AlgorithmsSpec

-----------------------------------------------------------------------------
(***************************************************************************)
(* The hybrid search of MemorySearch: what is left out of it scores no     *)
(* more than what it returns.                                              *)
(***************************************************************************)
Memory == [fts : Nat, sim : Int, trust : Nat]

\* What it is to be among the first n of S.
Foremost(T, S, value, n) ==
  /\ T \subseteq S /\ IsFiniteSet(T)
  /\ Cardinality(S) <= n => T = S
  /\ Cardinality(T) = IF Cardinality(S) <= n THEN Cardinality(S) ELSE n
  /\ \A t \in T, s \in S \ T : value[t] >= value[s]

LEMMA Least ==
  ASSUME NEW a \in Nat, NEW b \in Nat
  PROVE  Min({a, b}) = IF b <= a THEN b ELSE a
<1>1. \A x \in {a, b} : (\A y \in {a, b} : x <= y) => x = IF b <= a THEN b ELSE a
  OBVIOUS
<1>2. \E x \in {a, b} : \A y \in {a, b} : x <= y
  OBVIOUS
<1> QED BY <1>1, <1>2 DEF Min

LEMMA TopIs ==
  ASSUME NEW S, IsFiniteSet(S), NEW value, NEW n \in Nat, NEW T \in Top(S, value, n)
  PROVE  Foremost(T, S, value, n)
<1>1. Cardinality(S) \in Nat
  BY FS_CardinalityType
<1>2. Min({n, Cardinality(S)}) = IF Cardinality(S) <= n THEN Cardinality(S) ELSE n
  BY <1>1, Least
<1>3. /\ T \in SUBSET S /\ Cardinality(T) = Min({n, Cardinality(S)})
      /\ \A t \in T, s \in S \ T : value[t] >= value[s]
  BY DEF Top, kSubset
<1>4. IsFiniteSet(T) /\ (Cardinality(S) = Cardinality(T) => S = T)
  BY <1>3, FS_Subset
<1> QED BY <1>1, <1>2, <1>3, <1>4 DEF Foremost

\* The similar messages that are no matches.
Others(c) == Embedded(c) \ Matched(c)

LEMMA SearchTypes ==
  ASSUME NEW c \in Seq(Memory)
  PROVE  /\ IsFiniteSet(Matched(c)) /\ IsFiniteSet(Embedded(c)) /\ IsFiniteSet(Others(c))
         /\ Cardinality(Matched(c)) \in Nat /\ Cardinality(Others(c)) \in Nat
         /\ \A i \in Matched(c) \cup Embedded(c) :
              c[i].fts \in Nat /\ c[i].sim \in Int /\ c[i].trust \in Nat
         /\ Cardinality(Matched(c) \cup Embedded(c)) = Cardinality(Matched(c)) + Cardinality(Others(c))
<1>1. DOMAIN c = 1..Len(c) /\ Len(c) \in Nat
  OBVIOUS
<1>2. IsFiniteSet(DOMAIN c)
  BY <1>1, FS_Interval
<1>3. Matched(c) \in SUBSET DOMAIN c /\ Embedded(c) \in SUBSET DOMAIN c /\ Others(c) \in SUBSET DOMAIN c
  BY DEF Matched, Embedded, Others
<1>4. IsFiniteSet(Matched(c)) /\ IsFiniteSet(Embedded(c)) /\ IsFiniteSet(Others(c))
  BY <1>2, <1>3, FS_Subset
<1>5. Cardinality(Matched(c)) \in Nat /\ Cardinality(Others(c)) \in Nat
  BY <1>4, FS_CardinalityType
<1>6. \A i \in DOMAIN c : c[i].fts \in Nat /\ c[i].sim \in Int /\ c[i].trust \in Nat
  <2> TAKE i \in DOMAIN c
  <2>1. c[i] \in Memory
    BY <1>1
  <2> QED BY <2>1 DEF Memory
<1>7. Matched(c) \cup Embedded(c) = Matched(c) \cup Others(c) /\ Matched(c) \cap Others(c) = {}
  BY DEF Others
<1>8. Cardinality(Matched(c) \cup Others(c)) = Cardinality(Matched(c)) + Cardinality(Others(c))
  <2>1. Cardinality(Matched(c) \cap Others(c)) = 0
    BY <1>7, FS_EmptySet
  <2>2. Cardinality(Matched(c) \cup Others(c)) = Cardinality(Matched(c)) + Cardinality(Others(c))
                                                  - Cardinality(Matched(c) \cap Others(c))
    BY <1>4, FS_Union
  <2> QED BY <1>5, <2>1, <2>2
<1> QED BY <1>3, <1>4, <1>5, <1>6, <1>7, <1>8

\* The score a message is given is its whole score.
Scored(c, V) ==
  [i \in Matched(c) \cup V |-> IF i \in V THEN VectorScore(c[i]) ELSE MatchScore(c[i])]

LEMMA ScoredWhole ==
  ASSUME NEW c \in Seq(Memory), NEW V \in SUBSET Others(c), NEW i \in Matched(c) \cup V
  PROVE  Scored(c, V)[i] = MatchScore(c[i])
<1>1. c[i].fts \in Nat /\ c[i].sim \in Int /\ c[i].trust \in Nat
  BY SearchTypes DEF Others
<1>2. ASSUME i \in V PROVE c[i].fts = 0 /\ c[i].sim # NoSim
  BY <1>1, <1>2 DEF Others, Matched, Embedded
<1>3. CASE i \in V
  BY <1>1, <1>2, <1>3 DEF Scored, MatchScore, VectorScore
<1>4. CASE i \notin V
  BY <1>4 DEF Scored
<1> QED BY <1>3, <1>4

Sims(c) == [i \in DOMAIN c |-> c[i].sim]

LEMMA ScoreType ==
  ASSUME NEW c \in Seq(Memory), NEW i \in Matched(c) \cup Embedded(c)
  PROVE  MatchScore(c[i]) \in Int
<1>1. c[i].fts \in Nat /\ c[i].sim \in Int /\ c[i].trust \in Nat
  BY SearchTypes
<1> DEFINE sim == IF c[i].sim = NoSim THEN 0 ELSE c[i].sim
<1>2. sim \in Int
  BY <1>1
<1>3. MatchScore(c[i]) = 3 * c[i].fts + 5 * sim + 2 * c[i].trust
  BY DEF MatchScore
<1> DEFINE f == c[i].fts
           t == c[i].trust
<1> HIDE DEF sim
<1>4. f \in Int /\ t \in Int /\ MatchScore(c[i]) = 3 * f + 5 * sim + 2 * t
  BY <1>1, <1>3
<1> HIDE DEF f, t
<1>5. 3 * f + 5 * sim + 2 * t \in Int
  BY <1>2, <1>4
<1> QED BY <1>4, <1>5

\* What is returned, once the similar messages V and the best T are chosen.
Returns(c, n, hydrated, V, T, result) ==
  /\ V \subseteq Others(c)
  /\ IF hydrated THEN Foremost(V, Others(c), Sims(c), n) ELSE V = {}
  /\ Foremost(T, Matched(c) \cup V, Scored(c, V), n)
  /\ result = [i \in T |-> Scored(c, V)[i]]

\* A result of the search: the best of the matches and the similar ones.
LEMMA ResultIs ==
  ASSUME NEW c \in Seq(Memory), NEW n \in Nat, NEW hydrated \in BOOLEAN,
         Cardinality(Matched(c)) <= 2 * n,
         NEW result \in HybridSearch(c, n, hydrated)
  PROVE  \E V, T : Returns(c, n, hydrated, V, T, result)
<1> DEFINE M == Matched(c)
           fts == [i \in DOMAIN c |-> c[i].fts]
           sim == [i \in DOMAIN c |-> c[i].sim]
           k == 2 * n
           Merged(F, V) ==
             [i \in F \cup V |-> IF i \in V THEN VectorScore(c[i]) ELSE MatchScore(c[i])]
           Vs(F) == IF hydrated THEN Top(VectorCandidates(c, F), sim, n) ELSE {{}}
           Picks(scored) == {[i \in T |-> scored[i]] : T \in Top(DOMAIN scored, scored, n)}
<1>0. \E F \in Top(M, fts, k) : \E V \in Vs(F) : result \in Picks(Merged(F, V))
  <2>1. HybridSearch(c, n, hydrated)
          = UNION {UNION {Picks(Merged(F, V)) : V \in Vs(F)} : F \in Top(M, fts, k)}
    BY DEF HybridSearch
  <2> HIDE DEF M, fts, k, Merged, Vs, Picks
  <2> QED BY <2>1

<1>11. PICK F \in Top(M, fts, k) : \E V \in Vs(F) : result \in Picks(Merged(F, V))
  BY <1>0
<1>12. PICK V \in Vs(F) : result \in Picks(Merged(F, V))
  BY <1>11
<1>1. PICK T \in Top(DOMAIN Merged(F, V), Merged(F, V), n) :
        result = [i \in T |-> Merged(F, V)[i]]
  BY <1>12
<1>2. IsFiniteSet(M) /\ IsFiniteSet(Others(c)) /\ k \in Nat /\ Cardinality(M) <= k
  <2>1. IsFiniteSet(M) /\ IsFiniteSet(Others(c))
    BY SearchTypes
  <2> QED BY <2>1
<1> HIDE DEF k
<1>3. F = M
  BY <1>2, TopIs DEF Foremost
<1>4. VectorCandidates(c, F) = Others(c)
  BY <1>3 DEF VectorCandidates, Others
<1>5. IF hydrated THEN Foremost(V, Others(c), Sims(c), n) ELSE V = {}
  BY <1>1, <1>2, <1>4, TopIs, FS_EmptySet DEF Sims
<1>6. V \in SUBSET Others(c) /\ IsFiniteSet(V)
  BY <1>5, FS_EmptySet DEF Foremost
<1>7. Merged(F, V) = Scored(c, V)
  BY <1>3 DEF Scored
<1>8. DOMAIN Scored(c, V) = M \cup V /\ IsFiniteSet(M \cup V)
  BY <1>2, <1>6, FS_Union DEF Scored
<1> HIDE DEF Merged
<1>9. T \in Top(M \cup V, Scored(c, V), n) /\ result = [i \in T |-> Scored(c, V)[i]]
  BY <1>1, <1>7, <1>8
<1>10. Foremost(T, M \cup V, Scored(c, V), n)
  BY <1>8, <1>9, TopIs
<1> QED BY <1>5, <1>6, <1>9, <1>10 DEF Returns

\* As many messages are returned as were asked for, or all that are found.
LEMMA FoundAre ==
  ASSUME NEW c \in Seq(Memory), NEW n \in Nat, NEW hydrated \in BOOLEAN,
         NEW V, NEW T, NEW result, Returns(c, n, hydrated, V, T, result),
         NEW found, found = Matched(c) \cup IF hydrated THEN Embedded(c) ELSE {}
  PROVE  Cardinality(T) = Min({n, Cardinality(found)})
<1> DEFINE M == Matched(c)
           O == Others(c)
<1>0. /\ V \in SUBSET Others(c)
      /\ IF hydrated THEN Foremost(V, Others(c), Sims(c), n) ELSE V = {}
      /\ Foremost(T, Matched(c) \cup V, Scored(c, V), n)
  BY DEF Returns
<1>1. /\ IsFiniteSet(M) /\ IsFiniteSet(O) /\ Cardinality(M) \in Nat /\ Cardinality(O) \in Nat
      /\ Cardinality(M \cup Embedded(c)) = Cardinality(M) + Cardinality(O)
  BY SearchTypes
<1>2. IsFiniteSet(V) /\ Cardinality(V) \in Nat
  BY <1>0, <1>1, FS_Subset, FS_CardinalityType
<1>3. Cardinality(M \cup V) = Cardinality(M) + Cardinality(V)
  <2>1. M \cap V = {}
    BY <1>0 DEF Others
  <2>2. Cardinality(M \cap V) = 0
    BY <2>1, FS_EmptySet
  <2>3. Cardinality(M \cup V) = Cardinality(M) + Cardinality(V) - Cardinality(M \cap V)
    BY <1>1, <1>2, FS_Union
  <2> QED BY <1>1, <1>2, <2>2, <2>3
<1>4. Cardinality(T) = IF Cardinality(M \cup V) <= n THEN Cardinality(M \cup V) ELSE n
  BY <1>0 DEF Foremost
<1>5. Cardinality(found) = Cardinality(M) + IF hydrated THEN Cardinality(O) ELSE 0
  <2>1. CASE hydrated
    BY <1>1, <2>1
  <2>2. CASE ~hydrated
    <3>1. found = M
      BY <2>2
    <3> QED BY <1>1, <2>2, <3>1
  <2> QED BY <2>1, <2>2
<1>6. hydrated => Cardinality(V) = IF Cardinality(O) <= n THEN Cardinality(O) ELSE n
  BY <1>0 DEF Foremost
<1>7. ~hydrated => Cardinality(V) = 0
  BY <1>0, FS_EmptySet
<1> HIDE DEF M, O
<1>8. Cardinality(found) \in Nat
  BY <1>1, <1>5
<1>9. Min({n, Cardinality(found)}) = IF Cardinality(found) <= n THEN Cardinality(found) ELSE n
  BY <1>8, Least
<1>10. CASE hydrated
  BY <1>1, <1>2, <1>3, <1>4, <1>5, <1>6, <1>9, <1>10
<1>11. CASE ~hydrated
  BY <1>1, <1>2, <1>3, <1>4, <1>5, <1>7, <1>9, <1>11
<1> QED BY <1>10, <1>11

\* Where trust is equal, no similar message that was left out scores more.
LEMMA OthersScoreLess ==
  ASSUME NEW c \in Seq(Memory), NEW n \in Nat, NEW V \in SUBSET Others(c), NEW T,
         Foremost(V, Others(c), Sims(c), n),
         Foremost(T, Matched(c) \cup V, Scored(c, V), n),
         \A i, j \in Matched(c) \cup Embedded(c) : c[i].trust = c[j].trust,
         NEW i \in T, NEW j \in Others(c) \ V
  PROVE  MatchScore(c[j]) <= MatchScore(c[i])
<1> DEFINE O == Others(c)
           M == Matched(c)
<1>1. /\ IsFiniteSet(M) /\ IsFiniteSet(O) /\ Cardinality(M) \in Nat /\ Cardinality(O) \in Nat
      /\ \A k \in M \cup Embedded(c) :
           c[k].fts \in Nat /\ c[k].sim \in Int /\ c[k].trust \in Nat
  BY SearchTypes
<1>2. /\ V \subseteq O /\ IsFiniteSet(V) /\ T \subseteq M \cup V /\ IsFiniteSet(T)
      /\ O \subseteq Embedded(c) /\ O \cap M = {} /\ O \subseteq DOMAIN c
  BY DEF Foremost, Others, Embedded
<1>3. Cardinality(V) = n /\ \A v \in V : c[v].sim >= c[j].sim
  <2>1. V # O
    BY <1>2
  <2>2. ~(Cardinality(O) <= n)
    BY <2>1 DEF Foremost
  <2>3. \A v \in V : Sims(c)[v] >= Sims(c)[j]
    BY DEF Foremost
  <2>4. \A v \in V : c[v].sim >= c[j].sim
    BY <1>2, <2>3 DEF Sims
  <2> QED BY <2>2, <2>4 DEF Foremost
<1>4. \A v \in V : MatchScore(c[v]) >= MatchScore(c[j])
  <2> TAKE v \in V
  <2>1. v \in O /\ j \in O /\ c[v].sim >= c[j].sim
    BY <1>3
  <2>2. c[v].fts = 0 /\ c[j].fts = 0 /\ c[v].sim # NoSim /\ c[j].sim # NoSim
    <3>1. \A k \in O : c[k].fts \in Nat /\ ~(c[k].fts > 0) /\ c[k].sim # NoSim
      BY <1>1, <1>2 DEF Others, Matched, Embedded
    <3> QED BY <2>1, <3>1
  <2>3. c[v].trust = c[j].trust /\ c[v].trust \in Nat /\ c[v].sim \in Int /\ c[j].sim \in Int
    BY <1>1, <1>2, <2>1
  <2>4. /\ MatchScore(c[v]) = 3 * c[v].fts + 5 * c[v].sim + 2 * c[v].trust
        /\ MatchScore(c[j]) = 3 * c[j].fts + 5 * c[j].sim + 2 * c[j].trust
    BY <2>2 DEF MatchScore
  <2> DEFINE x == c[v].sim
             y == c[j].sim
             t == c[j].trust
  <2>5. x \in Int /\ y \in Int /\ t \in Int /\ x >= y
    BY <2>1, <2>3
  <2>6. MatchScore(c[v]) = 3 * 0 + 5 * x + 2 * t /\ MatchScore(c[j]) = 3 * 0 + 5 * y + 2 * t
    BY <2>2, <2>3, <2>4
  <2> HIDE DEF x, y, t
  <2>7. 3 * 0 + 5 * x + 2 * t >= 3 * 0 + 5 * y + 2 * t
    BY <2>5
  <2> QED BY <2>6, <2>7
<1>5. CASE i \in V
  BY <1>4, <1>5
<1>6. CASE i \notin V
  <2>1. PICK v \in V : v \notin T
    <3>1. SUFFICES ASSUME V \subseteq T PROVE FALSE
      OBVIOUS
    <3>2. V \in SUBSET T /\ V # T
      BY <1>6, <3>1
    <3>3. Cardinality(V) <= Cardinality(T) /\ Cardinality(V) # Cardinality(T)
      BY <1>2, <3>2, FS_Subset
    <3>4. Cardinality(T) \in Nat /\ Cardinality(T) <= n
      <4>1. Cardinality(T) \in Nat
        BY <1>2, FS_CardinalityType
      <4> QED BY <4>1 DEF Foremost
    <3> QED BY <1>3, <3>3, <3>4
  <2>2. Scored(c, V)[i] >= Scored(c, V)[v]
    BY <1>2, <2>1 DEF Foremost
  <2>3. Scored(c, V)[i] = MatchScore(c[i]) /\ Scored(c, V)[v] = MatchScore(c[v])
    BY <1>2, ScoredWhole
  <2>4. \A k \in M \cup Embedded(c) : MatchScore(c[k]) \in Int
    BY ScoreType
  <2>5. i \in M \cup Embedded(c) /\ v \in M \cup Embedded(c) /\ j \in M \cup Embedded(c)
    BY <1>2
  <2> QED BY <1>4, <2>2, <2>3, <2>4, <2>5
<1> QED BY <1>5, <1>6

\* The search of any memory with no more matches than are looked at.
LEMMA SearchFinds ==
  ASSUME NEW c \in Seq(Memory), NEW n \in Nat, NEW hydrated \in BOOLEAN,
         Cardinality(Matched(c)) <= 2 * n
  PROVE  LET found == Matched(c) \cup IF hydrated THEN Embedded(c) ELSE {}
             equal == \A i, j \in found : c[i].trust = c[j].trust
             rivals == IF equal THEN found ELSE Matched(c)
             Score(i) == MatchScore(c[i])
         IN  \A result \in HybridSearch(c, n, hydrated) :
               /\ Cardinality(DOMAIN result) = Min({n, Cardinality(found)})
               /\ \A i \in DOMAIN result :
                    /\ result[i] = Score(i)
                    /\ \A j \in rivals \ DOMAIN result : Score(j) <= Score(i)
<1> DEFINE M == Matched(c)
           found == M \cup (IF hydrated THEN Embedded(c) ELSE {})
           equal == \A i, j \in found : c[i].trust = c[j].trust
           rivals == IF equal THEN found ELSE M
           Score(i) == MatchScore(c[i])
<1> SUFFICES ASSUME NEW result \in HybridSearch(c, n, hydrated)
             PROVE  /\ Cardinality(DOMAIN result) = Min({n, Cardinality(found)})
                    /\ \A i \in DOMAIN result :
                         /\ result[i] = Score(i)
                         /\ \A j \in rivals \ DOMAIN result : Score(j) <= Score(i)
  OBVIOUS
<1>0. PICK V, T : Returns(c, n, hydrated, V, T, result)
  BY ResultIs
<1>1. /\ V \in SUBSET Others(c)
      /\ IF hydrated THEN Foremost(V, Others(c), Sims(c), n) ELSE V = {}
      /\ Foremost(T, M \cup V, Scored(c, V), n)
      /\ result = [i \in T |-> Scored(c, V)[i]]
  BY <1>0 DEF Returns
<1>2. DOMAIN result = T /\ T \subseteq M \cup V
  BY <1>1 DEF Foremost
<1>3. Cardinality(T) = Min({n, Cardinality(found)})
  BY <1>0, FoundAre
<1>4. \A i \in T : result[i] = Scored(c, V)[i] /\ Scored(c, V)[i] = MatchScore(c[i])
  BY <1>1, <1>2, ScoredWhole
<1>5. ASSUME NEW i \in T, NEW j \in rivals \ T PROVE MatchScore(c[j]) <= MatchScore(c[i])
  <2>1. CASE j \in M \cup V
    <3>1. Scored(c, V)[i] >= Scored(c, V)[j]
      BY <1>1, <1>5, <2>1 DEF Foremost
    <3>2. Scored(c, V)[j] = MatchScore(c[j])
      BY <1>1, <2>1, ScoredWhole
    <3>3. \A k \in M \cup Embedded(c) : MatchScore(c[k]) \in Int
      BY ScoreType
    <3>4. i \in M \cup Embedded(c) /\ j \in M \cup Embedded(c)
      BY <1>1, <1>2, <2>1 DEF Others
    <3> QED BY <1>4, <3>1, <3>2, <3>3, <3>4
  <2>2. CASE j \notin M \cup V
    <3>1. hydrated /\ equal /\ j \in Others(c) \ V
      BY <2>2 DEF Others
    <3>2. \A k, m \in M \cup Embedded(c) : c[k].trust = c[m].trust
      BY <3>1
    <3> HIDE DEF M, equal, found, rivals
    <3> QED BY <1>1, <3>1, <3>2, OthersScoreLess DEF M
  <2> QED BY <2>1, <2>2
<1> HIDE DEF found, rivals
<1> QED BY <1>2, <1>3, <1>4, <1>5

SearchTypesOK == corpus \in Seq(Memory)

LEMMA CorpusStep == SearchTypesOK /\ [AlgorithmsNext]_allVars => SearchTypesOK'
<1> SUFFICES ASSUME SearchTypesOK, [AlgorithmsNext]_allVars PROVE SearchTypesOK'
  OBVIOUS
<1>1. CASE GrowSearch
  <2>1. PICK m \in Memories : corpus' = Append(corpus, m)
    BY <1>1 DEF GrowSearch
  <2>2. m \in Memory
    BY SearchAssumption DEF Memory
  <2> QED BY <2>1, <2>2 DEF SearchTypesOK
<1>2. CASE corpus' = corpus
  BY <1>2 DEF SearchTypesOK
<1> QED BY <1>1, <1>2 DEF AlgorithmsNext, allVars, GrowHistory, GrowStream, GrowRobots, historyVars

(***************************************************************************)
(* A hybrid search returns the best messages with their whole scores, for  *)
(* every memory, limit and scores, as long as the matches are no more than *)
(* are looked at; similar messages that are no matches only where trust is *)
(* equal (memory/search.go).                                               *)
(***************************************************************************)
THEOREM SearchesFindBest == AlgorithmsSpec => []SearchBest
<1>1. AlgorithmsInit => SearchTypesOK
  BY DEF AlgorithmsInit, SearchTypesOK
<1>2. SearchTypesOK => SearchBest
  BY SearchAssumption, SearchFinds DEF SearchTypesOK, SearchBest
<1> QED BY <1>1, <1>2, CorpusStep, PTL DEF AlgorithmsSpec

-----------------------------------------------------------------------------
(***************************************************************************)
(* robots.txt: what the code folds over is folded step by step. A          *)
(* pattern's characters are split at its wildcards; the parts are matched  *)
(* one by one; the reference goes on from character to character.          *)
(***************************************************************************)
\* A pattern's characters that were split so far.
Parting(C) == [done : Seq(Seq(C)), last : Seq(C)]
NoParts == [done |-> <<>>, last |-> <<>>]
SplitStepOn(C) == [pair \in Parting(C) \X C |-> SplitStep(pair[1], pair[2])]

LEMMA NoPartsType == ASSUME NEW C PROVE NoParts \in Parting(C)
BY DEF NoParts, Parting

\* A character more keeps the split in its type; as a function, it is a step.
LEMMA SplitStepType ==
  ASSUME NEW C, NEW acc \in Parting(C), NEW x \in C
  PROVE  SplitStep(acc, x) \in Parting(C)
<1>1. acc.done \in Seq(Seq(C)) /\ acc.last \in Seq(C) /\ <<>> \in Seq(C)
  BY DEF Parting
<1>2. Append(acc.done, acc.last) \in Seq(Seq(C)) /\ Append(acc.last, x) \in Seq(C)
  BY <1>1
<1> QED BY <1>1, <1>2 DEF SplitStep, Parting

LEMMA SplitStepIs ==
  ASSUME NEW C, NEW acc \in Parting(C), NEW x \in C
  PROVE  SplitStepOn(C)[<<acc, x>>] = SplitStep(acc, x) /\ SplitStepOn(C)[<<acc, x>>] \in Parting(C)
BY SplitStepType DEF SplitStepOn

LEMMA SplitClosed ==
  ASSUME NEW C, NEW s \in Seq(C)
  PROVE  FoldStays(Parting(C), SplitStepOn(C), NoParts, s)
<1>1. \A acc \in Parting(C) : \A n \in 1..Len(s) : SplitStepOn(C)[<<acc, s[n]>>] \in Parting(C)
  <2> TAKE acc \in Parting(C)
  <2> TAKE n \in 1..Len(s)
  <2>1. s[n] \in C
    OBVIOUS
  <2> QED BY <2>1, SplitStepIs
<1> QED BY <1>1, NoPartsType DEF FoldStays

\* Splitting is the fold of these steps.
LEMMA CharsSplitIs ==
  ASSUME NEW C, NEW s \in Seq(C)
  PROVE  SplitChars(s) = Folded(Parting(C), SplitStepOn(C), NoParts, s)
<1> DEFINE E(iter) ==
             iter = [t \in SUBSET DOMAIN s |->
                       IF t = {} THEN NoParts
                       ELSE SplitStep(iter[t \ {Max(t)}], s[Max(t)])]
           c == CHOOSE iter : E(iter)
<1>1. DOMAIN s = 1..Len(s) /\ Len(s) \in Nat
  OBVIOUS
<1>2. SplitChars(s) = c[DOMAIN s]
  BY DEF SplitChars, NoParts, FoldLeft, MapThenFoldSet
<1>3. \E iter : E(iter)
  <2>1. PICK h \in [SUBSET (1..Len(s)) -> Parting(C)] : SetFold(h, SplitStepOn(C), NoParts, s)
    BY SplitClosed, SetFoldExists
  <2>2. ASSUME NEW t \in SUBSET DOMAIN s, t # {}
        PROVE  h[t] = SplitStep(h[t \ {Max(t)}], s[Max(t)])
    <3>1. Max(t) \in 1..Len(s)
      BY <1>1, <2>2, MaxIn
    <3>2. s[Max(t)] \in C /\ h[t \ {Max(t)}] \in Parting(C)
      BY <1>1, <3>1
    <3>3. h[t] = SplitStepOn(C)[<<h[t \ {Max(t)}], s[Max(t)]>>]
      BY <1>1, <2>1, <2>2 DEF SetFold
    <3> DEFINE u == h[t \ {Max(t)}]
               v == s[Max(t)]
    <3>4. u \in Parting(C) /\ v \in C
      BY <3>2
    <3>5. h[t] = SplitStepOn(C)[<<u, v>>]
      BY <3>3
    <3> HIDE DEF u, v
    <3>6. SplitStepOn(C)[<<u, v>>] = SplitStep(u, v)
      BY <3>4, SplitStepIs
    <3> QED BY <3>5, <3>6 DEF u, v
  <2>3. h[{}] = NoParts
    BY <2>1 DEF SetFold
  <2>4. E(h)
    BY <1>1, <2>2, <2>3
  <2> QED BY <2>4
<1>4. E(c)
  BY <1>3
<1> HIDE DEF c
<1>5. c[{}] = NoParts
  BY <1>4
<1>6. ASSUME NEW n \in 1..Len(s), c[1..(n - 1)] \in Parting(C)
      PROVE  c[1..n] = SplitStepOn(C)[<<c[1..(n - 1)], s[n]>>]
  <2>0. n \in Nat /\ n # 0
    BY <1>1
  <2>1. Max(1..n) = n /\ (1..n) \ {n} = 1..(n - 1) /\ 1..n # {}
    BY <2>0, MaxOfFirst
  <2>2. 1..n \in SUBSET DOMAIN s
    BY <1>1
  <2>3. c[1..n] = SplitStep(c[(1..n) \ {Max(1..n)}], s[Max(1..n)])
    BY <1>4, <2>1, <2>2, Zenon
  <2>4. c[1..n] = SplitStep(c[1..(n - 1)], s[n])
    BY <2>1, <2>3
  <2>5. s[n] \in C
    OBVIOUS
  <2> QED BY <1>6, <2>4, <2>5, SplitStepIs
<1> HIDE DEF E
<1>7. c[1..Len(s)] = Folded(Parting(C), SplitStepOn(C), NoParts, s)
  <2>1. SetSteps(c, Parting(C), SplitStepOn(C), NoParts, s)
    BY <1>5, <1>6 DEF SetSteps
  <2> QED BY <2>1, SplitClosed, SetFoldIs
<1> QED BY <1>1, <1>2, <1>7

\* What is split of nothing, and of a character more.
LEMMA SplitNone == SplitChars(<<>>) = NoParts
<1> DEFINE C == {}
<1>1. <<>> \in Seq(C)
  OBVIOUS
<1>2. Folded(Parting(C), SplitStepOn(C), NoParts, <<>>) = NoParts
  BY NoPartsType, FoldedNone
<1> HIDE DEF C
<1> QED BY <1>1, <1>2, CharsSplitIs

LEMMA SplitAppend ==
  ASSUME NEW C, NEW s \in Seq(C), NEW x \in C
  PROVE  /\ SplitChars(s) \in Parting(C)
         /\ SplitChars(Append(s, x)) = SplitStep(SplitChars(s), x)
<1> DEFINE t == Append(s, x)
           f == SplitStepOn(C)
<1>1. t \in Seq(C) /\ IsAppend(t, s, x)
  BY DEF IsAppend
<1> HIDE DEF t
<1>2. FoldStays(Parting(C), f, NoParts, t) /\ FoldStays(Parting(C), f, NoParts, s)
  BY <1>1, SplitClosed
<1>3. /\ SplitChars(s) = Folded(Parting(C), f, NoParts, s)
      /\ SplitChars(t) = Folded(Parting(C), f, NoParts, t)
  BY <1>1, CharsSplitIs
<1> HIDE DEF f
<1>4. Folded(Parting(C), f, NoParts, s) \in Parting(C)
  BY <1>2, FoldedType
<1>5. FoldGrows(Parting(C), f, NoParts, s, x, t)
  BY <1>1, <1>2, FoldedAppend, Zenon
<1>6. SplitChars(s) \in Parting(C) /\ SplitChars(t) = f[<<SplitChars(s), x>>]
  BY <1>3, <1>4, <1>5 DEF FoldGrows
<1> QED BY <1>6, SplitStepIs DEF t, f

\* How far one may have come in the path.
Spots(path) == SUBSET (1..(Len(path) + 1))
FurtherOn(path, C) ==
  [pair \in Spots(path) \X C |-> Further(path, pair[1], pair[2])]

\* A step of the reference stays within the path.
LEMMA EndsStepType ==
  ASSUME NEW P, NEW path \in Seq(P), NEW C,
         NEW acc \in Spots(path), NEW x \in C
  PROVE  Further(path, acc, x) \in Spots(path)
<1>1. Len(path) \in Nat
  OBVIOUS
<1> QED BY <1>1 DEF Further, Spots

LEMMA StartType ==
  ASSUME NEW P, NEW path \in Seq(P)
  PROVE  {1} \in Spots(path)
<1>1. Len(path) \in Nat
  OBVIOUS
<1> QED BY <1>1 DEF Spots

LEMMA EndsStepIs ==
  ASSUME NEW P, NEW path \in Seq(P), NEW C, NEW acc \in Spots(path), NEW x \in C
  PROVE  FurtherOn(path, C)[<<acc, x>>] = Further(path, acc, x) /\ FurtherOn(path, C)[<<acc, x>>] \in Spots(path)
BY EndsStepType DEF FurtherOn

LEMMA EndsClosed ==
  ASSUME NEW P, NEW path \in Seq(P), NEW C, NEW s \in Seq(C)
  PROVE  FoldStays(Spots(path), FurtherOn(path, C), {1}, s)
<1>1. \A acc \in Spots(path) : \A n \in 1..Len(s) : FurtherOn(path, C)[<<acc, s[n]>>] \in Spots(path)
  <2> TAKE acc \in Spots(path)
  <2> TAKE n \in 1..Len(s)
  <2>1. s[n] \in C
    OBVIOUS
  <2> QED BY <2>1, EndsStepIs
<1> QED BY <1>1, StartType DEF FoldStays

\* The reference's ends are the fold of these steps.
LEMMA EndsIs ==
  ASSUME NEW P, NEW path \in Seq(P), NEW C, NEW s \in Seq(C)
  PROVE  EndsOf(path, s) = Folded(Spots(path), FurtherOn(path, C), {1}, s)
<1> DEFINE E(iter) ==
             iter = [t \in SUBSET DOMAIN s |->
                       IF t = {} THEN {1}
                       ELSE Further(path, iter[t \ {Max(t)}], s[Max(t)])]
           c == CHOOSE iter : E(iter)
<1>1. DOMAIN s = 1..Len(s) /\ Len(s) \in Nat
  OBVIOUS
<1>2. EndsOf(path, s) = c[DOMAIN s]
  BY DEF EndsOf, FoldLeft, MapThenFoldSet
<1>3. \E iter : E(iter)
  <2>1. PICK h \in [SUBSET (1..Len(s)) -> Spots(path)] : SetFold(h, FurtherOn(path, C), {1}, s)
    BY EndsClosed, SetFoldExists
  <2>2. ASSUME NEW t \in SUBSET DOMAIN s, t # {}
        PROVE  h[t] = Further(path, h[t \ {Max(t)}], s[Max(t)])
    <3>1. Max(t) \in 1..Len(s)
      BY <1>1, <2>2, MaxIn
    <3>2. s[Max(t)] \in C /\ h[t \ {Max(t)}] \in Spots(path)
      BY <1>1, <3>1
    <3>3. h[t] = FurtherOn(path, C)[<<h[t \ {Max(t)}], s[Max(t)]>>]
      BY <1>1, <2>1, <2>2 DEF SetFold
    <3> DEFINE u == h[t \ {Max(t)}]
               v == s[Max(t)]
    <3>4. u \in Spots(path) /\ v \in C
      BY <3>2
    <3>5. h[t] = FurtherOn(path, C)[<<u, v>>]
      BY <3>3
    <3> HIDE DEF u, v
    <3>6. FurtherOn(path, C)[<<u, v>>] = Further(path, u, v)
      BY <3>4, EndsStepIs
    <3> QED BY <3>5, <3>6 DEF u, v
  <2>3. h[{}] = {1}
    BY <2>1 DEF SetFold
  <2>4. E(h)
    BY <1>1, <2>2, <2>3
  <2> QED BY <2>4
<1>4. E(c)
  BY <1>3
<1> HIDE DEF c
<1>5. c[{}] = {1}
  BY <1>4
<1>6. ASSUME NEW n \in 1..Len(s), c[1..(n - 1)] \in Spots(path)
      PROVE  c[1..n] = FurtherOn(path, C)[<<c[1..(n - 1)], s[n]>>]
  <2>0. n \in Nat /\ n # 0
    BY <1>1
  <2>1. Max(1..n) = n /\ (1..n) \ {n} = 1..(n - 1) /\ 1..n # {}
    BY <2>0, MaxOfFirst
  <2>2. 1..n \in SUBSET DOMAIN s
    BY <1>1
  <2>3. c[1..n] = Further(path, c[(1..n) \ {Max(1..n)}], s[Max(1..n)])
    BY <1>4, <2>1, <2>2, Zenon
  <2>4. c[1..n] = Further(path, c[1..(n - 1)], s[n])
    BY <2>1, <2>3
  <2>5. s[n] \in C
    OBVIOUS
  <2> QED BY <1>6, <2>4, <2>5, EndsStepIs
<1> HIDE DEF E
<1>7. c[1..Len(s)] = Folded(Spots(path), FurtherOn(path, C), {1}, s)
  <2>1. SetSteps(c, Spots(path), FurtherOn(path, C), {1}, s)
    BY <1>5, <1>6 DEF SetSteps
  <2> QED BY <2>1, EndsClosed, SetFoldIs
<1> QED BY <1>1, <1>2, <1>7

\* Where the reference may be after nothing, and after a character more.
LEMMA EndsNone ==
  ASSUME NEW P, NEW path \in Seq(P), NEW C
  PROVE  EndsOf(path, <<>>) = {1}
<1>1. <<>> \in Seq(C)
  OBVIOUS
<1>2. Folded(Spots(path), FurtherOn(path, C), {1}, <<>>) = {1}
  BY StartType, FoldedNone
<1> QED BY <1>1, <1>2, EndsIs

LEMMA EndsAppend ==
  ASSUME NEW P, NEW path \in Seq(P), NEW C, NEW s \in Seq(C), NEW x \in C
  PROVE  /\ EndsOf(path, s) \in Spots(path)
         /\ EndsOf(path, Append(s, x)) = Further(path, EndsOf(path, s), x)
<1> DEFINE t == Append(s, x)
           f == FurtherOn(path, C)
<1>1. t \in Seq(C) /\ IsAppend(t, s, x)
  BY DEF IsAppend
<1> HIDE DEF t
<1>2. FoldStays(Spots(path), f, {1}, t) /\ FoldStays(Spots(path), f, {1}, s)
  BY <1>1, EndsClosed
<1>3. /\ EndsOf(path, s) = Folded(Spots(path), f, {1}, s)
      /\ EndsOf(path, t) = Folded(Spots(path), f, {1}, t)
  BY <1>1, EndsIs
<1> HIDE DEF f
<1>4. Folded(Spots(path), f, {1}, s) \in Spots(path)
  BY <1>2, FoldedType
<1>5. FoldGrows(Spots(path), f, {1}, s, x, t)
  BY <1>1, <1>2, FoldedAppend, Zenon
<1>6. EndsOf(path, s) \in Spots(path) /\ EndsOf(path, t) = f[<<EndsOf(path, s), x>>]
  BY <1>3, <1>4, <1>5 DEF FoldGrows
<1> QED BY <1>6, EndsStepIs DEF t, f

\* Where the parts of a pattern take one in the path.
Matching == [ok : BOOLEAN, first : BOOLEAN, at : Nat]
StartMatch == [ok |-> TRUE, first |-> TRUE, at |-> 1]
MatchOn(path, C) == [pair \in Matching \X Seq(C) |-> MatchPart(path, pair[1], pair[2])]

\* A part that has a place has a first one.
LEMMA PlacesAre ==
  ASSUME NEW P, NEW path \in Seq(P), NEW C, NEW acc \in Matching, NEW part \in Seq(C)
  PROVE  /\ PlacesOf(path, acc, part) \in SUBSET Nat
         /\ PlacesOf(path, acc, part) # {} =>
              /\ Min(PlacesOf(path, acc, part)) \in PlacesOf(path, acc, part)
              /\ \A i \in PlacesOf(path, acc, part) : Min(PlacesOf(path, acc, part)) <= i
<1> DEFINE T == PlacesOf(path, acc, part)
<1>1. T \in SUBSET Nat
  <2>1. acc.at \in Nat /\ Len(path) \in Nat /\ Len(part) \in Nat
    BY DEF Matching
  <2> QED BY <2>1 DEF PlacesOf
<1> HIDE DEF T
<1>2. T # {} => \E i \in T : \A j \in T : i <= j
  BY <1>1, LeastNumber
<1>3. T # {} => Min(T) \in T /\ \A j \in T : Min(T) <= j
  BY <1>2 DEF Min
<1> QED BY <1>1, <1>3 DEF T

\* Matching a part keeps the type; as a function, it is a step.
LEMMA MatchStepType ==
  ASSUME NEW P, NEW path \in Seq(P), NEW C, NEW acc \in Matching, NEW x \in Seq(C)
  PROVE  MatchPart(path, acc, x) \in Matching
<1> DEFINE T == PlacesOf(path, acc, x)
           least == Min(T)
<1>1. T # {} => least \in Nat
  BY PlacesAre
<1>2. Len(x) \in Nat
  OBVIOUS
<1> HIDE DEF T, least
<1>3. CASE ~acc.ok \/ T = {}
  BY <1>3 DEF MatchPart, Matching, T
<1>4. CASE acc.ok /\ T # {}
  <2>1. MatchPart(path, acc, x) = [ok |-> TRUE, first |-> FALSE, at |-> least + Len(x)]
    BY <1>4 DEF MatchPart, T, least
  <2> QED BY <1>1, <1>2, <1>4, <2>1 DEF Matching
<1> QED BY <1>3, <1>4

LEMMA StartMatchType == StartMatch \in Matching
BY DEF StartMatch, Matching

LEMMA MatchStepIs ==
  ASSUME NEW P, NEW path \in Seq(P), NEW C, NEW acc \in Matching, NEW x \in Seq(C)
  PROVE  MatchOn(path, C)[<<acc, x>>] = MatchPart(path, acc, x) /\ MatchOn(path, C)[<<acc, x>>] \in Matching
BY MatchStepType DEF MatchOn

LEMMA MatchClosed ==
  ASSUME NEW P, NEW path \in Seq(P), NEW C, NEW s \in Seq(Seq(C))
  PROVE  FoldStays(Matching, MatchOn(path, C), StartMatch, s)
<1>1. \A acc \in Matching : \A n \in 1..Len(s) : MatchOn(path, C)[<<acc, s[n]>>] \in Matching
  <2> TAKE acc \in Matching
  <2> TAKE n \in 1..Len(s)
  <2>1. s[n] \in Seq(C)
    OBVIOUS
  <2> QED BY <2>1, MatchStepIs
<1> QED BY <1>1, StartMatchType DEF FoldStays

\* Matching the parts is the fold of these steps.
LEMMA MatchIs ==
  ASSUME NEW P, NEW path \in Seq(P), NEW C, NEW s \in Seq(Seq(C))
  PROVE  MatchParts(path, s) = Folded(Matching, MatchOn(path, C), StartMatch, s)
<1> DEFINE E(iter) ==
             iter = [t \in SUBSET DOMAIN s |->
                       IF t = {} THEN StartMatch
                       ELSE MatchPart(path, iter[t \ {Max(t)}], s[Max(t)])]
           c == CHOOSE iter : E(iter)
<1>1. DOMAIN s = 1..Len(s) /\ Len(s) \in Nat
  OBVIOUS
<1>2. MatchParts(path, s) = c[DOMAIN s]
  BY DEF MatchParts, StartMatch, FoldLeft, MapThenFoldSet
<1>3. \E iter : E(iter)
  <2>1. PICK h \in [SUBSET (1..Len(s)) -> Matching] : SetFold(h, MatchOn(path, C), StartMatch, s)
    BY MatchClosed, SetFoldExists
  <2>2. ASSUME NEW t \in SUBSET DOMAIN s, t # {}
        PROVE  h[t] = MatchPart(path, h[t \ {Max(t)}], s[Max(t)])
    <3>1. Max(t) \in 1..Len(s)
      BY <1>1, <2>2, MaxIn
    <3>2. s[Max(t)] \in Seq(C) /\ h[t \ {Max(t)}] \in Matching
      BY <1>1, <3>1
    <3>3. h[t] = MatchOn(path, C)[<<h[t \ {Max(t)}], s[Max(t)]>>]
      BY <1>1, <2>1, <2>2 DEF SetFold
    <3> DEFINE u == h[t \ {Max(t)}]
               v == s[Max(t)]
    <3>4. u \in Matching /\ v \in Seq(C)
      BY <3>2
    <3>5. h[t] = MatchOn(path, C)[<<u, v>>]
      BY <3>3
    <3> HIDE DEF u, v
    <3>6. MatchOn(path, C)[<<u, v>>] = MatchPart(path, u, v)
      BY <3>4, MatchStepIs
    <3> QED BY <3>5, <3>6 DEF u, v
  <2>3. h[{}] = StartMatch
    BY <2>1 DEF SetFold
  <2>4. E(h)
    BY <1>1, <2>2, <2>3
  <2> QED BY <2>4
<1>4. E(c)
  BY <1>3
<1> HIDE DEF c
<1>5. c[{}] = StartMatch
  BY <1>4
<1>6. ASSUME NEW n \in 1..Len(s), c[1..(n - 1)] \in Matching
      PROVE  c[1..n] = MatchOn(path, C)[<<c[1..(n - 1)], s[n]>>]
  <2>0. n \in Nat /\ n # 0
    BY <1>1
  <2>1. Max(1..n) = n /\ (1..n) \ {n} = 1..(n - 1) /\ 1..n # {}
    BY <2>0, MaxOfFirst
  <2>2. 1..n \in SUBSET DOMAIN s
    BY <1>1
  <2>3. c[1..n] = MatchPart(path, c[(1..n) \ {Max(1..n)}], s[Max(1..n)])
    BY <1>4, <2>1, <2>2, Zenon
  <2>4. c[1..n] = MatchPart(path, c[1..(n - 1)], s[n])
    BY <2>1, <2>3
  <2>5. s[n] \in Seq(C)
    OBVIOUS
  <2> QED BY <1>6, <2>4, <2>5, MatchStepIs
<1> HIDE DEF E
<1>7. c[1..Len(s)] = Folded(Matching, MatchOn(path, C), StartMatch, s)
  <2>1. SetSteps(c, Matching, MatchOn(path, C), StartMatch, s)
    BY <1>5, <1>6 DEF SetSteps
  <2> QED BY <2>1, MatchClosed, SetFoldIs
<1> QED BY <1>1, <1>2, <1>7

\* What is matched after no part, and after one more.
LEMMA MatchNone ==
  ASSUME NEW P, NEW path \in Seq(P), NEW C
  PROVE  MatchParts(path, <<>>) = StartMatch
<1>1. <<>> \in Seq(Seq(C))
  OBVIOUS
<1>2. Folded(Matching, MatchOn(path, C), StartMatch, <<>>) = StartMatch
  BY StartMatchType, FoldedNone
<1> QED BY <1>1, <1>2, MatchIs

LEMMA MatchAppend ==
  ASSUME NEW P, NEW path \in Seq(P), NEW C, NEW s \in Seq(Seq(C)), NEW x \in Seq(C)
  PROVE  /\ MatchParts(path, s) \in Matching
         /\ MatchParts(path, Append(s, x)) = MatchPart(path, MatchParts(path, s), x)
<1> DEFINE t == Append(s, x)
           f == MatchOn(path, C)
<1>1. t \in Seq(Seq(C)) /\ IsAppend(t, s, x)
  BY DEF IsAppend
<1> HIDE DEF t
<1>2. FoldStays(Matching, f, StartMatch, t) /\ FoldStays(Matching, f, StartMatch, s)
  BY <1>1, MatchClosed
<1>3. /\ MatchParts(path, s) = Folded(Matching, f, StartMatch, s)
      /\ MatchParts(path, t) = Folded(Matching, f, StartMatch, t)
  BY <1>1, MatchIs
<1> HIDE DEF f
<1>4. Folded(Matching, f, StartMatch, s) \in Matching
  BY <1>2, FoldedType
<1>5. FoldGrows(Matching, f, StartMatch, s, x, t)
  BY <1>1, <1>2, FoldedAppend, Zenon
<1>6. MatchParts(path, s) \in Matching /\ MatchParts(path, t) = f[<<MatchParts(path, s), x>>]
  BY <1>3, <1>4, <1>5 DEF FoldGrows
<1> QED BY <1>6, MatchStepIs DEF t, f

(***************************************************************************)
(* The code and the reference in step: after each character, the reference *)
(* may be where the part that is being read ends, wherever it begins from  *)
(* the place the parts before it led to.                                   *)
(***************************************************************************)
\* part stands in the path from i on.
Fits(path, i, part) == \A k \in 1..Len(part) : path[i + k - 1] = part[k]

LEMMA FitsIs ==
  ASSUME NEW P, NEW path \in Seq(P), NEW C, NEW part \in Seq(C),
         NEW i \in Nat, i > 0, i + Len(part) <= Len(path) + 1
  PROVE  SubSeq(path, i, i + Len(part) - 1) = part <=> Fits(path, i, part)
<1> DEFINE n == Len(path)
           l == Len(part)
           s == SubSeq(path, i, i + l - 1)
<1>1. n \in Nat /\ l \in Nat /\ DOMAIN part = 1..l
  OBVIOUS
<1>2. \A k \in i..(i + l - 1) : path[k] \in P
  BY <1>1
<1>3. /\ Len(s) = l /\ s \in Seq(P)
      /\ \A k \in 1..l : s[k] = path[i + k - 1]
  BY <1>1, SubSeqProperties
<1> HIDE DEF s
<1>4. s = part <=> \A k \in 1..l : s[k] = part[k]
  <2>1. ASSUME \A k \in 1..l : s[k] = part[k] PROVE s = part
    BY <1>1, <1>3, <2>1, SeqEqual
  <2> QED BY <2>1
<1> QED BY <1>3, <1>4 DEF Fits, s

\* The places of a part are those it stands at.
PlacesFit(path, acc, part) ==
  \A i : i \in PlacesOf(path, acc, part) <=>
          /\ i \in acc.at..(Len(path) - Len(part) + 1)
          /\ Fits(path, i, part) /\ (acc.first => i = 1)

LEMMA PlaceIs ==
  ASSUME NEW P, NEW path \in Seq(P), NEW C, NEW acc \in Matching, acc.at > 0,
         NEW part \in Seq(C)
  PROVE  PlacesFit(path, acc, part)
<1>1. acc.at \in Nat /\ Len(path) \in Nat /\ Len(part) \in Nat
  BY DEF Matching
<1>2. \A i \in acc.at..(Len(path) - Len(part) + 1) :
        SubSeq(path, i, i + Len(part) - 1) = part <=> Fits(path, i, part)
  <2> TAKE i \in acc.at..(Len(path) - Len(part) + 1)
  <2>1. i \in Nat /\ i > 0 /\ i + Len(part) <= Len(path) + 1
    BY <1>1
  <2> QED BY <2>1, FitsIs
<1> QED BY <1>2 DEF PlacesOf, PlacesFit

\* Where the part that is read may begin.
MayBegin(path, g, part) == IF g.ok THEN PlacesOf(path, g, part) ELSE {}

\* g is where the parts done took the code, acc what was split of chars, and
\* ends where the reference may be.
InStep(path, chars, acc, g, ends) ==
  /\ g \in Matching /\ g.at \in 1..(Len(path) + 1)
  /\ ends = {i + Len(acc.last) : i \in MayBegin(path, g, acc.last)}
  /\ g.first <=> acc.done = <<>>
  /\ g.first => g.ok /\ g.at = 1
  /\ acc.done = <<>> => acc.last = chars
  /\ acc.done # <<>> <=> \E k \in 1..Len(chars) : chars[k] = "*"

\* The code and the reference after chars.
Steps(path, chars) ==
  InStep(path, chars, SplitChars(chars), MatchParts(path, SplitChars(chars).done),
         EndsOf(path, chars))

\* At the beginning a part may only begin at the start of the path.
LEMMA StepsBegin ==
  ASSUME NEW P, NEW path \in Seq(P)
  PROVE  Steps(path, <<>>)
<1>1. SplitChars(<<>>) = NoParts /\ NoParts.done = <<>> /\ NoParts.last = <<>> /\ Len(<<>>) = 0
  BY SplitNone DEF NoParts
<1>2. MatchParts(path, <<>>) = StartMatch /\ EndsOf(path, <<>>) = {1}
  BY MatchNone, EndsNone
<1>3. /\ StartMatch \in Matching /\ StartMatch.at = 1 /\ StartMatch.first = TRUE
      /\ StartMatch.ok = TRUE
  BY DEF StartMatch, Matching
<1>4. Len(path) \in Nat
  OBVIOUS
<1>5. PlacesOf(path, StartMatch, <<>>) = {1}
  <2>1. <<>> \in Seq({})
    OBVIOUS
  <2>2. \A i : i \in PlacesOf(path, StartMatch, <<>>) <=>
               /\ i \in 1..(Len(path) + 1)
               /\ Fits(path, i, <<>>) /\ i = 1
    <3>1. \A i : i \in PlacesOf(path, StartMatch, <<>>) <=>
                 /\ i \in StartMatch.at..(Len(path) - Len(<<>>) + 1)
                 /\ Fits(path, i, <<>>) /\ (StartMatch.first => i = 1)
      <4>1. PlacesFit(path, StartMatch, <<>>)
        <5> DEFINE m == StartMatch
                   e == <<>>
        <5>1. m \in Matching /\ m.at > 0 /\ e \in Seq({})
          BY <1>3, <2>1
        <5> HIDE DEF m, e
        <5>2. PlacesFit(path, m, e)
          BY <5>1, PlaceIs
        <5> QED BY <5>2 DEF m, e
      <4> QED BY <4>1 DEF PlacesFit
    <3> QED BY <1>1, <1>3, <1>4, <3>1
  <2>3. \A i : Fits(path, i, <<>>)
    BY <1>1 DEF Fits
  <2> QED BY <1>4, <2>2, <2>3
<1>6. {i + 0 : i \in {1}} = {1}
  OBVIOUS
<1>7. MayBegin(path, StartMatch, <<>>) = {1}
  BY <1>3, <1>5 DEF MayBegin
<1>8. InStep(path, <<>>, NoParts, StartMatch, {1})
  <2> DEFINE e == NoParts
             m == StartMatch
  <2>1. e.last = <<>> /\ e.done = <<>> /\ m \in Matching /\ m.at = 1 /\ m.first = TRUE /\ m.ok = TRUE
    BY <1>1, <1>3
  <2>2. {1} = {i + Len(e.last) : i \in MayBegin(path, m, e.last)}
    BY <1>1, <1>6, <1>7, <2>1
  <2> HIDE DEF e, m
  <2> QED BY <1>1, <1>4, <2>1, <2>2 DEF InStep, e, m
<1> QED BY <1>1, <1>2, <1>8 DEF Steps

\* A character that is no wildcard: the part grows.
LEMMA CharSteps ==
  ASSUME NEW P, NEW path \in Seq(P), NEW C, NEW chars \in Seq(C), NEW acc \in Parting(C),
         NEW g, NEW ends, InStep(path, chars, acc, g, ends), NEW c \in C, c # "*"
  PROVE  InStep(path, Append(chars, c), SplitStep(acc, c), g, Further(path, ends, c))
<1> DEFINE n == Len(path)
           last == acc.last
           l == Len(last)
           more == Append(last, c)
           now == SplitStep(acc, c)
<1>1. /\ last \in Seq(C) /\ more \in Seq(C) /\ l \in Nat /\ n \in Nat /\ Len(more) = l + 1
      /\ more[l + 1] = c /\ \A k \in 1..l : more[k] = last[k]
  BY DEF Parting
<1>2. now.done = acc.done /\ now.last = more
  BY DEF SplitStep, Parting
<1>3. g \in Matching /\ g.at \in 1..(n + 1)
  BY DEF InStep
<1>4. PlacesOf(path, g, more) = {i \in PlacesOf(path, g, last) : i + l <= n /\ path[i + l] = c}
  <2> HIDE DEF more, last, l
  <2>1. \A i : Fits(path, i, more) <=> Fits(path, i, last) /\ path[i + l] = c
    <3> TAKE i
    <3>1. ASSUME Fits(path, i, more) PROVE Fits(path, i, last) /\ path[i + l] = c
      <4>1. \A k \in 1..(l + 1) : path[i + k - 1] = more[k]
        BY <1>1, <3>1 DEF Fits
      <4>2. path[i + (l + 1) - 1] = c
        BY <1>1, <4>1
      <4> QED BY <1>1, <4>1, <4>2 DEF Fits, l
    <3>2. ASSUME Fits(path, i, last), path[i + l] = c PROVE Fits(path, i, more)
      BY <1>1, <3>2 DEF Fits, l
    <3> QED BY <3>1, <3>2
  <2>2. \A i : i \in PlacesOf(path, g, last) <=>
          i \in g.at..(n - Len(last) + 1) /\ Fits(path, i, last) /\ (g.first => i = 1)
    <3>1. PlacesFit(path, g, last)
      BY <1>1, <1>3, PlaceIs
    <3> QED BY <3>1 DEF PlacesFit
  <2>3. \A i : i \in PlacesOf(path, g, more) <=>
          i \in g.at..(n - Len(more) + 1) /\ Fits(path, i, more) /\ (g.first => i = 1)
    <3>1. PlacesFit(path, g, more)
      BY <1>1, <1>3, PlaceIs
    <3> QED BY <3>1 DEF PlacesFit
  <2> HIDE DEF n
  <2>4. \A i : i \in PlacesOf(path, g, more) <=>
                 i \in PlacesOf(path, g, last) /\ i + l <= n /\ path[i + l] = c
    BY <1>1, <1>3, <2>1, <2>2, <2>3 DEF l
  <2>5. PlacesOf(path, g, more) \subseteq PlacesOf(path, g, last)
    BY <2>4
  <2> QED BY <2>4, <2>5
<1>5. Further(path, ends, c) = {i + 1 : i \in {i \in ends : i <= n /\ path[i] = c}}
  BY DEF Further
<1>6. ends = {i + l : i \in MayBegin(path, g, last)} /\ MayBegin(path, g, last) \in SUBSET Nat
  BY <1>1, <1>3, PlacesAre DEF InStep, MayBegin
<1>7. MayBegin(path, g, more) = {i \in MayBegin(path, g, last) : i + l <= n /\ path[i + l] = c}
  BY <1>4 DEF MayBegin
<1>8. Further(path, ends, c) = {i + (l + 1) : i \in MayBegin(path, g, more)}
  <2> DEFINE B == MayBegin(path, g, last)
             D == MayBegin(path, g, more)
  <2> HIDE DEF B, D, l, n, last, more
  <2>1. \A x : x \in {i + 1 : i \in {i \in ends : i <= n /\ path[i] = c}}
               <=> \E b \in B : b + l <= n /\ path[b + l] = c /\ x = (b + l) + 1
    BY <1>6 DEF B
  <2>2. \A b \in B : (b + l) + 1 = b + (l + 1)
    BY <1>1, <1>6 DEF B
  <2>3. \A x : x \in {i + (l + 1) : i \in D}
               <=> \E b \in B : b + l <= n /\ path[b + l] = c /\ x = b + (l + 1)
    BY <1>7 DEF B, D
  <2> QED BY <1>5, <2>1, <2>2, <2>3 DEF D
<1>10. /\ g.first <=> acc.done = <<>>
       /\ g.first => g.ok /\ g.at = 1
       /\ acc.done = <<>> => acc.last = chars
       /\ acc.done # <<>> <=> \E k \in 1..Len(chars) : chars[k] = "*"
  BY DEF InStep
<1>9. (\E k \in 1..Len(Append(chars, c)) : Append(chars, c)[k] = "*")
        <=> \E k \in 1..Len(chars) : chars[k] = "*"
  OBVIOUS
<1>11. acc.done = <<>> => more = Append(chars, c)
  BY <1>10
<1> DEFINE next == Append(chars, c)
<1> HIDE DEF now, more, next, l, last
<1>12. Further(path, ends, c) = {i + Len(now.last) : i \in MayBegin(path, g, now.last)}
  BY <1>1, <1>2, <1>8
<1> DEFINE far == Further(path, ends, c)
<1> HIDE DEF far
<1>13. InStep(path, next, now, g, far)
  BY <1>2, <1>3, <1>9, <1>10, <1>11, <1>12 DEF InStep, next, far
<1> QED BY <1>13 DEF next, now, far

\* A wildcard: the part is done, and taken at its first place.
LEMMA StarSteps ==
  ASSUME NEW P, NEW path \in Seq(P), NEW C, NEW chars \in Seq(C), NEW acc \in Parting(C),
         NEW g, NEW ends, InStep(path, chars, acc, g, ends), "*" \in C
  PROVE  InStep(path, Append(chars, "*"), SplitStep(acc, "*"), MatchPart(path, g, acc.last),
                Further(path, ends, "*"))
<1> DEFINE n == Len(path)
           last == acc.last
           l == Len(last)
           B == PlacesOf(path, g, last)
           now == SplitStep(acc, "*")
           h == MatchPart(path, g, last)
           far == Further(path, ends, "*")
           next == Append(chars, "*")
           none == <<>>
<1>1. /\ last \in Seq(C) /\ l \in Nat /\ n \in Nat /\ acc.done \in Seq(Seq(C))
      /\ Len(none) = 0 /\ none \in Seq(C)
  BY DEF Parting
<1>2. now.done = Append(acc.done, last) /\ now.last = none /\ now.done # <<>>
  <2>1. now = [done |-> Append(acc.done, last), last |-> none]
    BY DEF SplitStep
  <2>2. Len(Append(acc.done, last)) = Len(acc.done) + 1 /\ Len(acc.done) \in Nat
    BY <1>1
  <2>3. Append(acc.done, last) # <<>>
    <3> DEFINE x == Append(acc.done, last)
               k == Len(acc.done)
    <3>1. Len(x) = k + 1 /\ k \in Nat
      BY <2>2
    <3> HIDE DEF x, k
    <3>2. x # none
      BY <1>1, <3>1
    <3> QED BY <3>2 DEF x
  <2> QED BY <2>1, <2>3
<1>3. g \in Matching /\ g.at \in 1..(n + 1) /\ ends = {i + l : i \in MayBegin(path, g, last)}
  BY DEF InStep
<1>4. /\ B \in SUBSET Nat
      /\ B # {} => Min(B) \in B /\ \A i \in B : Min(B) <= i
  BY <1>1, <1>3, PlacesAre
<1>5. \A i \in B : i \in 1..(n - l + 1)
  BY <1>1, <1>3 DEF PlacesOf
<1>6. far = {j \in 1..(n + 1) : \E i \in ends : i <= j}
  BY DEF Further
<1>7. h \in Matching
  BY <1>1, <1>3, MatchStepType
<1>8. \E k \in 1..Len(next) : next[k] = "*"
  <2>1. next[Len(next)] = "*" /\ Len(next) \in 1..Len(next)
    OBVIOUS
  <2> QED BY <2>1
<1>9. h.first = FALSE
  BY <1>3 DEF MatchPart, Matching
<1>10. h.at \in 1..(n + 1) /\ far = {i + 0 : i \in MayBegin(path, h, none)}
  <2>1. CASE ~g.ok \/ B = {}
    <3>1. h.ok = FALSE /\ h.at = g.at
      BY <1>3, <2>1 DEF MatchPart, Matching
    <3>2. ends = {}
      BY <1>3, <2>1 DEF MayBegin
    <3>3. MayBegin(path, h, none) = {}
      BY <3>1 DEF MayBegin
    <3> HIDE DEF h, none
    <3> QED BY <1>3, <1>6, <3>1, <3>2, <3>3
  <2>2. CASE g.ok /\ B # {}
    <3> DEFINE m == Min(B)
    <3>1. h = [ok |-> TRUE, first |-> FALSE, at |-> m + l]
      BY <2>2 DEF MatchPart
    <3>2. h.ok = TRUE /\ h.at = m + l
      BY <3>1
    <3>3. m \in B /\ m \in 1..(n - l + 1) /\ \A i \in B : m <= i
      BY <1>4, <1>5, <2>2
    <3>4. ends = {i + l : i \in B}
      BY <1>3, <2>2 DEF MayBegin
    <3> HIDE DEF h, m, B, l, n, none, last, far
    <3>5. h.at \in 1..(n + 1)
      BY <1>1, <3>2, <3>3
    <3>6. far = h.at..(n + 1)
      <4>1. \A j \in 1..(n + 1) : (\E i \in ends : i <= j) <=> h.at <= j
        <5> TAKE j \in 1..(n + 1)
        <5>1. ASSUME NEW i \in ends, i <= j PROVE h.at <= j
          <6>1. PICK b \in B : i = b + l
            BY <3>4
          <6>2. m <= b /\ b \in Nat /\ m \in Nat
            BY <1>1, <1>4, <3>3, <6>1
          <6> QED BY <1>1, <3>2, <5>1, <6>1, <6>2
        <5>2. ASSUME h.at <= j PROVE \E i \in ends : i <= j
          BY <3>2, <3>3, <3>4, <5>2
        <5> QED BY <5>1, <5>2
      <4> QED BY <1>1, <1>6, <3>5, <4>1 DEF n
    <3>7. PlacesOf(path, h, none) = h.at..(n + 1)
      <4>1. PlacesFit(path, h, none)
        <5>1. h \in Matching /\ none \in Seq(C) /\ h.at > 0
          BY <1>1, <1>7, <3>5
        <5> QED BY <5>1, PlaceIs
      <4>2. \A i : Fits(path, i, none)
        BY <1>1 DEF Fits
      <4>3. \A i : i \in PlacesOf(path, h, none) <=> i \in h.at..(n - 0 + 1)
        BY <1>1, <1>9, <4>1, <4>2 DEF PlacesFit, n
      <4>4. n - 0 + 1 = n + 1
        BY <1>1
      <4> QED BY <4>3, <4>4
    <3>8. MayBegin(path, h, none) = h.at..(n + 1)
      BY <3>2, <3>7 DEF MayBegin
    <3>9. \A i \in h.at..(n + 1) : i + 0 = i
      BY <1>1, <3>5
    <3> QED BY <3>5, <3>6, <3>8, <3>9
  <2> QED BY <2>1, <2>2
<1>11. far = {i + Len(now.last) : i \in MayBegin(path, h, now.last)}
  BY <1>1, <1>2, <1>10
<1> HIDE DEF now, h, far, next, last, none
<1>12. InStep(path, next, now, h, far)
  BY <1>2, <1>7, <1>8, <1>9, <1>10, <1>11 DEF InStep, n
<1> QED BY <1>12 DEF now, h, far, next, last

\* One character more, whichever it is.
LEMMA StepsGrow ==
  ASSUME NEW P, NEW path \in Seq(P), NEW C, NEW chars \in Seq(C), NEW c \in C,
         Steps(path, chars)
  PROVE  Steps(path, Append(chars, c))
<1> DEFINE acc == SplitChars(chars)
           g == MatchParts(path, acc.done)
           ends == EndsOf(path, chars)
           more == Append(chars, c)
<1>1. acc \in Parting(C) /\ SplitChars(more) = SplitStep(acc, c)
  BY SplitAppend
<1>2. EndsOf(path, more) = Further(path, ends, c)
  BY EndsAppend
<1>3. InStep(path, chars, acc, g, ends)
  BY DEF Steps
<1>4. acc.done \in Seq(Seq(C)) /\ acc.last \in Seq(C)
  BY <1>1 DEF Parting
<1> DEFINE done == acc.done
           last == acc.last
<1>5. MatchParts(path, Append(done, last)) = MatchPart(path, g, last)
  <2>1. done \in Seq(Seq(C)) /\ last \in Seq(C) /\ g = MatchParts(path, done)
    BY <1>4
  <2> HIDE DEF done, last, g, acc
  <2> QED BY <2>1, MatchAppend
<1>6. CASE c = "*"
  <2>1. SplitStep(acc, c).done = Append(done, last)
    BY <1>6 DEF SplitStep
  <2>2. InStep(path, more, SplitStep(acc, c), MatchPart(path, g, last), Further(path, ends, c))
    <3> HIDE DEF acc, g, ends
    <3>1. "*" \in C
      BY <1>6
    <3> QED BY <1>1, <1>3, <1>6, <3>1, StarSteps
  <2> HIDE DEF acc, g, ends, more, done, last
  <2> QED BY <1>1, <1>2, <1>5, <2>1, <2>2 DEF Steps, more
<1>7. CASE c # "*"
  <2>1. SplitStep(acc, c).done = done
    BY <1>1, <1>7 DEF SplitStep, Parting
  <2>2. InStep(path, more, SplitStep(acc, c), g, Further(path, ends, c))
    <3> HIDE DEF acc, g, ends
    <3> QED BY <1>1, <1>3, <1>7, CharSteps
  <2>3. MatchParts(path, SplitStep(acc, c).done) = g
    BY <2>1
  <2> HIDE DEF acc, g, ends, more, done, last
  <2> QED BY <1>1, <1>2, <2>2, <2>3 DEF Steps, more
<1> QED BY <1>6, <1>7

\* By induction over the characters, they are in step after every pattern.
LEMMA StepsAll ==
  ASSUME NEW P, NEW path \in Seq(P), NEW C, NEW chars \in Seq(C)
  PROVE  Steps(path, chars)
<1> DEFINE pre(k) == [i \in 1..k |-> chars[i]]
           S == {k \in Nat : k <= Len(chars) => Steps(path, pre(k))}
<1>1. Len(chars) \in Nat /\ \A i \in 1..Len(chars) : chars[i] \in C
  OBVIOUS
<1>2. 0 \in S
  <2>1. pre(0) = <<>>
    OBVIOUS
  <2> HIDE DEF pre
  <2> QED BY <2>1, StepsBegin
<1>3. ASSUME NEW k \in S PROVE k + 1 \in S
  <2> SUFFICES ASSUME k + 1 <= Len(chars) PROVE Steps(path, pre(k + 1))
    OBVIOUS
  <2>1. pre(k) \in Seq(C) /\ Len(pre(k)) = k
    BY <1>1
  <2>2. Append(pre(k), chars[k + 1]) = pre(k + 1)
    BY <1>1, <2>1
  <2>3. k + 1 \in 1..Len(chars)
    BY <1>1
  <2>4. Steps(path, pre(k)) /\ chars[k + 1] \in C
    BY <1>1, <2>3
  <2> HIDE DEF pre
  <2> QED BY <2>1, <2>2, <2>4, StepsGrow
<1> HIDE DEF S
<1>4. S = Nat
  BY <1>2, <1>3, NatInduct DEF S
<1>5. pre(Len(chars)) = chars
  BY <1>1
<1> HIDE DEF pre
<1> QED BY <1>1, <1>4, <1>5 DEF S

(***************************************************************************)
(* What the matcher matches of the reference.                              *)
(***************************************************************************)
LEMMA SplitType ==
  ASSUME NEW C, NEW s \in Seq(C) PROVE SplitChars(s) \in Parting(C)
BY CharsSplitIs, SplitClosed, FoldedType

\* A pattern without a wildcard is a prefix of the path where it is.
LEMMA PrefixIs ==
  ASSUME NEW P, NEW path \in Seq(P), NEW C, NEW chars \in Seq(C)
  PROVE  /\ IsPrefix(chars, path) <=> Len(chars) <= Len(path) /\ Fits(path, 1, chars)
         /\ path = chars <=> Len(chars) = Len(path) /\ Fits(path, 1, chars)
<1> DEFINE l == Len(chars)
           n == Len(path)
<1>1. l \in Nat /\ n \in Nat /\ DOMAIN chars = 1..l /\ DOMAIN path = 1..n
  OBVIOUS
<1>2. \A k \in 1..l : 1 + k - 1 = k
  BY <1>1
<1>3. Fits(path, 1, chars) <=> \A k \in 1..l : path[k] = chars[k]
  BY <1>2 DEF Fits
<1>4. l = n /\ (\A k \in 1..l : path[k] = chars[k]) => path = chars
  BY <1>1
<1>5. SubSeq(chars, 1, l) = chars
  BY <1>1
<1>6. ASSUME l <= n
      PROVE  SubSeq(path, 1, l) = chars <=> \A k \in 1..l : path[k] = chars[k]
  <2>1. l + 1 <= n + 1 /\ 1 + l <= n + 1 /\ 1 + l - 1 = l
    BY <1>1, <1>6
  <2>2. SubSeq(path, 1, 1 + l - 1) = chars <=> Fits(path, 1, chars)
    <3>1. 1 \in Nat /\ 1 > 0 /\ 1 + Len(chars) <= Len(path) + 1
      BY <2>1
    <3> QED BY <3>1, FitsIs
  <2> QED BY <1>3, <2>1, <2>2
<1>7. path = chars => l = n /\ \A k \in 1..l : path[k] = chars[k]
  OBVIOUS
<1> QED BY <1>1, <1>3, <1>4, <1>5, <1>6, <1>7 DEF IsPrefix

\* The code's matcher matches what the reference matches; anchored, and with a
\* wildcard, it may miss some of it.
LEMMA MatcherIs ==
  ASSUME NEW P, NEW path \in Seq(P), NEW C, NEW p \in [chars : Seq(C), anchored : BOOLEAN]
  PROVE  /\ RobotsPatternMatch(path, p) => Matches(path, p)
         /\ ~MayMiss(p) => (RobotsPatternMatch(path, p) <=> Matches(path, p))
<1> DEFINE chars == p.chars
           acc == SplitChars(chars)
           done == acc.done
           last == acc.last
           g == MatchParts(path, done)
           h == MatchPart(path, g, last)
           ends == EndsOf(path, chars)
           B == PlacesOf(path, g, last)
           n == Len(path)
           l == Len(last)
           parts == Append(done, last)
<1>0. chars \in Seq(C) /\ p.anchored \in BOOLEAN
  OBVIOUS
<1>1. acc \in Parting(C)
  BY <1>0, SplitType
<1>2. done \in Seq(Seq(C)) /\ last \in Seq(C) /\ l \in Nat /\ n \in Nat
  BY <1>1 DEF Parting
<1>3. InStep(path, chars, acc, g, ends)
  BY <1>0, StepsAll DEF Steps
<1>4. /\ g \in Matching /\ g.at \in 1..(n + 1)
      /\ ends = {i + l : i \in MayBegin(path, g, last)}
      /\ g.first <=> done = <<>>
      /\ g.first => g.ok /\ g.at = 1
      /\ done = <<>> => last = chars
      /\ done # <<>> <=> \E k \in 1..Len(chars) : chars[k] = "*"
  BY <1>3 DEF InStep
<1>5. Split(chars) = parts /\ (Len(parts) = 1 <=> done = <<>>)
  <2>1. Split(chars) = parts
    BY DEF Split
  <2>2. Len(parts) = Len(done) + 1 /\ Len(done) \in Nat
    BY <1>2
  <2>3. Len(done) = 0 <=> done = <<>>
    BY <1>2, EmptySeq
  <2> HIDE DEF parts, done
  <2> QED BY <2>1, <2>2, <2>3
<1>6. MatchParts(path, parts) = h
  <2> HIDE DEF done, last, acc
  <2> QED BY <1>2, MatchAppend
<1>7. RobotsPatternMatch(path, p) <=>
        IF done = <<>>
        THEN IF p.anchored THEN path = chars ELSE IsPrefix(chars, path)
        ELSE h.ok /\ (p.anchored => h.at = n + 1)
  BY <1>5, <1>6 DEF RobotsPatternMatch
<1>8. Matches(path, p) <=> IF p.anchored THEN n + 1 \in ends ELSE ends # {}
  BY DEF Matches
<1>9. MayMiss(p) <=> p.anchored /\ done # <<>>
  BY <1>4 DEF MayMiss
<1>10. /\ B \in SUBSET Nat
       /\ B # {} => Min(B) \in B /\ \A i \in B : Min(B) <= i
  BY <1>2, <1>4, PlacesAre
<1>11. CASE done = <<>>
  <2>1. last = chars /\ g.ok /\ g.first /\ g.at = 1 /\ ends = {i + l : i \in B}
    BY <1>4, <1>11 DEF MayBegin
  <2>2. PlacesFit(path, g, last)
    <3>1. g \in Matching /\ g.at > 0 /\ last \in Seq(C)
      BY <1>2, <1>4
    <3> HIDE DEF g, last
    <3> QED BY <3>1, PlaceIs
  <2>3. \A i : i \in B <=> i = 1 /\ l <= n /\ Fits(path, 1, chars)
    <3>1. \A i : i \in B <=> i \in g.at..(n - l + 1) /\ Fits(path, i, last) /\ i = 1
      BY <2>1, <2>2 DEF PlacesFit
    <3>2. \A i : i \in B <=> i \in 1..(n - l + 1) /\ Fits(path, i, chars) /\ i = 1
      BY <2>1, <3>1
    <3>3. 1 \in 1..(n - l + 1) <=> l <= n
      <4> HIDE DEF l, n
      <4> QED BY <1>2
    <3> HIDE DEF B, g, last, l, n, chars
    <3> QED BY <3>2, <3>3
  <2>4. /\ IsPrefix(chars, path) <=> l <= n /\ Fits(path, 1, chars)
        /\ path = chars <=> l = n /\ Fits(path, 1, chars)
    BY <1>0, <2>1, PrefixIs
  <2>5. n + 1 \in ends <=> l = n /\ Fits(path, 1, chars)
    <3>1. n + 1 \in ends <=> \E i \in B : n + 1 = i + l
      BY <2>1
    <3>2. n + 1 = 1 + l <=> l = n
      <4> HIDE DEF l, n
      <4> QED BY <1>2
    <3>3. l <= n <=> l < n \/ l = n
      <4> HIDE DEF l, n
      <4> QED BY <1>2
    <3> HIDE DEF B, l, n, chars, ends
    <3> QED BY <2>3, <3>1, <3>2, <3>3
  <2>6. ends # {} <=> l <= n /\ Fits(path, 1, chars)
    <3>1. ends # {} <=> B # {}
      BY <2>1
    <3> HIDE DEF B, l, n, chars, ends
    <3> QED BY <2>3, <3>1
  <2> HIDE DEF B, l, n, chars, ends, done, g, h
  <2> QED BY <1>7, <1>8, <1>11, <2>4, <2>5, <2>6
<1>12. CASE done # <<>>
  <2>1. CASE ~g.ok \/ B = {}
    <3>1. h.ok = FALSE
      BY <1>4, <2>1 DEF MatchPart, Matching
    <3>2. ends = {}
      BY <1>4, <2>1 DEF MayBegin
    <3> QED BY <1>7, <1>8, <1>12, <3>1, <3>2
  <2>2. CASE g.ok /\ B # {}
    <3> DEFINE m == Min(B)
    <3>1. h = [ok |-> TRUE, first |-> FALSE, at |-> m + l]
      BY <2>2 DEF MatchPart
    <3>2. h.ok = TRUE /\ h.at = m + l
      BY <3>1
    <3>3. ends = {i + l : i \in B} /\ m \in B
      BY <1>4, <1>10, <2>2 DEF MayBegin
    <3>4. m + l \in ends
      BY <3>3
    <3> HIDE DEF h, ends, m, n, l, done
    <3> QED BY <1>7, <1>8, <1>9, <1>12, <3>2, <3>4
  <2> QED BY <2>1, <2>2
<1> QED BY <1>11, <1>12

-----------------------------------------------------------------------------
(***************************************************************************)
(* One line of a robots.txt, and the whole of it as a fold over its lines. *)
(***************************************************************************)
\* What a robots.txt is made of, and what is parsed of it.
Pat == [chars : Seq(STRING), anchored : BOOLEAN]
RulesOn == [allow : Seq(Pat), disallow : Seq(Pat)]
Groups == {"ours", "wild"}
Kinds == {"allow", "disallow"}
Parsed == [group : Groups \cup {"none"}, foundOurs : BOOLEAN, ours : RulesOn, wild : RulesOn]
AgentLine == [directive : {"user-agent"}, value : {"ours", "*", "other"}]
RuleLine == [directive : Kinds, value : Pat]
LineOf == AgentLine \cup RuleLine
\* The group the rules for agent are added to.
GroupOf(agent) == IF agent = "*" THEN "wild" ELSE IF agent = "ours" THEN "ours" ELSE "none"

\* A user-agent line opens its group and closes the one before it.
LEMMA AgentRead ==
  ASSUME NEW acc \in Parsed, NEW line \in AgentLine
  PROVE  LET n == ParseLine(acc, line)
         IN  /\ n \in Parsed /\ n.group = GroupOf(line.value)
             /\ n.foundOurs <=> acc.foundOurs \/ line.value = "ours"
             /\ n.ours = acc.ours /\ n.wild = acc.wild
<1> DEFINE n == ParseLine(acc, line)
<1>0. line.directive = "user-agent" /\ line.value \in {"ours", "*", "other"}
  BY DEF AgentLine
<1>1. CASE line.value = "*"
  <2>1. n = [acc EXCEPT !.group = "wild"]
    BY <1>0, <1>1 DEF ParseLine
  <2> QED BY <1>1, <2>1 DEF Parsed, Groups, GroupOf
<1>2. CASE line.value = "ours"
  <2>1. n = [acc EXCEPT !.group = "ours", !.foundOurs = TRUE]
    BY <1>0, <1>2 DEF ParseLine
  <2> QED BY <1>2, <2>1 DEF Parsed, Groups, GroupOf
<1>3. CASE line.value = "other"
  <2>1. n = [acc EXCEPT !.group = "none"]
    BY <1>0, <1>3 DEF ParseLine
  <2> QED BY <1>3, <2>1 DEF Parsed, Groups, GroupOf
<1> QED BY <1>0, <1>1, <1>2, <1>3

\* A rule is added to the group that is open, under its directive.
LEMMA RuleRead ==
  ASSUME NEW acc \in Parsed, NEW line \in RuleLine, line.value # EmptyPattern,
         acc.group \in Groups
  PROVE  LET n == ParseLine(acc, line)
         IN  /\ n \in Parsed /\ n.group = acc.group /\ n.foundOurs = acc.foundOurs
             /\ \A g \in Groups, d \in Kinds :
                  n[g][d] = IF g = acc.group /\ d = line.directive
                            THEN Append(acc[g][d], line.value) ELSE acc[g][d]
<1> DEFINE v == line.value
           k == line.directive
           h == acc.group
           n == ParseLine(acc, line)
           x == Append(acc[h][k], v)
<1>1. n = [acc EXCEPT ![h][k] = Append(@, v)]
  BY DEF ParseLine, RuleLine, Groups, Kinds
<1>2. k \in Kinds /\ v \in Pat /\ h \in Groups
  BY DEF RuleLine
<1>3. acc.ours \in RulesOn /\ acc.wild \in RulesOn
  BY DEF Parsed
<1>4. acc[h] \in RulesOn /\ acc[h][k] \in Seq(Pat)
  <2>1. acc["ours"] \in RulesOn /\ acc["wild"] \in RulesOn
    BY <1>3
  <2>2. acc[h] \in RulesOn
    BY <1>2, <2>1 DEF Groups
  <2>3. acc[h]["allow"] \in Seq(Pat) /\ acc[h]["disallow"] \in Seq(Pat)
    BY <2>2 DEF RulesOn
  <2> QED BY <1>2, <2>2, <2>3 DEF Kinds
<1>5. x \in Seq(Pat)
  <2> HIDE DEF v, k, h
  <2> QED BY <1>2, <1>4
<1>6. n = [acc EXCEPT ![h] = [acc[h] EXCEPT ![k] = x]]
  BY <1>1, <1>2, <1>3 DEF Groups, Parsed
<1> DEFINE r == [acc[h] EXCEPT ![k] = x]
<1>7. r \in RulesOn /\ r[k] = x /\ \A d \in Kinds : d # k => r[d] = acc[h][d]
  <2> DEFINE q == acc[h]
  <2>1. q \in RulesOn /\ r = [q EXCEPT ![k] = x]
    BY <1>4
  <2> HIDE DEF q, x, k, r
  <2>2. r \in RulesOn /\ r[k] = x /\ \A d \in Kinds : d # k => r[d] = q[d]
    BY <1>2, <1>5, <2>1 DEF RulesOn, Kinds
  <2> QED BY <2>2 DEF q
<1>8. /\ n \in Parsed /\ n.group = acc.group /\ n.foundOurs = acc.foundOurs
      /\ n[h] = r /\ \A g \in Groups : g # h => n[g] = acc[g]
  <2> HIDE DEF r, h, x, k, v, n
  <2>1. n = [acc EXCEPT ![h] = r]
    BY <1>6 DEF r
  <2>2. CASE h = "ours"
    BY <1>7, <2>1, <2>2 DEF Parsed, Groups
  <2>3. CASE h = "wild"
    BY <1>7, <2>1, <2>3 DEF Parsed, Groups
  <2> QED BY <1>2, <2>2, <2>3 DEF Groups
<1> HIDE DEF n, r, x
<1>9. ASSUME NEW g \in Groups, NEW d \in Kinds
      PROVE  n[g][d] = IF g = h /\ d = k THEN Append(acc[g][d], v) ELSE acc[g][d]
  <2>1. CASE g = h /\ d = k
    BY <1>7, <1>8, <2>1 DEF x
  <2>2. CASE g = h /\ d # k
    BY <1>7, <1>8, <2>2
  <2>3. CASE g # h
    BY <1>8, <2>3
  <2> QED BY <2>1, <2>2, <2>3
<1> QED BY <1>8, <1>9 DEF n

\* An empty rule, or one no group is open for, is passed over.
LEMMA RulePassed ==
  ASSUME NEW acc \in Parsed, NEW line \in RuleLine,
         line.value = EmptyPattern \/ acc.group \notin Groups
  PROVE  ParseLine(acc, line) = acc
BY DEF ParseLine, RuleLine, Groups, Kinds

ParseOn == [pair \in Parsed \X LineOf |-> ParseLine(pair[1], pair[2])]

\* A line more keeps what is parsed in its type.
LEMMA ParseStepType ==
  ASSUME NEW acc \in Parsed, NEW x \in LineOf
  PROVE  ParseLine(acc, x) \in Parsed
<1>1. CASE x \in AgentLine
  BY <1>1, AgentRead
<1>2. CASE x \in RuleLine
  <2>1. CASE x.value = EmptyPattern \/ acc.group \notin Groups
    BY <1>2, <2>1, RulePassed
  <2>2. CASE x.value # EmptyPattern /\ acc.group \in Groups
    BY <1>2, <2>2, RuleRead
  <2> QED BY <2>1, <2>2
<1> QED BY <1>1, <1>2 DEF LineOf

LEMMA NothingParsedType == NothingParsed \in Parsed
<1>1. <<>> \in Seq(Pat)
  OBVIOUS
<1>2. NoRules \in RulesOn
  BY <1>1 DEF NoRules, RulesOn
<1> QED BY <1>2 DEF NothingParsed, Parsed

LEMMA ParseStepIs ==
  ASSUME NEW acc \in Parsed, NEW x \in LineOf
  PROVE  ParseOn[<<acc, x>>] = ParseLine(acc, x) /\ ParseOn[<<acc, x>>] \in Parsed
BY ParseStepType DEF ParseOn

LEMMA ParseClosed ==
  ASSUME NEW s \in Seq(LineOf)
  PROVE  FoldStays(Parsed, ParseOn, NothingParsed, s)
<1>1. \A acc \in Parsed : \A n \in 1..Len(s) : ParseOn[<<acc, s[n]>>] \in Parsed
  <2> TAKE acc \in Parsed
  <2> TAKE n \in 1..Len(s)
  <2>1. s[n] \in LineOf
    OBVIOUS
  <2> QED BY <2>1, ParseStepIs
<1> QED BY <1>1, NothingParsedType DEF FoldStays

\* Parsing is the fold of these steps.
LEMMA ParseIs ==
  ASSUME NEW s \in Seq(LineOf)
  PROVE  ParseLines(s) = Folded(Parsed, ParseOn, NothingParsed, s)
<1> DEFINE E(iter) ==
             iter = [t \in SUBSET DOMAIN s |->
                       IF t = {} THEN NothingParsed
                       ELSE ParseLine(iter[t \ {Max(t)}], s[Max(t)])]
           c == CHOOSE iter : E(iter)
<1>1. DOMAIN s = 1..Len(s) /\ Len(s) \in Nat
  OBVIOUS
<1>2. ParseLines(s) = c[DOMAIN s]
  BY DEF ParseLines, FoldLeft, MapThenFoldSet
<1>3. \E iter : E(iter)
  <2>1. PICK h \in [SUBSET (1..Len(s)) -> Parsed] : SetFold(h, ParseOn, NothingParsed, s)
    BY ParseClosed, SetFoldExists
  <2>2. ASSUME NEW t \in SUBSET DOMAIN s, t # {}
        PROVE  h[t] = ParseLine(h[t \ {Max(t)}], s[Max(t)])
    <3>1. Max(t) \in 1..Len(s)
      BY <1>1, <2>2, MaxIn
    <3>2. s[Max(t)] \in LineOf /\ h[t \ {Max(t)}] \in Parsed
      BY <1>1, <3>1
    <3>3. h[t] = ParseOn[<<h[t \ {Max(t)}], s[Max(t)]>>]
      BY <1>1, <2>1, <2>2 DEF SetFold
    <3> DEFINE u == h[t \ {Max(t)}]
               v == s[Max(t)]
    <3>4. u \in Parsed /\ v \in LineOf
      BY <3>2
    <3>5. h[t] = ParseOn[<<u, v>>]
      BY <3>3
    <3> HIDE DEF u, v
    <3>6. ParseOn[<<u, v>>] = ParseLine(u, v)
      BY <3>4, ParseStepIs
    <3> QED BY <3>5, <3>6 DEF u, v
  <2>3. h[{}] = NothingParsed
    BY <2>1 DEF SetFold
  <2>4. E(h)
    BY <1>1, <2>2, <2>3
  <2> QED BY <2>4
<1>4. E(c)
  BY <1>3
<1> HIDE DEF c
<1>5. c[{}] = NothingParsed
  BY <1>4
<1>6. ASSUME NEW n \in 1..Len(s), c[1..(n - 1)] \in Parsed
      PROVE  c[1..n] = ParseOn[<<c[1..(n - 1)], s[n]>>]
  <2>0. n \in Nat /\ n # 0
    BY <1>1
  <2>1. Max(1..n) = n /\ (1..n) \ {n} = 1..(n - 1) /\ 1..n # {}
    BY <2>0, MaxOfFirst
  <2>2. 1..n \in SUBSET DOMAIN s
    BY <1>1
  <2>3. c[1..n] = ParseLine(c[(1..n) \ {Max(1..n)}], s[Max(1..n)])
    BY <1>4, <2>1, <2>2, Zenon
  <2>4. c[1..n] = ParseLine(c[1..(n - 1)], s[n])
    BY <2>1, <2>3
  <2>5. s[n] \in LineOf
    OBVIOUS
  <2> QED BY <1>6, <2>4, <2>5, ParseStepIs
<1> HIDE DEF E
<1>7. c[1..Len(s)] = Folded(Parsed, ParseOn, NothingParsed, s)
  <2>1. SetSteps(c, Parsed, ParseOn, NothingParsed, s)
    BY <1>5, <1>6 DEF SetSteps
  <2> QED BY <2>1, ParseClosed, SetFoldIs
<1> QED BY <1>1, <1>2, <1>7

\* What is parsed of nothing, and of a line more.
LEMMA ParseNone ==
  ParseLines(<<>>) = NothingParsed
<1>1. <<>> \in Seq(LineOf)
  OBVIOUS
<1>2. Folded(Parsed, ParseOn, NothingParsed, <<>>) = NothingParsed
  BY NothingParsedType, FoldedNone
<1> QED BY <1>1, <1>2, ParseIs

LEMMA ParseAppend ==
  ASSUME NEW s \in Seq(LineOf), NEW x \in LineOf
  PROVE  /\ ParseLines(s) \in Parsed
         /\ ParseLines(Append(s, x)) = ParseLine(ParseLines(s), x)
<1> DEFINE t == Append(s, x)
           f == ParseOn
<1>1. t \in Seq(LineOf) /\ IsAppend(t, s, x)
  BY DEF IsAppend
<1> HIDE DEF t
<1>2. FoldStays(Parsed, f, NothingParsed, t) /\ FoldStays(Parsed, f, NothingParsed, s)
  BY <1>1, ParseClosed
<1>3. /\ ParseLines(s) = Folded(Parsed, f, NothingParsed, s)
      /\ ParseLines(t) = Folded(Parsed, f, NothingParsed, t)
  BY <1>1, ParseIs
<1> HIDE DEF f
<1>4. Folded(Parsed, f, NothingParsed, s) \in Parsed
  BY <1>2, FoldedType
<1>5. FoldGrows(Parsed, f, NothingParsed, s, x, t)
  BY <1>1, <1>2, FoldedAppend, Zenon
<1>6. ParseLines(s) \in Parsed /\ ParseLines(t) = f[<<ParseLines(s), x>>]
  BY <1>3, <1>4, <1>5 DEF FoldGrows
<1> QED BY <1>6, ParseStepIs DEF t, f

(***************************************************************************)
(* The rules the lines of a robots.txt give each user-agent, and that they *)
(* are the ones that were parsed.                                          *)
(***************************************************************************)
\* The user-agent line i of s is under, "none" before the first.
AgentAt(s, i) ==
  LET before == {j \in 1..i : s[j].directive = "user-agent"}
  IN  IF before = {} THEN "none" ELSE s[Max(before)].value

\* The rules with directive d that s gives agent.
RulesAt(s, agent, d) ==
  {s[i].value : i \in {j \in 1..Len(s) :
     /\ s[j].directive = d /\ s[j].value # EmptyPattern
     /\ AgentAt(s, j) = agent}}

\* The rules in a list.
Listed(rs) == {rs[i] : i \in 1..Len(rs)}

\* t is s and x: the lines there were stay under their user-agents.
AgentsGrow(s, x, t) ==
  /\ \A i \in 0..Len(s) : AgentAt(t, i) = AgentAt(s, i)
  /\ AgentAt(t, Len(s) + 1) =
       IF x.directive = "user-agent" THEN x.value ELSE AgentAt(s, Len(s))

\* t is s and x: x adds its rule to those of the user-agent it is under.
RulesGrow(s, x, t) ==
  \A agent, d :
    d \in Kinds =>
      RulesAt(t, agent, d) =
        RulesAt(s, agent, d) \cup
          IF /\ x.directive = d /\ x.value # EmptyPattern
             /\ AgentAt(s, Len(s)) = agent
          THEN {x.value} ELSE {}

LEMMA NoAgent == \A s : AgentAt(s, 0) = "none"
BY DEF AgentAt

LEMMA AgentsGrown ==
  ASSUME NEW s, NEW x, NEW t, IsAppend(t, s, x)
  PROVE  AgentsGrow(s, x, t)
<1> DEFINE k == Len(s) + 1
           Above(u, i) == {j \in 1..i : u[j].directive = "user-agent"}
<1>0. Len(s) \in Nat /\ k \in Nat /\ t[k] = x /\ \A i \in 1..Len(s) : t[i] = s[i]
  BY DEF IsAppend
<1>1. ASSUME NEW i \in 0..Len(s) PROVE AgentAt(t, i) = AgentAt(s, i)
  <2>1. Above(t, i) = Above(s, i)
    BY <1>0
  <2>2. ASSUME Above(s, i) # {} PROVE t[Max(Above(s, i))] = s[Max(Above(s, i))]
    <3> DEFINE T == Above(s, i)
    <3>1. T \in SUBSET (1..i) /\ i \in Nat
      BY <1>0
    <3>2. T # {}
      BY <2>2
    <3> HIDE DEF T
    <3>3. Max(T) \in T
      BY <3>1, <3>2, MaxIn
    <3>4. 1..i \subseteq 1..Len(s)
      BY <1>0
    <3> DEFINE m == Max(T)
    <3>5. m \in 1..Len(s)
      BY <3>1, <3>3, <3>4
    <3> HIDE DEF m
    <3>6. t[m] = s[m]
      BY <1>0, <3>5
    <3> QED BY <3>6 DEF T, m
  <2> QED BY <2>1, <2>2 DEF AgentAt
<1>2. CASE x.directive = "user-agent"
  <2> DEFINE T == Above(t, k)
  <2>1. T \in SUBSET (1..k) /\ T # {} /\ k \in T
    BY <1>0, <1>2
  <2>2. AgentAt(t, k) = IF T = {} THEN "none" ELSE t[Max(T)].value
    BY DEF AgentAt
  <2> HIDE DEF T, k
  <2>3. Max(T) \in T /\ Max(T) >= k
    BY <1>0, <2>1, MaxIn
  <2>4. Max(T) = k
    <3>1. Max(T) \in 1..k
      BY <2>1, <2>3
    <3> QED BY <1>0, <2>3, <3>1
  <2> QED BY <1>0, <1>1, <1>2, <2>1, <2>2, <2>4 DEF AgentsGrow, k
<1>3. CASE x.directive # "user-agent"
  <2>1. Above(t, k) = Above(t, Len(s))
    BY <1>0, <1>3
  <2>2. AgentAt(t, k) = AgentAt(t, Len(s))
    BY <2>1 DEF AgentAt
  <2>3. AgentAt(t, Len(s)) = AgentAt(s, Len(s))
    BY <1>0, <1>1
  <2> QED BY <1>1, <1>3, <2>2, <2>3 DEF AgentsGrow
<1> QED BY <1>2, <1>3

LEMMA RulesGrown ==
  ASSUME NEW s, NEW x, NEW t, IsAppend(t, s, x)
  PROVE  RulesGrow(s, x, t)
<1> DEFINE k == Len(s) + 1
<1>0. /\ Len(s) \in Nat /\ Len(t) = k /\ t[k] = x
      /\ 1..k = 1..Len(s) \cup {k} /\ \A i \in 1..Len(s) : t[i] = s[i]
  BY DEF IsAppend
<1>1. /\ \A i \in 1..Len(s) : AgentAt(t, i) = AgentAt(s, i)
      /\ x.directive # "user-agent" => AgentAt(t, k) = AgentAt(s, Len(s))
  BY <1>0, AgentsGrown DEF AgentsGrow
<1> HIDE DEF k
<1> SUFFICES ASSUME NEW agent, NEW d \in Kinds
             PROVE  RulesAt(t, agent, d) =
                      RulesAt(s, agent, d) \cup
                        IF /\ x.directive = d /\ x.value # EmptyPattern
                           /\ AgentAt(s, Len(s)) = agent
                        THEN {x.value} ELSE {}
  BY DEF RulesGrow
<1> DEFINE At(u) == {j \in 1..Len(u) : /\ u[j].directive = d /\ u[j].value # EmptyPattern
                                       /\ AgentAt(u, j) = agent}
           new == /\ x.directive = d /\ x.value # EmptyPattern
                  /\ AgentAt(s, Len(s)) = agent
<1>2. d # "user-agent"
  BY DEF Kinds
<1>3. \A j \in 1..Len(s) : j \in At(t) <=> j \in At(s)
  BY <1>0, <1>1
<1>4. k \in At(t) <=> new
  BY <1>0, <1>1, <1>2
<1>5. At(t) \subseteq 1..Len(s) \cup {k} /\ At(s) \subseteq 1..Len(s)
  BY <1>0
<1>6. RulesAt(t, agent, d) = {t[i].value : i \in At(t)} /\ RulesAt(s, agent, d) = {s[i].value : i \in At(s)}
  BY DEF RulesAt
<1> HIDE DEF At, new
<1>7. \A i \in At(s) : t[i].value = s[i].value
  BY <1>0, <1>5
<1>8. At(t) = At(s) \cup IF new THEN {k} ELSE {}
  BY <1>3, <1>4, <1>5
<1>9. RulesAt(t, agent, d) = RulesAt(s, agent, d) \cup IF new THEN {x.value} ELSE {}
  BY <1>0, <1>6, <1>7, <1>8
<1> QED BY <1>9 DEF new

LEMMA ListedAppend ==
  ASSUME NEW A, NEW rs \in Seq(A), NEW v \in A
  PROVE  Listed(Append(rs, v)) = Listed(rs) \cup {v}
<1> DEFINE t == Append(rs, v)
<1>1. /\ Len(t) = Len(rs) + 1 /\ Len(rs) \in Nat /\ t[Len(rs) + 1] = v
      /\ \A i \in 1..Len(rs) : t[i] = rs[i]
  OBVIOUS
<1> HIDE DEF t
<1>2. 1..Len(t) = 1..Len(rs) \cup {Len(rs) + 1}
  BY <1>1
<1>3. Listed(t) = Listed(rs) \cup {v}
  BY <1>1, <1>2 DEF Listed
<1> QED BY <1>3 DEF t

\* What is parsed of s.
ReadAs(s, acc) ==
  /\ acc \in Parsed /\ acc.group = GroupOf(AgentAt(s, Len(s)))
  /\ acc.foundOurs <=> \E i \in 1..Len(s) : AgentAt(s, i) = "ours"
  /\ \A d \in Kinds : /\ Listed(acc["ours"][d]) = RulesAt(s, "ours", d)
                      /\ Listed(acc["wild"][d]) = RulesAt(s, "*", d)

LEMMA ReadNone == ReadAs(<<>>, ParseLines(<<>>))
<1> DEFINE e == <<>>
<1>1. Len(e) = 0 /\ 1..0 = {}
  OBVIOUS
<1>2. \A d \in Kinds : NothingParsed["ours"][d] = e /\ NothingParsed["wild"][d] = e
  BY DEF NothingParsed, NoRules, Kinds
<1>3. NothingParsed.group = "none" /\ NothingParsed.foundOurs = FALSE
  BY DEF NothingParsed
<1> HIDE DEF e
<1>4. Listed(e) = {} /\ \A agent, d : RulesAt(e, agent, d) = {}
  BY <1>1 DEF Listed, RulesAt
<1>5. GroupOf(AgentAt(e, Len(e))) = "none"
  BY <1>1, NoAgent DEF GroupOf
<1>6. ReadAs(e, NothingParsed)
  BY <1>1, <1>2, <1>3, <1>4, <1>5, NothingParsedType DEF ReadAs
<1> QED BY <1>6, ParseNone DEF e

\* Reading one more line.
LEMMA ReadAppend ==
  ASSUME NEW s \in Seq(LineOf), NEW x \in LineOf, NEW acc, ReadAs(s, acc)
  PROVE  ReadAs(Append(s, x), ParseLine(acc, x))
<1> DEFINE t == Append(s, x)
           n == ParseLine(acc, x)
           k == Len(s) + 1
           last == AgentAt(s, Len(s))
<1>1. t \in Seq(LineOf) /\ IsAppend(t, s, x) /\ Len(t) = k /\ k \in Nat
      /\ Len(s) \in Nat /\ 1..k = 1..Len(s) \cup {k}
  BY DEF IsAppend
<1> HIDE DEF t
<1>2. AgentsGrow(s, x, t) /\ RulesGrow(s, x, t)
  BY <1>1, AgentsGrown, RulesGrown
<1>3. \A i \in 1..Len(s) : AgentAt(t, i) = AgentAt(s, i)
  BY <1>2 DEF AgentsGrow
<1>4. AgentAt(t, k) = IF x.directive = "user-agent" THEN x.value ELSE last
  BY <1>2 DEF AgentsGrow
<1>5. last # "none" => Len(s) \in 1..Len(s)
  BY <1>1, NoAgent
<1> HIDE DEF k
<1>6. acc \in Parsed /\ acc.group = GroupOf(last) /\ n \in Parsed
  BY ParseStepType DEF ReadAs
<1> HIDE DEF n
<1>7. CASE x \in AgentLine
  <2>0. x.directive = "user-agent" /\ x.directive \notin Kinds
    BY <1>7 DEF AgentLine, Kinds
  <2>1. /\ n.group = GroupOf(x.value)
        /\ n.foundOurs <=> acc.foundOurs \/ x.value = "ours"
        /\ n.ours = acc.ours /\ n.wild = acc.wild
    BY <1>6, <1>7, AgentRead DEF n
  <2>2. n["ours"] = acc["ours"] /\ n["wild"] = acc["wild"]
    BY <2>1
  <2>3. n.foundOurs <=> \E i \in 1..Len(t) : AgentAt(t, i) = "ours"
    BY <1>1, <1>3, <1>4, <2>0, <2>1 DEF ReadAs
  <2>4. \A d \in Kinds : /\ RulesAt(t, "ours", d) = RulesAt(s, "ours", d)
                         /\ RulesAt(t, "*", d) = RulesAt(s, "*", d)
    BY <1>2, <2>0 DEF RulesGrow
  <2>5. n.group = GroupOf(AgentAt(t, Len(t)))
    BY <1>1, <1>4, <2>0, <2>1
  <2>6. ReadAs(t, n)
    BY <1>6, <2>2, <2>3, <2>4, <2>5 DEF ReadAs
  <2> QED BY <2>6 DEF t, n
<1>8. CASE x \in RuleLine
  <2>0. x.directive # "user-agent" /\ x.directive \in Kinds /\ x.value \in Pat
    BY <1>8 DEF RuleLine, Kinds
  <2>1. AgentAt(t, Len(t)) = last
    BY <1>1, <1>4, <2>0
  <2>2. acc.foundOurs <=> \E i \in 1..Len(t) : AgentAt(t, i) = "ours"
    <3>1. acc.foundOurs <=> \E i \in 1..Len(s) : AgentAt(s, i) = "ours"
      BY DEF ReadAs
    <3>2. last = "ours" => \E i \in 1..Len(s) : AgentAt(s, i) = "ours"
      BY <1>5
    <3> QED BY <1>1, <1>3, <2>1, <3>1, <3>2
  <2>3. CASE x.value = EmptyPattern \/ acc.group \notin Groups
    <3>1. n = acc
      BY <1>6, <1>8, <2>3, RulePassed DEF n
    <3>2. x.value = EmptyPattern \/ (last # "ours" /\ last # "*")
      BY <1>6, <2>3 DEF GroupOf, Groups
    <3>3. \A d \in Kinds : /\ RulesAt(t, "ours", d) = RulesAt(s, "ours", d)
                           /\ RulesAt(t, "*", d) = RulesAt(s, "*", d)
      BY <1>2, <3>2 DEF RulesGrow
    <3>4. ReadAs(t, acc)
      BY <1>6, <2>1, <2>2, <3>3 DEF ReadAs
    <3> QED BY <3>1, <3>4 DEF t, n
  <2>4. CASE x.value # EmptyPattern /\ acc.group \in Groups
    <3>1. /\ n.group = acc.group /\ n.foundOurs = acc.foundOurs
          /\ \A g \in Groups, d \in Kinds :
               n[g][d] = IF g = acc.group /\ d = x.directive
                         THEN Append(acc[g][d], x.value) ELSE acc[g][d]
      BY <1>6, <1>8, <2>4, RuleRead DEF n
    <3>2. ASSUME NEW g \in Groups, NEW d \in Kinds
          PROVE  Listed(n[g][d]) =
                   Listed(acc[g][d]) \cup
                     IF g = acc.group /\ d = x.directive THEN {x.value} ELSE {}
      <4> DEFINE q == acc[g][d]
                 v == x.value
      <4>1. q \in Seq(Pat)
        <5>1. acc["ours"] \in RulesOn /\ acc["wild"] \in RulesOn
          BY <1>6 DEF Parsed
        <5>2. acc[g] \in RulesOn
          BY <5>1 DEF Groups
        <5>3. acc[g]["allow"] \in Seq(Pat) /\ acc[g]["disallow"] \in Seq(Pat)
          BY <5>2 DEF RulesOn
        <5> QED BY <5>3 DEF Kinds
      <4>2. v \in Pat
        BY <2>0
      <4>3. n[g][d] = IF g = acc.group /\ d = x.directive THEN Append(q, v) ELSE q
        BY <3>1
      <4> HIDE DEF q, v
      <4>4. Listed(Append(q, v)) = Listed(q) \cup {v}
        BY <4>1, <4>2, ListedAppend
      <4> QED BY <4>3, <4>4 DEF q, v
    <3>3. (acc.group = "ours" <=> last = "ours") /\ (acc.group = "wild" <=> last = "*")
      BY <1>6 DEF GroupOf
    <3>4. \A d \in Kinds : /\ Listed(n["ours"][d]) = RulesAt(t, "ours", d)
                           /\ Listed(n["wild"][d]) = RulesAt(t, "*", d)
      <4> TAKE d \in Kinds
      <4>1. /\ RulesAt(t, "ours", d) = RulesAt(s, "ours", d) \cup
                 IF x.directive = d /\ x.value # EmptyPattern /\ last = "ours" THEN {x.value} ELSE {}
            /\ RulesAt(t, "*", d) = RulesAt(s, "*", d) \cup
                 IF x.directive = d /\ x.value # EmptyPattern /\ last = "*" THEN {x.value} ELSE {}
        BY <1>2 DEF RulesGrow
      <4>2. "ours" \in Groups /\ "wild" \in Groups
        BY DEF Groups
      <4>3. /\ Listed(n["ours"][d]) = Listed(acc["ours"][d]) \cup
                 IF "ours" = acc.group /\ d = x.directive THEN {x.value} ELSE {}
            /\ Listed(n["wild"][d]) = Listed(acc["wild"][d]) \cup
                 IF "wild" = acc.group /\ d = x.directive THEN {x.value} ELSE {}
        BY <3>2, <4>2
      <4>4. Listed(acc["ours"][d]) = RulesAt(s, "ours", d) /\ Listed(acc["wild"][d]) = RulesAt(s, "*", d)
        BY DEF ReadAs
      <4> QED BY <2>4, <3>3, <4>1, <4>3, <4>4
    <3>5. ReadAs(t, n)
      BY <1>6, <2>1, <2>2, <3>1, <3>4 DEF ReadAs
    <3> QED BY <3>5 DEF t, n
  <2> QED BY <2>3, <2>4
<1> QED BY <1>7, <1>8 DEF LineOf

(***************************************************************************)
(* The rule that wins: the longest that matches, allow on a tie.           *)
(***************************************************************************)
LEMMA PatternLenNat == \A p \in Pat : PatternLen(p) \in Nat
<1> SUFFICES ASSUME NEW p \in Pat PROVE PatternLen(p) \in Nat
  OBVIOUS
<1> DEFINE c == p.chars
<1>1. c \in Seq(STRING)
  BY DEF Pat
<1> HIDE DEF c
<1>2. Len(c) \in Nat /\ Len(c) + 1 \in Nat
  BY <1>1
<1>3. PatternLen(p) = IF p.anchored THEN Len(c) + 1 ELSE Len(c) + 0
  BY DEF PatternLen, c
<1>4. CASE p.anchored
  BY <1>2, <1>3, <1>4
<1>5. CASE ~p.anchored
  BY <1>2, <1>3, <1>5
<1> QED BY <1>4, <1>5

LEMMA ListedLen ==
  ASSUME NEW rs \in Seq(Pat)
  PROVE  \A p \in Listed(rs) : PatternLen(p) \in Nat
BY PatternLenNat DEF Listed

\* The lengths of the rules that match.
LengthsOf(path, rs, n) ==
  {-1} \cup {PatternLen(rs[i]) : i \in {j \in 1..n : RobotsPatternMatch(path, rs[j])}}

\* By induction over the rules, Best is the largest of these lengths.
LEMMA BestIs ==
  ASSUME NEW path, NEW rs \in Seq(Pat)
  PROVE  LET T == LengthsOf(path, rs, Len(rs))
         IN  Best(path, rs) \in T /\ \A y \in T : Best(path, rs) >= y
<1> DEFINE L(n) == LengthsOf(path, rs, n)
           S == {n \in Nat : n <= Len(rs) => \E x \in L(n) : \A y \in L(n) : x >= y}
<1>0. Len(rs) \in Nat /\ \A i \in 1..Len(rs) : PatternLen(rs[i]) \in Nat
  BY PatternLenNat
<1>1. 0 \in S
  <2>1. L(0) = {-1}
    BY DEF LengthsOf
  <2> QED BY <2>1
<1>2. ASSUME NEW n \in S PROVE n + 1 \in S
  <2> SUFFICES ASSUME n + 1 <= Len(rs)
               PROVE  \E x \in L(n + 1) : \A y \in L(n + 1) : x >= y
    OBVIOUS
  <2> DEFINE k == n + 1
             new == PatternLen(rs[k])
  <2>1. k \in 1..Len(rs) /\ 1..k = 1..n \cup {k} /\ n <= Len(rs)
    BY <1>0
  <2>2. PICK x \in L(n) : \A y \in L(n) : x >= y
    BY <2>1
  <2>3. new \in Nat
    BY <1>0, <2>1
  <2>4. L(n) \subseteq Int
    BY <1>0, <2>1 DEF LengthsOf
  <2> HIDE DEF k
  <2>5. L(k) = L(n) \cup IF RobotsPatternMatch(path, rs[k]) THEN {new} ELSE {}
    BY <2>1 DEF LengthsOf
  <2> HIDE DEF L, new
  <2>6. \E z \in L(k) : \A y \in L(k) : z >= y
    <3>1. CASE RobotsPatternMatch(path, rs[k]) /\ new >= x
      <4>1. \A y \in L(k) : new >= y
        BY <2>2, <2>3, <2>4, <2>5, <3>1
      <4> QED BY <2>5, <3>1, <4>1
    <3>2. CASE ~(RobotsPatternMatch(path, rs[k]) /\ new >= x)
      <4>1. \A y \in L(k) : x >= y
        BY <2>2, <2>3, <2>4, <2>5, <3>2
      <4> QED BY <2>2, <2>5, <4>1
    <3> QED BY <3>1, <3>2
  <2> QED BY <2>6 DEF k
<1> HIDE DEF S
<1>3. S \in SUBSET Nat
  BY DEF S
<1>4. S = Nat
  BY <1>1, <1>2, <1>3, NatInduct
<1>5. PICK x \in L(Len(rs)) : \A y \in L(Len(rs)) : x >= y
  BY <1>0, <1>4 DEF S
<1>6. Best(path, rs) = Max(L(Len(rs)))
  BY DEF Best, LengthsOf
<1> HIDE DEF L
<1> QED BY <1>5, <1>6 DEF Max, L

\* The order of the rules does not matter.
LengthsAreListed(path, rs) ==
  LengthsOf(path, rs, Len(rs)) =
    {-1} \cup {PatternLen(p) : p \in {q \in Listed(rs) : RobotsPatternMatch(path, q)}}

LEMMA LengthsListed ==
  ASSUME NEW path, NEW rs
  PROVE  LengthsAreListed(path, rs)
<1> DEFINE H == {j \in 1..Len(rs) : RobotsPatternMatch(path, rs[j])}
           Q == {q \in Listed(rs) : RobotsPatternMatch(path, q)}
           U == {PatternLen(rs[i]) : i \in H}
           V == {PatternLen(p) : p \in Q}
<1>1. \A i \in H : rs[i] \in Q
  BY DEF Listed
<1>2. \A q \in Q : \E i \in H : q = rs[i]
  BY DEF Listed
<1>3. LengthsOf(path, rs, Len(rs)) = {-1} \cup U
  BY DEF LengthsOf
<1> HIDE DEF H, Q
<1>4. U = V
  BY <1>1, <1>2
<1> QED BY <1>3, <1>4 DEF LengthsAreListed, Q

\* The longest of the rules A and D that match is one of A's.
AllowedBy(path, A, D) ==
  \A d \in D : RobotsPatternMatch(path, d) =>
    \E a \in A : RobotsPatternMatch(path, a) /\ PatternLen(a) >= PatternLen(d)

\* The comparison of the two longest says just that.
LEMMA AllowedIs ==
  ASSUME NEW path, path # <<>>, NEW al \in Seq(Pat), NEW dl \in Seq(Pat),
         NEW rules, rules.allow = al, rules.disallow = dl
  PROVE  IsAllowed(path, rules) <=> AllowedBy(path, Listed(al), Listed(dl))
<1> DEFINE A == LengthsOf(path, al, Len(al))
           D == LengthsOf(path, dl, Len(dl))
           a == Best(path, al)
           d == Best(path, dl)
           Hit(p) == RobotsPatternMatch(path, p)
<1>1. a \in A /\ \A y \in A : a >= y
  BY BestIs
<1>2. d \in D /\ \A y \in D : d >= y
  BY BestIs
<1>3. A = {-1} \cup {PatternLen(p) : p \in {q \in Listed(al) : Hit(q)}}
  BY LengthsListed DEF LengthsAreListed
<1>4. D = {-1} \cup {PatternLen(p) : p \in {q \in Listed(dl) : Hit(q)}}
  BY LengthsListed DEF LengthsAreListed
<1>5. /\ \A p \in Listed(al) : PatternLen(p) \in Nat
      /\ \A p \in Listed(dl) : PatternLen(p) \in Nat
  BY ListedLen
<1>6. IsAllowed(path, rules) <=> a >= d
  BY DEF IsAllowed
<1> HIDE DEF A, D, a, d, Hit
<1>7. a \in Int /\ d \in Int
  BY <1>1, <1>2, <1>3, <1>4, <1>5
<1>8. ASSUME a >= d, NEW p \in Listed(dl), Hit(p)
      PROVE  \E q \in Listed(al) : Hit(q) /\ PatternLen(q) >= PatternLen(p)
  <2>1. d >= PatternLen(p) /\ PatternLen(p) \in Nat
    BY <1>2, <1>4, <1>5, <1>8
  <2>2. a >= PatternLen(p) /\ a # -1
    BY <1>7, <1>8, <2>1
  <2>3. PICK q \in Listed(al) : Hit(q) /\ PatternLen(q) = a
    BY <1>1, <1>3, <2>2
  <2> QED BY <2>2, <2>3
<1>9. ASSUME \A p \in Listed(dl) : Hit(p) =>
               \E q \in Listed(al) : Hit(q) /\ PatternLen(q) >= PatternLen(p)
      PROVE  a >= d
  <2>1. CASE d = -1
    BY <1>1, <1>3, <2>1
  <2>2. CASE d # -1
    <3>1. PICK p \in Listed(dl) : Hit(p) /\ PatternLen(p) = d
      BY <1>2, <1>4, <2>2
    <3>2. PICK q \in Listed(al) : Hit(q) /\ PatternLen(q) >= d
      BY <1>9, <3>1
    <3>3. a >= PatternLen(q) /\ PatternLen(q) \in Nat
      BY <1>1, <1>3, <1>5, <3>2
    <3> QED BY <1>7, <3>2, <3>3
  <2> QED BY <2>1, <2>2
<1> QED BY <1>6, <1>8, <1>9 DEF AllowedBy, Hit

(***************************************************************************)
(* The lines of a robots.txt as they are read.                         *)
(***************************************************************************)
\* The inductive invariant: what is parsed of the lines is what they say.
RobotsRead == lines \in Seq(LineOf) /\ ReadAs(lines, ParseLines(lines))

LEMMA RobotsReadStep == RobotsRead /\ [AlgorithmsNext]_allVars => RobotsRead'
<1> SUFFICES ASSUME RobotsRead, [AlgorithmsNext]_allVars PROVE RobotsRead'
  OBVIOUS
<1>1. CASE GrowRobots
  <2>1. PICK x \in LineOf : lines' = Append(lines, x)
    <3>1. CASE \E agent \in {"ours", "*", "other"} :
                 lines' = Append(lines, [directive |-> "user-agent", value |-> agent])
      <4>1. PICK agent \in {"ours", "*", "other"} :
              lines' = Append(lines, [directive |-> "user-agent", value |-> agent])
        BY <3>1
      <4>2. [directive |-> "user-agent", value |-> agent] \in LineOf
        BY DEF LineOf, AgentLine
      <4> QED BY <4>1, <4>2
    <3>2. CASE \E d \in {"allow", "disallow"}, p \in Patterns :
                 lines' = Append(lines, [directive |-> d, value |-> p])
      <4>1. PICK d \in {"allow", "disallow"}, p \in Patterns :
              lines' = Append(lines, [directive |-> d, value |-> p])
        BY <3>2
      <4>2. d \in Kinds /\ p \in Pat
        BY RobotsAssumption DEF Kinds, Pat
      <4>3. [directive |-> d, value |-> p] \in LineOf
        BY <4>2 DEF LineOf, RuleLine
      <4> QED BY <4>1, <4>3
    <3> QED BY <1>1, <3>1, <3>2 DEF GrowRobots
  <2>2. lines' \in Seq(LineOf)
    BY <2>1 DEF RobotsRead
  <2>3. ParseLines(lines') = ParseLine(ParseLines(lines), x)
    BY <2>1, ParseAppend DEF RobotsRead
  <2>4. ReadAs(lines', ParseLines(lines'))
    BY <2>1, <2>3, ReadAppend DEF RobotsRead
  <2> QED BY <2>2, <2>4 DEF RobotsRead
<1>2. CASE UNCHANGED lines
  BY <1>2 DEF RobotsRead
<1> QED BY <1>1, <1>2 DEF AlgorithmsNext, GrowHistory, GrowStream, GrowSearch, allVars

LEMMA RobotsReadInit == AlgorithmsInit => RobotsRead
<1> SUFFICES ASSUME AlgorithmsInit PROVE RobotsRead
  OBVIOUS
<1>1. lines = <<>>
  BY DEF AlgorithmsInit
<1> QED BY <1>1, ReadNone DEF RobotsRead

\* The rules s has in force: the bot's own if it is named anywhere, else
\* everybody's.
Us(s) == IF \E i \in 1..Len(s) : AgentAt(s, i) = "ours" THEN "ours" ELSE "*"

\* What is parsed allows what the lines allow.
LEMMA ParsedAllows ==
  ASSUME NEW path, path # <<>>, NEW s, ReadAs(s, ParseLines(s))
  PROVE  IsAllowed(path, ParseRobotsTxt(s)) <=>
           AllowedBy(path, RulesAt(s, Us(s), "allow"), RulesAt(s, Us(s), "disallow"))
<1> DEFINE acc == ParseLines(s)
           rules == IF acc.foundOurs THEN acc.ours ELSE acc.wild
           al == rules.allow
           dl == rules.disallow
<1>1. acc \in Parsed /\ ReadAs(s, acc) /\ ParseRobotsTxt(s) = rules
  BY DEF ReadAs, ParseRobotsTxt
<1> HIDE DEF acc
<1>2. rules \in RulesOn
  BY <1>1 DEF Parsed
<1>3. al \in Seq(Pat) /\ dl \in Seq(Pat)
  <2> HIDE DEF rules
  <2> QED BY <1>2 DEF RulesOn
<1>4. Listed(al) = RulesAt(s, Us(s), "allow") /\ Listed(dl) = RulesAt(s, Us(s), "disallow")
  <2>0. "allow" \in Kinds /\ "disallow" \in Kinds
    BY DEF Kinds
  <2>1. CASE acc.foundOurs
    <3>1. al = acc["ours"]["allow"] /\ dl = acc["ours"]["disallow"] /\ Us(s) = "ours"
      BY <1>1, <2>1 DEF ReadAs, Us
    <3> QED BY <1>1, <2>0, <3>1 DEF ReadAs
  <2>2. CASE ~acc.foundOurs
    <3>1. al = acc["wild"]["allow"] /\ dl = acc["wild"]["disallow"] /\ Us(s) = "*"
      BY <1>1, <2>2 DEF ReadAs, Us
    <3> QED BY <1>1, <2>0, <3>1 DEF ReadAs
  <2> QED BY <2>1, <2>2
<1>5. rules.allow = al /\ rules.disallow = dl
  OBVIOUS
<1> HIDE DEF rules, al, dl
<1>6. IsAllowed(path, rules) <=> AllowedBy(path, Listed(al), Listed(dl))
  BY <1>3, <1>5, AllowedIs
<1> QED BY <1>1, <1>4, <1>6

\* The invariant gives the property.
LEMMA RobotsDecided == RobotsRead => RobotsDecides
<1> SUFFICES ASSUME RobotsRead, NEW path \in Paths
    PROVE /\ \A p \in AllPatterns :
               IF MayMiss(p)
               THEN RobotsPatternMatch(path, p) => Matches(path, p)
               ELSE RobotsPatternMatch(path, p) <=> Matches(path, p)
          /\ (\A i \in 1..Len(lines) :
                lines[i].directive # "user-agent" => ~MayMiss(lines[i].value)) =>
               (IsAllowed(path, ParseRobotsTxt(lines)) <=>
                  \A d \in RuleLines("disallow", path) :
                    \E a \in RuleLines("allow", path) :
                      PatternLen(lines[a].value) >= PatternLen(lines[d].value))
  BY DEF RobotsDecides
<1>1. path \in Seq(STRING) /\ path # <<>>
  BY RobotsAssumption
<1>2. ASSUME NEW p \in AllPatterns
      PROVE  IF MayMiss(p)
             THEN RobotsPatternMatch(path, p) => Matches(path, p)
             ELSE RobotsPatternMatch(path, p) <=> Matches(path, p)
  <2> DEFINE C == {"/", "a", "*"}
             U == UNION {[1..n -> C] : n \in 0..4}
  <2>1. p \in [chars : U, anchored : BOOLEAN]
    BY DEF AllPatterns
  <2>2. U \subseteq Seq(C)
    <3>1. ASSUME NEW n \in 0..4, NEW f \in [1..n -> C] PROVE f \in Seq(C)
      BY n \in Nat, SeqDef
    <3> QED BY <3>1
  <2> HIDE DEF U, C
  <2>3. p \in [chars : Seq(C), anchored : BOOLEAN]
    BY <2>1, <2>2
  <2> QED BY <1>1, <2>3, MatcherIs
<1>3. ASSUME \A i \in 1..Len(lines) :
               lines[i].directive # "user-agent" => ~MayMiss(lines[i].value)
      PROVE  IsAllowed(path, ParseRobotsTxt(lines)) <=>
               \A d \in RuleLines("disallow", path) :
                 \E a \in RuleLines("allow", path) :
                   PatternLen(lines[a].value) >= PatternLen(lines[d].value)
  <2> DEFINE us == Us(lines)
             Rule(k, i) == /\ i \in 1..Len(lines) /\ lines[i].directive = k
                           /\ lines[i].value # EmptyPattern /\ AgentAt(lines, i) = us
  <2>1. \A i \in 1..Len(lines) : AgentOf(i) = AgentAt(lines, i)
    BY DEF AgentOf, AgentAt
  <2>2. \A k, i : i \in RuleLines(k, path) <=> Rule(k, i) /\ Matches(path, lines[i].value)
    BY <2>1 DEF RuleLines, Us
  <2>3. \A k, v : v \in RulesAt(lines, us, k) <=> \E i : Rule(k, i) /\ v = lines[i].value
    BY DEF RulesAt
  <2>4. ASSUME NEW k \in Kinds, NEW i, Rule(k, i)
        PROVE  RobotsPatternMatch(path, lines[i].value) <=> Matches(path, lines[i].value)
    <3> DEFINE v == lines[i].value
    <3>1. lines[i] \in LineOf /\ lines[i].directive # "user-agent"
      BY <2>4 DEF RobotsRead, Kinds
    <3>2. lines[i] \in RuleLine
      BY <3>1 DEF LineOf, AgentLine
    <3>3. v \in [chars : Seq(STRING), anchored : BOOLEAN]
      BY <3>2 DEF RuleLine, Pat
    <3>4. ~MayMiss(v)
      BY <1>3, <2>4, <3>1
    <3> HIDE DEF v
    <3>5. RobotsPatternMatch(path, v) <=> Matches(path, v)
      BY <1>1, <3>3, <3>4, MatcherIs
    <3> QED BY <3>5 DEF v
  <2>5. IsAllowed(path, ParseRobotsTxt(lines)) <=>
          AllowedBy(path, RulesAt(lines, us, "allow"), RulesAt(lines, us, "disallow"))
    BY <1>1, ParsedAllows DEF RobotsRead
  <2>6. "allow" \in Kinds /\ "disallow" \in Kinds
    BY DEF Kinds
  <2> HIDE DEF us, Rule
  <2>7. ASSUME AllowedBy(path, RulesAt(lines, us, "allow"), RulesAt(lines, us, "disallow")),
               NEW d \in RuleLines("disallow", path)
        PROVE  \E a \in RuleLines("allow", path) :
                 PatternLen(lines[a].value) >= PatternLen(lines[d].value)
    <3>1. Rule("disallow", d) /\ RobotsPatternMatch(path, lines[d].value)
      BY <2>2, <2>4, <2>6
    <3>2. PICK v \in RulesAt(lines, us, "allow") :
            RobotsPatternMatch(path, v) /\ PatternLen(v) >= PatternLen(lines[d].value)
      BY <2>3, <2>7, <3>1 DEF AllowedBy
    <3>3. PICK a : Rule("allow", a) /\ v = lines[a].value
      BY <2>3
    <3>4. a \in RuleLines("allow", path)
      BY <2>2, <2>4, <2>6, <3>2, <3>3
    <3> QED BY <3>2, <3>3, <3>4
  <2>8. ASSUME \A d \in RuleLines("disallow", path) :
                 \E a \in RuleLines("allow", path) :
                   PatternLen(lines[a].value) >= PatternLen(lines[d].value),
               NEW v \in RulesAt(lines, us, "disallow"), RobotsPatternMatch(path, v)
        PROVE  \E w \in RulesAt(lines, us, "allow") :
                 RobotsPatternMatch(path, w) /\ PatternLen(w) >= PatternLen(v)
    <3>1. PICK d : Rule("disallow", d) /\ v = lines[d].value
      BY <2>3
    <3>2. d \in RuleLines("disallow", path)
      BY <2>2, <2>4, <2>6, <2>8, <3>1
    <3>3. PICK a \in RuleLines("allow", path) :
            PatternLen(lines[a].value) >= PatternLen(lines[d].value)
      BY <2>8, <3>2
    <3>4. Rule("allow", a) /\ RobotsPatternMatch(path, lines[a].value)
      BY <2>2, <2>4, <2>6
    <3>5. lines[a].value \in RulesAt(lines, us, "allow")
      BY <2>3, <3>4
    <3> QED BY <3>1, <3>3, <3>4, <3>5
  <2> QED BY <2>5, <2>7, <2>8 DEF AllowedBy
<1> QED BY <1>2, <1>3

(***************************************************************************)
(* For every robots.txt, every path and every rule, the tools read a path  *)
(* exactly when the rules for them, or else everybody's, say so; the       *)
(* matcher of the code matches what some choice of the wildcards does,     *)
(* short of anchored patterns with a wildcard, of which it may only miss   *)
(* some (tools/robots.go).                                                 *)
(***************************************************************************)
THEOREM RobotsAreObeyed == AlgorithmsSpec => []RobotsDecides
<1>1. AlgorithmsInit => RobotsRead
  BY RobotsReadInit
<1>2. RobotsRead /\ [AlgorithmsNext]_allVars => RobotsRead'
  BY RobotsReadStep
<1>3. RobotsRead => RobotsDecides
  BY RobotsDecided
<1> QED BY <1>1, <1>2, <1>3, PTL DEF AlgorithmsSpec

-----------------------------------------------------------------------------
USE HistoryAssumption

\* A part of a history in order is a history in order, of the same rows.
LEMMA PartChronological ==
  ASSUME NEW h \in Seq(Row), Chronological(h),
         NEW i \in 1..(Len(h) + 1), NEW n \in 0..Len(h)
  PROVE  SubSeq(h, i, n) \in Seq(Row) /\ Chronological(SubSeq(h, i, n))
<1> DEFINE p == SubSeq(h, i, n)
<1>1. /\ p \in Seq(Row)
      /\ \A k \in 1..Len(p) : p[k] = h[k + i - 1] /\ k + i - 1 \in 1..Len(h)
  BY Part
<1>2. Len(p) \in Nat /\ Len(h) \in Nat
  BY <1>1, LenProperties
<1>3. Chronological(p)
  <2> SUFFICES ASSUME NEW j \in 1..Len(p), NEW k \in 1..Len(p), j < k,
                      NEW m \in p[j].ids, NEW q \in p[k].ids
               PROVE  m < q
    BY DEF Chronological
  <2>1. j + i - 1 < k + i - 1
    BY <1>2
  <2> HIDE DEF p
  <2> QED BY <1>1, <2>1 DEF Chronological
<1> QED BY <1>1, <1>3

LEMMA EmptyChronological == <<>> \in Seq(Row) /\ Chronological(<<>>)
BY EmptySeq DEF Chronological

\* Trimming drops a prefix.
LEMMA TrimmedOK ==
  ASSUME NEW h \in Seq(Row), Chronological(h)
  PROVE  Trimmed(h) \in Seq(Row) /\ Chronological(Trimmed(h))
<1> DEFINE budget == TrimBudget(SysTokens)
<1>1. WalkBack(h, budget) \in 1..(Len(h) + 1) /\ Len(h) \in Nat
  BY WalkBackRange, LenProperties
<1>2. From(h, WalkBack(h, budget)) \in Seq(Row) /\ Chronological(From(h, WalkBack(h, budget)))
  BY <1>1, PartChronological DEF From
<1>3. Trimmed(h) = <<>> \/ Trimmed(h) = From(h, WalkBack(h, budget))
  BY DEF Trimmed, TrimHistory
<1> QED BY <1>2, <1>3, EmptyChronological

\* GetMessages returns the end of the table.
LEMMA LoadedPart ==
  ASSUME memory \in Seq(Row)
  PROVE  \E i \in 1..(Len(memory) + 1) : Loaded = SubSeq(memory, i, Len(memory))
<1> DEFINE first == Len(memory) - HistoryLimit + 1
<1>1. Len(memory) \in Nat
  BY LenProperties
<1>2. (IF first < 1 THEN 1 ELSE first) \in 1..(Len(memory) + 1)
  BY <1>1
<1> QED BY <1>2 DEF Loaded, From

\* From the latest summary on, every row after the first is a turn, so that
\* the rows stand for themselves, and the first for what is older.
LEMMA ActiveOK ==
  ASSUME memory \in Seq(Row), ToldOK
  PROVE  LET h == ActiveContext(Loaded)
         IN  /\ h \in Seq(Row)
             /\ Chronological(h)
             /\ \A k \in 1..Len(h) : h[k].ids \subseteq 1..Len(memory)
<1> DEFINE l == Loaded
           a == ActiveStart(l)
           h == ActiveContext(l)
<1>1. PICK i \in 1..(Len(memory) + 1) : l = SubSeq(memory, i, Len(memory))
  BY LoadedPart
<1>2. Len(memory) \in Nat
  BY LenProperties
<1>3. /\ l \in Seq(Row)
      /\ \A k \in 1..Len(l) : l[k] = memory[k + i - 1] /\ k + i - 1 \in 1..Len(memory)
  BY <1>1, <1>2, Part
<1>4. Len(l) \in Nat
  BY <1>3, LenProperties
<1> HIDE DEF l
<1>5. /\ a \in 1..(Len(l) + 1)
      /\ \A k \in 1..Len(l) : k > a => l[k].source # "summary"
  BY <1>3, ActiveStartRange
<1>6. h = SubSeq(l, a, Len(l))
  BY DEF ActiveContext, From
<1> HIDE DEF a
<1>7. /\ h \in Seq(Row)
      /\ \A k \in 1..Len(h) : h[k] = l[k + a - 1] /\ k + a - 1 \in 1..Len(l)
  <2> DEFINE p == SubSeq(l, a, Len(l))
  <2>1. a \in 1..(Len(l) + 1) /\ Len(l) \in 0..Len(l) /\ l \in Seq(Row)
    BY <1>3, <1>4, <1>5
  <2>2. /\ p \in Seq(Row)
        /\ \A k \in 1..Len(p) : p[k] = l[k + a - 1] /\ k + a - 1 \in 1..Len(l)
    BY <2>1, Part
  <2> HIDE DEF p, h
  <2>3. h = p
    BY <1>6 DEF p
  <2> QED BY <2>2, <2>3
<1>8. Len(h) \in Nat
  BY <1>7, LenProperties
<1> HIDE DEF h
<1> DEFINE row(k) == k + a - 1 + i - 1
<1>9. ASSUME NEW k \in 1..Len(h)
      PROVE  /\ row(k) \in 1..Len(memory) /\ h[k] = memory[row(k)]
             /\ h[k] \in Row
             /\ k > 1 => h[k].ids = {row(k)}
             /\ h[k].ids \subseteq 1..row(k)
  <2>1. h[k] = l[k + a - 1] /\ k + a - 1 \in 1..Len(l)
    BY <1>7
  <2>2. l[k + a - 1] = memory[row(k)] /\ row(k) \in 1..Len(memory)
    BY <1>3, <2>1
  <2>3. h[k] \in Row
    BY <1>7, <1>8, ElementOfSeq
  <2>4. k > 1 => h[k].source # "summary"
    BY <1>4, <1>5, <2>1
  <2>5. h[k].source \in {"turn", "summary"}
    BY <2>3 DEF Row
  <2>6. h[k].source = "turn" => h[k].ids = {row(k)}
    BY <2>1, <2>2 DEF ToldOK
  <2>7. h[k].source # "turn" => h[k].ids \subseteq 1..(row(k) - 1)
    BY <2>1, <2>2 DEF ToldOK
  <2>8. k > 1 => h[k].ids = {row(k)}
    BY <2>4, <2>5, <2>6
  <2>9. row(k) \in Nat /\ row(k) >= 1
    BY <1>2, <2>2
  <2>10. h[k].ids \subseteq 1..row(k)
    <3> HIDE DEF row
    <3> QED BY <2>6, <2>7, <2>9
  <2> QED BY <2>1, <2>2, <2>3, <2>8, <2>10
<1>10. Chronological(h)
  <2> SUFFICES ASSUME NEW j \in 1..Len(h), NEW k \in 1..Len(h), j < k,
                      NEW m \in h[j].ids, NEW q \in h[k].ids
               PROVE  m < q
    BY DEF Chronological
  <2>1. q = row(k) /\ m \in 1..row(j)
    <3>1. k > 1
      BY <1>8
    <3> HIDE DEF row
    <3> QED BY <1>9, <3>1
  <2>2. row(j) \in Int /\ row(k) \in Int /\ row(j) < row(k)
    <3>1. j \in Int /\ k \in Int /\ a \in Int /\ i \in Int
      BY <1>2, <1>4, <1>5, <1>8
    <3> QED BY <3>1
  <2> HIDE DEF row
  <2> QED BY <2>1, <2>2
<1>11. \A k \in 1..Len(h) : h[k].ids \subseteq 1..Len(memory)
  BY <1>2, <1>9
<1> QED BY <1>7, <1>10, <1>11 DEF h, l

\* The summary of the old part is a row, and stands before the recent part.
LEMMA CompactedOK ==
  ASSUME NEW h \in Seq(Row), Chronological(h),
         \A k \in 1..Len(h) : h[k].ids \subseteq 1..Len(memory)
  PROVE  LET s == Summary(OldPart(h))
         IN  /\ s \in Row /\ s.source = "summary" /\ s.chat = NoChat
             /\ s.ids \subseteq 1..Len(memory)
             /\ Compacted(h) \in Seq(Row)
             /\ Chronological(Compacted(h))
<1> DEFINE split  == SplitIndex(h)
           old    == OldPart(h)
           recent == RecentPart(h)
           s      == Summary(old)
<1>1. split \in 1..(Len(h) + 1) /\ Len(h) \in Nat
  BY WalkBackRange, LenProperties DEF SplitIndex
<1>2. /\ old \in Seq(Row) /\ Len(old) = split - 1
      /\ \A k \in 1..Len(old) : old[k] = h[k]
  <2>1. old = SubSeq(h, 1, split - 1)
    BY DEF OldPart
  <2>2. 1 \in 1..(Len(h) + 1) /\ split - 1 \in 0..Len(h)
    BY <1>1
  <2> HIDE DEF split, old
  <2> QED BY <1>1, <2>1, <2>2, Part
<1>3. /\ recent \in Seq(Row)
      /\ Len(recent) = Len(h) - split + 1
      /\ \A k \in 1..Len(recent) : recent[k] = h[k + split - 1]
  <2>1. recent = SubSeq(h, split, Len(h))
    BY DEF RecentPart, From
  <2>2. Len(h) \in 0..Len(h)
    BY <1>1
  <2> HIDE DEF split, recent
  <2> QED BY <1>1, <2>1, <2>2, Part
<1> HIDE DEF split, old, recent
<1>4. s.ids = UNION {old[i].ids : i \in 1..Len(old)}
  BY DEF Summary, Told
<1>5. \A m \in s.ids : \E k \in 1..(split - 1) : m \in h[k].ids
  BY <1>1, <1>2, <1>4
<1>6. s.ids \subseteq 1..Len(memory)
  BY <1>1, <1>5
<1>7. s \in Row /\ s.source = "summary" /\ s.chat = NoChat
  BY <1>6 DEF Summary, Row
<1> HIDE DEF s
<1>8. Compacted(h) = <<s>> \o recent
  BY DEF Compacted, s, old, recent
<1> DEFINE r == <<s>> \o recent
<1>9. /\ r \in Seq(Row) /\ Len(r) = 1 + Len(recent)
      /\ \A i \in 1..Len(r) : r[i] = IF i = 1 THEN s ELSE recent[i - 1]
  <2>1. <<s>> \in Seq(Row) /\ Len(<<s>>) = 1 /\ <<s>>[1] = s
    BY <1>7
  <2>2. Len(recent) \in Nat
    BY <1>3, LenProperties
  <2> QED BY <1>3, <2>1, <2>2, ConcatProperties
<1>10. Chronological(r)
  <2> SUFFICES ASSUME NEW i \in 1..Len(r), NEW j \in 1..Len(r), i < j,
                      NEW m \in r[i].ids, NEW n \in r[j].ids
               PROVE  m < n
    BY DEF Chronological
  <2> HIDE DEF r
  <2>1. Len(recent) \in Nat
    BY <1>3, LenProperties
  <2>2. /\ j - 1 \in 1..Len(recent) /\ r[j] = recent[j - 1]
        /\ r[j] = h[j - 1 + split - 1] /\ j - 1 + split - 1 \in 1..Len(h)
    <3>1. j \in Nat /\ j > 1 /\ j <= 1 + Len(recent)
      BY <1>9, <2>1
    <3>2. r[j] = recent[j - 1]
      BY <1>9, <3>1
    <3>3. j - 1 \in 1..Len(recent)
      BY <2>1, <3>1
    <3>4. recent[j - 1] = h[j - 1 + split - 1]
      BY <1>3, <3>3
    <3>5. j - 1 + split - 1 \in 1..Len(h)
      BY <1>1, <1>3, <3>1
    <3> QED BY <3>2, <3>3, <3>4, <3>5
  <2>3. CASE i = 1
    <3>1. PICK k \in 1..(split - 1) : m \in h[k].ids
      BY <1>5, <1>9, <2>3
    <3>2. k \in 1..Len(h) /\ k < j - 1 + split - 1
      <4>1. Len(r) \in Nat
        BY <1>9, LenProperties
      <4>2. j \in Nat /\ j > 1 /\ split \in Nat /\ Len(h) \in Nat
        BY <1>1, <2>3, <4>1
      <4> HIDE DEF r
      <4> QED BY <1>1, <4>2
    <3> QED BY <2>2, <3>1, <3>2 DEF Chronological
  <2>4. CASE i # 1
    <3>1. /\ r[i] = h[i - 1 + split - 1] /\ i - 1 + split - 1 \in 1..Len(h)
          /\ i - 1 + split - 1 < j - 1 + split - 1
      <4>1. i \in Nat /\ i > 1 /\ i <= 1 + Len(recent) /\ j \in Nat
        BY <1>9, <2>1, <2>4
      <4>2. r[i] = recent[i - 1]
        BY <1>9, <4>1
      <4>3. i - 1 \in 1..Len(recent)
        BY <2>1, <4>1
      <4>4. recent[i - 1] = h[i - 1 + split - 1]
        BY <1>3, <4>3
      <4>5. i - 1 + split - 1 \in 1..Len(h)
        BY <1>1, <1>3, <4>1
      <4>6. i - 1 + split - 1 < j - 1 + split - 1
        BY <1>1, <4>1
      <4> QED BY <4>2, <4>4, <4>5, <4>6
    <3> QED BY <2>2, <3>1 DEF Chronological
  <2> QED BY <2>3, <2>4
<1> QED BY <1>6, <1>7, <1>8, <1>9, <1>10 DEF s, old

-----------------------------------------------------------------------------
\* The stages before a call wrote a row, and the results that leave none.
Early == {"idle", "compact", "insert", "call", "saveUser", "paused"}

(***************************************************************************)
(* A step of one call that leaves memory alone: the call keeps a history   *)
(* in order, sends one in order, and comes no further than its rows say.   *)
(***************************************************************************)
LEMMA MoveStep ==
  ASSUME IInv, NEW c \in Chats, memory' = memory,
         NEW where \in Stages \cup Results,
         pc' = [pc EXCEPT ![c] = where],
         where # "saveAssistant",
         where \in Early => pc[c] \in Early,
         where = "failed" => pc[c] \in Early \cup {"saveAssistant"},
         where \in {"audit", "answered"} => pc[c] = "audit",
         NEW h \in Seq(Row), active' = [active EXCEPT ![c] = h],
         Chronological(h), \A k \in 1..Len(h) : h[k].ids \subseteq 1..Len(memory),
         NEW x \in Seq(Row), context' = [context EXCEPT ![c] = x],
         Chronological(x)
  PROVE  IInv'
<1>1. TypeOK'
  BY DEF IInv, TypeOK
<1>2. ToldOK'
  BY DEF IInv, ToldOK
<1>3. \A d \in Chats : /\ pc'[d] = IF d = c THEN where ELSE pc[d]
                       /\ active'[d] = IF d = c THEN h ELSE active[d]
                       /\ context'[d] = IF d = c THEN x ELSE context[d]
  BY DEF IInv, TypeOK
<1>4. LoadedOK'
  <2> SUFFICES ASSUME NEW d \in Chats
               PROVE  /\ Chronological(active'[d])
                      /\ \A k \in 1..Len(active'[d]) :
                           active'[d][k].ids \subseteq 1..Len(memory)
    BY DEF LoadedOK, Chronological
  <2>1. CASE d = c
    BY <1>3, <2>1
  <2>2. CASE d # c
    <3>1. active'[d] = active[d]
      BY <1>3, <2>2
    <3> QED BY <3>1 DEF IInv, LoadedOK
  <2> QED BY <2>1, <2>2
<1>5. ContextChronological'
  <2> SUFFICES ASSUME NEW d \in Chats PROVE Chronological(context'[d])
    BY DEF ContextChronological, Chronological
  <2> QED BY <1>3 DEF IInv, ContextChronological
<1>6. \A d \in Chats : RowsOf(d)' = RowsOf(d)
  BY DEF RowsOf
<1>7. SavedOK'
  <2> SUFFICES ASSUME NEW d \in Chats
               PROVE  /\ pc'[d] \in Early => RowsOf(d) = {}
                      /\ pc'[d] = "saveAssistant" =>
                           \E i \in 1..Len(memory) :
                             RowsOf(d) = {i} /\ memory[i].role = "user"
                      /\ pc'[d] = "failed" =>
                           \A i \in RowsOf(d) : memory[i].role = "user"
    BY <1>6 DEF SavedOK, Early
  <2> QED BY <1>3 DEF IInv, SavedOK, Early
<1>8. AnswerIsSaved'
  <2> SUFFICES ASSUME NEW d \in Chats, pc'[d] \in {"audit", "answered"}
               PROVE  \E i, j \in 1..Len(memory) :
                        /\ i < j /\ RowsOf(d) = {i, j}
                        /\ memory[i].role = "user" /\ memory[j].role = "assistant"
    BY <1>6 DEF AnswerIsSaved
  <2>1. pc[d] \in {"audit", "answered"}
    BY <1>3
  <2> QED BY <2>1 DEF IInv, AnswerIsSaved
<1> QED BY <1>1, <1>2, <1>4, <1>5, <1>7, <1>8 DEF IInv

\* A call that returns holds nothing any more.
LEMMA ReturnStep ==
  ASSUME IInv, NEW c \in Chats, memory' = memory, NEW result \in Results,
         Return(c, result),
         result = "paused" => pc[c] \in Early,
         result = "failed" => pc[c] \in Early \cup {"saveAssistant"},
         result = "answered" => pc[c] = "audit"
  PROVE  IInv'
<1>1. /\ pc' = [pc EXCEPT ![c] = result]
      /\ active' = [active EXCEPT ![c] = <<>>]
      /\ context' = [context EXCEPT ![c] = <<>>]
  BY DEF Return, Goto
<1>2. /\ result \in Stages \cup Results /\ result # "saveAssistant"
      /\ result \in Early => pc[c] \in Early
      /\ result \in {"audit", "answered"} => pc[c] = "audit"
  BY DEF Results, Early
<1>3. \A k \in 1..Len(<<>>) : <<>>[k].ids \subseteq 1..Len(memory)
  OBVIOUS
<1> QED BY <1>1, <1>2, <1>3, EmptyChronological, MoveStep

\* What a call holds as IInv describes it.
LEMMA Held ==
  ASSUME IInv, NEW c \in Chats
  PROVE  /\ active[c] \in Seq(Row) /\ Chronological(active[c])
         /\ \A k \in 1..Len(active[c]) : active[c][k].ids \subseteq 1..Len(memory)
         /\ context[c] \in Seq(Row) /\ Chronological(context[c])
         /\ active = [active EXCEPT ![c] = active[c]]
         /\ context = [context EXCEPT ![c] = context[c]]
BY DEF IInv, TypeOK, LoadedOK, ContextChronological

\* A row is appended: the other rows stay, and it is its chat's.
LEMMA AppendRow ==
  ASSUME memory \in Seq(Row), ToldOK, NEW row \in Row,
         memory' = Append(memory, row),
         IF row.source = "turn" THEN row.ids = {Len(memory) + 1}
                                ELSE row.ids \subseteq 1..Len(memory)
  PROVE  /\ memory' \in Seq(Row) /\ Len(memory) \in Nat
         /\ Len(memory') = Len(memory) + 1
         /\ memory'[Len(memory) + 1] = row
         /\ \A i \in 1..Len(memory) : memory'[i] = memory[i]
         /\ ToldOK'
         /\ \A d : RowsOf(d)' = IF row.chat = d THEN RowsOf(d) \cup {Len(memory) + 1}
                                               ELSE RowsOf(d)
<1>1. /\ memory' \in Seq(Row) /\ Len(memory) \in Nat
      /\ Len(memory') = Len(memory) + 1
      /\ memory'[Len(memory) + 1] = row
      /\ \A i \in 1..Len(memory) : memory'[i] = memory[i]
  BY LenProperties
<1>2. ToldOK'
  BY <1>1 DEF ToldOK
<1>3. \A d : RowsOf(d)' = IF row.chat = d THEN RowsOf(d) \cup {Len(memory) + 1}
                                         ELSE RowsOf(d)
  BY <1>1 DEF RowsOf
<1> QED BY <1>1, <1>2, <1>3

\* Appending keeps what was loaded and told of before.
LEMMA AppendKeeps ==
  ASSUME IInv, NEW row \in Row, memory' = Append(memory, row),
         IF row.source = "turn" THEN row.ids = {Len(memory) + 1}
                                ELSE row.ids \subseteq 1..Len(memory),
         active' = active
  PROVE  LoadedOK'
<1>1. Len(memory) \in Nat /\ Len(memory') = Len(memory) + 1
  BY AppendRow DEF IInv, TypeOK
<1> SUFFICES ASSUME NEW d \in Chats
             PROVE  /\ Chronological(active[d])
                    /\ \A k \in 1..Len(active[d]) :
                         active[d][k].ids \subseteq 1..Len(memory')
  BY DEF LoadedOK, Chronological
<1>2. /\ Chronological(active[d])
      /\ \A k \in 1..Len(active[d]) : active[d][k].ids \subseteq 1..Len(memory)
  BY DEF IInv, LoadedOK
<1>3. 1..Len(memory) \subseteq 1..Len(memory')
  BY <1>1
<1> QED BY <1>2, <1>3

\* What SavedOK and AnswerIsSaved say of one call.
Consistent(d) ==
  /\ pc[d] \in Early => RowsOf(d) = {}
  /\ pc[d] = "saveAssistant" =>
       \E i \in 1..Len(memory) : RowsOf(d) = {i} /\ memory[i].role = "user"
  /\ pc[d] = "failed" => \A i \in RowsOf(d) : memory[i].role = "user"
  /\ pc[d] \in {"audit", "answered"} =>
       \E i, j \in 1..Len(memory) :
         /\ i < j /\ RowsOf(d) = {i, j}
         /\ memory[i].role = "user" /\ memory[j].role = "assistant"

LEMMA AllConsistent ==
  /\ (\A d \in Chats : Consistent(d)) <=> (SavedOK /\ AnswerIsSaved)
  /\ (\A d \in Chats : Consistent(d)') <=> (SavedOK' /\ AnswerIsSaved')
<1>1. (\A d \in Chats : Consistent(d)) <=> (SavedOK /\ AnswerIsSaved)
  BY DEF Consistent, SavedOK, AnswerIsSaved, Early
<1>2. (\A d \in Chats : Consistent(d)') <=> (SavedOK' /\ AnswerIsSaved')
  BY SMTT(20) DEF Consistent, SavedOK, AnswerIsSaved, Early
<1> QED BY <1>1, <1>2

\* A call none of whose rows were added is as consistent as it was.
LEMMA RowsKept ==
  ASSUME IInv, NEW d \in Chats, RowsOf(d)' = RowsOf(d),
         \/ pc'[d] = pc[d]
         \/ pc[d] \in Early /\ pc'[d] \in Early,
         Len(memory) \in Nat, Len(memory') = Len(memory) + 1,
         \A i \in 1..Len(memory) : memory'[i] = memory[i]
  PROVE  Consistent(d)'
<1>1. Consistent(d)
  BY AllConsistent DEF IInv
<1>2. RowsOf(d) \subseteq 1..Len(memory) /\ 1..Len(memory) \subseteq 1..Len(memory')
  BY DEF RowsOf
<1>3. (pc[d] \in Early => RowsOf(d) = {})'
  BY <1>1 DEF Consistent
<1>4. ASSUME pc'[d] = "saveAssistant"
      PROVE  \E i \in 1..Len(memory') : RowsOf(d)' = {i} /\ memory'[i].role = "user"
  <2>1. PICK i \in 1..Len(memory) : RowsOf(d) = {i} /\ memory[i].role = "user"
    BY <1>1, <1>4 DEF Consistent, Early
  <2> QED BY <1>2, <2>1
<1>5. ASSUME pc'[d] = "failed"
      PROVE  \A i \in RowsOf(d)' : memory'[i].role = "user"
  BY <1>1, <1>2, <1>5 DEF Consistent, Early
<1>6. ASSUME pc'[d] \in {"audit", "answered"}
      PROVE  \E i, j \in 1..Len(memory') :
               /\ i < j /\ RowsOf(d)' = {i, j}
               /\ memory'[i].role = "user" /\ memory'[j].role = "assistant"
  <2>1. pc[d] \in {"audit", "answered"}
    BY <1>6 DEF Early
  <2>2. PICK i \in 1..Len(memory), j \in 1..Len(memory) :
               /\ i < j /\ RowsOf(d) = {i, j}
               /\ memory[i].role = "user" /\ memory[j].role = "assistant"
    BY <1>1, <2>1 DEF Consistent
  <2> QED BY <1>2, <2>2
<1> QED BY <1>3, <1>4, <1>5, <1>6 DEF Consistent

-----------------------------------------------------------------------------
LEMMA InitIInv == Init => IInv
<1> SUFFICES ASSUME Init PROVE IInv
  OBVIOUS
<1>1. TypeOK
  BY EmptySeq DEF Init, TypeOK, Stages
<1>2. \A c \in Chats : RowsOf(c) = {}
  BY DEF Init, RowsOf
<1> QED BY <1>1, <1>2 DEF Init, IInv, ToldOK, LoadedOK, SavedOK, AnswerIsSaved,
                         ContextChronological, Chronological

LEMMA LoadHistoryStep ==
  ASSUME IInv, NEW c \in Chats, LoadHistory(c)
  PROVE  IInv'
<1> DEFINE h == ActiveContext(Loaded)
<1>1. /\ h \in Seq(Row) /\ Chronological(h)
      /\ \A k \in 1..Len(h) : h[k].ids \subseteq 1..Len(memory)
  BY ActiveOK DEF IInv, TypeOK
<1>2. Trimmed(h) \in Seq(Row) /\ Chronological(Trimmed(h))
  BY <1>1, TrimmedOK
<1>3. /\ pc[c] = "idle" /\ memory' = memory
      /\ active' = [active EXCEPT ![c] = h]
      /\ \/ Goto(c, "compact") /\ UNCHANGED context
         \/ Send(c, Trimmed(h))
  BY DEF LoadHistory
<1> HIDE DEF h
<1>4. CASE Goto(c, "compact") /\ UNCHANGED context
  <2>1. /\ pc' = [pc EXCEPT ![c] = "compact"]
        /\ context' = [context EXCEPT ![c] = context[c]]
        /\ "compact" \in Stages \cup Results /\ pc[c] \in Early
    BY <1>3, <1>4, Held DEF Goto, Stages, Early
  <2> QED BY <1>1, <1>3, <2>1, Held, MoveStep
<1>5. CASE Send(c, Trimmed(h))
  <2>1. /\ pc' = [pc EXCEPT ![c] = "call"]
        /\ context' = [context EXCEPT ![c] = Trimmed(h)]
        /\ "call" \in Stages \cup Results /\ pc[c] \in Early
    BY <1>3, <1>5 DEF Send, Goto, Stages, Early
  <2> QED BY <1>1, <1>2, <1>3, <2>1, MoveStep
<1> QED BY <1>3, <1>4, <1>5

\* A call that only goes on, with the histories it holds.
LEMMA GoOn ==
  ASSUME IInv, NEW c \in Chats, memory' = memory, UNCHANGED <<active, context>>,
         pc[c] \in Early, NEW where \in {"insert", "saveUser"}, Goto(c, where)
  PROVE  IInv'
<1>1. /\ where \in Stages \cup Results /\ where # "saveAssistant"
      /\ where # "failed" /\ where \notin {"audit", "answered"}
      /\ pc' = [pc EXCEPT ![c] = where]
  BY DEF Stages, Goto
<1> QED BY <1>1, Held, MoveStep

\* A call that leaves for the model with a history in order.
LEMMA SendStep ==
  ASSUME IInv, NEW c \in Chats, memory' = memory, active' = active,
         pc[c] \in Early, NEW x \in Seq(Row), Chronological(x), Send(c, x)
  PROVE  IInv'
<1>1. /\ "call" \in Stages \cup Results
      /\ pc' = [pc EXCEPT ![c] = "call"]
      /\ context' = [context EXCEPT ![c] = x]
  BY DEF Stages, Goto, Send
<1> QED BY <1>1, Held, MoveStep

LEMMA InsertSummaryStep ==
  ASSUME IInv, NEW c \in Chats, InsertSummary(c)
  PROVE  IInv'
<1> DEFINE h == active[c]
           row == Summary(OldPart(h))
<1>1. /\ h \in Seq(Row) /\ Chronological(h)
      /\ \A k \in 1..Len(h) : h[k].ids \subseteq 1..Len(memory)
  BY Held
<1>2. /\ row \in Row /\ row.source = "summary" /\ row.chat = NoChat
      /\ row.ids \subseteq 1..Len(memory)
      /\ Compacted(h) \in Seq(Row) /\ Chronological(Compacted(h))
  BY <1>1, CompactedOK
<1>3. /\ pc[c] = "insert" /\ memory' = Append(memory, row)
      /\ pc' = [pc EXCEPT ![c] = "call"]
      /\ context' = [context EXCEPT ![c] = Compacted(h)]
      /\ active' = active
  BY DEF InsertSummary, Send, Goto
<1> HIDE DEF row, h
<1>4. memory \in Seq(Row) /\ ToldOK
  BY DEF IInv, TypeOK
<1>5. /\ memory' \in Seq(Row) /\ Len(memory) \in Nat
      /\ Len(memory') = Len(memory) + 1
      /\ \A i \in 1..Len(memory) : memory'[i] = memory[i]
      /\ ToldOK'
      /\ \A d \in Chats : RowsOf(d)' = RowsOf(d)
  BY <1>2, <1>3, <1>4, AppendRow
<1>6. TypeOK'
  BY <1>2, <1>3, <1>5 DEF IInv, TypeOK, Stages
<1>7. LoadedOK'
  BY <1>2, <1>3, AppendKeeps
<1>8. \A d \in Chats : /\ pc'[d] = IF d = c THEN "call" ELSE pc[d]
                       /\ context'[d] = IF d = c THEN Compacted(h) ELSE context[d]
  BY <1>3 DEF IInv, TypeOK
<1>9. ContextChronological'
  BY <1>2, <1>8 DEF IInv, ContextChronological, Chronological
<1>10. \A d \in Chats : Consistent(d)'
  BY <1>3, <1>5, <1>8, RowsKept DEF Early
<1> QED BY <1>5, <1>6, <1>7, <1>9, <1>10, AllConsistent DEF IInv

\* What a turn's message is, wherever it is written.
LEMMA TurnRowOK ==
  ASSUME NEW c \in Chats, NEW role \in {"user", "assistant"}, Len(memory) \in Nat
  PROVE  LET row == TurnRow(c, role)
         IN  /\ row \in Row /\ row.source = "turn" /\ row.chat = c
             /\ row.role = role /\ row.ids = {Len(memory) + 1}
BY DEF TurnRow, Row

\* A turn's message is saved: what holds whichever of the two it is.
LEMMA SaveStep ==
  ASSUME IInv, NEW c \in Chats, NEW role \in {"user", "assistant"},
         memory' = Append(memory, TurnRow(c, role)),
         NEW where \in Stages \ Early, Goto(c, where),
         UNCHANGED <<active, context>>,
         Consistent(c)'
  PROVE  IInv'
<1> DEFINE row == TurnRow(c, role)
<1>1. memory \in Seq(Row) /\ ToldOK /\ Len(memory) \in Nat
  BY LenProperties DEF IInv, TypeOK
<1>2. /\ row \in Row /\ row.source = "turn" /\ row.chat = c
      /\ row.ids = {Len(memory) + 1}
  BY <1>1, TurnRowOK
<1>3. memory' = Append(memory, row) /\ pc' = [pc EXCEPT ![c] = where]
  BY DEF Goto
<1> HIDE DEF row
<1>4. /\ memory' \in Seq(Row)
      /\ Len(memory') = Len(memory) + 1
      /\ \A i \in 1..Len(memory) : memory'[i] = memory[i]
      /\ ToldOK'
      /\ \A d \in Chats \ {c} : RowsOf(d)' = RowsOf(d)
  BY <1>1, <1>2, <1>3, AppendRow
<1>5. TypeOK'
  BY <1>3, <1>4 DEF IInv, TypeOK
<1>6. LoadedOK'
  BY <1>2, <1>3, AppendKeeps
<1>7. ContextChronological'
  BY DEF IInv, ContextChronological, Chronological
<1>8. \A d \in Chats \ {c} : pc'[d] = pc[d]
  BY <1>3 DEF IInv, TypeOK
<1>9. \A d \in Chats \ {c} : Consistent(d)'
  BY <1>1, <1>4, <1>8, RowsKept
<1>10. \A d \in Chats : Consistent(d)'
  BY <1>9
<1> QED BY <1>4, <1>5, <1>6, <1>7, <1>10, AllConsistent DEF IInv

LEMMA SaveUserStep ==
  ASSUME IInv, NEW c \in Chats, SaveUser(c)
  PROVE  IInv'
<1> DEFINE row == TurnRow(c, "user")
<1>1. memory \in Seq(Row) /\ ToldOK /\ Len(memory) \in Nat /\ pc \in [Chats -> Stages \cup Results]
  BY LenProperties DEF IInv, TypeOK
<1>2. /\ row \in Row /\ row.source = "turn" /\ row.chat = c /\ row.role = "user"
      /\ row.ids = {Len(memory) + 1}
  BY <1>1, TurnRowOK
<1>3. /\ pc[c] = "saveUser" /\ memory' = Append(memory, row)
      /\ Goto(c, "saveAssistant") /\ UNCHANGED <<active, context>>
  BY DEF SaveUser
<1> HIDE DEF row
<1>4. /\ Len(memory') = Len(memory) + 1
      /\ memory'[Len(memory) + 1] = row
      /\ RowsOf(c)' = RowsOf(c) \cup {Len(memory) + 1}
  BY <1>1, <1>2, <1>3, AppendRow
<1>5. RowsOf(c) = {}
  BY <1>3 DEF IInv, SavedOK
<1>6. RowsOf(c)' = {Len(memory) + 1} /\ pc'[c] = "saveAssistant"
  BY <1>1, <1>3, <1>4, <1>5 DEF Goto
<1>7. Consistent(c)'
  BY <1>1, <1>2, <1>4, <1>6 DEF Consistent, Early
<1>8. "saveAssistant" \in Stages \ Early
  BY DEF Stages, Early
<1> QED BY <1>3, <1>7, <1>8, SaveStep DEF row

LEMMA SaveAssistantStep ==
  ASSUME IInv, NEW c \in Chats, SaveAssistant(c)
  PROVE  IInv'
<1> DEFINE row == TurnRow(c, "assistant")
<1>1. memory \in Seq(Row) /\ ToldOK /\ Len(memory) \in Nat /\ pc \in [Chats -> Stages \cup Results]
  BY LenProperties DEF IInv, TypeOK
<1>2. /\ row \in Row /\ row.source = "turn" /\ row.chat = c /\ row.role = "assistant"
      /\ row.ids = {Len(memory) + 1}
  BY <1>1, TurnRowOK
<1>3. /\ pc[c] = "saveAssistant" /\ memory' = Append(memory, row)
      /\ Goto(c, "audit") /\ UNCHANGED <<active, context>>
  BY DEF SaveAssistant
<1> HIDE DEF row
<1>4. /\ Len(memory') = Len(memory) + 1
      /\ memory'[Len(memory) + 1] = row
      /\ \A i \in 1..Len(memory) : memory'[i] = memory[i]
      /\ RowsOf(c)' = RowsOf(c) \cup {Len(memory) + 1}
  BY <1>1, <1>2, <1>3, AppendRow
<1>5. PICK i \in 1..Len(memory) : RowsOf(c) = {i} /\ memory[i].role = "user"
  BY <1>3 DEF IInv, SavedOK
<1>6. RowsOf(c)' = {i, Len(memory) + 1} /\ pc'[c] = "audit"
  BY <1>1, <1>3, <1>4, <1>5 DEF Goto
<1>7. /\ i \in 1..Len(memory') /\ Len(memory) + 1 \in 1..Len(memory')
      /\ i < Len(memory) + 1 /\ memory'[i].role = "user"
      /\ memory'[Len(memory) + 1].role = "assistant"
  BY <1>1, <1>2, <1>4, <1>5
<1>8. Consistent(c)'
  BY <1>6, <1>7 DEF Consistent, Early
<1>9. "audit" \in Stages \ Early
  BY DEF Stages, Early
<1> QED BY <1>3, <1>8, <1>9, SaveStep DEF row

LEMMA CrashStep ==
  ASSUME IInv, Crash
  PROVE  IInv'
<1>1. /\ memory' = memory
      /\ active' = [c \in Chats |-> <<>>] /\ context' = [c \in Chats |-> <<>>]
      /\ pc' = [c \in Chats |-> IF pc[c] \in Stages \ {"idle"}
                                THEN "killed" ELSE pc[c]]
  BY DEF Crash
<1>2. TypeOK'
  <2>1. "killed" \in Results /\ <<>> \in Seq(Row)
    BY EmptySeq DEF Results
  <2> QED BY <1>1, <2>1 DEF IInv, TypeOK
<1>3. ToldOK'
  BY <1>1 DEF IInv, ToldOK
<1>4. LoadedOK' /\ ContextChronological'
  BY <1>1 DEF LoadedOK, ContextChronological, Chronological
<1>5. ASSUME NEW d \in Chats
      PROVE  Consistent(d)'
  <2>1. Consistent(d) /\ RowsOf(d)' = RowsOf(d)
    BY <1>1, AllConsistent DEF IInv, RowsOf
  <2>2. pc'[d] = "killed" \/ pc'[d] = pc[d]
    BY <1>1
  <2> QED BY <1>1, <2>1, <2>2 DEF Consistent, Early
<1> QED BY <1>2, <1>3, <1>4, <1>5, AllConsistent DEF IInv

LEMMA NextIInv == IInv /\ [Next]_vars => IInv'
<1> SUFFICES ASSUME IInv, [Next]_vars PROVE IInv'
  OBVIOUS
<1>1. CASE UNCHANGED vars
  <2>1. /\ memory' = memory /\ pc' = pc /\ active' = active /\ context' = context
    BY <1>1 DEF vars
  <2>2. TypeOK' /\ ToldOK'
    BY <2>1 DEF IInv, TypeOK, ToldOK
  <2>3. LoadedOK' /\ ContextChronological'
    BY <2>1 DEF IInv, LoadedOK, ContextChronological, Chronological
  <2>4. \A d \in Chats : Consistent(d)'
    <3>1. ASSUME NEW d \in Chats
          PROVE  Consistent(d)'
      <4>1. Consistent(d) /\ RowsOf(d)' = RowsOf(d) /\ pc'[d] = pc[d]
        BY <2>1, AllConsistent DEF IInv, RowsOf
      <4> QED BY <2>1, <4>1 DEF Consistent
    <3> QED BY <3>1
  <2> QED BY <2>2, <2>3, <2>4, AllConsistent DEF IInv
<1>2. CASE Crash
  BY <1>2, CrashStep
<1>3. ASSUME NEW c \in Chats, LoadHistory(c)
      PROVE  IInv'
  BY <1>3, LoadHistoryStep
<1>4. ASSUME NEW c \in Chats,
             Summarize(c) \/ FinalText(c)
      PROVE  IInv'
  BY <1>4, GoOn DEF Summarize, FinalText, Early
<1>5. ASSUME NEW c \in Chats, SummarizeFails(c)
      PROVE  IInv'
  <2>1. Trimmed(active[c]) \in Seq(Row) /\ Chronological(Trimmed(active[c]))
    BY Held, TrimmedOK
  <2> QED BY <1>5, <2>1, SendStep DEF SummarizeFails, Early
<1>6. ASSUME NEW c \in Chats, InsertSummary(c)
      PROVE  IInv'
  BY <1>6, InsertSummaryStep
<1>7. ASSUME NEW c \in Chats, InsertSummaryFails(c)
      PROVE  IInv'
  <2>1. Compacted(active[c]) \in Seq(Row) /\ Chronological(Compacted(active[c]))
    BY Held, CompactedOK
  <2> QED BY <1>7, <2>1, SendStep DEF InsertSummaryFails, Early
<1>8. ASSUME NEW c \in Chats,
             \/ RefusePaused(c) \/ LoadFails(c) \/ RoundsFail(c)
             \/ RoundsPause(c) \/ SaveFails(c) \/ LogAudit(c)
      PROVE  IInv'
  <2>1. /\ memory' = memory
        /\ \/ Return(c, "paused") /\ pc[c] \in Early
           \/ Return(c, "failed") /\ pc[c] \in Early \cup {"saveAssistant"}
           \/ Return(c, "answered") /\ pc[c] = "audit"
    BY <1>8 DEF RefusePaused, LoadFails, RoundsFail, RoundsPause, SaveFails,
                LogAudit, Early
  <2> QED BY <2>1, ReturnStep DEF Results
<1>9. ASSUME NEW c \in Chats, SaveUser(c)
      PROVE  IInv'
  BY <1>9, SaveUserStep
<1>10. ASSUME NEW c \in Chats, SaveAssistant(c)
       PROVE  IInv'
  BY <1>10, SaveAssistantStep
<1> QED BY <1>1, <1>2, <1>3, <1>4, <1>5, <1>6, <1>7, <1>8, <1>9, <1>10 DEF Next

-----------------------------------------------------------------------------
(***************************************************************************)
(* The inductive invariant holds in every reachable state, for any number  *)
(* of overlapping calls of Chat and any crash: rows, stages and histories  *)
(* of agent.go and context.go stay in step.                                *)
(***************************************************************************)
THEOREM Invariance == Spec => []IInv
BY InitIInv, NextIInv, PTL DEF Spec

(***************************************************************************)
(* An answer that was returned is in memory, after the message it answers, *)
(* whatever other calls saved or compacted meanwhile (agent.go:315-340).   *)
(***************************************************************************)
THEOREM AnswersAreSaved == Spec => []AnswerIsSaved
<1>1. IInv => AnswerIsSaved
  BY DEF IInv
<1> QED BY <1>1, Invariance, PTL

(***************************************************************************)
(* A call that has not answered left no assistant message (agent.go saves  *)
(* the answer last).                                                       *)
(***************************************************************************)
THEOREM NothingUnsaid == Spec => []NoUnsaidAnswer
<1>1. IInv => NoUnsaidAnswer
  <2> SUFFICES ASSUME IInv, NEW c \in Chats,
                      pc[c] \notin {"audit", "answered", "killed"},
                      NEW i \in RowsOf(c)
               PROVE  memory[i].role # "assistant"
    BY DEF NoUnsaidAnswer
  <2>1. Consistent(c) /\ pc[c] \in Stages \cup Results
    BY AllConsistent DEF IInv, TypeOK
  <2>2. pc[c] \in Early \cup {"saveAssistant", "failed"}
    BY <2>1 DEF Stages, Results, Early
  <2> QED BY <2>1, <2>2 DEF Consistent
<1> QED BY <1>1, Invariance, PTL

(***************************************************************************)
(* The history sent to the model is in order and repeats nothing, however  *)
(* compactions and saves of overlapping calls interleave (context.go).     *)
(***************************************************************************)
THEOREM InOrder == Spec => []ContextChronological
<1>1. IInv => ContextChronological
  BY DEF IInv
<1> QED BY <1>1, Invariance, PTL
=============================================================================
