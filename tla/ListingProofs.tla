---------------------------- MODULE ListingProofs ----------------------------
(***************************************************************************)
(* Lemmas about Listing, and about loops and sums over an interval, which  *)
(* the other proof modules cite.  The induction theorems of the library    *)
(* take an operator, so induction is stated here over sets.                *)
(***************************************************************************)
EXTENDS Listing, SequencesExt, FiniteSetTheorems, WellFoundedInduction, TLAPS

\* A set of numbers from 1 on has a first one.
LEMMA FirstOfInterval ==
    ASSUME NEW S \in SUBSET (Nat \ {0}), S # {}
    PROVE \E m \in S : \A k \in S : m <= k
<1> DEFINE R == OpToRel(<, Nat)
<1>1. IsWellFoundedOn(R, Nat) BY NatLessThanWellFounded
<1>2. \A j, k \in Nat : j < k => <<j, k>> \in R BY DEF OpToRel
<1> HIDE DEF R
<1>3. PICK m \in S : \A u \in S : ~ (<<u, m>> \in R) BY <1>1, WFMin
<1>4. ASSUME NEW k \in S PROVE m <= k
  <2>1. ~ (k < m) BY <1>2, <1>3
  <2> QED BY <2>1
<1> QED BY <1>4

\* A set of positions has a last one.
LEMMA LastOfInterval ==
    ASSUME NEW n \in Nat, NEW S, S \subseteq 1 .. n, S # {}
    PROVE \E m \in S : \A k \in S : k <= m
<1> DEFINE R == OpToRel(<, Nat)
           T == {n - k : k \in S}
<1>1. IsWellFoundedOn(R, Nat) BY NatLessThanWellFounded
<1>2. \A j, k \in Nat : j < k => <<j, k>> \in R BY DEF OpToRel
<1> HIDE DEF R
<1>3. T \subseteq Nat /\ T # {}
  <2>1. PICK k \in S : TRUE OBVIOUS
  <2>2. n - k \in T BY <2>1
  <2> QED BY <2>2
<1>4. PICK t \in T : \A u \in T : ~ (<<u, t>> \in R)
  <2> HIDE DEF T
  <2> QED BY <1>1, <1>3, WFMin
<1>5. PICK m \in S : t = n - m OBVIOUS
<1>6. ASSUME NEW k \in S PROVE k <= m
  <2>1. n - k \in T /\ n - k \in Nat /\ n - m \in Nat OBVIOUS
  <2>2. ~ (n - k < n - m) BY <1>2, <1>4, <1>5, <2>1
  <2> QED BY <2>2
<1> QED BY <1>6

\* The pairs are a strict total order of the set.
Orders(before, S) ==
    /\ \A c \in S : <<c, c>> \notin before
    /\ \A c, d, e \in S : <<c, d>> \in before /\ <<d, e>> \in before => <<c, e>> \in before
    /\ \A c, d \in S : c = d \/ <<c, d>> \in before \/ <<d, c>> \in before

\* The entries of a list come in this order, and none comes twice.
Ascends(list, before) ==
    \A i, j \in DOMAIN list : i < j => <<list[i], list[j]>> \in before /\ list[i] # list[j]

\* A finite set in a strict total order is listed by InOrder, each member once and in that
\* order.
LEMMA InOrderLists ==
    ASSUME NEW S, IsFiniteSet(S), NEW before, Orders(before, S)
    PROVE /\ Cardinality(S) \in Nat
          /\ InOrder(S, before) \in [1 .. Cardinality(S) -> S]
          /\ \A c \in S : \E n \in 1 .. Cardinality(S) : InOrder(S, before)[n] = c
          /\ Ascends(InOrder(S, before), before)
<1> DEFINE N == Cardinality(S)
           Below(c) == {d \in S : <<d, c>> \in before}
           rank == [c \in S |-> Cardinality(Below(c)) + 1]
<1>1. N \in Nat BY FS_CardinalityType
<1>2. ASSUME NEW c \in S
      PROVE /\ IsFiniteSet(Below(c)) /\ Cardinality(Below(c)) \in Nat
            /\ Cardinality(Below(c)) < N
  <2>1. Below(c) \in SUBSET S /\ Below(c) # S BY DEF Orders
  <2> HIDE DEF Below
  <2>2. /\ IsFiniteSet(Below(c)) /\ Cardinality(Below(c)) <= N
        /\ (N = Cardinality(Below(c)) => S = Below(c))
      BY <2>1, FS_Subset
  <2>3. Cardinality(Below(c)) \in Nat BY <2>2, FS_CardinalityType
  <2> HIDE DEF N
  <2> QED BY <1>1, <2>1, <2>2, <2>3
<1>3. ASSUME NEW c \in S, NEW d \in S, <<c, d>> \in before
      PROVE Cardinality(Below(c)) < Cardinality(Below(d))
  <2>1. Below(c) \in SUBSET Below(d) /\ Below(c) # Below(d) BY <1>3 DEF Orders
  <2>2. IsFiniteSet(Below(d)) /\ Cardinality(Below(c)) \in Nat /\ Cardinality(Below(d)) \in Nat
      BY <1>2
  <2> HIDE DEF Below
  <2>3. /\ Cardinality(Below(c)) <= Cardinality(Below(d))
        /\ (Cardinality(Below(d)) = Cardinality(Below(c)) => Below(d) = Below(c))
      BY <2>1, <2>2, FS_Subset
  <2> QED BY <2>1, <2>2, <2>3
<1>4. rank \in Injection(S, 1 .. N)
  <2>1. rank \in [S -> 1 .. N]
    <3> SUFFICES ASSUME NEW c \in S PROVE Cardinality(Below(c)) + 1 \in 1 .. N
        OBVIOUS
    <3> HIDE DEF Below, N
    <3> QED BY <1>1, <1>2
  <2>2. ASSUME NEW c \in S, NEW d \in S, rank[c] = rank[d] PROVE c = d
    <3>1. Cardinality(Below(c)) = Cardinality(Below(d))
      <4>1. Cardinality(Below(c)) + 1 = Cardinality(Below(d)) + 1 BY <2>2
      <4> HIDE DEF Below
      <4> QED BY <1>2, <4>1
    <3>2. ~ (<<c, d>> \in before) /\ ~ (<<d, c>> \in before)
      <4> HIDE DEF Below
      <4> QED BY <1>2, <1>3, <3>1
    <3> QED BY <3>2 DEF Orders
  <2> HIDE DEF rank
  <2> QED BY <2>1, <2>2 DEF Injection, IsInjective
<1>5. IsFiniteSet(1 .. N) /\ Cardinality(1 .. N) = N BY <1>1, FS_Interval
<1>6. rank \in Surjection(S, 1 .. N)
  <2> HIDE DEF rank
  <2> QED BY <1>4, <1>5, FS_Injection
<1>7. \A n \in 1 .. N : \E c \in S : Cardinality(Below(c)) = n - 1
  <2> SUFFICES ASSUME NEW n \in 1 .. N PROVE \E c \in S : Cardinality(Below(c)) = n - 1
      OBVIOUS
  <2>1. PICK c \in S : rank[c] = n
    <3> HIDE DEF rank
    <3> QED BY <1>6 DEF Surjection
  <2>2. Cardinality(Below(c)) + 1 = n BY <2>1
  <2> HIDE DEF Below
  <2> QED BY <1>1, <1>2, <2>2
<1>8. InOrder(S, before) = [n \in 1 .. N |-> CHOOSE c \in S : Cardinality(Below(c)) = n - 1]
    BY DEF InOrder
<1>9. \A n \in 1 .. N : /\ InOrder(S, before)[n] \in S
                        /\ Cardinality(Below(InOrder(S, before)[n])) = n - 1
  <2> HIDE DEF Below
  <2> QED BY <1>7, <1>8
<1>10. ASSUME NEW c \in S PROVE \E n \in 1 .. N : InOrder(S, before)[n] = c
  <2> DEFINE n == rank[c]
             d == InOrder(S, before)[n]
  <2>1. n \in 1 .. N
    <3> HIDE DEF rank
    <3> QED BY <1>4 DEF Injection
  <2>2. d \in S /\ Cardinality(Below(d)) = n - 1
    <3> HIDE DEF rank, Below
    <3> QED BY <1>9, <2>1
  <2>3. n = Cardinality(Below(c)) + 1 OBVIOUS
  <2>4. rank[d] = Cardinality(Below(d)) + 1 BY <2>2
  <2> HIDE DEF Below
  <2>5. Cardinality(Below(d)) + 1 = n BY <1>2, <2>1, <2>2
  <2>6. rank[d] = rank[c] BY <2>4, <2>5
  <2> HIDE DEF rank
  <2>7. d = c BY <1>4, <2>2, <2>6 DEF Injection, IsInjective
  <2> QED BY <2>1, <2>7
<1>11. InOrder(S, before) \in [1 .. N -> S] BY <1>8, <1>9
<1>12. ASSUME NEW i \in 1 .. N, NEW j \in 1 .. N, i < j
       PROVE /\ <<InOrder(S, before)[i], InOrder(S, before)[j]>> \in before
             /\ InOrder(S, before)[i] # InOrder(S, before)[j]
  <2> DEFINE c == InOrder(S, before)[i]
             d == InOrder(S, before)[j]
  <2>1. /\ c \in S /\ Cardinality(Below(c)) = i - 1
        /\ d \in S /\ Cardinality(Below(d)) = j - 1
    <3> HIDE DEF Below
    <3> QED BY <1>9
  <2> HIDE DEF c, d, Below
  <2>2. c # d BY <1>1, <1>12, <2>1
  <2>3. ~ (<<d, c>> \in before) BY <1>1, <1>3, <1>12, <2>1
  <2>4. <<c, d>> \in before BY <2>1, <2>2, <2>3 DEF Orders
  <2> QED BY <2>2, <2>4 DEF c, d
<1>13. Ascends(InOrder(S, before), before)
  <2> HIDE DEF N
  <2> QED BY <1>11, <1>12 DEF Ascends
<1> QED BY <1>1, <1>10, <1>11, <1>13

\* Numbers are listed in ascending order, each once.
LEMMA AscendingLists ==
    ASSUME NEW S \in SUBSET Int, IsFiniteSet(S)
    PROVE /\ Cardinality(S) \in Nat
          /\ Ascending(S) \in [1 .. Cardinality(S) -> S]
          /\ \A c \in S : \E n \in 1 .. Cardinality(S) : Ascending(S)[n] = c
          /\ \A i, j \in 1 .. Cardinality(S) : i < j => Ascending(S)[i] < Ascending(S)[j]
<1> DEFINE before == {p \in S \X S : p[1] < p[2]}
           N == Cardinality(S)
           list == InOrder(S, before)
<1>1. \A c, d \in S : <<c, d>> \in before <=> c < d OBVIOUS
<1>2. Orders(before, S)
  <2> HIDE DEF before
  <2> QED BY <1>1 DEF Orders
<1>3. Ascending(S) = list BY DEF Ascending
<1> HIDE DEF before
<1>4. /\ N \in Nat /\ list \in [1 .. N -> S] /\ \A c \in S : \E n \in 1 .. N : list[n] = c
      /\ Ascends(list, before)
    BY <1>2, InOrderLists
<1> HIDE DEF list, N
<1>5. \A i, j \in 1 .. N : i < j => list[i] < list[j] BY <1>1, <1>4 DEF Ascends
<1> QED BY <1>3, <1>4, <1>5 DEF N

\* The m positions I of s in ascending order are at, and the entries there are picked.
Picks(s, I, m, at) ==
    /\ m \in Nat /\ at \in [1 .. m -> I]
    /\ \A i \in I : \E k \in 1 .. m : at[k] = i
    /\ \A j, k \in 1 .. m : j < k => at[j] < at[k]
    /\ DOMAIN Picked(s, I) = 1 .. m
    /\ \A k \in 1 .. m : Picked(s, I)[k] = s[at[k]]

\* The picked entries of a sequence are its entries at these positions, in their order.
LEMMA PickedAt ==
    ASSUME NEW n \in Nat, NEW T, NEW s \in [1 .. n -> T], NEW I \in SUBSET (1 .. n)
    PROVE /\ Picked(s, I) \in Seq(T)
          /\ \E m, at : Picks(s, I, m, at)
<1> DEFINE m == Cardinality(I)
           at == Ascending(I)
<1>1. IsFiniteSet(I) /\ I \subseteq Int
  <2>1. IsFiniteSet(1 .. n) BY FS_Interval
  <2>2. IsFiniteSet(I) BY <2>1, FS_Subset
  <2> QED BY <2>2
<1>2. /\ m \in Nat /\ at \in [1 .. m -> I] /\ \A i \in I : \E k \in 1 .. m : at[k] = i
      /\ \A j, k \in 1 .. m : j < k => at[j] < at[k]
    BY <1>1, AscendingLists
<1>3. Picked(s, I) = [k \in DOMAIN at |-> s[at[k]]] BY DEF Picked
<1> HIDE DEF at, m
<1>4. Picked(s, I) = [k \in 1 .. m |-> s[at[k]]] /\ DOMAIN Picked(s, I) = 1 .. m
    BY <1>2, <1>3
<1>5. \A k \in 1 .. m : s[at[k]] \in T BY <1>2
<1>6. Picked(s, I) \in [1 .. m -> T] BY <1>4, <1>5
<1>7. Picked(s, I) \in Seq(T) BY <1>2, <1>6
<1>8. Picks(s, I, m, at) BY <1>2, <1>4 DEF Picks
<1> QED BY <1>7, <1>8

\* The picked entries of a sequence are its entries at these positions.
LEMMA PickedEntries ==
    ASSUME NEW n \in Nat, NEW T, NEW s \in [1 .. n -> T], NEW I \in SUBSET (1 .. n)
    PROVE /\ Picked(s, I) \in Seq(T)
          /\ \A k \in DOMAIN Picked(s, I) : \E i \in I : Picked(s, I)[k] = s[i]
          /\ \A i \in I : \E k \in DOMAIN Picked(s, I) : Picked(s, I)[k] = s[i]
<1>1. PICK m, at : Picks(s, I, m, at) BY PickedAt
<1>2. Picked(s, I) \in Seq(T) BY PickedAt
<1>3. /\ at \in [1 .. m -> I] /\ \A i \in I : \E k \in 1 .. m : at[k] = i
      /\ DOMAIN Picked(s, I) = 1 .. m /\ \A k \in 1 .. m : Picked(s, I)[k] = s[at[k]]
    BY <1>1 DEF Picks
<1>4. \A k \in 1 .. m : at[k] \in I BY <1>3
<1>5. ASSUME NEW i \in I PROVE \E k \in 1 .. m : Picked(s, I)[k] = s[i]
  <2>1. PICK k \in 1 .. m : at[k] = i BY <1>3
  <2> QED BY <1>3, <2>1
<1> QED BY <1>2, <1>3, <1>4, <1>5

\* Every entry of a sequence has a first place.
LEMMA FirstPlace ==
    ASSUME NEW n \in Nat, NEW T, NEW s \in [1 .. n -> T], NEW i \in 1 .. n
    PROVE \E j \in Firsts(s) : s[j] = s[i]
<1> DEFINE S == {j \in 1 .. n : s[j] = s[i]}
<1>1. S \in SUBSET (Nat \ {0}) /\ S # {} OBVIOUS
<1>2. PICK m \in S : \A k \in S : m <= k
  <2> HIDE DEF S
  <2> QED BY <1>1, FirstOfInterval
<1>3. m \in 1 .. n /\ s[m] = s[i] BY <1>2
<1>4. ASSUME NEW j \in 1 .. n, j < m PROVE s[j] # s[m]
  <2>1. j \notin S BY <1>2, <1>3, <1>4
  <2> QED BY <1>3, <2>1
<1>5. m \in Firsts(s) BY <1>3, <1>4 DEF Firsts
<1> QED BY <1>3, <1>5

\* The entries of a sequence are finitely many.
LEMMA RangeFinite ==
    ASSUME NEW T, NEW s \in Seq(T)
    PROVE IsFiniteSet(Range(s)) /\ Range(s) \subseteq T
<1>1. Len(s) \in Nat /\ DOMAIN s = 1 .. Len(s) /\ s \in [1 .. Len(s) -> T] OBVIOUS
<1>2. IsFiniteSet(1 .. Len(s)) BY <1>1, FS_Interval
<1>3. s \in Surjection(1 .. Len(s), Range(s)) BY <1>1 DEF Surjection, Range
<1>4. IsFiniteSet(Range(s)) BY <1>2, <1>3, FS_Surjection
<1>5. Range(s) \subseteq T BY <1>1 DEF Range
<1> QED BY <1>4, <1>5
-----------------------------------------------------------------------------
(***************************************************************************)
(* Loops and sums                                                          *)
(***************************************************************************)

\* Induction over an interval, for a set.
LEMMA Upwards ==
    ASSUME NEW N \in Nat, NEW S, 0 \in S,
           \A n \in 1 .. N : n - 1 \in S => n \in S
    PROVE \A n \in 0 .. N : n \in S
<1> DEFINE B == (0 .. N) \ S
<1> SUFFICES ASSUME B # {} PROVE FALSE
    OBVIOUS
<1>1. B \in SUBSET (Nat \ {0}) OBVIOUS
<1>2. PICK m \in B : \A k \in B : m <= k
  <2> HIDE DEF B
  <2> QED BY <1>1, FirstOfInterval
<1>3. m \in 1 .. N /\ m - 1 \in 0 .. N /\ m \notin S BY <1>1
<1>4. m - 1 \notin B BY <1>2, <1>3
<1>5. m - 1 \in S BY <1>3, <1>4
<1> QED BY <1>3, <1>5

\* A run of a loop of N rounds: the states before and after each, a first.
Run(f, N, X, a, step) ==
    /\ f \in [0 .. N -> X] /\ f[0] = a
    /\ \A n \in 1 .. N : f[n] = step[<<f[n - 1], n>>]

\* A loop over an interval, whose step is a function of the state and the index, runs.
LEMMA LoopRuns ==
    ASSUME NEW N \in Nat, NEW X, NEW a \in X, NEW step \in [X \X (1 .. N) -> X]
    PROVE \E f : Run(f, N, X, a, step)
<1> DEFINE Runs(f, n) == /\ f \in [0 .. n -> X] /\ f[0] = a
                         /\ \A k \in 1 .. n : f[k] = step[<<f[k - 1], k>>]
           S == {n \in 0 .. N : \E f : Runs(f, n)}
<1>1. 0 \in S
  <2>1. Runs([k \in 0 .. 0 |-> a], 0) OBVIOUS
  <2> HIDE DEF Runs
  <2> QED BY <2>1
<1>2. ASSUME NEW n \in 1 .. N, n - 1 \in S PROVE n \in S
  <2>1. PICK f : Runs(f, n - 1) BY <1>2
  <2> DEFINE x == step[<<f[n - 1], n>>]
             g == [k \in 0 .. n |-> IF k = n THEN x ELSE f[k]]
  <2>2. n \in Nat /\ n - 1 \in 0 .. n - 1 /\ f[n - 1] \in X BY <2>1
  <2>3. x \in X BY <2>2
  <2>4. \A k \in 0 .. n : k # n => k \in 0 .. n - 1 BY <2>2
  <2>5. g \in [0 .. n -> X]
    <3> HIDE DEF x
    <3> QED BY <2>1, <2>3, <2>4
  <2>6. g[0] = a BY <2>1, <2>2
  <2>7. ASSUME NEW k \in 1 .. n PROVE g[k] = step[<<g[k - 1], k>>]
    <3>1. k - 1 \in 0 .. n - 1 /\ k \in 0 .. n /\ k - 1 # n /\ k - 1 \in 0 .. n BY <2>2
    <3>2. g[k - 1] = f[k - 1] BY <3>1
    <3>3. CASE k = n BY <3>1, <3>2, <3>3
    <3>4. CASE k # n
      <4>1. k \in 1 .. n - 1 BY <3>1, <3>4
      <4> HIDE DEF x
      <4> QED BY <2>1, <3>1, <3>2, <3>4, <4>1
    <3> QED BY <3>3, <3>4
  <2>8. Runs(g, n)
    <3> HIDE DEF g
    <3> QED BY <2>5, <2>6, <2>7
  <2> HIDE DEF Runs, g
  <2> QED BY <2>8
<1>3. N \in S
  <2> HIDE DEF S
  <2> QED BY <1>1, <1>2, Upwards
<1> QED BY <1>3 DEF Run

\* The sums up to each position, and the sum over all of them.
Sums(f, N, cost, I) ==
    /\ f \in [0 .. N -> Nat] /\ f[0] = 0 /\ SumOver(cost, I) = f[N]
    /\ \A n \in 1 .. N : f[n] = f[n - 1] + (IF n \in I THEN cost[n] ELSE 0)

\* A sum over positions is made up position by position.
LEMMA SumRuns ==
    ASSUME NEW N \in Nat, NEW cost \in [1 .. N -> Nat], NEW I
    PROVE \E f : Sums(f, N, cost, I)
<1> DEFINE add(n) == IF n \in I THEN cost[n] ELSE 0
           step == [p \in Nat \X (1 .. N) |-> p[1] + add(p[2])]
           upTo[n \in 0 .. N] == IF n = 0 THEN 0 ELSE upTo[n - 1] + add(n)
<1>1. N \in Nat /\ \A n \in 1 .. N : add(n) \in Nat OBVIOUS
<1>2. SumOver(cost, I) = upTo[N]
  <2>1. cost \in Seq(Nat) /\ Len(cost) = N OBVIOUS
  <2> QED BY <2>1 DEF SumOver
<1> HIDE DEF add
<1>3. step \in [Nat \X (1 .. N) -> Nat] BY <1>1
<1>4. PICK f \in [0 .. N -> Nat] : /\ f[0] = 0
                                   /\ \A n \in 1 .. N : f[n] = step[<<f[n - 1], n>>]
  <2> HIDE DEF step
  <2>1. 0 \in Nat /\ N \in Nat BY <1>1
  <2>2. \E f : Run(f, N, Nat, 0, step) BY <2>1, <1>3, LoopRuns
  <2> QED BY <2>2 DEF Run
<1>5. \A n \in 1 .. N : f[n] = f[n - 1] + add(n)
  <2> SUFFICES ASSUME NEW n \in 1 .. N PROVE f[n] = f[n - 1] + add(n)
      OBVIOUS
  <2>1. n - 1 \in 0 .. N /\ f[n - 1] \in Nat BY <1>1
  <2> QED BY <1>4, <2>1
<1>6. f = [n \in 0 .. N |-> IF n = 0 THEN 0 ELSE f[n - 1] + add(n)] BY <1>1, <1>4, <1>5
<1>7. upTo = [n \in 0 .. N |-> IF n = 0 THEN 0 ELSE upTo[n - 1] + add(n)] BY <1>6
<1> HIDE DEF upTo
<1>8. upTo[0] = 0 /\ \A n \in 1 .. N : upTo[n] = upTo[n - 1] + add(n) BY <1>1, <1>7
<1> DEFINE T == {n \in 0 .. N : upTo[n] \in Nat}
<1>9. \A n \in 0 .. N : n \in T
  <2>1. 0 \in T BY <1>1, <1>8
  <2>2. ASSUME NEW n \in 1 .. N, n - 1 \in T PROVE n \in T BY <1>1, <1>8, <2>2
  <2> HIDE DEF T
  <2> QED BY <1>1, <2>1, <2>2, Upwards
<1>10. upTo \in [0 .. N -> Nat] BY <1>7, <1>9
<1> HIDE DEF T
<1>11. Sums(upTo, N, cost, I) BY <1>2, <1>8, <1>10 DEF Sums, add
<1> QED BY <1>11

\* What is in one of two sets costs no more than the two together.
LEMMA SumsWithin ==
    ASSUME NEW N \in Nat, NEW cost \in [1 .. N -> Nat], NEW I, NEW J, NEW K,
           \A n \in 1 .. N : n \in I => n \in J \/ n \in K
    PROVE /\ SumOver(cost, I) \in Nat /\ SumOver(cost, J) \in Nat /\ SumOver(cost, K) \in Nat
          /\ SumOver(cost, I) <= SumOver(cost, J) + SumOver(cost, K)
<1>a. PICK f : Sums(f, N, cost, I) BY SumRuns
<1>1. /\ f \in [0 .. N -> Nat]
      /\ f[0] = 0 /\ SumOver(cost, I) = f[N]
      /\ \A n \in 1 .. N : f[n] = f[n - 1] + (IF n \in I THEN cost[n] ELSE 0)
    BY <1>a DEF Sums
<1>b. PICK g : Sums(g, N, cost, J) BY SumRuns
<1>2. /\ g \in [0 .. N -> Nat]
      /\ g[0] = 0 /\ SumOver(cost, J) = g[N]
      /\ \A n \in 1 .. N : g[n] = g[n - 1] + (IF n \in J THEN cost[n] ELSE 0)
    BY <1>b DEF Sums
<1>c. PICK h : Sums(h, N, cost, K) BY SumRuns
<1>3. /\ h \in [0 .. N -> Nat]
      /\ h[0] = 0 /\ SumOver(cost, K) = h[N]
      /\ \A n \in 1 .. N : h[n] = h[n - 1] + (IF n \in K THEN cost[n] ELSE 0)
    BY <1>c DEF Sums
<1> DEFINE T == {n \in 0 .. N : f[n] <= g[n] + h[n]}
<1>4. 0 \in T BY <1>1, <1>2, <1>3
<1>5. ASSUME NEW n \in 1 .. N, n - 1 \in T PROVE n \in T
  <2>1. /\ n - 1 \in 0 .. N /\ n \in 0 .. N /\ cost[n] \in Nat
        /\ f[n - 1] \in Nat /\ g[n - 1] \in Nat /\ h[n - 1] \in Nat
      BY <1>1, <1>2, <1>3
  <2>2. f[n - 1] <= g[n - 1] + h[n - 1] BY <1>5
  <2>3. f[n] = f[n - 1] + (IF n \in I THEN cost[n] ELSE 0) BY <1>1
  <2>4. g[n] = g[n - 1] + (IF n \in J THEN cost[n] ELSE 0) BY <1>2
  <2>5. h[n] = h[n - 1] + (IF n \in K THEN cost[n] ELSE 0) BY <1>3
  <2>6. n \in I => n \in J \/ n \in K OBVIOUS
  <2>7. f[n] <= g[n] + h[n]
    <3> HIDE DEF T
    <3> QED BY <2>1, <2>2, <2>3, <2>4, <2>5, <2>6
  <2> QED BY <2>1, <2>7
<1>6. N \in T
  <2> HIDE DEF T
  <2>1. N \in Nat /\ N \in 0 .. N OBVIOUS
  <2> QED BY <2>1, <1>4, <1>5, Upwards
<1>7. N \in 0 .. N OBVIOUS
<1> QED BY <1>1, <1>2, <1>3, <1>6, <1>7

\* One more position adds its cost; none cost nothing.
LEMMA SumAdds ==
    ASSUME NEW N \in Nat, NEW cost \in [1 .. N -> Nat], NEW I
    PROVE /\ SumOver(cost, I) \in Nat /\ SumOver(cost, {}) = 0
          /\ \A s \in (1 .. N) \ I : SumOver(cost, I \cup {s}) = SumOver(cost, I) + cost[s]
<1>a. PICK f : Sums(f, N, cost, I) BY SumRuns
<1>1. /\ f \in [0 .. N -> Nat]
      /\ f[0] = 0 /\ SumOver(cost, I) = f[N]
      /\ \A n \in 1 .. N : f[n] = f[n - 1] + (IF n \in I THEN cost[n] ELSE 0)
    BY <1>a DEF Sums
<1>2. N \in 0 .. N /\ SumOver(cost, I) \in Nat BY <1>1
<1>3. SumOver(cost, {}) = 0
  <2>a. PICK g : Sums(g, N, cost, {}) BY SumRuns
  <2>1. /\ g \in [0 .. N -> Nat]
        /\ g[0] = 0 /\ SumOver(cost, {}) = g[N]
        /\ \A n \in 1 .. N : g[n] = g[n - 1] + (IF n \in {} THEN cost[n] ELSE 0)
      BY <2>a DEF Sums
  <2> DEFINE T == {n \in 0 .. N : g[n] = 0}
  <2>2. 0 \in T BY <2>1
  <2>3. ASSUME NEW n \in 1 .. N, n - 1 \in T PROVE n \in T BY <2>1, <2>3
  <2>4. N \in T
    <3> HIDE DEF T
    <3> QED BY <1>2, <2>2, <2>3, Upwards
  <2> QED BY <2>1, <2>4
<1>4. ASSUME NEW s \in (1 .. N) \ I
      PROVE SumOver(cost, I \cup {s}) = SumOver(cost, I) + cost[s]
  <2> DEFINE R == I \cup {s}
             c == cost[s]
  <2>a. PICK g : Sums(g, N, cost, R) BY SumRuns
  <2>1. /\ g \in [0 .. N -> Nat]
        /\ g[0] = 0 /\ SumOver(cost, R) = g[N]
        /\ \A n \in 1 .. N : g[n] = g[n - 1] + (IF n \in R THEN cost[n] ELSE 0)
      BY <2>a DEF Sums
  <2> DEFINE T == {n \in 0 .. N : g[n] = f[n] + (IF n >= s THEN c ELSE 0)}
  <2>2. s \in 1 .. N /\ s \notin I /\ c \in Nat OBVIOUS
  <2> HIDE DEF c
  <2>3. 0 \in T BY <1>1, <2>1, <2>2
  <2>4. ASSUME NEW n \in 1 .. N, n - 1 \in T PROVE n \in T
    <3>1. n - 1 \in 0 .. N /\ f[n - 1] \in Nat /\ g[n - 1] \in Nat /\ n \in 0 .. N
          /\ cost[n] \in Nat
        BY <1>1, <2>1
    <3>3. g[n - 1] = f[n - 1] + (IF n - 1 >= s THEN c ELSE 0) BY <2>4
    <3>4. f[n] = f[n - 1] + (IF n \in I THEN cost[n] ELSE 0) BY <1>1
    <3>5. g[n] = g[n - 1] + (IF n \in R THEN cost[n] ELSE 0) BY <2>1
    <3>6. CASE n = s BY <2>2, <3>1, <3>3, <3>4, <3>5, <3>6 DEF c
    <3>7. CASE n # s
      <4>1. (n \in R <=> n \in I) /\ (n - 1 >= s <=> n >= s) BY <2>2, <3>7
      <4>2. g[n] = f[n] + (IF n >= s THEN c ELSE 0) BY <2>2, <3>1, <3>3, <3>4, <3>5, <4>1
      <4> QED BY <3>1, <4>2
    <3> QED BY <3>6, <3>7
  <2>5. N \in T
    <3> HIDE DEF T
    <3> QED BY <1>2, <2>3, <2>4, Upwards
  <2> QED BY <1>1, <2>1, <2>2, <2>5 DEF c
<1> QED BY <1>2, <1>3, <1>4

\* What is appended to a list does not change the costs of what was in it.
LEMMA SumSame ==
    ASSUME NEW N \in Nat, NEW M \in Nat, N <= M, NEW cost \in [1 .. N -> Nat],
           NEW longer \in [1 .. M -> Nat], \A n \in 1 .. N : longer[n] = cost[n],
           NEW I, I \subseteq 1 .. N
    PROVE SumOver(longer, I) = SumOver(cost, I)
<1>a. PICK f : Sums(f, N, cost, I) BY SumRuns
<1>1. /\ f \in [0 .. N -> Nat]
      /\ f[0] = 0 /\ SumOver(cost, I) = f[N]
      /\ \A n \in 1 .. N : f[n] = f[n - 1] + (IF n \in I THEN cost[n] ELSE 0)
    BY <1>a DEF Sums
<1>b. PICK g : Sums(g, M, longer, I) BY SumRuns
<1>2. /\ g \in [0 .. M -> Nat]
      /\ g[0] = 0 /\ SumOver(longer, I) = g[M]
      /\ \A n \in 1 .. M : g[n] = g[n - 1] + (IF n \in I THEN longer[n] ELSE 0)
    BY <1>b DEF Sums
<1> DEFINE T == {n \in 0 .. M : IF n <= N THEN g[n] = f[n] ELSE g[n] = f[N]}
<1>3. 0 \in T BY <1>1, <1>2
<1>4. ASSUME NEW n \in 1 .. M, n - 1 \in T PROVE n \in T
  <2>1. n - 1 \in 0 .. M /\ n \in 0 .. M /\ g[n - 1] \in Nat BY <1>2
  <2>2. g[n] = g[n - 1] + (IF n \in I THEN longer[n] ELSE 0) BY <1>2
  <2>3. CASE n <= N
    <3>1. n \in 1 .. N /\ n - 1 <= N BY <2>3
    <3>2. g[n - 1] = f[n - 1] /\ longer[n] = cost[n] BY <1>4, <3>1
    <3>3. g[n] = f[n] BY <1>1, <2>2, <3>1, <3>2
    <3> QED BY <2>1, <2>3, <3>3
  <2>4. CASE n > N
    <3>1. n \notin I BY <2>4
    <3>2. g[n] = g[n - 1] BY <2>1, <2>2, <3>1
    <3>3. g[n - 1] = f[N]
      <4>1. CASE n - 1 = N BY <1>4, <4>1
      <4>2. CASE n - 1 > N BY <1>4, <2>1, <4>2
      <4> QED BY <2>1, <2>4, <4>1, <4>2
    <3> QED BY <2>1, <2>4, <3>2, <3>3
  <2> QED BY <2>1, <2>3, <2>4
<1>5. M \in T
  <2> HIDE DEF T
  <2>1. M \in 0 .. M OBVIOUS
  <2> QED BY <2>1, <1>3, <1>4, Upwards
<1>6. CASE M = N BY <1>1, <1>2, <1>5, <1>6
<1>7. CASE M > N BY <1>1, <1>2, <1>5, <1>7
<1> QED BY <1>6, <1>7
-----------------------------------------------------------------------------
(***************************************************************************)
(* Lists of lists                                                          *)
(***************************************************************************)

\* The entries of two lists in a row are the entries of either.
LEMMA RangeJoined ==
    ASSUME NEW T, NEW s \in Seq(T), NEW t \in Seq(T)
    PROVE s \o t \in Seq(T) /\ Range(s \o t) = Range(s) \cup Range(t)
<1> DEFINE u == s \o t
<1>1. /\ Len(s) \in Nat /\ Len(t) \in Nat
      /\ DOMAIN s = 1 .. Len(s) /\ DOMAIN t = 1 .. Len(t)
      /\ u \in Seq(T) /\ DOMAIN u = 1 .. Len(s) + Len(t)
    OBVIOUS
<1>2. /\ \A i \in 1 .. Len(s) : i \in DOMAIN u /\ u[i] = s[i]
      /\ \A i \in 1 .. Len(t) : i + Len(s) \in DOMAIN u /\ u[i + Len(s)] = t[i]
    BY <1>1
<1>3. \A i \in DOMAIN u : \/ i \in DOMAIN s /\ u[i] = s[i]
                          \/ i - Len(s) \in DOMAIN t /\ u[i] = t[i - Len(s)]
    BY <1>1
<1> HIDE DEF u
<1>4. Range(u) \subseteq Range(s) \cup Range(t) BY <1>3 DEF Range
<1>5. Range(s) \subseteq Range(u) /\ Range(t) \subseteq Range(u) BY <1>1, <1>2 DEF Range
<1> QED BY <1>1, <1>4, <1>5 DEF u

\* One more entry.
LEMMA RangeAppended ==
    ASSUME NEW T, NEW s \in Seq(T), NEW e \in T
    PROVE Append(s, e) \in Seq(T) /\ Range(Append(s, e)) = Range(s) \cup {e}
<1>1. /\ Len(s) \in Nat /\ DOMAIN s = 1 .. Len(s)
      /\ Append(s, e) \in Seq(T) /\ DOMAIN Append(s, e) = 1 .. Len(s) + 1
      /\ Append(s, e)[Len(s) + 1] = e
      /\ \A i \in 1 .. Len(s) : Append(s, e)[i] = s[i]
    OBVIOUS
<1>2. \A i \in 1 .. Len(s) + 1 : i = Len(s) + 1 \/ i \in 1 .. Len(s) BY <1>1
<1>3. Range(Append(s, e)) \subseteq Range(s) \cup {e} BY <1>1, <1>2 DEF Range
<1>4. Range(s) \subseteq Range(Append(s, e)) BY <1>1 DEF Range
<1>5. Len(s) + 1 \in DOMAIN Append(s, e) BY <1>1
<1>6. e \in Range(Append(s, e)) BY <1>1, <1>5 DEF Range
<1> QED BY <1>1, <1>3, <1>4, <1>6

\* A flattened list has the entries of all its lists.
LEMMA FlatRange ==
    ASSUME NEW N \in Nat, NEW T, NEW ss \in [1 .. N -> Seq(T)]
    PROVE /\ FlattenSeq(ss) \in Seq(T)
          /\ Range(FlattenSeq(ss)) = UNION {Range(ss[n]) : n \in 1 .. N}
<1> DEFINE step == [p \in Seq(T) \X (1 .. N) |-> p[1] \o ss[p[2]]]
           flat[i \in 1 .. N] == IF i = 1 THEN ss[i] ELSE flat[i - 1] \o ss[i]
<1>1. ss \in Seq(Seq(T)) /\ Len(ss) = N OBVIOUS
<1>2. CASE N = 0
  <2>1. ss = <<>> /\ FlattenSeq(ss) = ss BY <1>1, <1>2 DEF FlattenSeq
  <2>2. <<>> \in Seq(T) /\ Range(<<>>) = {} BY DEF Range
  <2>3. {Range(ss[n]) : n \in 1 .. N} = {} BY <1>2
  <2> QED BY <2>1, <2>2, <2>3
<1>3. CASE N # 0
  <2>1. FlattenSeq(ss) = flat[N] BY <1>1, <1>3 DEF FlattenSeq
  <2>2. step \in [Seq(T) \X (1 .. N) -> Seq(T)] OBVIOUS
  <2>3. PICK f : Run(f, N, Seq(T), <<>>, step)
    <3> HIDE DEF step
    <3>1. <<>> \in Seq(T) OBVIOUS
    <3>2. \E f : Run(f, N, Seq(T), <<>>, step) BY <2>2, <3>1, LoopRuns
    <3> QED BY <3>2
  <2>4. f \in [0 .. N -> Seq(T)] /\ f[0] = <<>>
        /\ \A n \in 1 .. N : f[n] = step[<<f[n - 1], n>>]
      BY <2>3 DEF Run
  <2>5. ASSUME NEW n \in 1 .. N
        PROVE f[n] = f[n - 1] \o ss[n] /\ f[n - 1] \in Seq(T) /\ ss[n] \in Seq(T)
    <3>1. n - 1 \in 0 .. N /\ f[n - 1] \in Seq(T) BY <2>4
    <3> QED BY <2>4, <3>1
  <2>6. f[1] = ss[1]
    <3>1. 1 \in 1 .. N BY <1>3
    <3>2. f[1] = f[0] \o ss[1] /\ ss[1] \in Seq(T) BY <2>5, <3>1
    <3> QED BY <2>4, <3>2
  <2> DEFINE g == [i \in 1 .. N |-> f[i]]
  <2>7. g = [i \in 1 .. N |-> IF i = 1 THEN ss[i] ELSE g[i - 1] \o ss[i]]
    <3>1. ASSUME NEW i \in 1 .. N PROVE g[i] = IF i = 1 THEN ss[i] ELSE g[i - 1] \o ss[i]
      <4>1. CASE i = 1 BY <2>6, <4>1
      <4>2. CASE i # 1
        <5>1. i - 1 \in 1 .. N BY <4>2
        <5> QED BY <2>5, <4>2, <5>1
      <4> QED BY <4>1, <4>2
    <3> HIDE DEF g
    <3>2. DOMAIN g = 1 .. N /\ g = [i \in 1 .. N |-> g[i]] BY DEF g
    <3> QED BY <3>1, <3>2
  <2> HIDE DEF g, step
  <2>8. flat = [i \in 1 .. N |-> IF i = 1 THEN ss[i] ELSE flat[i - 1] \o ss[i]] BY <2>7
  <2> HIDE DEF flat
  <2> DEFINE S == {n \in 0 .. N : n = 0 \/ (flat[n] = f[n])}
             R == {n \in 0 .. N : \A x : x \in Range(f[n]) <=> \E k \in 1 .. n : x \in Range(ss[k])}
  <2>9. N \in S
    <3>1. 0 \in S OBVIOUS
    <3>2. ASSUME NEW n \in 1 .. N, n - 1 \in S PROVE n \in S
      <4>1. CASE n = 1 BY <2>6, <2>8, <4>1
      <4>2. CASE n # 1
        <5>1. flat[n] = flat[n - 1] \o ss[n] BY <2>8, <4>2
        <5>2. flat[n - 1] = f[n - 1] BY <3>2, <4>2
        <5>3. flat[n] = f[n] BY <2>5, <5>1, <5>2
        <5> QED BY <5>3
      <4> QED BY <4>1, <4>2
    <3> HIDE DEF S
    <3>3. N \in 0 .. N OBVIOUS
    <3> QED BY <3>1, <3>2, <3>3, Upwards
  <2>10. N \in R
    <3>1. 0 \in R BY <2>4 DEF Range
    <3>2. ASSUME NEW n \in 1 .. N, n - 1 \in R PROVE n \in R
      <4>1. Range(f[n]) = Range(f[n - 1]) \cup Range(ss[n])
        <5>1. f[n - 1] \in Seq(T) /\ ss[n] \in Seq(T) /\ f[n] = f[n - 1] \o ss[n] BY <2>5
        <5> HIDE DEF R
        <5>2. Range(f[n - 1] \o ss[n]) = Range(f[n - 1]) \cup Range(ss[n])
            BY <5>1, RangeJoined
        <5> QED BY <5>1, <5>2
      <4>2. \A x : x \in Range(f[n - 1]) <=> \E k \in 1 .. n - 1 : x \in Range(ss[k])
          BY <3>2
      <4>3. \A k \in 1 .. n : k = n \/ k \in 1 .. n - 1 OBVIOUS
      <4>4. n \in 1 .. n /\ \A k \in 1 .. n - 1 : k \in 1 .. n OBVIOUS
      <4>5. \A x : x \in Range(f[n]) <=> \E k \in 1 .. n : x \in Range(ss[k])
          BY <4>1, <4>2, <4>3, <4>4
      <4> QED BY <4>5
    <3> HIDE DEF R
    <3>3. N \in 0 .. N OBVIOUS
    <3> QED BY <3>1, <3>2, <3>3, Upwards
  <2>11. flat[N] = f[N] /\ f[N] \in Seq(T) BY <1>3, <2>4, <2>9
  <2>12. \A x : x \in Range(f[N]) <=> \E k \in 1 .. N : x \in Range(ss[k]) BY <2>10
  <2> QED BY <2>1, <2>11, <2>12
<1> QED BY <1>2, <1>3
=============================================================================
