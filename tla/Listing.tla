------------------------------- MODULE Listing -------------------------------
(***************************************************************************)
(* Sorted lists and selections from lists, as Python's sorted() and list   *)
(* comprehensions make them.  They are stated by rank and by position, so  *)
(* that what they do can be proved (ListingProofs).                        *)
(***************************************************************************)
EXTENDS Integers, Sequences, FiniteSets

\* The members of S in the order of before, a set of pairs: each comes after as many as are
\* before it.
InOrder(S, before) ==
  [n \in 1 .. Cardinality(S) |->
     CHOOSE c \in S : Cardinality({d \in S : <<d, c>> \in before}) = n - 1]

\* A set of numbers in ascending order.
Ascending(S) == InOrder(S, {p \in S \X S : p[1] < p[2]})

\* The entries of s at the positions I, as s has them in order; where an entry is the first of
\* its kind; the place of an entry.
Picked(s, I) == LET at == Ascending(I) IN [n \in DOMAIN at |-> s[at[n]]]
Firsts(s) == {i \in DOMAIN s : \A j \in DOMAIN s : j < i => s[j] # s[i]}
Place(s, c) == CHOOSE i \in DOMAIN s : s[i] = c

\* The sum of the entries of cost at the positions I.
SumOver(cost, I) ==
  LET upTo[n \in 0 .. Len(cost)] ==
        IF n = 0 THEN 0 ELSE upTo[n - 1] + (IF n \in I THEN cost[n] ELSE 0)
  IN upTo[Len(cost)]
=============================================================================
