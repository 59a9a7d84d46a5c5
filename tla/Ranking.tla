------------------------------- MODULE Ranking -------------------------------
(***************************************************************************)
(* Array.prototype.filter and sort by what they promise, with nothing to   *)
(* unfold: what comes i-th has i - 1 before it; and the sum of a list.     *)
(***************************************************************************)
EXTENDS Integers, Sequences, FiniteSets

(* The members of a finite set, each after those that are before it.       *)
Ranked(S, before) ==
    [i \in 1 .. Cardinality(S) |-> CHOOSE x \in S : Cardinality(before[x]) = i - 1]

Less(S) == [x \in S |-> {y \in S : y < x}]

(* What a list has at some of its places.                                  *)
Picked(s, places) ==
    [i \in 1 .. Cardinality(places) |-> s[Ranked(places, Less(places))[i]]]

Filtered(s, passes(_)) == Picked(s, {i \in DOMAIN s : passes(s[i])})

(* The sort is stable: of two that compare equal the earlier stays first.  *)
SortedBy(s, before(_, _)) ==
    LET first(i, j) == before(s[i], s[j]) \/ (~before(s[j], s[i]) /\ i < j)
        at == Ranked(DOMAIN s, [j \in DOMAIN s |-> {i \in DOMAIN s : first(i, j)}])
    IN  [i \in DOMAIN s |-> s[at[i]]]

SumOf(s) ==
    LET sum[n \in 0 .. Len(s)] == IF n = 0 THEN 0 ELSE sum[n - 1] + s[n]
    IN  sum[Len(s)]
=============================================================================
