----------------------------- MODULE ToolValues -----------------------------
(* What a tool may have or give instead of data, and how it puts in order. *)
EXTENDS Naturals, FiniteSets

CONSTANTS Missing,     \* null, an absent field, or text that is not JSON
          Refused      \* an exception

\* Nothing is none of the labels and failures of a callback.
ASSUME MissingAssumption == Missing \notin {"PASS", "REJECT", "AI", "CAPTURE"}

\* sorted() of a finite set, by the keys of its members, which are different
\* numbers.  (SetToSortSeq gives the same, but from a SortSeq that no prover
\* has a definition of.)
sorted(S, key) ==
    [n \in 1..Cardinality(S) |->
        CHOOSE x \in S : Cardinality({y \in S : key[y] < key[x]}) = n - 1]

\* sorted() of a finite set of numbers.
ascending(S) == sorted(S, [x \in S |-> x])

\* The members of a list at some places, in their order.
Picked(list, places) ==
    LET order == ascending(places) IN [k \in DOMAIN order |-> list[order[k]]]
=============================================================================
