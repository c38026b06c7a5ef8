------------------------------ MODULE Sorting -------------------------------
(***************************************************************************)
(* What the repository uses of Go's package sort: Ints and Strings         *)
(* rearrange a slice so that it does not descend.  The order of strings is *)
(* given by numbers, one for each element.                                 *)
(***************************************************************************)
EXTENDS Integers, Functions

\* s with its elements taken in the order p.
Rearranged(s, p) == [i \in DOMAIN s |-> s[p[i]]]

Ascending(r) == \A i, j \in DOMAIN r : i < j => r[i] <= r[j]

\* The rearrangements that put the numbers r in order.
Orders(r) == {p \in [DOMAIN r -> DOMAIN r] :
                 IsInjective(p) /\ Ascending(Rearranged(r, p))}

\* s in the order of the numbers r; sort makes one of the rearrangements.
SortedBy(s, r) == Rearranged(s, CHOOSE p \in Orders(r) : TRUE)

\* sort.Ints
Ints(s) == SortedBy(s, s)

=============================================================================
