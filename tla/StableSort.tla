----------------------------- MODULE StableSort -----------------------------
(***************************************************************************)
(* Array.prototype.sort() with a comparison of numeric keys, and of        *)
(* strings without one.  JavaScript's sort is stable: elements whose keys  *)
(* are equal keep their order.                                             *)
(***************************************************************************)
EXTENDS Integers, FiniteSets, Sequences

\* The element at place j comes before the one at place k, or is that one.
NotBehind(key, j, k) == key[j] < key[k] \/ (key[j] = key[k] /\ j <= k)

\* Where the element at place k of the array ends up.
PlaceOf(key, k) == Cardinality({j \in DOMAIN key : NotBehind(key, j, k)})

\* The places of the elements in the order in which they end up.
SortingOrder(key) ==
    [i \in DOMAIN key |-> CHOOSE k \in DOMAIN key : PlaceOf(key, k) = i]

\* An array of numbers, sorted.
Ascending(numbers) ==
    LET order == SortingOrder(numbers) IN [i \in DOMAIN numbers |-> numbers[order[i]]]

-----------------------------------------------------------------------------
(***************************************************************************)
(* A string is the sequence of its code units.  One comes before another   *)
(* if it is the beginning of the other or has the smaller code unit where  *)
(* the two part.                                                           *)
(***************************************************************************)
Before(s, t) ==
    \E k \in 0 .. Len(s) :
        /\ k < Len(t)
        /\ \A j \in 1 .. k : s[j] = t[j]
        /\ k < Len(s) => s[k + 1] < t[k + 1]

\* How many strings of the array come before the one at place k.
Earlier(strings, k) == Cardinality({j \in DOMAIN strings : Before(strings[j], strings[k])})

\* An array of strings, sorted.
InStringOrder(strings) ==
    LET order == SortingOrder([k \in DOMAIN strings |-> Earlier(strings, k)])
    IN  [i \in DOMAIN strings |-> strings[order[i]]]

=============================================================================
