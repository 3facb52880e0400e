-------------------------------- MODULE Keeper --------------------------------
(***************************************************************************)
(* IKeeper (src/etc/helpers/IKeeper.h): the fixed array of pointers in     *)
(* which the service manager, the routine manager and the main loop keep   *)
(* what they call.  A keeper is a record with the members of the class;    *)
(* elements are never removed.                                             *)
(***************************************************************************)
EXTENDS Integers

CONSTANT NoElem     \* nullptr

NewKeeper(capacity) ==
    [elems |-> [i \in 0 .. capacity - 1 |-> NoElem], count |-> 0, iterId |-> 0]

Keepers(E, capacity) ==
    [elems : [0 .. capacity - 1 -> E \cup {NoElem}], count : Nat, iterId : Nat]

\* Where Add(elem, multi) puts an element: the first free position, unless the keeper
\* is full or, with multi = false, the element lies before it.
Position(k, elem, multi) ==
    {i \in DOMAIN k.elems :
        /\ k.count \in DOMAIN k.elems
        /\ k.elems[i] = NoElem
        /\ \A j \in 0 .. i - 1 :
              k.elems[j] # NoElem /\ (k.elems[j] = elem => multi)}

\* Bug: the element is not counted.
AddedUncounted(k, elem, i) == [k EXCEPT !.elems[i] = elem]

Added(k, elem, i) ==
    [elems |-> [k.elems EXCEPT ![i] = elem], count |-> k.count + 1, iterId |-> k.iterId]

TryReadElem(k, i) == IF i \in DOMAIN k.elems THEN k.elems[i] ELSE NoElem

\* Bug: an iteration starts where the one before it stopped.
StartIterationForgotten(k) == k

StartIteration(k) == [elems |-> k.elems, count |-> k.count, iterId |-> 0]

IsLastIteration(k) == k.iterId >= k.count

\* IterNextElem: the element, and the keeper afterwards.
IterElem(k) == k.elems[k.iterId]
Iterated(k) == [elems |-> k.elems, count |-> k.count, iterId |-> k.iterId + 1]

=============================================================================
