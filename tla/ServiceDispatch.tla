--------------------------- MODULE ServiceDispatch ---------------------------
(***************************************************************************)
(* The calls that go from the managers to what they keep:                  *)
(*   services - MultiServiceManager (src/uds/session/uds-app-client.h),    *)
(*   routines - MultiRoutineHandler (src/uds/session/apps/rctrl-router.h), *)
(*   runner   - ProcRunner (src/example/proc-runner.h), the main loop.     *)
(*                                                                         *)
(* A manager asks one element after the other.  An element calls back      *)
(* before it returns: a client that handles a request changes the session, *)
(* and all clients are told of it in the middle of the walk that asked     *)
(* this one; the application manager does so when it is polled and the     *)
(* session has timed out.  Everything runs in one thread, so a walk is     *)
(* active at most once and goes on when the walks it caused are over.      *)
(***************************************************************************)
EXTENDS Keeper, Sequences

CONSTANTS
    Services, Routines, Runnables,  \* what may be added to the three keepers
    Capacity                        \* Capacity[k]: positions of keeper k

Kept == {"services", "routines", "runner"}

ASSUME CapacityAssumption == Capacity \in [Kept -> Nat]
ASSUME NoElemAssumption == NoElem \notin Services \cup Routines \cup Runnables

\* Walks that ask by an index of their own, and walks that tell by the iteration
\* cursor of the keeper.
Askings == {"IsServiceSupported", "OnAppIndication", "OnRoutine", "Process"}
Tellings == {"OnAppConfirmation", "OnSessionChange"}
Walks == Askings \cup Tellings

VARIABLES
    keeper,   \* the three keepers
    walk      \* walk[w]: its index, the element running, and what it called so far

vars == <<keeper, walk>>

Elems(k) == IF k = "services" THEN Services
            ELSE IF k = "routines" THEN Routines ELSE Runnables

Over(w) == IF w = "OnRoutine" THEN "routines"
           ELSE IF w = "Process" THEN "runner" ELSE "services"

\* Calls of the transport layer and of the main loop; the others come from an element.
FromOutside == {"IsServiceSupported", "OnAppIndication", "OnAppConfirmation", "Process"}

\* What an element called by walk w may call.  OnSessionChange and OnAppConfirmation
\* of the clients call nothing (session-client.h:19, session-client.cpp:61-67,
\* did-router.cpp:42-44, rctrl-router.h:168-171, uds-app-client.h:32-35).
Calls(w) == IF w = "OnAppIndication" THEN {"OnSessionChange", "OnRoutine"}
            ELSE IF w = "Process" THEN {"OnSessionChange"} ELSE {}

NoWalk == [on |-> FALSE, i |-> 0, running |-> FALSE, called |-> <<>>]
Started == [on |-> TRUE, i |-> 0, running |-> FALSE, called |-> <<>>]

Asking(next, running, called) ==
    [on |-> TRUE, i |-> next, running |-> running, called |-> called]

\* The walk whose code is running.
Innermost(w) == walk[w].on /\ \A v \in Calls(w) : ~walk[v].on

InElement(w) == Innermost(w) /\ walk[w].running
InManager(w) == Innermost(w) /\ ~walk[w].running

Init ==
    /\ keeper = [k \in Kept |-> NewKeeper(Capacity[k])]
    /\ walk = [w \in Walks |-> NoWalk]

AllQuiet == \A w \in Walks : ~walk[w].on

-----------------------------------------------------------------------------
\* Add of a keeper, called while nothing is being dispatched (BuildApp).
Add(k, elem, multi) ==
    /\ AllQuiet
    /\ \E i \in Position(keeper[k], elem, multi) :
          keeper' = [keeper EXCEPT ![k] = Added(keeper[k], elem, i)]
    /\ UNCHANGED walk

\* Add returns an error.
AddRefused(k, elem, multi) ==
    /\ AllQuiet
    /\ Position(keeper[k], elem, multi) = {}
    /\ UNCHANGED vars

\* A manager starts to call its elements.  It has one at least: what OnAppIndication
\* returns without a client is undefined (uds-app-client.h:79), and BuildApp adds the
\* clients before anything can call them.
Begin(w) ==
    /\ IF w \in FromOutside THEN AllQuiet ELSE \E v \in Walks : w \in Calls(v) /\ InElement(v)
    /\ keeper[Over(w)].count > 0
    /\ walk' = [walk EXCEPT ![w] = Started]
    /\ keeper' = IF w \in Tellings
                 THEN [keeper EXCEPT !["services"] = StartIteration(keeper["services"])]
                 ELSE keeper

-----------------------------------------------------------------------------
(* Walks by index.                                                         *)
\* Bug: the index is the iteration cursor of the keeper.
IndexShared(w) == keeper[Over(w)].iterId

Index(w) == walk[w].i

\* The loops of OnRoutine and Process end with the count, those over the services at
\* the first empty position.
Counted == {"OnRoutine", "Process"}

NextElem(w) == TryReadElem(keeper[Over(w)], Index(w))

Exhausted(w) ==
    IF w \in Counted THEN Index(w) >= keeper[Over(w)].count ELSE NextElem(w) = NoElem

Ask(w) ==
    /\ w \in Askings
    /\ InManager(w)
    /\ ~Exhausted(w)
    /\ walk' = [walk EXCEPT ![w] =
          IF NextElem(w) = NoElem
          THEN Asking(walk[w].i + 1, FALSE, walk[w].called)
          ELSE Asking(walk[w].i + 1, TRUE, Append(walk[w].called, NextElem(w)))]
    /\ UNCHANGED keeper

\* The element takes what it was asked for: the walk ends.
Take(w) ==
    /\ w \in Askings \ {"Process"}
    /\ InElement(w)
    /\ walk' = [walk EXCEPT ![w] = NoWalk]
    /\ UNCHANGED keeper

\* The element returns NOT_HANDLED or false, or nothing at all.
Return(w) ==
    /\ InElement(w)
    /\ walk' = [walk EXCEPT ![w] = Asking(walk[w].i, FALSE, walk[w].called)]
    /\ UNCHANGED keeper

NobodyTook(w) ==
    /\ w \in Askings
    /\ InManager(w)
    /\ Exhausted(w)
    /\ walk' = [walk EXCEPT ![w] = NoWalk]
    /\ UNCHANGED keeper

(* Walks by the cursor of the services.                                    *)
Tell(w) ==
    /\ w \in Tellings
    /\ InManager(w)
    /\ ~IsLastIteration(keeper["services"])
    /\ walk' = [walk EXCEPT ![w] =
          Asking(0, TRUE, Append(walk[w].called, IterElem(keeper["services"])))]
    /\ keeper' = [keeper EXCEPT !["services"] = Iterated(keeper["services"])]

EverybodyTold(w) ==
    /\ w \in Tellings
    /\ InManager(w)
    /\ IsLastIteration(keeper["services"])
    /\ walk' = [walk EXCEPT ![w] = NoWalk]
    /\ UNCHANGED keeper

Next ==
    \/ \E k \in Kept, multi \in BOOLEAN : \E elem \in Elems(k) :
          Add(k, elem, multi) \/ AddRefused(k, elem, multi)
    \/ \E w \in Walks :
          \/ Begin(w)
          \/ Ask(w) \/ Take(w) \/ Return(w) \/ NobodyTook(w)
          \/ Tell(w) \/ EverybodyTold(w)

Spec == Init /\ [][Next]_vars

-----------------------------------------------------------------------------
(***************************************************************************)
(* Properties                                                              *)
(***************************************************************************)
Things == Services \cup Routines \cup Runnables

TypeOK ==
    /\ DOMAIN keeper = Kept
    /\ \A k \in Kept : keeper[k] \in Keepers(Things, Capacity[k])
    /\ walk \in [Walks -> [on : BOOLEAN, i : Nat, running : BOOLEAN, called : Seq(Things)]]

\* What a keeper holds, in its order.
Contents(k) == [i \in 1 .. keeper[k].count |-> keeper[k].elems[i - 1]]

\* The three ways to go through a keeper, up to the first empty position, up to the
\* count and by the cursor, meet the same elements (IKeeper.h:37-54, 71-97).
SameElements ==
    \A k \in Kept : \A i \in 0 .. Capacity[k] :
        TryReadElem(keeper[k], i) # NoElem <=> i < keeper[k].count

\* A request is given up as handled by nobody only after every element was asked, once
\* and in the order they were added, also when the elements caused other walks over the
\* same keeper meanwhile (uds-app-client.h:58-92, rctrl-router.h:185-200,
\* proc-runner.h:14-22).
AllAsked == [][\A w \in Askings : NobodyTook(w) => walk[w].called = Contents(Over(w))]_vars

\* Every client is told once of a session change or a confirmation, in the order they
\* were added, also in the middle of a request (uds-app-client.h:96-114).
AllTold == [][\A w \in Tellings : EverybodyTold(w) => walk[w].called = Contents("services")]_vars

=============================================================================
