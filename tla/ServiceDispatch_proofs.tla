------------------------ MODULE ServiceDispatch_proofs ------------------------
(***************************************************************************)
(* Proofs about ServiceDispatch, for any elements and capacities: the      *)
(* three ways through a keeper meet the same elements, and a walk calls    *)
(* each of them once, in order, whatever walks it causes.                  *)
(***************************************************************************)
EXTENDS ServiceDispatch, SequenceTheorems, TLAPS

\* The first n elements of a keeper.
First(k, n) == [j \in 1 .. n |-> k.elems[j - 1]]

\* A keeper is filled from its first position without a gap.
Filled(k, capacity) ==
    /\ k.count <= capacity
    /\ \A i \in 0 .. capacity - 1 : k.elems[i] # NoElem <=> i < k.count

\* A walk by index has called the elements before its index.
AskedSoFar(k, f) == f.on => f.i <= k.count /\ f.called = First(k, f.i)

\* A walk by cursor has called the elements before the cursor.
ToldSoFar(k, f) == f.on => k.iterId <= k.count /\ f.called = First(k, k.iterId)

\* No other walk is active during a confirmation, so the cursor has one user.
Alone == walk["OnAppConfirmation"].on =>
             \A v \in Walks \ {"OnAppConfirmation"} : ~walk[v].on

DispatchInv ==
    /\ TypeOK
    /\ \A k \in Kept : Filled(keeper[k], Capacity[k])
    /\ \A w \in Askings : AskedSoFar(keeper[Over(w)], walk[w])
    /\ \A w \in Tellings : ToldSoFar(keeper["services"], walk[w])
    /\ Alone

-----------------------------------------------------------------------------
LEMMA OverIsKept == \A w \in Walks : Over(w) \in Kept
BY DEF Over, Kept

LEMMA TellingsAreOverServices == \A w \in Tellings : Over(w) = "services"
BY DEF Over, Tellings

\* One more element called is one more element of the prefix.
LEMMA FirstGrows ==
    ASSUME NEW capacity \in Nat, NEW k \in Keepers(Things, capacity), Filled(k, capacity),
           NEW n \in Nat, n < k.count
    PROVE  /\ k.elems[n] \in Things
           /\ First(k, n) \in Seq(Things)
           /\ Append(First(k, n), k.elems[n]) = First(k, n + 1)
<1>1. \A i \in 0 .. n : i \in 0 .. capacity - 1 /\ k.elems[i] \in Things
  BY DEF Keepers, Filled
<1>2. First(k, n) \in Seq(Things) /\ Len(First(k, n)) = n
  <2>1. First(k, n) \in [1 .. n -> Things]
    <3>1. \A j \in 1 .. n : j - 1 \in 0 .. n
      OBVIOUS
    <3> QED BY <1>1, <3>1 DEF First
  <2>2. First(k, n) \in Seq(Things)
    BY <2>1, SeqDef
  <2>3. DOMAIN First(k, n) = 1 .. n
    BY DEF First
  <2> QED BY <2>2, <2>3, LenProperties
<1>3. k.elems[n] \in Things
  BY <1>1
<1>4. Append(First(k, n), k.elems[n]) = First(k, n + 1)
  <2> DEFINE a == Append(First(k, n), k.elems[n])
             b == First(k, n + 1)
  <2>1. /\ a \in Seq(Things) /\ Len(a) = n + 1
        /\ \A j \in 1 .. n : a[j] = First(k, n)[j]
        /\ a[n + 1] = k.elems[n]
    BY <1>2, <1>3, AppendProperties
  <2>2. DOMAIN a = 1 .. n + 1 /\ a = [j \in 1 .. n + 1 |-> a[j]]
    BY <2>1, LenProperties, SeqDef
  <2>3. \A j \in 1 .. n + 1 : a[j] = k.elems[j - 1]
    <3> TAKE j \in 1 .. n + 1
    <3>1. CASE j = n + 1
      BY <2>1, <3>1
    <3>2. CASE j \in 1 .. n
      <4>1. First(k, n)[j] = k.elems[j - 1]
        BY <3>2 DEF First
      <4>2. a[j] = First(k, n)[j]
        BY <2>1, <3>2
      <4> HIDE DEF a
      <4> QED BY <4>1, <4>2
    <3>3. j = n + 1 \/ j \in 1 .. n
      OBVIOUS
    <3> HIDE DEF a
    <3> QED BY <3>1, <3>2, <3>3
  <2>4. b = [j \in 1 .. n + 1 |-> k.elems[j - 1]]
    BY DEF First
  <2> HIDE DEF a, b
  <2>5. a = b
    BY <2>2, <2>3, <2>4
  <2> QED BY <2>5 DEF a, b
<1> QED BY <1>2, <1>3, <1>4

\* Nothing lies before the first element.
LEMMA NothingFirst == ASSUME NEW k PROVE First(k, 0) = <<>>
BY DEF First

-----------------------------------------------------------------------------
\* The walks that an action on walk w leaves alone.
LEMMA OtherWalks ==
    ASSUME NEW w \in Walks, NEW f, DispatchInv, walk' = [walk EXCEPT ![w] = f]
    PROVE  /\ walk'[w] = f
           /\ \A v \in Walks \ {w} : walk'[v] = walk[v]
BY DEF DispatchInv, TypeOK

\* What DispatchInv says of the type of a walk and of a keeper.
LEMMA WalkType ==
    ASSUME DispatchInv, NEW w \in Walks
    PROVE  /\ walk[w].on \in BOOLEAN /\ walk[w].i \in Nat
           /\ walk[w].running \in BOOLEAN /\ walk[w].called \in Seq(Things)
BY DEF DispatchInv, TypeOK

LEMMA KeeperType ==
    ASSUME DispatchInv, NEW k \in Kept
    PROVE  /\ keeper[k] \in Keepers(Things, Capacity[k])
           /\ Capacity[k] \in Nat
           /\ keeper[k].count \in Nat /\ keeper[k].iterId \in Nat
           /\ DOMAIN keeper[k].elems = 0 .. Capacity[k] - 1
           /\ Filled(keeper[k], Capacity[k])
BY CapacityAssumption DEF DispatchInv, TypeOK, Keepers

\* The steps that change one walk and no keeper preserve the invariant if what they
\* make of the walk fits it.
LEMMA WalkStep ==
    ASSUME DispatchInv, NEW w \in Walks,
           NEW f \in [on : BOOLEAN, i : Nat, running : BOOLEAN, called : Seq(Things)],
           walk' = [walk EXCEPT ![w] = f], keeper' = keeper,
           w \in Askings => AskedSoFar(keeper[Over(w)], f),
           w \in Tellings => ToldSoFar(keeper["services"], f),
           f.on => walk[w].on \/ w = "OnAppConfirmation" \/ ~walk["OnAppConfirmation"].on,
           f.on /\ w = "OnAppConfirmation" =>
               \A v \in Walks \ {w} : ~walk[v].on
    PROVE  DispatchInv'
<1>1. walk'[w] = f /\ \A v \in Walks \ {w} : walk'[v] = walk[v]
  BY OtherWalks
<1>2. TypeOK'
  BY DEF DispatchInv, TypeOK
<1>3. \A k \in Kept : Filled(keeper'[k], Capacity[k])
  BY DEF DispatchInv
<1>4. \A v \in Askings : AskedSoFar(keeper'[Over(v)], walk'[v])
  <2> TAKE v \in Askings
  <2>1. CASE v = w
    BY <1>1, <2>1
  <2>2. CASE v # w
    <3>1. walk'[v] = walk[v]
      BY <1>1, <2>2 DEF Walks
    <3> QED BY <3>1 DEF DispatchInv
  <2> QED BY <2>1, <2>2
<1>5. \A v \in Tellings : ToldSoFar(keeper'["services"], walk'[v])
  <2> TAKE v \in Tellings
  <2>1. CASE v = w
    BY <1>1, <2>1
  <2>2. CASE v # w
    <3>1. walk'[v] = walk[v]
      BY <1>1, <2>2 DEF Walks
    <3> QED BY <3>1 DEF DispatchInv
  <2> QED BY <2>1, <2>2
<1>6. Alone'
  <2>1. SUFFICES ASSUME walk'["OnAppConfirmation"].on,
                        NEW v \in Walks \ {"OnAppConfirmation"}
                 PROVE  ~walk'[v].on
    BY DEF Alone
  <2>2. "OnAppConfirmation" \in Walks
    BY DEF Walks, Tellings
  <2>3. CASE w = "OnAppConfirmation"
    BY <1>1, <2>1, <2>3
  <2>4. CASE w # "OnAppConfirmation"
    <3>1. walk["OnAppConfirmation"].on /\ ~walk[v].on /\ ~walk[w].on
      BY <1>1, <2>1, <2>2, <2>4 DEF DispatchInv, Alone
    <3> QED BY <1>1, <2>4, <3>1
  <2> QED BY <2>3, <2>4
<1> QED BY <1>2, <1>3, <1>4, <1>5, <1>6 DEF DispatchInv

\* The steps that set the cursor of the services preserve the invariant if no other walk
\* uses it.
LEMMA CursorStep ==
    ASSUME DispatchInv, NEW w \in Tellings, NEW c \in Nat,
           NEW f \in [on : BOOLEAN, i : Nat, running : BOOLEAN, called : Seq(Things)],
           NEW k, k = [elems |-> keeper["services"].elems,
                       count |-> keeper["services"].count, iterId |-> c],
           keeper' = [keeper EXCEPT !["services"] = k],
           walk' = [walk EXCEPT ![w] = f],
           ToldSoFar(k, f),
           \A v \in Tellings \ {w} : ~walk[v].on,
           w = "OnAppConfirmation" => \A v \in Walks \ {w} : ~walk[v].on
    PROVE  DispatchInv'
<1>1. w \in Walks
  BY DEF Walks
<1>2. walk'[w] = f /\ \A v \in Walks \ {w} : walk'[v] = walk[v]
  BY <1>1, OtherWalks
<1>3. "services" \in Kept
  BY DEF Kept
<1>4. /\ keeper'["services"] = k
      /\ \A j \in Kept \ {"services"} : keeper'[j] = keeper[j]
      /\ DOMAIN keeper' = Kept
  BY <1>3 DEF DispatchInv, TypeOK
<1>5. k \in Keepers(Things, Capacity["services"])
  BY <1>3, KeeperType DEF Keepers
<1>6. Filled(k, Capacity["services"])
  BY <1>3, KeeperType DEF Filled
<1>7. TypeOK'
  <2>1. \A j \in Kept : keeper'[j] \in Keepers(Things, Capacity[j])
    BY <1>4, <1>5, KeeperType
  <2>2. walk' \in [Walks -> [on : BOOLEAN, i : Nat, running : BOOLEAN, called : Seq(Things)]]
    BY DEF DispatchInv, TypeOK
  <2> QED BY <1>4, <2>1, <2>2 DEF TypeOK
<1>8. \A j \in Kept : Filled(keeper'[j], Capacity[j])
  BY <1>4, <1>6, KeeperType
<1>9. \A v \in Askings : AskedSoFar(keeper'[Over(v)], walk'[v])
  <2> TAKE v \in Askings
  <2>1. v \in Walks \ {w}
    BY DEF Walks, Askings, Tellings
  <2>2. AskedSoFar(keeper[Over(v)], walk[v]) /\ walk'[v] = walk[v]
    BY <1>2, <2>1 DEF DispatchInv
  <2>3. /\ keeper'[Over(v)].count = keeper[Over(v)].count
        /\ keeper'[Over(v)].elems = keeper[Over(v)].elems
    BY <1>4, <2>1, OverIsKept
  <2> QED BY <2>2, <2>3 DEF AskedSoFar, First
<1>10. \A v \in Tellings : ToldSoFar(keeper'["services"], walk'[v])
  <2> TAKE v \in Tellings
  <2>1. CASE v = w
    BY <1>2, <1>4, <2>1
  <2>2. CASE v # w
    <3>1. walk'[v] = walk[v] /\ ~walk[v].on
      BY <1>2, <2>2 DEF Walks
    <3> QED BY <3>1 DEF ToldSoFar
  <2> QED BY <2>1, <2>2
<1>11. Alone'
  <2>1. CASE w = "OnAppConfirmation"
    BY <1>2, <2>1 DEF Alone
  <2>2. CASE w # "OnAppConfirmation"
    <3>1. ~walk["OnAppConfirmation"].on /\ "OnAppConfirmation" \in Walks \ {w}
      BY <2>2 DEF Tellings, Walks
    <3> QED BY <1>2, <3>1 DEF Alone
  <2> QED BY <2>1, <2>2
<1> QED BY <1>7, <1>8, <1>9, <1>10, <1>11 DEF DispatchInv

\* The position Add finds is the one behind the last element.
LEMMA AddFills ==
    ASSUME NEW capacity \in Nat, NEW k \in Keepers(Things, capacity), Filled(k, capacity),
           NEW elem \in Things, NEW multi \in BOOLEAN, NEW i \in Position(k, elem, multi)
    PROVE  /\ i = k.count
           /\ Added(k, elem, i) \in Keepers(Things, capacity)
           /\ Filled(Added(k, elem, i), capacity)
<1>1. /\ DOMAIN k.elems = 0 .. capacity - 1 /\ k.count \in Nat /\ k.iterId \in Nat
      /\ k.elems \in [0 .. capacity - 1 -> Things \cup {NoElem}]
  BY DEF Keepers
<1>2. /\ i \in 0 .. capacity - 1 /\ k.count \in 0 .. capacity - 1
      /\ k.elems[i] = NoElem /\ \A j \in 0 .. i - 1 : k.elems[j] # NoElem
  BY <1>1 DEF Position
<1>3. i = k.count
  <2>1. ~(i < k.count)
    BY <1>2 DEF Filled
  <2>2. ~(k.count < i)
    <3>1. k.elems[k.count] = NoElem
      BY <1>1, <1>2 DEF Filled
    <3>2. SUFFICES ASSUME k.count < i PROVE FALSE
      OBVIOUS
    <3>3. k.count \in 0 .. i - 1
      BY <1>1, <1>2, <3>2
    <3> QED BY <1>2, <3>1, <3>3
  <2> QED BY <1>1, <1>2, <2>1, <2>2
<1>4. elem # NoElem
  BY NoElemAssumption DEF Things
<1>5. [k.elems EXCEPT ![i] = elem] \in [0 .. capacity - 1 -> Things \cup {NoElem}]
  BY <1>1, <1>2
<1>6. Added(k, elem, i) \in Keepers(Things, capacity)
  BY <1>1, <1>5 DEF Added, Keepers
<1>7. \A j \in 0 .. capacity - 1 :
         [k.elems EXCEPT ![i] = elem][j] # NoElem <=> j < k.count + 1
  <2> TAKE j \in 0 .. capacity - 1
  <2>1. CASE j = i
    BY <1>1, <1>3, <1>4, <2>1
  <2>2. CASE j # i
    <3>1. [k.elems EXCEPT ![i] = elem][j] = k.elems[j]
      BY <1>1, <2>2
    <3>2. j < k.count <=> j < k.count + 1
      BY <1>1, <1>3, <2>2
    <3> QED BY <3>1, <3>2 DEF Filled
  <2> QED BY <2>1, <2>2
<1>8. k.count + 1 <= capacity
  BY <1>1, <1>2
<1> QED BY <1>3, <1>6, <1>7, <1>8 DEF Added, Filled

-----------------------------------------------------------------------------
(* The actions.                                                            *)
LEMMA InitDispatch == Init => DispatchInv
<1> SUFFICES ASSUME Init PROVE DispatchInv
  OBVIOUS
<1>1. \A k \in Kept : Capacity[k] \in Nat /\ keeper[k] = NewKeeper(Capacity[k])
  BY CapacityAssumption DEF Init
<1>2. ASSUME NEW c \in Nat
      PROVE  NewKeeper(c) \in Keepers(Things, c) /\ Filled(NewKeeper(c), c)
  <2>1. [i \in 0 .. c - 1 |-> NoElem] \in [0 .. c - 1 -> Things \cup {NoElem}]
    OBVIOUS
  <2>2. NewKeeper(c) \in Keepers(Things, c)
    BY <2>1 DEF NewKeeper, Keepers
  <2>3. NewKeeper(c).count = 0 /\ \A i \in 0 .. c - 1 : NewKeeper(c).elems[i] = NoElem
    BY DEF NewKeeper
  <2>4. Filled(NewKeeper(c), c)
    BY <2>3 DEF Filled
  <2> QED BY <2>2, <2>4
<1>3. \A k \in Kept : /\ keeper[k] \in Keepers(Things, Capacity[k])
                      /\ Filled(keeper[k], Capacity[k])
  BY <1>1, <1>2
<1>4. \A w \in Walks : walk[w] = NoWalk
  BY DEF Init
<1>5. NoWalk \in [on : BOOLEAN, i : Nat, running : BOOLEAN, called : Seq(Things)]
  BY EmptySeq DEF NoWalk
<1>6. TypeOK
  BY <1>3, <1>5 DEF TypeOK, Init
<1>7. \A w \in Walks : ~walk[w].on
  BY <1>4 DEF NoWalk
<1> QED
  BY <1>3, <1>6, <1>7 DEF DispatchInv, AskedSoFar, ToldSoFar, Alone, Walks

LEMMA AddStep ==
    ASSUME DispatchInv, NEW k \in Kept, NEW multi \in BOOLEAN, NEW elem \in Elems(k),
           Add(k, elem, multi)
    PROVE  DispatchInv'
<1>1. elem \in Things
  BY DEF Elems, Things
<1>2. PICK i \in Position(keeper[k], elem, multi) :
         keeper' = [keeper EXCEPT ![k] = Added(keeper[k], elem, i)]
  BY DEF Add
<1>3. /\ Added(keeper[k], elem, i) \in Keepers(Things, Capacity[k])
      /\ Filled(Added(keeper[k], elem, i), Capacity[k])
  BY <1>1, KeeperType, AddFills
<1>4. \A j \in Kept : /\ keeper'[j] \in Keepers(Things, Capacity[j])
                      /\ Filled(keeper'[j], Capacity[j])
  BY <1>2, <1>3, KeeperType DEF DispatchInv, TypeOK
<1>5. DOMAIN keeper' = Kept /\ walk' = walk
  BY <1>2 DEF Add, DispatchInv, TypeOK
<1>6. TypeOK'
  BY <1>4, <1>5 DEF DispatchInv, TypeOK
<1>7. \A w \in Walks : ~walk'[w].on
  BY <1>5 DEF Add, AllQuiet
<1> QED
  BY <1>4, <1>6, <1>7 DEF DispatchInv, AskedSoFar, ToldSoFar, Alone, Walks

\* A walk that another one causes starts while no confirmation is under way.
LEMMA CausedAlone ==
    ASSUME DispatchInv, NEW w \in Walks, NEW v \in Walks, w \in Calls(v), InElement(v)
    PROVE  ~walk["OnAppConfirmation"].on /\ ~walk[w].on /\ w # "OnAppConfirmation"
<1>1. walk[v].on /\ ~walk[w].on
  BY DEF InElement, Innermost
<1>2. v # "OnAppConfirmation" /\ w # "OnAppConfirmation"
  BY DEF Calls
<1> QED
  BY <1>1, <1>2 DEF DispatchInv, Alone, Walks, Tellings

LEMMA BeginStep ==
    ASSUME DispatchInv, NEW w \in Walks, Begin(w)
    PROVE  DispatchInv'
<1>1. Started \in [on : BOOLEAN, i : Nat, running : BOOLEAN, called : Seq(Things)]
  BY EmptySeq DEF Started
<1>2. walk' = [walk EXCEPT ![w] = Started]
  BY DEF Begin
<1>3. /\ w = "OnAppConfirmation" => \A v \in Walks \ {w} : ~walk[v].on
      /\ \A v \in Tellings \ {w} : ~walk[v].on
         \/ w \notin Tellings
      /\ w # "OnAppConfirmation" => ~walk["OnAppConfirmation"].on
  <2>1. CASE w \in FromOutside
    BY <2>1 DEF Begin, AllQuiet, Walks, Tellings
  <2>2. CASE w \notin FromOutside
    <3>1. PICK v \in Walks : w \in Calls(v) /\ InElement(v)
      BY <2>2 DEF Begin
    <3>2. ~walk["OnAppConfirmation"].on /\ w # "OnAppConfirmation"
      BY <3>1, CausedAlone
    <3> QED BY <3>2 DEF Tellings
  <2> QED BY <2>1, <2>2
<1>4. CASE w \in Tellings
  <2> DEFINE k == StartIteration(keeper["services"])
  <2>1. keeper' = [keeper EXCEPT !["services"] = k]
    BY <1>4 DEF Begin
  <2>2. k = [elems |-> keeper["services"].elems,
             count |-> keeper["services"].count, iterId |-> 0]
    BY DEF StartIteration
  <2>3. "services" \in Kept
    BY DEF Kept
  <2>4. ToldSoFar(k, Started)
    <3>1. k.iterId = 0 /\ k.count \in Nat
      BY <2>2, <2>3, KeeperType
    <3> HIDE DEF k
    <3>2. Started.called = <<>>
      BY DEF Started
    <3> QED BY <3>1, <3>2, NothingFirst DEF ToldSoFar
  <2> HIDE DEF k
  <2> QED BY <1>1, <1>2, <1>3, <1>4, <2>1, <2>2, <2>4, CursorStep
<1>5. CASE w \in Askings
  <2>1. keeper' = keeper /\ w \notin Tellings
    BY <1>5 DEF Begin, Askings, Tellings
  <2>2. AskedSoFar(keeper[Over(w)], Started)
    <3>1. keeper[Over(w)].count \in Nat
      BY KeeperType, OverIsKept
    <3>2. Started.called = <<>> /\ Started.i = 0
      BY DEF Started
    <3> QED BY <3>1, <3>2, NothingFirst DEF AskedSoFar
  <2> QED BY <1>1, <1>2, <1>3, <2>1, <2>2, WalkStep
<1> QED BY <1>4, <1>5 DEF Walks

\* A walk that ends, and one whose element returns.
LEMMA EndStep ==
    ASSUME DispatchInv, NEW w \in Walks, walk' = [walk EXCEPT ![w] = NoWalk],
           keeper' = keeper
    PROVE  DispatchInv'
<1>1. /\ NoWalk \in [on : BOOLEAN, i : Nat, running : BOOLEAN, called : Seq(Things)]
      /\ ~NoWalk.on
  BY EmptySeq DEF NoWalk
<1> QED BY <1>1, WalkStep DEF AskedSoFar, ToldSoFar

LEMMA ReturnStep ==
    ASSUME DispatchInv, NEW w \in Walks, Return(w)
    PROVE  DispatchInv'
<1> DEFINE f == Asking(walk[w].i, FALSE, walk[w].called)
<1>1. walk' = [walk EXCEPT ![w] = f] /\ keeper' = keeper /\ walk[w].on
  BY DEF Return, InElement, Innermost
<1>2. /\ f \in [on : BOOLEAN, i : Nat, running : BOOLEAN, called : Seq(Things)]
      /\ f.i = walk[w].i /\ f.called = walk[w].called
  BY WalkType DEF Asking
<1> HIDE DEF f
<1>3. w \in Askings => AskedSoFar(keeper[Over(w)], f)
  BY <1>1, <1>2 DEF DispatchInv, AskedSoFar
<1>4. w \in Tellings => ToldSoFar(keeper["services"], f)
  BY <1>1, <1>2 DEF DispatchInv, ToldSoFar
<1>5. w = "OnAppConfirmation" => \A v \in Walks \ {w} : ~walk[v].on
  BY <1>1 DEF DispatchInv, Alone
<1> QED BY <1>1, <1>2, <1>3, <1>4, <1>5, WalkStep

LEMMA AskStep ==
    ASSUME DispatchInv, NEW w \in Askings, Ask(w)
    PROVE  DispatchInv'
<1> DEFINE k == keeper[Over(w)]
           i == walk[w].i
           f == Asking(i + 1, TRUE, Append(walk[w].called, NextElem(w)))
<1>1. w \in Walks /\ Over(w) \in Kept
  BY OverIsKept DEF Walks
<1>2. walk[w].on /\ i \in Nat /\ keeper' = keeper /\ ~Exhausted(w)
  BY <1>1, WalkType DEF Ask, InManager, Innermost
<1>3. /\ k \in Keepers(Things, Capacity[Over(w)]) /\ Capacity[Over(w)] \in Nat
      /\ Filled(k, Capacity[Over(w)]) /\ k.count \in Nat
      /\ DOMAIN k.elems = 0 .. Capacity[Over(w)] - 1
  BY <1>1, KeeperType
<1>4. i <= k.count /\ walk[w].called = First(k, i)
  BY <1>2 DEF DispatchInv, AskedSoFar
<1>5. i < k.count /\ NextElem(w) = k.elems[i] /\ NextElem(w) # NoElem
  <2>1. i < k.count
    <3>1. CASE w \in Counted
      BY <1>2, <1>3, <3>1 DEF Exhausted, Index
    <3>2. CASE w \notin Counted
      <4>1. TryReadElem(k, i) # NoElem
        BY <1>2, <3>2 DEF Exhausted, NextElem, Index
      <4>2. i \in 0 .. Capacity[Over(w)] - 1 /\ k.elems[i] # NoElem
        BY <1>3, <4>1 DEF TryReadElem
      <4> QED BY <1>3, <4>2 DEF Filled
    <3> QED BY <3>1, <3>2
  <2>2. i \in 0 .. Capacity[Over(w)] - 1
    BY <1>2, <1>3, <2>1 DEF Filled
  <2>3. NextElem(w) = k.elems[i]
    BY <1>3, <2>2 DEF NextElem, TryReadElem, Index
  <2>4. k.elems[i] # NoElem
    BY <1>3, <2>1, <2>2 DEF Filled
  <2> QED BY <2>1, <2>3, <2>4
<1>6. walk' = [walk EXCEPT ![w] = f]
  BY <1>5 DEF Ask
<1>7. /\ k.elems[i] \in Things
      /\ Append(First(k, i), k.elems[i]) = First(k, i + 1)
  BY <1>2, <1>3, <1>5, FirstGrows
<1>8. /\ f.on = TRUE /\ f.i = i + 1 /\ f.called = First(k, i + 1)
      /\ f \in [on : BOOLEAN, i : Nat, running : BOOLEAN, called : Seq(Things)]
  <2>1. Append(walk[w].called, NextElem(w)) = First(k, i + 1)
    BY <1>4, <1>5, <1>7
  <2>2. Append(walk[w].called, NextElem(w)) \in Seq(Things)
    BY <1>1, <1>5, <1>7, WalkType, AppendProperties
  <2> QED BY <1>2, <2>1, <2>2 DEF Asking
<1>9. AskedSoFar(k, f)
  <2>1. i + 1 <= k.count
    BY <1>2, <1>3, <1>5
  <2> HIDE DEF f, i, k
  <2> QED BY <1>8, <2>1 DEF AskedSoFar
<1>10. w \notin Tellings
  BY DEF Askings, Tellings
<1> HIDE DEF f, i
<1> QED BY <1>1, <1>2, <1>6, <1>8, <1>9, <1>10, WalkStep DEF Tellings

LEMMA TellStep ==
    ASSUME DispatchInv, NEW w \in Tellings, Tell(w)
    PROVE  DispatchInv'
<1> DEFINE k == keeper["services"]
           c == k.iterId
           n == Iterated(k)
           f == Asking(0, TRUE, Append(walk[w].called, IterElem(k)))
<1>1. w \in Walks /\ "services" \in Kept
  BY DEF Walks, Kept
<1>2. walk[w].on /\ ~IsLastIteration(k) /\ walk' = [walk EXCEPT ![w] = f]
      /\ keeper' = [keeper EXCEPT !["services"] = n]
  BY DEF Tell, InManager, Innermost
<1>3. /\ k \in Keepers(Things, Capacity["services"]) /\ Capacity["services"] \in Nat
      /\ Filled(k, Capacity["services"]) /\ k.count \in Nat /\ c \in Nat
  BY <1>1, KeeperType
<1>4. c < k.count /\ walk[w].called = First(k, c)
  BY <1>2, <1>3 DEF DispatchInv, ToldSoFar, IsLastIteration
<1>5. k.elems[c] \in Things /\ Append(First(k, c), k.elems[c]) = First(k, c + 1)
  BY <1>3, <1>4, FirstGrows
<1>6. n = [elems |-> k.elems, count |-> k.count, iterId |-> c + 1]
  BY DEF Iterated
<1>7. /\ f.on = TRUE /\ f.called = First(k, c + 1)
      /\ f \in [on : BOOLEAN, i : Nat, running : BOOLEAN, called : Seq(Things)]
  <2>1. Append(walk[w].called, IterElem(k)) = First(k, c + 1)
    BY <1>4, <1>5 DEF IterElem
  <2>2. Append(walk[w].called, IterElem(k)) \in Seq(Things)
    BY <1>1, <1>5, WalkType, AppendProperties DEF IterElem
  <2> QED BY <2>1, <2>2 DEF Asking
<1>8. ToldSoFar(n, f)
  <2>1. n.iterId = c + 1 /\ n.count = k.count /\ First(n, c + 1) = First(k, c + 1)
    BY <1>6 DEF First
  <2>2. c + 1 <= k.count
    BY <1>3, <1>4
  <2> HIDE DEF f, n, c, k
  <2> QED BY <1>7, <2>1, <2>2 DEF ToldSoFar
<1>9. /\ w = "OnAppConfirmation" => \A v \in Walks \ {w} : ~walk[v].on
      /\ \A v \in Tellings \ {w} : ~walk[v].on
  BY <1>1, <1>2 DEF DispatchInv, Alone, Tellings, Walks
<1>10. c + 1 \in Nat
  BY <1>3
<1> HIDE DEF f, n, c
<1> QED BY <1>2, <1>6, <1>7, <1>8, <1>9, <1>10, CursorStep

LEMMA NextDispatch == DispatchInv /\ [Next]_vars => DispatchInv'
<1> SUFFICES ASSUME DispatchInv, [Next]_vars PROVE DispatchInv'
  OBVIOUS
<1>1. ASSUME NEW k \in Kept, NEW multi \in BOOLEAN, NEW elem \in Elems(k),
             Add(k, elem, multi)
      PROVE  DispatchInv'
  BY <1>1, AddStep
<1>2. ASSUME NEW k \in Kept, NEW multi \in BOOLEAN, NEW elem \in Elems(k),
             AddRefused(k, elem, multi)
      PROVE  UNCHANGED vars
  BY <1>2 DEF AddRefused
<1>3. ASSUME NEW w \in Walks, Begin(w) PROVE DispatchInv'
  BY <1>3, BeginStep
<1>4. ASSUME NEW w \in Walks, Ask(w) PROVE DispatchInv'
  BY <1>4, AskStep DEF Ask
<1>5. ASSUME NEW w \in Walks, Take(w) \/ NobodyTook(w) \/ EverybodyTold(w)
      PROVE  DispatchInv'
  BY <1>5, EndStep DEF Take, NobodyTook, EverybodyTold
<1>6. ASSUME NEW w \in Walks, Return(w) PROVE DispatchInv'
  BY <1>6, ReturnStep
<1>7. ASSUME NEW w \in Walks, Tell(w) PROVE DispatchInv'
  BY <1>7, TellStep DEF Tell
<1>8. ASSUME UNCHANGED vars PROVE DispatchInv'
  BY <1>8 DEF vars, DispatchInv, TypeOK, Alone
<1> QED
  BY <1>1, <1>2, <1>3, <1>4, <1>5, <1>6, <1>7, <1>8 DEF Next

-----------------------------------------------------------------------------
(* The theorems.                                                           *)

\* The invariant holds in every state, whatever the elements and capacities.
THEOREM DispatchInvariant == Spec => []DispatchInv
<1>1. Init => DispatchInv
  BY InitDispatch
<1>2. DispatchInv /\ [Next]_vars => DispatchInv'
  BY NextDispatch
<1> QED BY <1>1, <1>2, PTL DEF Spec

\* The loops that stop at the first empty position and those that stop at the count meet
\* the same elements (IKeeper.h:37-54, 71-97).
THEOREM SameElementsAlways == Spec => []SameElements
<1>1. DispatchInv => SameElements
  <2> SUFFICES ASSUME DispatchInv, NEW k \in Kept, NEW i \in 0 .. Capacity[k]
               PROVE  TryReadElem(keeper[k], i) # NoElem <=> i < keeper[k].count
    BY DEF SameElements
  <2>1. /\ DOMAIN keeper[k].elems = 0 .. Capacity[k] - 1 /\ Capacity[k] \in Nat
        /\ keeper[k].count \in Nat /\ Filled(keeper[k], Capacity[k])
    BY KeeperType
  <2>2. CASE i \in 0 .. Capacity[k] - 1
    BY <2>1, <2>2 DEF TryReadElem, Filled
  <2>3. CASE i \notin 0 .. Capacity[k] - 1
    <3>1. ~(i < keeper[k].count)
      BY <2>1, <2>3 DEF Filled
    <3> QED BY <2>1, <2>3, <3>1 DEF TryReadElem
  <2> QED BY <2>2, <2>3
<1> QED BY <1>1, DispatchInvariant, PTL

\* A request nobody takes was put to every element, once and in order, for any number of
\* elements and whatever they cause (uds-app-client.h:58-92, rctrl-router.h:185-200,
\* proc-runner.h:14-22).
THEOREM EverybodyAsked == Spec => AllAsked
<1>1. DispatchInv /\ [Next]_vars =>
         [\A w \in Askings : NobodyTook(w) => walk[w].called = Contents(Over(w))]_vars
  <2> SUFFICES ASSUME DispatchInv, NEW w \in Askings, NobodyTook(w)
               PROVE  walk[w].called = Contents(Over(w))
    OBVIOUS
  <2> DEFINE k == keeper[Over(w)]
             i == walk[w].i
  <2>1. w \in Walks /\ Over(w) \in Kept
    BY OverIsKept DEF Walks
  <2>2. walk[w].on /\ i \in Nat /\ Exhausted(w)
    BY <2>1, WalkType DEF NobodyTook, InManager, Innermost
  <2>3. i <= k.count /\ walk[w].called = First(k, i)
    BY <2>2 DEF DispatchInv, AskedSoFar
  <2>4. /\ DOMAIN k.elems = 0 .. Capacity[Over(w)] - 1 /\ Capacity[Over(w)] \in Nat
        /\ k.count \in Nat /\ Filled(k, Capacity[Over(w)])
    BY <2>1, KeeperType
  <2>5. i >= k.count
    <3>1. CASE w \in Counted
      BY <2>2, <3>1 DEF Exhausted, Index
    <3>2. CASE w \notin Counted
      <4>1. TryReadElem(k, i) = NoElem
        BY <2>2, <3>2 DEF Exhausted, NextElem, Index
      <4>2. SUFFICES ASSUME i < k.count PROVE FALSE
        BY <2>2, <2>4
      <4>3. i \in 0 .. Capacity[Over(w)] - 1
        BY <2>2, <2>4, <4>2 DEF Filled
      <4> QED BY <2>4, <4>1, <4>2, <4>3 DEF Filled, TryReadElem
    <3> QED BY <3>1, <3>2
  <2>6. i = k.count
    BY <2>2, <2>3, <2>4, <2>5
  <2> QED BY <2>3, <2>6 DEF First, Contents
<1> QED BY <1>1, DispatchInvariant, PTL DEF Spec, AllAsked

\* Every client is told once and in order, for any number of clients
\* (uds-app-client.h:96-114).
THEOREM EverybodyIsTold == Spec => AllTold
<1>1. DispatchInv /\ [Next]_vars =>
         [\A w \in Tellings : EverybodyTold(w) => walk[w].called = Contents("services")]_vars
  <2> SUFFICES ASSUME DispatchInv, NEW w \in Tellings, EverybodyTold(w)
               PROVE  walk[w].called = Contents("services")
    OBVIOUS
  <2> DEFINE k == keeper["services"]
  <2>1. walk[w].on /\ IsLastIteration(k)
    BY DEF EverybodyTold, InManager, Innermost
  <2>2. k.iterId <= k.count /\ walk[w].called = First(k, k.iterId)
    BY <2>1 DEF DispatchInv, ToldSoFar
  <2>3. k.iterId \in Nat /\ k.count \in Nat
    BY KeeperType DEF Kept
  <2>4. k.iterId = k.count
    BY <2>1, <2>2, <2>3 DEF IsLastIteration
  <2> QED BY <2>2, <2>4 DEF First, Contents
<1> QED BY <1>1, DispatchInvariant, PTL DEF Spec, AllTold

-----------------------------------------------------------------------------
(* What Add does to the contents of a keeper.                              *)

Holds(k, elem) == \E i \in 0 .. keeper[k].count - 1 : keeper[k].elems[i] = elem

\* Add refuses an element for two reasons only: the keeper is full, or holds the element
\* already and multi is false (IKeeper.h:37-54).
AddDecides ==
    \A k \in Kept, multi \in BOOLEAN : \A elem \in Elems(k) :
        Position(keeper[k], elem, multi) = {} <=>
            keeper[k].count = Capacity[k] \/ (~multi /\ Holds(k, elem))

\* A keeper only grows, by one element at its end, and no walk through it moves, drops or
\* repeats what it holds (IKeeper.h:37-54, 67-97).
ContentsGrow ==
    [][\A k \in Kept :
          \/ Contents(k)' = Contents(k)
          \/ \E elem \in Elems(k) : Contents(k)' = Append(Contents(k), elem)]_vars

\* Whatever is added, in whatever order (IKeeper.h:37-54).
THEOREM AddAlwaysDecides == Spec => []AddDecides
<1>1. DispatchInv => AddDecides
  <2> SUFFICES ASSUME DispatchInv, NEW k \in Kept, NEW multi \in BOOLEAN, NEW elem \in Elems(k)
               PROVE  Position(keeper[k], elem, multi) = {} <=>
                          keeper[k].count = Capacity[k] \/ (~multi /\ Holds(k, elem))
    BY DEF AddDecides
  <2> DEFINE K == keeper[k]
             c == Capacity[k]
             n == K.count
  <2>1. /\ K \in Keepers(Things, c) /\ c \in Nat /\ n \in Nat /\ Filled(K, c)
        /\ DOMAIN K.elems = 0 .. c - 1 /\ elem \in Things
    BY KeeperType DEF Elems, Things
  <2>2. n <= c /\ \A j \in 0 .. n - 1 : K.elems[j] # NoElem
    <3>1. n <= c
      BY <2>1 DEF Filled
    <3>2. \A j \in 0 .. n - 1 : j \in 0 .. c - 1 /\ j < n
      BY <2>1, <3>1
    <3> QED BY <2>1, <3>1, <3>2 DEF Filled
  <2>3. ASSUME n # c, multi \/ ~Holds(k, elem) PROVE n \in Position(K, elem, multi)
    <3>1. n \in 0 .. c - 1 /\ K.elems[n] = NoElem
      BY <2>1, <2>2, <2>3 DEF Filled
    <3>2. \A j \in 0 .. n - 1 : K.elems[j] = elem => multi
      BY <2>3 DEF Holds
    <3> HIDE DEF K, n, c
    <3> QED BY <2>1, <2>2, <3>1, <3>2 DEF Position, n
  <2>4. ASSUME NEW i \in Position(K, elem, multi) PROVE n # c /\ (multi \/ ~Holds(k, elem))
    <3>1. i = n
      BY <2>1, AddFills
    <3>2. n \in 0 .. c - 1 /\ \A j \in 0 .. n - 1 : K.elems[j] = elem => multi
      BY <2>1, <3>1 DEF Position
    <3> QED BY <2>1, <3>2 DEF Holds
  <2> QED BY <2>3, <2>4
<1> QED BY <1>1, DispatchInvariant, PTL

LEMMA AddAppends ==
    ASSUME DispatchInv, NEW k \in Kept, NEW multi \in BOOLEAN, NEW elem \in Elems(k),
           Add(k, elem, multi)
    PROVE  /\ Contents(k)' = Append(Contents(k), elem)
           /\ \A j \in Kept \ {k} : keeper'[j] = keeper[j]
<1> DEFINE K == keeper[k]
           c == Capacity[k]
           n == K.count
<1>1. /\ K \in Keepers(Things, c) /\ c \in Nat /\ n \in Nat /\ Filled(K, c)
      /\ DOMAIN K.elems = 0 .. c - 1 /\ elem \in Things
  BY KeeperType DEF Elems, Things
<1>2. PICK i \in Position(K, elem, multi) : keeper' = [keeper EXCEPT ![k] = Added(K, elem, i)]
  BY DEF Add
<1> DEFINE N == Added(K, elem, n)
<1>3. N \in Keepers(Things, c) /\ Filled(N, c) /\ i = n
  BY <1>1, AddFills
<1>4. n \in DOMAIN K.elems
  BY <1>3 DEF Position
<1>5. /\ N.count = n + 1 /\ N.elems[n] = elem
      /\ \A j \in DOMAIN K.elems \ {n} : N.elems[j] = K.elems[j]
  BY <1>4 DEF Added
<1>6. /\ keeper'[k] = N
      /\ \A j \in Kept \ {k} : keeper'[j] = keeper[j]
  BY <1>2, <1>3 DEF DispatchInv, TypeOK
<1> HIDE DEF N
<1>7. Append(First(N, n), elem) = First(N, n + 1)
  BY <1>1, <1>3, <1>5, FirstGrows
<1>8. First(N, n) = First(K, n)
  <2>1. \A j \in 1 .. n : N.elems[j - 1] = K.elems[j - 1]
    <3>1. \A j \in 1 .. n : j - 1 \in DOMAIN K.elems \ {n}
      BY <1>1, <1>4
    <3> HIDE DEF K, n
    <3> QED BY <1>5, <3>1
  <2> QED BY <2>1 DEF First
<1>9. Contents(k) = First(K, n)
  BY DEF Contents, First
<1>10. Contents(k)' = First(N, n + 1)
  BY <1>5, <1>6 DEF Contents, First
<1> QED BY <1>6, <1>7, <1>8, <1>9, <1>10

\* Whatever is added and dispatched, for any elements and capacities
\* (IKeeper.h:37-54, 67-97).
THEOREM ContentsOnlyGrow == Spec => ContentsGrow
<1> DEFINE A == \A k \in Kept :
                   \/ Contents(k)' = Contents(k)
                   \/ \E elem \in Elems(k) : Contents(k)' = Append(Contents(k), elem)
<1>1. ASSUME DispatchInv, Next PROVE A
  <2>1. ASSUME NEW k \in Kept, NEW multi \in BOOLEAN, NEW elem \in Elems(k),
               Add(k, elem, multi)
        PROVE  A
    <3> SUFFICES ASSUME NEW j \in Kept, j # k PROVE Contents(j)' = Contents(j)
      BY <1>1, <2>1, AddAppends
    <3>1. keeper'[j] = keeper[j]
      BY <1>1, <2>1, AddAppends
    <3> QED BY <3>1 DEF Contents
  <2>2. ASSUME keeper' = keeper \/ (\E w \in Walks : Begin(w) \/ Tell(w)) PROVE A
    <3> SUFFICES ASSUME NEW k \in Kept PROVE Contents(k)' = Contents(k)
      OBVIOUS
    <3>1. DOMAIN keeper = Kept
      BY <1>1 DEF DispatchInv, TypeOK
    <3> DEFINE services == keeper["services"]
               Cursor(x) == x.elems = services.elems /\ x.count = services.count
    <3>2. Cursor(StartIteration(services)) /\ Cursor(Iterated(services))
      BY DEF StartIteration, Iterated
    <3>3. \/ keeper' = keeper
          \/ keeper' = [keeper EXCEPT !["services"] = StartIteration(services)]
          \/ keeper' = [keeper EXCEPT !["services"] = Iterated(services)]
      BY <2>2 DEF Begin, Tell
    <3>4. keeper'[k].elems = keeper[k].elems /\ keeper'[k].count = keeper[k].count
      BY <3>1, <3>2, <3>3
    <3> QED BY <3>4 DEF Contents
  <2>3. \/ \E k \in Kept, multi \in BOOLEAN : \E elem \in Elems(k) : Add(k, elem, multi)
        \/ keeper' = keeper
        \/ \E w \in Walks : Begin(w) \/ Tell(w)
    BY <1>1 DEF Next, AddRefused, vars, Ask, Take, Return, NobodyTook, EverybodyTold
  <2> HIDE DEF A
  <2> QED BY <2>1, <2>2, <2>3
<1>2. DispatchInv /\ [Next]_vars => [A]_vars
  BY <1>1
<1>3. ContentsGrow <=> [][A]_vars
  BY DEF ContentsGrow
<1> HIDE DEF A
<1> QED BY <1>2, <1>3, DispatchInvariant, PTL DEF Spec

=============================================================================
