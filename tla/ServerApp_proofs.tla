--------------------------- MODULE ServerApp_proofs ---------------------------
(***************************************************************************)
(* Proofs about ServerApp, for any menu: the two threads exclude each      *)
(* other, and the flag read without the lock never lets the main loop copy *)
(* a command twice or before there is one; and the titles shown are always *)
(* the way from the root to the menu on top.                               *)
(***************************************************************************)
EXTENDS ServerApp, SequenceTheorems, TLAPS

\* Where a thread holds the mutex.
MenuHolds == cli \in {"veccmd", "ready", "unlock"}
MainHolds == loop \in {"copy", "clear", "unlock"}

\* At most one thread is between the ends of a lock_guard (cli-client.h:112-115,
\* 141-144).
Exclusion == (MenuHolds <=> mtx = "menu") /\ (MainHolds <=> mtx = "main")

Fresh == unread /\ veccmd # NoItem

\* A set flag stands for a command not yet copied, but for the moment between the copy
\* and the reset; and the main thread, once it saw the flag, finds it still set.
HandoverInv ==
    /\ Exclusion
    /\ MenuHolds => item # NoItem
    /\ cli = "ready" => Fresh
    /\ cmd_ready /\ loop # "clear" => Fresh
    /\ loop \in {"getData", "copy"} => cmd_ready

LEMMA InitHandover == Init => HandoverInv
BY DEF Init, HandoverInv, Exclusion, MenuHolds, MainHolds

-----------------------------------------------------------------------------
\* What the menu thread does before it has the mutex, and when it takes it.
LEMMA InputStep == HandoverInv /\ Input => HandoverInv'
<1> SUFFICES ASSUME HandoverInv, Input PROVE HandoverInv'
  OBVIOUS
<1>1. CASE PrintAgain
  BY <1>1 DEF HandoverInv, Exclusion, MenuHolds, MainHolds, Fresh, PrintAgain,
              vars, menu, shared, main, history
<1>2. CASE GoUp
  BY <1>2 DEF HandoverInv, Exclusion, MenuHolds, MainHolds, Fresh, GoUp,
              shared, main, history
<1>3. ASSUME NEW n \in Numbers, GoDown(n) PROVE HandoverInv'
  <2>1. UNCHANGED <<item, cli, shared, main, history>>
    BY <1>3 DEF GoDown
  <2> QED
    BY <2>1 DEF HandoverInv, Exclusion, MenuHolds, MainHolds, Fresh, shared, main, history
<1>4. ASSUME NEW n \in Numbers, Pick(n) PROVE HandoverInv'
  <2>1. /\ cli = "read" /\ mtx = "free" /\ mtx' = "menu" /\ cli' = "veccmd"
        /\ item' # NoItem
        /\ UNCHANGED <<veccmd, cmd_ready, main, unread>>
    BY <1>4 DEF Pick, Lock, Free
  <2> QED
    BY <2>1 DEF HandoverInv, Exclusion, MenuHolds, MainHolds, Fresh, main
<1> QED
  BY <1>1, <1>2, <1>3, <1>4 DEF Input

\* The critical section of the menu thread.
LEMMA MenuStep == HandoverInv /\ MenuRuns => HandoverInv'
<1> SUFFICES ASSUME HandoverInv, MenuRuns PROVE HandoverInv'
  OBVIOUS
<1>1. CASE WriteVec
  BY <1>1 DEF HandoverInv, Exclusion, MenuHolds, MainHolds, Fresh, WriteVec, main
<1>2. CASE WriteReady
  BY <1>2 DEF HandoverInv, Exclusion, MenuHolds, MainHolds, Fresh, WriteReady, main, history
<1>3. CASE Publish
  BY <1>3 DEF HandoverInv, Exclusion, MenuHolds, MainHolds, Fresh, Publish, Unlock,
              main, history
<1> QED
  BY <1>1, <1>2, <1>3 DEF MenuRuns

\* The main thread.
LEMMA MainStep == HandoverInv /\ MainRuns => HandoverInv'
<1> SUFFICES ASSUME HandoverInv, MainRuns PROVE HandoverInv'
  OBVIOUS
<1> USE DEF HandoverInv, Exclusion, MenuHolds, MainHolds, Fresh, Main
<1>1. CASE BuildApp
  BY <1>1 DEF BuildApp, menu, shared, history
<1>2. CASE Process
  BY <1>2 DEF Process, menu, shared, history
<1>3. CASE IsCmd
  BY <1>3 DEF IsCmd, menu, shared, history
<1>4. CASE LockData
  BY <1>4 DEF LockData, Lock, Free, menu, history
<1>5. CASE CopyData
  BY <1>5 DEF CopyData, menu, shared
<1>6. CASE ClearReady
  BY <1>6 DEF ClearReady, Cleared, menu, history
<1>7. CASE ReturnData
  BY <1>7 DEF ReturnData, Unlock, menu, history
<1>8. CASE Request
  BY <1>8 DEF Request, menu, shared
<1> QED
  BY <1>1, <1>2, <1>3, <1>4, <1>5, <1>6, <1>7, <1>8 DEF MainRuns

LEMMA NextHandover == HandoverInv /\ [Next]_vars => HandoverInv'
<1>1. HandoverInv /\ UNCHANGED vars => HandoverInv'
  BY DEF HandoverInv, Exclusion, MenuHolds, MainHolds, Fresh, vars, menu, shared, main, history
<1> QED
  BY <1>1, InputStep, MenuStep, MainStep DEF Next

-----------------------------------------------------------------------------
\* The menu thread and the main loop are never both inside their lock_guard, and the
\* flag agrees with what was published, for any menu (cli-client.h:109-115, 134-145,
\* server-app.cpp:121-131).
THEOREM HandoverInvariant == Spec => []HandoverInv
<1> QED
  BY InitHandover, NextHandover, PTL DEF Spec

\* A command is copied at most once for every time one was picked, and never before one
\* was picked, although IsCmd takes no lock; one picked before the earlier one was fetched
\* takes its place (cli-client.h:112-114, 134-145).
THEOREM PickedIsSentAtMostOnce == Spec => SentAtMostOnce
<1>1. HandoverInv => (CopyData => unread /\ veccmd # NoItem)
  BY DEF HandoverInv, CopyData, Main, Fresh
<1>2. HandoverInv => [CopyData => unread /\ veccmd # NoItem]_vars
  BY <1>1
<1> QED
  BY <1>2, HandoverInvariant, PTL DEF SentAtMostOnce

-----------------------------------------------------------------------------
(* The menu.                                                               *)

\* The list above the i-th on the stack.
Above(d, i) == IF i = 1 THEN Root ELSE d[i - 1]

Path(d) == \A i \in DOMAIN d : \E above \in Shown(Above(d, i)) : DownOf[above] = d[i]

\* The stack is a finite sequence; what it holds follows from DeepIsPath.
MenuInv == DeepIsPath /\ \E S : deep \in Seq(S)

LEMMA MenuInvIsPath == MenuInv <=> Path(deep) /\ \E S : deep \in Seq(S)
  BY DEF MenuInv, DeepIsPath, Path, Above

\* Going up leaves the lists below the top one as they were.
LEMMA UpKeepsPath ==
  ASSUME NEW S, NEW d \in Seq(S), Path(d), d # <<>>
  PROVE  SubSeq(d, 1, Len(d) - 1) \in Seq(S) /\ Path(SubSeq(d, 1, Len(d) - 1))
<1> DEFINE u == SubSeq(d, 1, Len(d) - 1)
<1>1. Len(d) \in Nat /\ Len(d) > 0 /\ DOMAIN d = 1 .. Len(d)
  BY EmptySeq
<1>2. /\ u \in Seq(S) /\ Len(u) = Len(d) - 1
      /\ \A i \in 1 .. Len(d) - 1 : u[i] = d[i]
  BY <1>1, SubSeqProperties
<1> HIDE DEF u
<1>3. ASSUME NEW i \in 1 .. Len(d) - 1
      PROVE  \E above \in Shown(Above(u, i)) : DownOf[above] = u[i]
  <2>1. i \in DOMAIN d /\ u[i] = d[i]
    BY <1>1, <1>2
  <2>2. Above(u, i) = Above(d, i)
    <3>1. CASE i = 1
      BY <3>1 DEF Above
    <3>2. CASE i # 1
      <4>1. i - 1 \in 1 .. Len(d) - 1
        BY <1>1, <3>2
      <4> QED
        BY <1>2, <3>2, <4>1 DEF Above
    <3> QED
      BY <3>1, <3>2
  <2> QED
    BY <2>1, <2>2 DEF Path
<1>4. DOMAIN u = 1 .. Len(d) - 1
  BY <1>1, <1>2
<1>5. Path(u)
  BY <1>3, <1>4 DEF Path
<1> QED
  BY <1>2, <1>5 DEF u

\* Going down puts the list below an item that is shown on top.
LEMMA DownKeepsPath ==
  ASSUME NEW S, NEW d \in Seq(S), Path(d), NEW c,
         c \in Shown(IF d = <<>> THEN Root ELSE d[Len(d)])
  PROVE  Path(Append(d, DownOf[c]))
<1> DEFINE x == DownOf[c]
           u == Append(d, x)
<1>1. Len(d) \in Nat /\ DOMAIN d = 1 .. Len(d) /\ (d = <<>> <=> Len(d) = 0)
  BY EmptySeq
<1>2. d \in Seq(S \cup {x}) /\ x \in S \cup {x}
  OBVIOUS
<1>3. /\ Len(u) = Len(d) + 1 /\ DOMAIN u = 1 .. Len(d) + 1
      /\ \A i \in 1 .. Len(d) : u[i] = d[i]
      /\ u[Len(d) + 1] = x
  BY <1>1, <1>2, AppendProperties
<1> HIDE DEF u
<1>4. ASSUME NEW i \in 1 .. Len(d)
      PROVE  \E above \in Shown(Above(u, i)) : DownOf[above] = u[i]
  <2>1. Above(u, i) = Above(d, i)
    <3>1. CASE i = 1
      BY <3>1 DEF Above
    <3>2. CASE i # 1
      <4>1. i - 1 \in 1 .. Len(d)
        BY <1>1, <3>2
      <4> QED
        BY <1>3, <3>2, <4>1 DEF Above
    <3> QED
      BY <3>1, <3>2
  <2> QED
    BY <1>1, <1>3, <2>1 DEF Path
<1>5. Above(u, Len(d) + 1) = IF d = <<>> THEN Root ELSE d[Len(d)]
  <2>1. CASE Len(d) = 0
    BY <1>1, <2>1 DEF Above
  <2>2. CASE Len(d) # 0
    <3>1. Len(d) + 1 # 1 /\ (Len(d) + 1) - 1 = Len(d) /\ Len(d) \in 1 .. Len(d)
      BY <1>1, <2>2
    <3> QED
      BY <1>1, <1>3, <2>2, <3>1 DEF Above
  <2> QED
    BY <2>1, <2>2
<1>6. ASSUME NEW i \in 1 .. Len(d) + 1
      PROVE  \E above \in Shown(Above(u, i)) : DownOf[above] = u[i]
  <2>1. CASE i = Len(d) + 1
    BY <1>3, <1>5, <2>1
  <2>2. CASE i # Len(d) + 1
    <3>1. i \in 1 .. Len(d)
      BY <1>1, <2>2
    <3> QED
      BY <1>4, <3>1
  <2> QED
    BY <2>1, <2>2
<1> QED
  BY <1>3, <1>6 DEF Path, u

LEMMA MenuNext == MenuInv /\ [Next]_vars => MenuInv'
<1> SUFFICES ASSUME MenuInv, [Next]_vars PROVE MenuInv'
  OBVIOUS
<1>1. PICK S : deep \in Seq(S)
  BY DEF MenuInv
<1>2. Path(deep)
  BY MenuInvIsPath
<1>3. ASSUME NEW T, deep' \in Seq(T), Path(deep') PROVE MenuInv'
  BY <1>3 DEF MenuInv, DeepIsPath, Path, Above
<1>4. CASE deep' = deep
  BY <1>1, <1>2, <1>3, <1>4
<1>5. CASE GoUp
  <2>1. CASE deep = <<>>
    BY <1>4, <1>5, <2>1 DEF GoUp
  <2>2. CASE deep # <<>>
    <3>1. deep' = SubSeq(deep, 1, Len(deep) - 1)
      BY <1>5, <2>2 DEF GoUp
    <3> QED
      BY <1>1, <1>2, <1>3, <2>2, <3>1, UpKeepsPath
  <2> QED
    BY <2>1, <2>2
<1>6. ASSUME NEW n \in Numbers, GoDown(n) PROVE MenuInv'
  <2> DEFINE chosen == Nth(Start, n)
  <2>1. chosen # NoItem /\ deep' = Append(deep, DownOf[chosen])
    BY <1>6 DEF GoDown, Pushed
  <2>2. chosen \in Shown(Start)
    BY <2>1 DEF Shown
  <2> HIDE DEF chosen
  <2>3. Path(deep')
    BY <1>1, <1>2, <2>1, <2>2, DownKeepsPath DEF Start
  <2>4. deep \in Seq(S \cup {DownOf[chosen]})
    BY <1>1
  <2>5. deep' \in Seq(S \cup {DownOf[chosen]})
    BY <2>1, <2>4, AppendProperties
  <2> QED
    BY <1>3, <2>3, <2>5
<1>7. CASE Input
  BY <1>4, <1>5, <1>6, <1>7 DEF Input, PrintAgain, Pick, vars, menu
<1>8. CASE MenuRuns
  BY <1>4, <1>8 DEF MenuRuns, WriteVec, WriteReady, Publish
<1>9. CASE MainRuns
  BY <1>4, <1>9 DEF MainRuns, BuildApp, Process, IsCmd, LockData, CopyData, ClearReady,
     ReturnData, Request, menu
<1>10. CASE UNCHANGED vars
  BY <1>4, <1>10 DEF vars, menu
<1> QED
  BY <1>7, <1>8, <1>9, <1>10 DEF Next

\* Whatever is typed, the stack of the menu is a way down from the first list, so that
\* going up leads back the way the user came (cli-client.h:75-83, 99-127).
THEOREM MenuIsPath == Spec => []DeepIsPath
<1>1. Init => MenuInv
  <2>1. Init => deep = <<>>
    BY DEF Init
  <2>2. <<>> \in Seq({}) /\ DOMAIN <<>> = {}
    OBVIOUS
  <2> QED
    BY <2>1, <2>2 DEF MenuInv, DeepIsPath
<1>2. MenuInv => DeepIsPath
  BY DEF MenuInv
<1> QED
  BY <1>1, <1>2, MenuNext, PTL DEF Spec

=============================================================================
