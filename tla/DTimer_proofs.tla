---------------------------- MODULE DTimer_proofs ----------------------------
(***************************************************************************)
(* Proofs about DTimer for every counter width and every set of intervals: *)
(* type correctness, and that the timer implements CountdownTimer.         *)
(***************************************************************************)
EXTENDS DTimer, TLAPS

USE TickModAssumption, PeriodsAssumption

\* Arithmetic of the wrapping counter (tickerup.h, d-timer.h:66): a difference
\* of two ticks is a tick.
LEMMA SubIsTick == ASSUME NEW a \in Tick, NEW b \in Tick PROVE Sub(a, b) \in Tick
  BY DEF Sub, Tick

\* One increment of the counter lengthens a difference by one, unless the
\* difference is the largest one (d-timer.h:66, tickerup.h:17).
LEMMA SubInc ==
  ASSUME NEW a \in Tick, NEW b \in Tick, Sub(a, b) < TickMod - 1
  PROVE  Inc(a) \in Tick /\ Sub(Inc(a), b) = Sub(a, b) + 1
  BY DEF Sub, Inc, Tick

\* The counter stays in its range (tickerup.h:17).
LEMMA IncIsTick == ASSUME NEW a \in Tick PROVE Inc(a) \in Tick
  BY DEF Inc, Tick

\* A start point `period' ticks ago leaves no tick to wait (d-timer.h:50-52).
LEMMA SubSub ==
  ASSUME NEW a \in Tick, NEW p \in Tick
  PROVE  Sub(a, Sub(a, p)) = p
  BY DEF Sub, Tick

LEMMA SubSelf == ASSUME NEW a \in Tick PROVE Sub(a, a) = 0
  BY DEF Sub, Tick

LEMMA PeriodIsTick == ASSUME NEW p \in Periods PROVE p \in Tick /\ p \in Nat
  BY DEF Tick

\* The fields stay well formed when a call writes them (d-timer.cpp:14-51).
LEMMA CompletedIsFields ==
  ASSUME NEW t \in Fields, NEW c \in Calls
  PROVE  Completed(t, c) \in Fields
<1>1. CASE c.op = "Start"
  BY <1>1 DEF Completed, AfterStart, Fields, Calls
<1>2. CASE c.op = "ForceElapse"
  <2>1. Sub(c.at, t.tick_period) \in Tick
    BY SubIsTick, PeriodIsTick DEF Fields, Calls
  <2> QED
    BY <1>2, <2>1 DEF Completed, AfterForceElapse, Fields, Calls
<1>3. CASE c.op = "Elapsed"
  BY <1>3 DEF Completed, AfterElapsed, Fields, Calls
<1>4. CASE c.op = "none"
  BY <1>4 DEF Completed
<1> QED
  BY <1>1, <1>2, <1>3, <1>4 DEF Calls

LEMMA TypeInductive == TypeOK /\ [Next]_vars => TypeOK'
<1> SUFFICES ASSUME TypeOK, [Next]_vars PROVE TypeOK'
  OBVIOUS
<1> USE DEF TypeOK
<1>1. CASE StartInterval
  BY <1>1 DEF StartInterval, ReadNow, Calls, Fields
<1>2. CASE StartRepeat
  BY <1>2 DEF StartRepeat, ReadNow, Calls, Fields
<1>3. CASE Restart
  BY <1>3 DEF Restart, ReadNow, Calls, Fields
<1>4. CASE ForceElapse
  BY <1>4 DEF ForceElapse, ReadNow, Calls, Fields
<1>5. CASE Stop
  BY <1>5 DEF Stop, Fields
<1>6. CASE ElapsedStopped
  BY <1>6 DEF ElapsedStopped
<1>7. CASE ElapsedZero
  BY <1>7 DEF ElapsedZero, Fields
<1>8. CASE Elapsed
  BY <1>8 DEF Elapsed, ReadNow, Calls, Fields
<1>9. CASE Return
  <2>1. timer' \in Fields
    BY <1>9, CompletedIsFields DEF Return
  <2>2. call' \in Calls
    BY <1>9 DEF Return, NoCall, Calls, Fields, Tick
  <2>3. result' \in BOOLEAN
    BY <1>9 DEF Return, ElapsedAt
  <2> QED
    BY <1>9, <2>1, <2>2, <2>3 DEF Return
<1>10. CASE ProcessTick
  BY <1>10, IncIsTick DEF ProcessTick
<1>11. CASE UNCHANGED vars
  BY <1>11 DEF vars
<1> QED
  BY <1>1, <1>2, <1>3, <1>4, <1>5, <1>6, <1>7, <1>8, <1>9, <1>10, <1>11 DEF Next

\* Every field of the timer and the counter keep their ranges: in particular the
\* start point computed by ForceElapse (d-timer.h:50-52) wraps like the counter.
THEOREM TypeCorrect == Spec => []TypeOK
<1>1. Init => TypeOK
  <2> SUFFICES ASSUME Init PROVE TypeOK
    OBVIOUS
  <2>1. root_tick_counter \in Tick /\ 0 \in Tick
    BY DEF Init, Tick
  <2>2. timer \in Fields
    BY <2>1 DEF Init, Fields
  <2>3. call \in Calls
    BY <2>1, <2>2 DEF Init, NoCall, Calls, Fields
  <2> QED
    BY <2>1, <2>2, <2>3 DEF Init, TypeOK
<1> QED
  BY <1>1, TypeInductive, PTL DEF Spec

-----------------------------------------------------------------------------
(***************************************************************************)
(* Refinement: the countdown a call leaves, seen at the tick it read.      *)
(***************************************************************************)

\* A read of now() by Start takes effect at once: the timer that the call will
\* leave is the countdown freshly armed (d-timer.cpp:14-19).
LEMMA StartView ==
  ASSUME NEW t \in Fields, NEW c \in Calls, c.op = "Start"
  PROVE  View(Completed(t, c), c.at)
           = Countdown!StartRepeat(View(t, c.at), c.interval, c.repeat)
<1> DEFINE u == Completed(t, c)
<1>1. u = AfterStart(t, c)
  BY DEF Completed
<1>2. Left(u, c.at) = c.interval
  <2>1. c.interval \in Nat
    BY PeriodIsTick DEF Calls
  <2>2. Sub(c.at, c.at) = 0
    BY SubSelf DEF Calls
  <2> QED
    BY <1>1, <2>1, <2>2 DEF AfterStart, Left, TicksToNextElapse
<1>3. /\ u.tick_period = c.interval
      /\ u.is_active = TRUE
      /\ u.is_endless = c.repeat
  BY <1>1 DEF AfterStart
<1> HIDE DEF u
<1>4. View(u, c.at) = [period |-> c.interval, left |-> c.interval, active |-> TRUE,
                       endless |-> c.repeat]
  BY <1>2, <1>3 DEF View
<1>5. Countdown!StartRepeat(View(t, c.at), c.interval, c.repeat)
        = [period |-> c.interval, left |-> c.interval, active |-> TRUE,
           endless |-> c.repeat]
  BY DEF Countdown!StartRepeat
<1> QED
  BY <1>4, <1>5 DEF u

\* Elapsed takes effect when it reads now() (d-timer.cpp:39-45).
LEMMA ElapsedView ==
  ASSUME NEW t \in Fields, NEW c \in Calls, c.op = "Elapsed", t.is_active
  PROVE  /\ View(Completed(t, c), c.at) = Countdown!Polled(View(t, c.at))
         /\ ElapsedAt(t, c) <=> Countdown!HasElapsed(View(t, c.at))
<1> DEFINE u == Completed(t, c)
<1>1. u = AfterElapsed(t, c)
  BY DEF Completed
<1>2. ElapsedAt(t, c) <=> Left(t, c.at) = 0
  BY DEF ElapsedAt, Left
<1>3. Countdown!HasElapsed(View(t, c.at)) <=> Left(t, c.at) = 0
  BY DEF Countdown!HasElapsed, View
<1>4. CASE Left(t, c.at) = 0
  <2>1. u = [t EXCEPT !.is_active = t.is_endless, !.tick_start = c.at]
    BY <1>1, <1>2, <1>4 DEF AfterElapsed
  <2>2. /\ u.tick_period = t.tick_period
        /\ u.tick_start = c.at
        /\ u.is_active = t.is_endless
        /\ u.is_endless = t.is_endless
    BY <2>1 DEF Fields
  <2> HIDE DEF u
  <2>3. Left(u, c.at) = IF t.is_endless THEN t.tick_period ELSE 0
    <3>1. t.tick_period \in Nat
      BY PeriodIsTick DEF Fields
    <3>2. Sub(c.at, c.at) = 0
      BY SubSelf DEF Calls
    <3> QED
      BY <2>2, <3>1, <3>2 DEF Left, TicksToNextElapse
  <2>4. View(u, c.at)
          = [period  |-> t.tick_period,
             left    |-> IF t.is_endless THEN t.tick_period ELSE 0,
             active  |-> t.is_endless,
             endless |-> t.is_endless]
    BY <2>2, <2>3 DEF View
  <2>5. Countdown!Polled(View(t, c.at))
          = [period  |-> t.tick_period,
             left    |-> IF t.is_endless THEN t.tick_period ELSE 0,
             active  |-> t.is_endless,
             endless |-> t.is_endless]
    BY <1>3, <1>4 DEF Countdown!Polled, View
  <2> QED
    BY <1>2, <1>3, <2>4, <2>5 DEF u
<1>5. CASE Left(t, c.at) # 0
  <2>1. u = t
    BY <1>1, <1>2, <1>5 DEF AfterElapsed
  <2> QED
    BY <1>2, <1>3, <1>5, <2>1 DEF Countdown!Polled
<1> QED
  BY <1>4, <1>5

\* ForceElapse leaves no tick to wait (d-timer.h:50-52).
LEMMA ForceView ==
  ASSUME NEW t \in Fields, NEW c \in Calls, c.op = "ForceElapse"
  PROVE  View(Completed(t, c), c.at) = Countdown!ForceTimer(View(t, c.at))
<1> DEFINE u == Completed(t, c)
<1>1. u = [t EXCEPT !.tick_start = Sub(c.at, t.tick_period)]
  BY DEF Completed, AfterForceElapse
<1>2. /\ u.tick_period = t.tick_period
      /\ u.tick_start = Sub(c.at, t.tick_period)
      /\ u.is_active = t.is_active
      /\ u.is_endless = t.is_endless
  BY <1>1 DEF Fields
<1> HIDE DEF u
<1>3. Left(u, c.at) = 0
  <2>1. Sub(c.at, Sub(c.at, t.tick_period)) = t.tick_period
    BY SubSub, PeriodIsTick DEF Calls, Fields
  <2>2. t.tick_period \in Nat
    BY PeriodIsTick DEF Fields
  <2> QED
    BY <1>2, <2>1, <2>2 DEF Left, TicksToNextElapse
<1>4. View(u, c.at) = [period |-> t.tick_period, left |-> 0, active |-> t.is_active,
                       endless |-> t.is_endless]
  BY <1>2, <1>3 DEF View
<1>5. Countdown!ForceTimer(View(t, c.at))
        = [period |-> t.tick_period, left |-> 0, active |-> t.is_active,
           endless |-> t.is_endless]
  BY DEF View, Countdown!ForceTimer
<1> QED
  BY <1>4, <1>5 DEF u

\* A tick shortens the countdown by one (tickerup.h:15-18).
LEMMA TickView ==
  ASSUME NEW t \in Fields, NEW n \in Tick,
         t.is_active /\ t.tick_period # 0 => Sub(n, t.tick_start) < TickMod - 1
  PROVE  View(t, Inc(n)) = Countdown!Ticked(View(t, n))
<1> DEFINE l == Left(t, n)
<1>1. l \in Nat /\ Left(t, Inc(n)) = IF l > 0 THEN l - 1 ELSE l
  <2>1. CASE t.is_active /\ t.tick_period # 0
    <3>1. Sub(Inc(n), t.tick_start) = Sub(n, t.tick_start) + 1
      BY <2>1, SubInc DEF Fields
    <3>2. Sub(n, t.tick_start) \in Nat
      BY SubIsTick DEF Fields, Tick
    <3>3. t.tick_period \in Nat
      BY PeriodIsTick DEF Fields
    <3> QED
      BY <2>1, <3>1, <3>2, <3>3 DEF Left, TicksToNextElapse
  <2>2. CASE t.is_active /\ t.tick_period = 0
    <3>1. Sub(Inc(n), t.tick_start) \in Nat /\ Sub(n, t.tick_start) \in Nat
      BY IncIsTick, SubIsTick, SMTT(30) DEF Fields, Tick
    <3> QED
      BY <2>2, <3>1 DEF Left, TicksToNextElapse
  <2>3. CASE ~t.is_active
    BY <2>3 DEF Left
  <2> QED
    BY <2>1, <2>2, <2>3
<1> HIDE DEF l
<1>2. View(t, n) = [period |-> t.tick_period, left |-> l, active |-> t.is_active,
                    endless |-> t.is_endless]
  BY DEF View, l
<1>3. CASE l > 0
  <2>1. View(t, Inc(n)) = [period |-> t.tick_period, left |-> l - 1,
                           active |-> t.is_active, endless |-> t.is_endless]
    BY <1>1, <1>3 DEF View
  <2>2. Countdown!Ticked(View(t, n)) = [View(t, n) EXCEPT !.left = l - 1]
    BY <1>2, <1>3 DEF Countdown!Ticked
  <2> QED
    BY <1>2, <2>1, <2>2
<1>4. CASE ~(l > 0)
  <2>1. Countdown!Ticked(View(t, n)) = View(t, n)
    BY <1>2, <1>4 DEF Countdown!Ticked
  <2>2. Left(t, Inc(n)) = Left(t, n)
    BY <1>1, <1>4 DEF l
  <2> QED
    BY <2>1, <2>2 DEF View
<1> QED
  BY <1>3, <1>4

\* Between calls the timer is what its fields say (d-timer.cpp).
LEMMA SettledIdle ==
  call.op = "none" => Settled = timer /\ SettledResult = result
  BY DEF Settled, SettledResult, Completed

\* A call that reads now() leaves the timer Completed(timer, call') and, unless
\* it is Elapsed, the latest result (d-timer.cpp:14-51).
LEMMA ReadNowStep ==
  ASSUME TypeOK, NEW op \in {"Start", "Elapsed", "ForceElapse"},
         NEW interval \in Periods, NEW repeat \in BOOLEAN,
         ReadNow(op, interval, repeat)
  PROVE  /\ Settled = timer
         /\ SettledResult = result
         /\ call' \in Calls
         /\ call'.op = op
         /\ call'.interval = interval
         /\ call'.repeat = repeat
         /\ call'.at = root_tick_counter
         /\ root_tick_counter' = root_tick_counter
         /\ timer \in Fields
         /\ Settled' = Completed(timer, call')
         /\ op # "Elapsed" => SettledResult' = result
         /\ op = "Elapsed" => SettledResult' = ElapsedAt(timer, call')
  BY SettledIdle DEF TypeOK, ReadNow, Calls, Settled, SettledResult

LEMMA StepRefines == TypeOK /\ [Next]_vars => [Countdown!Next]_(Countdown!vars)
<1> SUFFICES ASSUME TypeOK, [Next]_vars
             PROVE  Countdown!Next \/ UNCHANGED Countdown!vars
  OBVIOUS
<1> DEFINE n == root_tick_counter
           tm == View(Settled, n)
<1>1. CASE StartInterval
  <2>1. PICK interval \in Periods : ReadNow("Start", interval, timer.is_endless)
    BY <1>1 DEF StartInterval
  <2>2. timer.is_endless \in BOOLEAN
    BY DEF TypeOK, Fields
  <2>3. tm' = Countdown!StartRepeat(tm, interval, timer.is_endless)
        /\ SettledResult' = SettledResult /\ n' = n
        /\ Settled = timer
    BY <2>1, <2>2, ReadNowStep, StartView
  <2>4. Countdown!StartRepeat(tm, interval, timer.is_endless)
          = Countdown!StartTimer(tm, interval)
    BY <2>3 DEF Countdown!StartRepeat, Countdown!StartTimer, View
  <2> QED
    BY <2>3, <2>4 DEF Countdown!Next, Countdown!Start
<1>2. CASE StartRepeat
  <2>1. PICK interval \in Periods, repeat \in BOOLEAN :
              ReadNow("Start", interval, repeat)
    BY <1>2 DEF StartRepeat
  <2>2. tm' = Countdown!StartRepeat(tm, interval, repeat)
        /\ SettledResult' = SettledResult /\ n' = n
    BY <2>1, ReadNowStep, StartView
  <2> QED
    BY <2>2 DEF Countdown!Next, Countdown!StartWithRepeat
<1>3. CASE Restart
  <2>1. timer.tick_period \in Periods /\ timer.is_endless \in BOOLEAN
    BY DEF TypeOK, Fields
  <2>2. tm' = Countdown!StartRepeat(tm, timer.tick_period, timer.is_endless)
        /\ SettledResult' = SettledResult /\ n' = n
        /\ Settled = timer
    BY <1>3, <2>1, ReadNowStep, StartView DEF Restart
  <2>3. Countdown!StartRepeat(tm, timer.tick_period, timer.is_endless)
          = Countdown!RestartTimer(tm)
    BY <2>2 DEF Countdown!StartRepeat, Countdown!StartTimer,
                Countdown!RestartTimer, View
  <2> QED
    BY <2>2, <2>3 DEF Countdown!Next, Countdown!Restart
<1>4. CASE ForceElapse
  <2>1. timer.tick_period \in Periods
    BY DEF TypeOK, Fields
  <2>2. tm' = Countdown!ForceTimer(tm) /\ SettledResult' = SettledResult /\ n' = n
    BY <1>4, <2>1, ReadNowStep, ForceView DEF ForceElapse
  <2> QED
    BY <2>2 DEF Countdown!Next, Countdown!ForceElapse
<1>5. CASE Stop
  <2>1. /\ Settled = timer
        /\ SettledResult = result
        /\ Settled' = timer'
        /\ SettledResult' = result'
    BY <1>5, SettledIdle DEF Stop, Settled, SettledResult, Completed
  <2>2. /\ timer'.tick_period = timer.tick_period
        /\ timer'.is_active = FALSE
        /\ timer'.is_endless = timer.is_endless
    BY <1>5 DEF Stop, TypeOK, Fields
  <2>3. View(timer', n') = [period |-> timer.tick_period, left |-> 0,
                            active |-> FALSE, endless |-> timer.is_endless]
    BY <2>2 DEF View, Left
  <2>4. Countdown!StopTimer(View(timer, n))
          = [period |-> timer.tick_period, left |-> 0, active |-> FALSE,
             endless |-> timer.is_endless]
    BY DEF View, Countdown!StopTimer
  <2>5. tm' = Countdown!StopTimer(tm) /\ SettledResult' = SettledResult /\ n' = n
    BY <1>5, <2>1, <2>3, <2>4 DEF Stop
  <2> QED
    BY <2>5 DEF Countdown!Next, Countdown!Stop
<1>6. CASE ElapsedStopped
  <2>1. /\ Settled = timer /\ SettledResult = result
        /\ Settled' = timer /\ SettledResult' = FALSE /\ n' = n
    BY <1>6, SettledIdle DEF ElapsedStopped, Settled, SettledResult, Completed
  <2>2. ~Countdown!HasElapsed(tm)
    BY <1>6, <2>1 DEF ElapsedStopped, Countdown!HasElapsed, View
  <2>3. tm' = Countdown!Polled(tm)
    BY <2>1, <2>2 DEF Countdown!Polled
  <2>4. SettledResult' = Countdown!HasElapsed(tm)
    BY <2>1, <2>2 DEF Countdown!HasElapsed
  <2> QED
    BY <2>1, <2>3, <2>4 DEF Countdown!Next, Countdown!Elapsed
<1>7. CASE ElapsedZero
  <2>1. /\ Settled = timer /\ SettledResult = result
        /\ Settled' = timer' /\ SettledResult' = TRUE /\ n' = n
    BY <1>7, SettledIdle DEF ElapsedZero, Settled, SettledResult, Completed
  <2>2. /\ timer'.tick_period = 0
        /\ timer'.is_active = timer.is_endless
        /\ timer'.is_endless = timer.is_endless
        /\ timer'.tick_start = timer.tick_start
    BY <1>7 DEF ElapsedZero, TypeOK, Fields
  <2>3. Sub(n, timer.tick_start) \in Nat
    BY SubIsTick DEF TypeOK, Fields, Tick
  <2>4. Left(timer, n) = 0 /\ Left(timer', n) = 0
    BY <1>7, <2>2, <2>3 DEF ElapsedZero, Left, TicksToNextElapse
  <2>5. View(timer, n) = [period |-> 0, left |-> 0, active |-> timer.is_active,
                          endless |-> timer.is_endless]
    BY <1>7, <2>4 DEF ElapsedZero, View
  <2>6. View(timer', n) = [period |-> 0, left |-> 0, active |-> timer.is_endless,
                           endless |-> timer.is_endless]
    BY <2>2, <2>4 DEF View
  <2>7. Countdown!HasElapsed(tm)
    BY <1>7, <2>1, <2>5 DEF ElapsedZero, Countdown!HasElapsed
  <2>8. tm' = Countdown!Polled(tm)
    BY <2>1, <2>5, <2>6, <2>7 DEF Countdown!Polled
  <2>9. SettledResult' = Countdown!HasElapsed(tm)
    BY <2>1, <2>7 DEF Countdown!HasElapsed
  <2> QED
    BY <2>1, <2>8, <2>9 DEF Countdown!Next, Countdown!Elapsed
<1>8. CASE Elapsed
  <2>1. timer.tick_period \in Periods /\ timer.is_active
    BY <1>8 DEF Elapsed, TypeOK, Fields
  <2>2. tm' = Countdown!Polled(tm)
        /\ (SettledResult' <=> Countdown!HasElapsed(tm))
        /\ n' = n
    BY <1>8, <2>1, ReadNowStep, ElapsedView DEF Elapsed
  <2>3. SettledResult' = Countdown!HasElapsed(tm)
    <3>1. SettledResult' \in BOOLEAN /\ Countdown!HasElapsed(tm) \in BOOLEAN
      BY <1>8, <2>1, ReadNowStep DEF Elapsed, ElapsedAt, Countdown!HasElapsed
    <3> QED
      BY <2>2, <3>1
  <2> QED
    BY <2>2, <2>3 DEF Countdown!Next, Countdown!Elapsed
<1>9. CASE Return
  <2>1. Settled' = Settled /\ SettledResult' = SettledResult /\ n' = n
    BY <1>9 DEF Return, Settled, SettledResult, Completed, NoCall
  <2> QED
    BY <2>1 DEF Countdown!vars
<1>10. CASE ProcessTick
  <2>1. Settled' = Settled /\ SettledResult' = SettledResult /\ n' = Inc(n)
    BY <1>10 DEF ProcessTick, Settled, SettledResult, Completed
  <2>2. Settled \in Fields
    BY CompletedIsFields DEF TypeOK, Settled
  <2>3. tm' = Countdown!Ticked(tm)
    BY <1>10, <2>1, <2>2, TickView DEF ProcessTick, PolledBeforeWrap, TypeOK
  <2> QED
    BY <2>1, <2>3 DEF Countdown!Next, Countdown!ProcessTick, Inc
<1>11. CASE UNCHANGED vars
  <2>1. Settled' = Settled /\ SettledResult' = SettledResult /\ n' = n
    BY <1>11 DEF vars, Settled, SettledResult, Completed
  <2> QED
    BY <2>1 DEF Countdown!vars
<1> QED
  BY <1>1, <1>2, <1>3, <1>4, <1>5, <1>6, <1>7, <1>8, <1>9, <1>10, <1>11 DEF Next

\* A constructed timer is a countdown of its interval (d-timer.cpp:5-12).
LEMMA InitRefines == Init => Countdown!Init
<1> SUFFICES ASSUME Init PROVE Countdown!Init
  OBVIOUS
<1>1. PICK p \in Periods, start \in BOOLEAN, repeat \in BOOLEAN :
          timer = [tick_period |-> p,
                   tick_start  |-> IF start THEN root_tick_counter ELSE 0,
                   is_active   |-> start,
                   is_endless  |-> repeat]
  BY DEF Init
<1>2. Settled = timer /\ SettledResult = FALSE
  BY SettledIdle DEF Init, NoCall
<1>3. /\ timer.tick_period = p
      /\ timer.is_active = start
      /\ timer.is_endless = repeat
  BY <1>1
<1>4. Left(timer, root_tick_counter) = IF start THEN p ELSE 0
  <2>1. p \in Nat
    BY PeriodIsTick
  <2>2. start => Sub(root_tick_counter, timer.tick_start) = 0
    BY <1>1, SubSelf DEF Init
  <2> QED
    BY <1>3, <2>1, <2>2 DEF Left, TicksToNextElapse
<1>5. View(Settled, root_tick_counter) = Countdown!NewTimer(p, start, repeat)
  BY <1>2, <1>3, <1>4 DEF View, Countdown!NewTimer
<1> QED
  BY <1>2, <1>5 DEF Countdown!Init, Init, Tick

\* The timer over a wrapping tick counter, read and written at different moments
\* of a call (d-timer.cpp:14-51, d-timer.h:50-68), implements the countdown timer.
THEOREM TimerIsCountdown == Spec => ImplementsCountdown
<1>1. Spec => []TypeOK
  BY TypeCorrect
<1> QED
  BY <1>1, InitRefines, StepRefines, PTL
     DEF Spec, ImplementsCountdown, Countdown!Spec

=============================================================================
