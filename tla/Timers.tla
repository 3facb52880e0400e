------------------------------- MODULE Timers -------------------------------
(***************************************************************************)
(* The soft timer of src/etc/timers as its users see it: a countdown.      *)
(* A timer is a record                                                     *)
(*   period  - tick_period, the interval it is armed with;                 *)
(*   left    - ticks to the next elapse (0 when stopped), what             *)
(*             Timer::Ticks returns;                                       *)
(*   active  - is_active;                                                  *)
(*   endless - is_endless.                                                 *)
(* DTimer shows that the code, which keeps a start tick of a wrapping      *)
(* 32-bit counter instead of a countdown, implements these operators.      *)
(***************************************************************************)
EXTENDS Integers

TimerType(Periods) ==
    [period : Periods, left : Nat, active : BOOLEAN, endless : BOOLEAN]

\* Constructor Timer(intv, start, repeat).
NewTimer(intv, start, repeat) ==
    [period  |-> intv,
     left    |-> IF start THEN intv ELSE 0,
     active  |-> start,
     endless |-> repeat]

\* Timer::Start(interval)
StartTimer(t, interval) ==
    [period |-> interval, left |-> interval, active |-> TRUE, endless |-> t.endless]

\* Timer::Start(interval, repeat)
StartRepeat(t, interval, repeat) ==
    [period |-> interval, left |-> interval, active |-> TRUE, endless |-> repeat]

\* Timer::Restart()
RestartTimer(t) == StartTimer(t, t.period)

\* Timer::Stop()
StopTimer(t) ==
    [period |-> t.period, left |-> 0, active |-> FALSE, endless |-> t.endless]

\* Timer::ForceElapse()
ForceTimer(t) == [t EXCEPT !.left = 0]

\* What Timer::Elapsed() returns, and the timer after the call.
HasElapsed(t) == t.active /\ t.left = 0

Polled(t) ==
    IF HasElapsed(t)
    THEN [period |-> t.period, left |-> IF t.endless THEN t.period ELSE 0,
          active |-> t.endless, endless |-> t.endless]
    ELSE t

\* One system tick (TickerCounter::ProcessTick) as this timer sees it.
Ticked(t) == IF t.left > 0 THEN [t EXCEPT !.left = @ - 1] ELSE t

=============================================================================
