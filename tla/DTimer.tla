------------------------------- MODULE DTimer -------------------------------
(***************************************************************************)
(* DTimers::Timer (src/etc/timers/d-timer.{h,cpp}) over the root tick      *)
(* counter of tickerup.h.                                                  *)
(*                                                                         *)
(* The counter is an unsigned 32-bit word that wraps (TickMod stands for   *)
(* 2^32) and is incremented by the main loop or, on an MCU, by a timer     *)
(* interrupt (README.md:75).  A member function of the timer reads it      *)
(* once, through now(), and writes the timer's fields later: ticks may     *)
(* come in between.  Such a call is two steps here, the read (`call'       *)
(* remembers what was read and what is still to be written) and Return,    *)
(* which writes the fields.                                                *)
(***************************************************************************)
EXTENDS Integers

CONSTANTS
    TickMod,           \* number of values of the tick counter, 2^32 in the code
    Periods            \* intervals the timer is armed with

ASSUME TickModAssumption == TickMod \in Nat /\ TickMod > 1
ASSUME PeriodsAssumption == Periods \subseteq 0 .. TickMod - 1

VARIABLES
    root_tick_counter, \* TickerCounter::root_tick_counter
    timer,             \* the fields of the timer
    call,              \* the member function in progress, after its read of now()
    result             \* what the latest finished Elapsed() returned

vars == <<root_tick_counter, timer, call, result>>

Tick == 0 .. TickMod - 1

Fields == [tick_period : Periods, tick_start : Tick,
           is_active : BOOLEAN, is_endless : BOOLEAN]

Calls == [op : {"none", "Start", "Elapsed", "ForceElapse"},
          interval : Periods, repeat : BOOLEAN, at : Tick]

TypeOK ==
    /\ root_tick_counter \in Tick
    /\ timer \in Fields
    /\ call \in Calls
    /\ result \in BOOLEAN

-----------------------------------------------------------------------------
\* Bug: the difference is not reduced to the width of the counter.
SubSigned(a, b) == a - b

\* Unsigned arithmetic of the tick counter.
Sub(a, b) == IF a >= b THEN a - b ELSE a - b + TickMod
Inc(a) == IF a = TickMod - 1 THEN 0 ELSE a + 1

\* Timer::GetTicksToNextElapse(liveticks)
TicksToNextElapse(t, liveticks) ==
    LET passed == Sub(liveticks, t.tick_start)
    IN  IF t.tick_period > passed THEN t.tick_period - passed ELSE 0

\* The fields a call leaves when it returns, given the tick c.at it read.
AfterStart(t, c) ==
    [tick_period |-> c.interval, tick_start |-> c.at,
     is_active |-> TRUE, is_endless |-> c.repeat]

AfterForceElapse(t, c) == [t EXCEPT !.tick_start = Sub(c.at, t.tick_period)]

ElapsedAt(t, c) == TicksToNextElapse(t, c.at) = 0

\* Bug: the restart point is read again when the elapse is recorded.
AfterElapsedRereadsNow(t, c) ==
    IF ElapsedAt(t, c)
    THEN [t EXCEPT !.is_active = t.is_endless, !.tick_start = root_tick_counter]
    ELSE t

AfterElapsed(t, c) ==
    IF ElapsedAt(t, c)
    THEN [t EXCEPT !.is_active = t.is_endless, !.tick_start = c.at]
    ELSE t

Completed(t, c) ==
    CASE c.op = "Start"       -> AfterStart(t, c)
      [] c.op = "ForceElapse" -> AfterForceElapse(t, c)
      [] c.op = "Elapsed"     -> AfterElapsed(t, c)
      [] OTHER                -> t

NoCall == [op |-> "none", interval |-> timer.tick_period, repeat |-> FALSE, at |-> 0]

-----------------------------------------------------------------------------
Init ==
    /\ root_tick_counter \in Tick
    /\ \E p \in Periods, start \in BOOLEAN, repeat \in BOOLEAN :
            timer = [tick_period |-> p,
                     tick_start  |-> IF start THEN root_tick_counter ELSE 0,
                     is_active   |-> start,
                     is_endless  |-> repeat]
    /\ call = NoCall
    /\ result = FALSE

\* A member function reads now().
ReadNow(op, interval, repeat) ==
    /\ call.op = "none"
    /\ call' = [op |-> op, interval |-> interval, repeat |-> repeat,
                at |-> root_tick_counter]
    /\ UNCHANGED <<root_tick_counter, timer, result>>

StartInterval == \E interval \in Periods : ReadNow("Start", interval, timer.is_endless)

StartRepeat ==
    \E interval \in Periods, repeat \in BOOLEAN : ReadNow("Start", interval, repeat)

Restart == ReadNow("Start", timer.tick_period, timer.is_endless)

ForceElapse == ReadNow("ForceElapse", timer.tick_period, FALSE)

Stop ==
    /\ call.op = "none"
    /\ timer' = [timer EXCEPT !.is_active = FALSE]
    /\ UNCHANGED <<root_tick_counter, call, result>>

\* Elapsed() on a stopped timer, and on one of period 0, does not read now().
ElapsedStopped ==
    /\ call.op = "none"
    /\ ~timer.is_active
    /\ result' = FALSE
    /\ UNCHANGED <<root_tick_counter, timer, call>>

ElapsedZero ==
    /\ call.op = "none"
    /\ timer.is_active
    /\ timer.tick_period = 0
    /\ timer' = [timer EXCEPT !.is_active = timer.is_endless]
    /\ result' = TRUE
    /\ UNCHANGED <<root_tick_counter, call>>

Elapsed ==
    /\ timer.is_active
    /\ timer.tick_period # 0
    /\ ReadNow("Elapsed", timer.tick_period, FALSE)

\* The call in progress writes the fields and returns.
Return ==
    /\ call.op # "none"
    /\ timer' = Completed(timer, call)
    /\ result' = IF call.op = "Elapsed" THEN ElapsedAt(timer, call) ELSE result
    /\ call' = NoCall
    /\ UNCHANGED root_tick_counter

\* The timer and the result as they will be once the call in progress is done.
Settled == Completed(timer, call)
SettledResult == IF call.op = "Elapsed" THEN ElapsedAt(timer, call) ELSE result

\* Assumption on the owner: an armed timer is polled, restarted or stopped
\* before the counter has gone all the way round (49 days of 1 ms ticks).
PolledBeforeWrap ==
    Settled.is_active /\ Settled.tick_period # 0 =>
        Sub(root_tick_counter, Settled.tick_start) < TickMod - 1

ProcessTick ==
    /\ PolledBeforeWrap
    /\ root_tick_counter' = Inc(root_tick_counter)
    /\ UNCHANGED <<timer, call, result>>

Next ==
    \/ StartInterval \/ StartRepeat \/ Restart \/ ForceElapse \/ Stop
    \/ ElapsedStopped \/ ElapsedZero \/ Elapsed \/ Return
    \/ ProcessTick

Spec == Init /\ [][Next]_vars

-----------------------------------------------------------------------------
(***************************************************************************)
(* A call takes effect when it reads now(): the ticks that come before its *)
(* Return already count for the timer it leaves.                           *)
(***************************************************************************)
\* Timer::Ticks() at tick n
Left(t, n) == IF t.is_active THEN TicksToNextElapse(t, n) ELSE 0

View(t, n) == [period |-> t.tick_period, left |-> Left(t, n),
               active |-> t.is_active, endless |-> t.is_endless]

Countdown == INSTANCE CountdownTimer WITH
    Periods <- Periods,
    TickMod <- TickMod,
    now <- root_tick_counter,
    tm <- View(Settled, root_tick_counter),
    fired <- SettledResult

\* The start-tick timer of d-timer.cpp is a countdown timer: no tick is lost or
\* counted twice across a wrap of the counter or in the middle of a call, and
\* Elapsed (d-timer.cpp:32-50) reports exactly the ends of the periods.
ImplementsCountdown == Countdown!Spec

=============================================================================
