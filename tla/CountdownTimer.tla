--------------------------- MODULE CountdownTimer ---------------------------
(***************************************************************************)
(* What a soft timer promises to the thread that owns it: every call takes *)
(* effect at one instant, every tick of the system shortens an armed timer *)
(* by exactly one, and Elapsed reports the end of a period, never earlier  *)
(* and never twice for a one-shot timer.  DTimer implements this module.   *)
(***************************************************************************)
EXTENDS Timers

CONSTANTS Periods,     \* intervals the timer is armed with
          TickMod      \* number of values of the tick counter

VARIABLES tm,          \* the timer
          fired,       \* what the latest Elapsed call returned
          now          \* the tick counter: that time has passed cannot be hidden

vars == <<tm, fired, now>>

Init ==
    /\ \E p \in Periods, start \in BOOLEAN, repeat \in BOOLEAN :
            tm = NewTimer(p, start, repeat)
    /\ fired = FALSE
    /\ now \in 0 .. TickMod - 1

Start ==
    /\ \E p \in Periods : tm' = StartTimer(tm, p)
    /\ UNCHANGED <<fired, now>>

StartWithRepeat ==
    /\ \E p \in Periods, repeat \in BOOLEAN : tm' = StartRepeat(tm, p, repeat)
    /\ UNCHANGED <<fired, now>>

Restart ==
    /\ tm' = RestartTimer(tm)
    /\ UNCHANGED <<fired, now>>

Stop ==
    /\ tm' = StopTimer(tm)
    /\ UNCHANGED <<fired, now>>

ForceElapse ==
    /\ tm' = ForceTimer(tm)
    /\ UNCHANGED <<fired, now>>

Elapsed ==
    /\ tm' = Polled(tm)
    /\ fired' = HasElapsed(tm)
    /\ UNCHANGED now

ProcessTick ==
    /\ tm' = Ticked(tm)
    /\ now' = IF now = TickMod - 1 THEN 0 ELSE now + 1
    /\ UNCHANGED fired

Next ==
    \/ Start \/ StartWithRepeat \/ Restart \/ Stop \/ ForceElapse
    \/ Elapsed \/ ProcessTick

Spec == Init /\ [][Next]_vars

=============================================================================
