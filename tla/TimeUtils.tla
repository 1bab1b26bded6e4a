----------------------------- MODULE TimeUtils -----------------------------
(***************************************************************************)
(* TimeUtils: differences of millis() stamps.  The counter is an unsigned  *)
(* long, which starts over at zero after Clocks - 1.                       *)
(***************************************************************************)
EXTENDS Integers

CONSTANT Clocks     \* ULONG_MAX + 1

SaneClock == Clocks \in Nat \ {0}

Stamp == 0..(Clocks - 1)

\* What the counter shows some time after it showed t.
After(t, time) == (t + time) % Clocks

SafeTimeDifference(current, previous) ==
    IF current >= previous
    THEN current - previous
    ELSE (Clocks - 1 - previous) + current + 1

HasTimeElapsed(current, previous, interval) ==
    SafeTimeDifference(current, previous) >= interval
=============================================================================
