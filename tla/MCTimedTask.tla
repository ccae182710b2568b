----------------------------- MODULE MCTimedTask -----------------------------
(* Instances of TimedTask for TLC. *)
EXTENDS TimedTask, TLC

CONSTANTS a, b, r

\* The function of r, which recurs, schedules b and waits for it.
RSchedulesB == (b :> r) @@ (r :> NoTask)
RNeedsB == (b :> {}) @@ (r :> {b})

\* a and b are scheduled by others; the function of a waits for b.
NobodySchedules == (a :> NoTask) @@ (b :> NoTask)
ANeedsB == (a :> {b}) @@ (b :> {})
=============================================================================
