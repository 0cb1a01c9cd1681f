------------------------------ MODULE RunClock ------------------------------
(***************************************************************************)
(* The clock of a run (runtime_clock in the throughput telemetry of        *)
(* app/runtime/progress.py): how long the run worked, and for how long it  *)
(* did not although time passed, over all the processes that continued it. *)
(* Its speed counts as evidence only if the pauses are short.              *)
(*                                                                         *)
(* Times are small numbers.  The elapsed wall-clock time is derived from   *)
(* the fields kept here and left out, as are the lists of the gaps and of  *)
(* the segments that pause and active add up.                              *)
(***************************************************************************)
EXTENDS Integers

CONSTANT Threshold \* EXTERNAL_WALLCLOCK_GAP_THRESHOLD_SECONDS

ASSUME ClockAssumption == Threshold \in Nat

NoTime == 0 \* the empty timestamp

\* _runtime_elapsed_seconds
Elapsed(a, b) == IF a = NoTime \/ b = NoTime \/ b < a THEN 0 ELSE b - a

NoClock == [start |-> NoTime, tick |-> NoTime, active |-> 0, pause |-> 0]

OrElse(time, default) == IF time = NoTime THEN default ELSE time

\* A run is started or continued: the time since the last tick of the process
\* before was a pause.
StartClock(clock, at) ==
  [start  |-> OrElse(clock.start, at),
   tick   |-> at,
   active |-> clock.active,
   pause  |-> clock.pause + Elapsed(clock.tick, at)]

\* Some work is reported as of at; worked is what the monotonic clock says has
\* passed since the last report.  What the wall clock has on top is a pause.
AdvanceClock(clock, at, worked) ==
  LET start == OrElse(clock.start, at)
      active == clock.active + worked
      standing == Elapsed(start, at) - active
  IN [start  |-> start,
      tick   |-> at,
      active |-> active,
      pause  |-> IF standing > clock.pause THEN standing ELSE clock.pause]

\* acceptance_grade_speed_evidence
IsEvidence(clock) == clock.pause <= Threshold
=============================================================================
