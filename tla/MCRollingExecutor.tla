-------------------------- MODULE MCRollingExecutor --------------------------
(***************************************************************************)
(* Instances of RollingExecutor for TLC.                                   *)
(***************************************************************************)
EXTENDS RollingExecutor, RunCapacity

\* Two companies at a time and direct sources only: the executor prepares the
\* downstream work as well.
MCActive == {"spark", "zachestnyibiznes"}
ASSUME LimitsOfTheRun ==
  LET limits == RunLimits(MCActive, 2, 0, NRows, NRows)
  IN  /\ HasDownstream = FullContour(MCActive)
      /\ Workers = limits.workers /\ ReadyLimit = limits.ready_queue

\* Two rows share host h1, one of them needs h2 as well.
MCHosts == {"h1", "h2"}
MCHostsOf == [r \in Rows |-> IF r = 1 THEN {"h1"} ELSE IF r = 2 THEN {"h1", "h2"} ELSE {}]

=============================================================================
