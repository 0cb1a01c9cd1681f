------------------------ MODULE MCDownstreamPrefetch ------------------------
(* Two workers and the main thread, the limits of a run of two companies at a
   time with a source that is not direct.  Of the stages in
   deep_parse the one with a single permit, ocr, is kept: factory_site around
   it, extra_check and llm after it are left out.                             *)
EXTENDS DownstreamPrefetch, RunCapacity

MCActive == {"spark", "rusprofile"}
ASSUME LimitsOfTheRun ==
  LET limits == RunLimits(MCActive, 2, 0, NRows, NRows)
  IN  /\ PrefetchEnabled(MCActive, 2, 0) /\ Cardinality(Workers) = limits.workers
      /\ QueueLimit = limits.queue /\ ReadyLimit = limits.drain
      /\ LowWatermark = limits.low
      /\ Budget = [s \in Stages |-> StageBudget(s, 2)]

MCStages == {"candidate_site", "deep_parse", "ocr"}
MCBudget == [s \in MCStages |-> IF s = "ocr" THEN 1 ELSE 2]
MCProgram ==
  << <<"in", "candidate_site">>, <<"out", "candidate_site">>,
     <<"in", "deep_parse">>,
       <<"in", "ocr">>, <<"out", "ocr">>,
     <<"out", "deep_parse">> >>

=============================================================================
