----------------------------- MODULE RunCapacity -----------------------------
(* How many things a run does at a time, worked out once before its first row
   from the sources, --company-concurrency, the proxies that are usable then
   and the number of rows: the lanes of the sources (app/runtime/concurrency.py),
   the plan of the source executor (app/runtime/bounded_executor.py), the stage
   pools (app/runtime/queue_families.py) and the queue of the downstream
   prefetch (run_company_enrichment_pipeline.py).  The results are the constants
   RollingExecutor, StagePools and DownstreamPrefetch are instantiated with.  *)
EXTENDS Integers

CONSTANTS
  PerWorker,    \* DOWNSTREAM_PREFETCH_PENDING_QUEUE_PER_WORKER
  QueueMin,     \* DOWNSTREAM_PREFETCH_PENDING_QUEUE_MIN
  QueueMax,     \* DOWNSTREAM_PREFETCH_PENDING_QUEUE_MAX
  SurfaceMax    \* DOWNSTREAM_PREFETCH_SELECTED_SURFACE_QUEUE_MAX

ASSUME CapacityAssumption == {PerWorker, QueueMin, QueueMax, SurfaceMax} \subseteq Nat \ {0}

Greater(a, b) == IF a >= b THEN a ELSE b
Lesser(a, b) == IF a <= b THEN a ELSE b

-----------------------------------------------------------------------------
(* The lane of a source, for a requested concurrency of at least one.         *)

Direct == {"spark", "zachestnyibiznes"}
ProxyBound == {"checko", "bicotender"}
SessionBound == {"rusprofile"}
Offline == {"list_org"}

\* _build_source_lane_contour_entry: one is serial, none has no live lane
CapacityCap(source, requested, proxies) ==
  CASE source \in SessionBound -> 1
    [] source \in ProxyBound   -> Lesser(requested, proxies)
    [] source \in Offline      -> 0
    [] OTHER                   -> requested

LaneBudget(source, requested, proxies) ==
  IF source \in SessionBound \cup Offline \/ requested = 1 THEN 1
  ELSE Greater(CapacityCap(source, requested, proxies), 1)

WorkerLaneBudget(source, requested, proxies) ==
  LET cap == CapacityCap(source, requested, proxies)
  IN  IF source \in SessionBound \cup Offline \/ requested = 1 \/ cap <= 1 THEN 0 ELSE cap

\* resolve_effective_company_concurrency_cap: the least of the budgets
EffectiveCap(requested, budgets) ==
  LET all == {requested} \cup {Greater(b, 1) : b \in budgets}
  IN  CHOOSE cap \in all : \A other \in all : cap <= other

\* the cap of build_source_execution_guardrails; it is reported, not enforced
ReportedCap(active, requested, proxies) ==
  LET lanes == {WorkerLaneBudget(s, requested, proxies) : s \in active} \ {0}
  IN  EffectiveCap(requested, IF lanes # {} THEN lanes
                              ELSE {LaneBudget(s, requested, proxies) : s \in active})

-----------------------------------------------------------------------------
(* The source executor and the lane of checko.                                *)

\* plan_direct_default_bounded_executor
MaxWorkers(active, requested, proxies) ==
  IF requested = 1 \/ active \cap Direct = {} THEN 1
  ELSE EffectiveCap(requested, {LaneBudget(s, requested, proxies) : s \in active \cap Direct})

ExecutorEnabled(active, requested, proxies) == MaxWorkers(active, requested, proxies) > 1

\* of the executor that is opened
WorkerCount(active, requested, proxies, rows) ==
  Lesser(MaxWorkers(active, requested, proxies), rows)

\* prefetch_covers_full_source_contour
FullContour(active) == active \subseteq Direct

\* _resolve_checko_worker_lane_budget
CheckoWorkers(active, requested, proxies, rows) ==
  IF "checko" \in active
  THEN Lesser(WorkerLaneBudget("checko", requested, proxies), rows) ELSE 0

-----------------------------------------------------------------------------
(* The downstream prefetch.                                                   *)

\* _resolve_downstream_prefetch_queue_limit
QueueLimitFor(workers, selected) ==
  LET asked == Greater(workers + 1, Greater(workers * PerWorker, QueueMin))
      bound == Greater(QueueMax, workers + 1)
      surface == Lesser(selected, SurfaceMax)
  IN  Lesser(Greater(asked, surface), Greater(bound, surface))

PrefetchQueueLimit(active, requested, proxies, selected) ==
  IF ExecutorEnabled(active, requested, proxies)
  THEN QueueLimitFor(MaxWorkers(active, requested, proxies), selected) ELSE 0

\* _resolve_downstream_prefetch_ready_drain_limit
ReadyDrainLimit(workers, limit) ==
  IF limit = 0 THEN 0 ELSE Lesser(Greater(QueueMax, workers + 1), limit)

\* _resolve_downstream_prefetch_ready_drain_low_watermark
LowWatermarkFor(readyLimit) == IF readyLimit <= 1 THEN 0 ELSE Greater(readyLimit \div 2, 1)

\* _build_runtime_backpressure_policy
ReadyQueueLimit(active, requested, proxies, selected) ==
  IF ExecutorEnabled(active, requested, proxies) /\ FullContour(active)
  THEN Greater(PrefetchQueueLimit(active, requested, proxies, selected), 1)
  ELSE MaxWorkers(active, requested, proxies)

PrefetchEnabled(active, requested, proxies) ==
  ExecutorEnabled(active, requested, proxies) /\ ~FullContour(active)

\* build_downstream_worker_pool_contour as the run calls it
StageBudget(stage, requested) ==
  IF stage \in {"candidate_site", "deep_parse", "factory_site"} THEN Greater(requested, 1) ELSE 1

\* The limits a run is set up with; source_rows are those left to be searched.
RunLimits(active, requested, proxies, selected, source_rows) ==
  LET queue == PrefetchQueueLimit(active, requested, proxies, selected)
      drain == ReadyDrainLimit(MaxWorkers(active, requested, proxies), queue)
  IN  [workers |-> WorkerCount(active, requested, proxies, source_rows),
       ready_queue |-> ReadyQueueLimit(active, requested, proxies, selected),
       checko |-> CheckoWorkers(active, requested, proxies, source_rows),
       queue |-> queue, drain |-> drain, low |-> LowWatermarkFor(drain)]
==============================================================================
