--------------------------- MODULE RollingExecutor ---------------------------
(***************************************************************************)
(* RollingCompanySourceBatchExecutor (app/runtime/bounded_executor.py): a  *)
(* pool of worker threads searches the sources of the selected rows ahead  *)
(* of the single consumer, the row loop of                                 *)
(* run_company_enrichment_pipeline.run.                                    *)
(*                                                                         *)
(* Rows wait in a FIFO, are submitted while a worker is free and the       *)
(* ready queue is below its limit, run in a worker (search, host leases,   *)
(* downstream preparation), and their batches are stored in the ready      *)
(* queue by the completion callback until the consumer takes them.  Every  *)
(* action below is one critical section of the executor's condition, or a  *)
(* stretch of worker code between two points where another thread can be   *)
(* noticed (the shutdown event, the host ledger, the event buffer).        *)
(*                                                                         *)
(* Abstracted: what a batch contains, the telemetry of the lanes, the      *)
(* insertion order of the ready dict, and the time spent in host cooldowns *)
(* (HostGovernor models them).                                             *)
(***************************************************************************)
EXTENDS Integers, FiniteSets

CONSTANTS NRows,         \* rows handed to the executor, numbered in row order
          Workers,       \* worker_count
          ReadyLimit,    \* max_ready_queue_depth
          Hosts,         \* hosts downstream preparation may touch
          HostsOf,       \* the hosts resolved for each row
          HasDownstream, \* a prepare_downstream callback was given
          SkipRows,      \* rows the consumer may pass over without a take
          UseTakeReady   \* the consumer also calls take_ready

Rows == 1..NRows

ASSUME ExecutorAssumption ==
  /\ NRows \in Nat
  /\ Workers \in Nat \ {0}
  /\ ReadyLimit \in Nat \ {0}
  /\ HostsOf \in [Rows -> SUBSET Hosts]
  /\ HasDownstream \in BOOLEAN
  /\ SkipRows \subseteq Rows
  /\ UseTakeReady \in BOOLEAN

VARIABLES
  submitted,  \* rows 1..submitted have left _remaining_rows
  task,       \* where the future of each row is
  ready,      \* keys of _ready_batches
  consumed,   \* _consumed_row_keys
  error,      \* _error is set
  completed,  \* _completed
  closed,     \* _closed, and with it the _shutdown_requested event
  lease,      \* active leases of each host in the downstream host ledger
  buffer,     \* non-empty buckets of _ThreadBoundEventBuffer
  cpc,        \* where the consumer is
  pos,        \* the consumer's next row
  outcome     \* how the consumer left its loop

taskVars == <<submitted, task, ready, consumed, error, completed>>
consumerVars == <<cpc, pos, outcome>>
vars == <<submitted, task, ready, consumed, error, completed, closed, lease,
          buffer, cpc, pos, outcome>>

Resolved == {"returned", "raised", "cancelled"}
Working == {"search", "resolve", "waiting", "leased", "downstream"}
TaskState == {"idle", "queued"} \cup Working \cup Resolved
Phases == {"source_search", "downstream_execution"}

\* Futures in _future_to_row_key: submitted, completion not yet handled.
InFlight == {r \in Rows : task[r] # "idle"}

Smaller(a, b) == IF a < b THEN a ELSE b

----------------------------------------------------------------------------
(* Submission                                                              *)

\* How many rows the refill loops submit, given the rows already submitted
\* and the sizes of the in-flight and ready sets they start from.
RefillCount(sub, inflight, waiting) ==
  IF waiting < ReadyLimit THEN Smaller(Workers - inflight, NRows - sub) ELSE 0

\* The tasks after _submit_next_locked ran k times.
Submit(tasks, k) ==
  [r \in Rows |-> IF r \in (submitted + 1)..(submitted + k) THEN "queued"
                  ELSE tasks[r]]

\* The constructor submits one row per worker.
Init ==
  LET first == Smaller(Workers, NRows)
  IN  /\ submitted = first
      /\ task = [r \in Rows |-> IF r <= first THEN "queued" ELSE "idle"]
      /\ completed = (NRows = 0)
      /\ ready = {}
      /\ consumed = {}
      /\ error = FALSE
      /\ closed = FALSE
      /\ lease = [h \in Hosts |-> 0]
      /\ buffer = {}
      /\ cpc = "row"
      /\ pos = 1
      /\ outcome = "running"

----------------------------------------------------------------------------
(* Worker threads: _search_company_sources                                 *)

Step(r, from, to) == /\ task[r] = from
                     /\ task' = [task EXCEPT ![r] = to]
                     /\ UNCHANGED <<submitted, ready, consumed, error,
                                    completed, closed, consumerVars>>

\* A pool thread picks the submitted call up.
Start(r) == /\ Step(r, "queued", "search")
            /\ UNCHANGED <<lease, buffer>>

\* The runtime events of a phase may or may not have left a bucket behind.
MayEmit(r, phase) == buffer' \in {buffer, buffer \cup {<<r, phase>>}}

\* Mutant of TakeBucket: the events are read and left in the buffer.
LeaveBucket(r, phase) == buffer

\* The events of a phase are popped from the buffer.
TakeBucket(r, phase) == buffer \ {<<r, phase>>}

\* All sources searched; without a downstream callback the batch is built at
\* once and carries the source events away.
SearchDone(r) ==
  /\ IF HasDownstream
     THEN /\ Step(r, "search", "resolve")
          /\ MayEmit(r, "source_search")
     ELSE /\ Step(r, "search", "returned")
          /\ buffer' = TakeBucket(r, "source_search")
  /\ UNCHANGED lease

\* A source raises, or the shutdown event is seen before the next source.
SearchFails(r) ==
  /\ \/ Step(r, "search", "raised")
     \/ closed /\ Step(r, "search", "cancelled")
  /\ MayEmit(r, "source_search")
  /\ UNCHANGED lease

\* The hosts of the row are resolved, unless the executor is shutting down.
ResolveHosts(r) ==
  /\ \/ closed /\ Step(r, "resolve", "cancelled")
     \/ ~closed /\ Step(r, "resolve", IF HostsOf[r] = {} THEN "downstream" ELSE "waiting")
     \/ ~closed /\ Step(r, "resolve", "raised")
  /\ UNCHANGED <<lease, buffer>>

\* HostGovernorLedger.acquire takes all hosts at once when none is leased.
\* The shutdown event may have been set after the acquire loop last read it.
AcquireHosts(r) ==
  /\ Step(r, "waiting", "leased")
  /\ \A h \in HostsOf[r] : lease[h] = 0
  /\ lease' = [h \in Hosts |-> IF h \in HostsOf[r] THEN lease[h] + 1 ELSE lease[h]]
  /\ UNCHANGED buffer

\* Mutant of AcquireCancelled: the acquire loop does not look at the event.
NeverCancelled(r) == FALSE /\ Step(r, "waiting", "cancelled") /\ UNCHANGED <<lease, buffer>>

\* The acquire loop sees the shutdown event and returns no host.
AcquireCancelled(r) ==
  /\ closed
  /\ Step(r, "waiting", "cancelled")
  /\ UNCHANGED <<lease, buffer>>

\* The shutdown check after the acquisition: a cancelled task leaves before
\* the try block that would release its hosts.
CheckAfterAcquire(r) ==
  /\ Step(r, "leased", IF closed THEN "cancelled" ELSE "downstream")
  /\ UNCHANGED <<lease, buffer>>

\* HostGovernorLedger.release for the hosts of the row.
Released(r) ==
  [h \in Hosts |-> IF h \in HostsOf[r] /\ lease[h] > 0 THEN lease[h] - 1 ELSE lease[h]]

\* prepare_downstream returned: the finally block pops the downstream events
\* and releases the hosts, the batch takes the source events.
DownstreamDone(r) ==
  /\ Step(r, "downstream", "returned")
  /\ lease' = Released(r)
  /\ buffer' = TakeBucket(r, "source_search")

\* prepare_downstream raised, or the shutdown event was seen inside the try:
\* the finally block ran, the source events stay in the buffer.
DownstreamFails(r) ==
  /\ \/ Step(r, "downstream", "raised")
     \/ closed /\ Step(r, "downstream", "cancelled")
  /\ lease' = Released(r)
  /\ UNCHANGED buffer

\* Mutant of ReadyAfter: a full queue drops the batch.
DropsWhenFull(r) ==
  IF task[r] = "returned" /\ ~closed /\ Cardinality(ready) < ReadyLimit
  THEN ready \cup {r} ELSE ready
\* The ready set after a future ended: a batch is kept unless closed.
ReadyAfter(r) ==
  IF task[r] = "returned" /\ ~closed THEN ready \cup {r} ELSE ready

\* Whether the outcome of the future is an error of the executor: any
\* exception, and a cancellation nobody asked for.
FailsRun(r) == task[r] = "raised" \/ (task[r] = "cancelled" /\ ~closed)

\* _handle_future_completion
HandleCompletion(r) ==
  LET err  == error \/ FailsRun(r)
      rest == [task EXCEPT ![r] = "idle"]
      k    == IF err \/ closed THEN 0
              ELSE RefillCount(submitted, Cardinality(InFlight \ {r}),
                               Cardinality(ReadyAfter(r)))
  IN  /\ task[r] \in Resolved
      /\ error' = err
      /\ ready' = ReadyAfter(r)
      /\ submitted' = submitted + k
      /\ task' = Submit(rest, k)
      /\ completed' = (completed \/ (InFlight \ {r} = {} /\ submitted = NRows))
      /\ UNCHANGED <<consumed, closed, lease, buffer, consumerVars>>

TaskStep(r) ==
  \/ Start(r)
  \/ SearchDone(r)
  \/ SearchFails(r)
  \/ ResolveHosts(r)
  \/ AcquireHosts(r)
  \/ AcquireCancelled(r)
  \/ CheckAfterAcquire(r)
  \/ DownstreamDone(r)
  \/ DownstreamFails(r)
  \/ HandleCompletion(r)

----------------------------------------------------------------------------
(* The consumer                                                            *)

\* Mutant of Consume: the room it makes is not refilled.
ConsumeOnly(r) ==
  /\ ready' = ready \ {r}
  /\ consumed' = consumed \cup {r}
  /\ UNCHANGED <<submitted, task, error, completed, closed, lease, buffer>>

\* What take and take_ready do once they found the batch of row r.
Consume(r) ==
  LET k == IF error \/ closed THEN 0
           ELSE RefillCount(submitted, Cardinality(InFlight), Cardinality(ready \ {r}))
  IN  /\ ready' = ready \ {r}
      /\ consumed' = consumed \cup {r}
      /\ submitted' = submitted + k
      /\ task' = Submit(task, k)
      /\ UNCHANGED <<error, completed, closed, lease, buffer>>

\* The row loop leaves its loop and will close the executor.
Leave(why) == /\ cpc' = "close"
              /\ outcome' = why
              /\ UNCHANGED <<taskVars, closed, lease, buffer, pos>>

\* The loop reaches a row: it calls take, or passes over a row it skips
\* on resume or has already got from take_ready.
VisitRow ==
  /\ cpc = "row"
  /\ pos \in Rows
  /\ \/ pos \in SkipRows \cup consumed /\ pos' = pos + 1 /\ UNCHANGED cpc
     \/ pos \notin consumed /\ cpc' = "take" /\ UNCHANGED pos
  /\ UNCHANGED <<taskVars, closed, lease, buffer, outcome>>

TakeReturns ==
  /\ cpc = "take"
  /\ ~error
  /\ pos \in ready
  /\ Consume(pos)
  /\ cpc' = "row"
  /\ pos' = pos + 1
  /\ UNCHANGED outcome

\* take raises: the executor failed, or it completed without this batch.
TakeRaises ==
  /\ cpc = "take"
  /\ error \/ (pos \notin ready /\ completed)
  /\ Leave("failed")

TakeReady ==
  /\ UseTakeReady
  /\ cpc = "row"
  /\ ~error
  /\ \E r \in ready : Consume(r)
  /\ UNCHANGED consumerVars

\* A controlled stop, or an exception outside the executor, ends the loop.
\* During a take only the wait callback can raise, and only while waiting.
StopEarly ==
  \/ cpc = "row" /\ Leave("stopped")
  \/ cpc = "take" /\ ~error /\ ~completed /\ pos \notin ready /\ Leave("failed")

RowsDone ==
  /\ cpc = "row"
  /\ pos \notin Rows
  /\ cpc' = "drain"
  /\ UNCHANGED <<taskVars, closed, lease, buffer, pos, outcome>>

\* ensure_drained
Drained == ~error /\ ready = {} /\ consumed = Rows /\ buffer = {}
EnsureDrained ==
  /\ cpc = "drain"
  /\ completed \/ error
  /\ Leave(IF Drained THEN "drained" ELSE "failed")

\* close: the flags, then the pool shutdown, then the buffer.
CloseBegin ==
  /\ cpc = "close"
  /\ closed' = TRUE
  /\ ready' = {}
  /\ cpc' = "shutdown"
  /\ UNCHANGED <<submitted, task, consumed, error, completed, lease, buffer, pos, outcome>>

\* Executor.shutdown(cancel_futures=True) cancels a call no thread has begun.
CancelQueued(r) == /\ cpc = "shutdown"
                   /\ Step(r, "queued", "cancelled")
                   /\ UNCHANGED <<lease, buffer>>

\* Executor.shutdown(wait=True) returned.
CloseEnd ==
  /\ cpc = "shutdown"
  /\ InFlight = {}
  /\ buffer' = {}
  /\ cpc' = "closed"
  /\ UNCHANGED <<taskVars, closed, lease, pos, outcome>>

ConsumerStep ==
  \/ VisitRow
  \/ TakeReturns
  \/ TakeRaises
  \/ RowsDone
  \/ EnsureDrained
  \/ CloseBegin
  \/ CloseEnd

Next ==
  \/ \E r \in Rows : TaskStep(r) \/ CancelQueued(r)
  \/ ConsumerStep
  \/ TakeReady
  \/ StopEarly

Spec == Init /\ [][Next]_vars

\* Worker threads and the consumer are scheduled by the operating system, a
\* source search and a downstream preparation end (the HTTP client has
\* timeouts), and shutdown cancels what is still queued.  Nothing obliges a
\* controlled stop, a failure or a take_ready to happen.
Fairness ==
  /\ \A r \in Rows : WF_vars(TaskStep(r))
  /\ WF_vars(ConsumerStep)

FairSpec == Spec /\ Fairness

----------------------------------------------------------------------------
(* Properties                                                              *)

\* Type invariant of the executor, its worker threads and its consumer.
TypeOK ==
  /\ submitted \in 0..NRows
  /\ task \in [Rows -> TaskState]
  /\ ready \in SUBSET Rows
  /\ consumed \in SUBSET Rows
  /\ error \in BOOLEAN
  /\ completed \in BOOLEAN
  /\ closed \in BOOLEAN
  /\ lease \in [Hosts -> Nat]
  /\ buffer \in SUBSET (Rows \X Phases)
  /\ cpc \in {"row", "take", "drain", "close", "shutdown", "closed"}
  /\ pos \in 1..(NRows + 1)
  /\ outcome \in {"running", "drained", "failed", "stopped"}

\* No batch is lost or handed over twice while the executor is open and has
\* not failed: a submitted row is in exactly one of the in-flight map, the
\* ready queue and the consumed set, a row still waiting is in none of them.
RowConservation ==
  /\ ready \cap consumed = {}
  /\ InFlight \cap (ready \cup consumed) = {}
  /\ InFlight \cup ready \cup consumed \subseteq 1..submitted
  /\ ~error /\ ~closed => 1..submitted = InFlight \cup ready \cup consumed

\* The limit of the ready queue is overshot by the calls already in flight
\* when it fills up, and by no more: batches that are ready or in flight
\* never number more than the limit plus the workers less one.
ReadyBound ==
  Cardinality(ready) + Cardinality(InFlight) <= ReadyLimit + Workers - 1

\* The worker pool is never asked to run more calls than it has threads.
WorkerBound == Cardinality(InFlight) <= Workers

\* A consumer blocked in take has something to wait for: the batch, an error,
\* or a call in flight.  With the ready queue full of rows the consumer has
\* not asked for, nothing would be in flight and take would wait for ever.
NoStuckTaker ==
  cpc = "take" => error \/ pos \in ready \/ InFlight # {}

\* When the consumer asked for every row and no task failed, ensure_drained
\* raises none of its errors: no batch and no buffered event is left behind.
DrainSucceeds ==
  cpc = "drain" /\ completed /\ ~error => Drained

\* Whatever the tasks do, whether the run drains, stops or fails, the
\* consumer leaves its loop and close() returns: workers waiting for a host
\* another task leaked are cancelled by the same shutdown.
Termination == <>(cpc = "closed")

=============================================================================
