------------------------- MODULE DownstreamPrefetch -------------------------
(* The downstream half of the row loop (src/run_company_enrichment_pipeline.py):
   rows whose sources are in are handed to a pool of threads that prepares
   candidate sites, deep parse and reviews under the stage pools, while the
   main thread keeps the rows in a deque and drains them, the ready ones
   first, in between and at the end.

   What a source search returns is an outcome, what a drain writes is in
   RunLedger, and the controlled stop file may appear at any time.          *)
EXTENDS StagePools

CONSTANTS
  NRows,
  Workers,            \* threads of downstream_prefetch_executor
  Main,
  Recovered,          \* rows a resume takes up from their work units
  QueueLimit,         \* downstream_prefetch_queue_limit
  ReadyLimit,         \* downstream_prefetch_ready_drain_limit
  LowWatermark,       \* downstream_prefetch_ready_drain_low_watermark
  DeepParseFrom       \* where in Program deep parse begins, outside of any lease

ASSUME PrefetchAssumption ==
  /\ NRows \in Nat /\ QueueLimit \in Nat \ {0}
  /\ ReadyLimit \in Nat /\ LowWatermark \in Nat
  /\ Threads = Workers \cup {Main} /\ Main \notin Workers
  /\ Cancellable = Workers
  /\ Recovered \subseteq 1..NRows
  /\ DeepParseFrom \in 1..Len(Program) /\ Inside(DeepParseFrom) = {}
  /\ \A i \in DOMAIN Program :
       Program[i] = <<"in", "ocr">> => i + 1 \in DOMAIN Program /\ Program[i + 1] = <<"out", "ocr">>

VARIABLES
  main,               \* pc, next row, row being drained, where to go on after,
                      \* and whether an exception ended the loop (terminal_exception)
  future,             \* per row: state of its downstream future
  pending,            \* pending_explicit_runtime_rows
  drained,            \* rows whose result was stored, in that order
  dropped,            \* rows deferred by a required source
  stop                \* controlled_stop_request

loop == <<main, future, pending, drained, dropped, stop>>
vars == <<stages, loop>>

Rows == 1..NRows
NoRow == 0
Init ==
  /\ StagesInit
  /\ main = [pc |-> "row", next |-> 1, cur |-> NoRow, back |-> "row", raised |-> FALSE]
  /\ future = [r \in Rows |-> "none"]
  /\ pending = <<>> /\ drained = <<>> /\ dropped = {}
  /\ stop = FALSE

TypeOK ==
  /\ main \in [pc : {"row", "sources", "drain", "ready", "select", "inline", "final", "cleanup",
                     "cancel", "join", "finished"},
               next : 1..(NRows + 1), cur : Rows \cup {NoRow},
               back : {"row", "sources", "ready", "final"}, raised : BOOLEAN]
  /\ future \in [Rows -> {"none", "queued", "running", "done", "failed", "cancelled"}]
  /\ pending \in Seq(Rows) /\ drained \in Seq(Rows) /\ dropped \subseteq Rows
  /\ stop \in BOOLEAN
  /\ task \in [Threads -> [row : Rows \cup {NoRow}, ip : 1..End,
                           phase : {"off", "run", "got", "completed"}, held : Seq(Stages),
                           registered : BOOLEAN, leaving : {"no", "failed", "cancelled"}]]

Settled(r) == future[r] \in {"done", "failed", "cancelled"}
ReadyAt == {i \in DOMAIN pending : Settled(pending[i])}
GoTo(place) == main' = [main EXCEPT !.pc = place]
\* Any exception ends the loop and is raised again after the cleanup.
Raise == main' = [main EXCEPT !.pc = "cleanup", !.raised = TRUE]

\* The head of the deque instead of the row asked for.
WithoutHead(rows, i) == Tail(rows)

\* A row out of the middle of the deque: rotate, popleft, rotate back.
Without(rows, i) == SubSeq(rows, 1, i - 1) \o SubSeq(rows, i + 1, Len(rows))
\* The first ready row.
FirstReady == CHOOSE k \in ReadyAt : \A j \in ReadyAt : k <= j

\* While it chooses the candidate sites of a new row the main thread leases
\* that stage only.
AtSelection(t) == t = Main /\ main.pc = "select" /\ task[Main].ip = DeepParseFrom

-----------------------------------------------------------------------------
(* The threads of the pool, and the main thread when it has no prefetched
   result to use: they go through the same stages.                          *)

StartTask(w) ==
  /\ w \in Workers /\ ~Working(w)
  /\ \E r \in Rows :
       /\ future[r] = "queued" /\ \A q \in Rows : future[q] = "queued" => r <= q
       /\ future' = [future EXCEPT ![r] = "running"]
       /\ task' = [task EXCEPT ![w] = [Idle EXCEPT !.row = r, !.phase = "run"]]
  /\ UNCHANGED <<permits, queueDepth, inflight, lost, shutdown, main, pending, drained, dropped, stop>>

\* No site passed the trust gate: the result is complete without deep parse.
NoDeepParse(t) ==
  /\ Entering(t) /\ task[t].ip = DeepParseFrom /\ ~task[t].registered /\ ~AtSelection(t)
  /\ task' = [task EXCEPT ![t].ip = End]
  /\ UNCHANGED <<permits, queueDepth, inflight, lost, shutdown, loop>>

\* No document needs OCR.
NoOcr(t) ==
  /\ Entering(t) /\ Stage(t) = "ocr" /\ ~task[t].registered
  /\ task' = [task EXCEPT ![t].ip = @ + 2]
  /\ UNCHANGED <<permits, queueDepth, inflight, lost, shutdown, loop>>

\* The work of a stage raises.
StageFails(t) ==
  /\ task[t].phase = "run" /\ task[t].leaving = "no" /\ task[t].held # <<>>
  /\ ~task[t].registered
  /\ task' = [task EXCEPT ![t].leaving = "failed"]
  /\ UNCHANGED <<permits, queueDepth, inflight, lost, shutdown, loop>>

Ended(t) ==
  /\ task[t].phase = "run" /\ task[t].held = <<>>
  /\ task[t].leaving # "no" \/ task[t].ip = End

EndTask(w) ==
  /\ w \in Workers /\ Ended(w)
  /\ future' = [future EXCEPT ![task[w].row] =
                  IF task[w].leaving = "no" THEN "done" ELSE task[w].leaving]
  /\ task' = [task EXCEPT ![w] = Idle]
  /\ UNCHANGED <<permits, queueDepth, inflight, lost, shutdown, main, pending, drained, dropped, stop>>

-----------------------------------------------------------------------------
(* The row loop. *)

\* A stop is looked for before each row.
BeforeRow ==
  /\ main.pc = "row"
  /\ \/ main.next <= NRows /\ ~stop /\ UNCHANGED stop /\ GoTo("sources")
     \/ main.next <= NRows /\ stop' = TRUE /\ GoTo("cleanup")
     \/ main.next > NRows /\ UNCHANGED stop /\ GoTo("final")
  /\ UNCHANGED <<stages, future, pending, drained, dropped>>

\* While a source keeps it waiting, the main thread drains ready rows
\* (service_runtime_tail_during_source_wait, service_stale_ready_tail...).
ServeTail ==
  /\ main.pc = "sources" /\ main.next \notin Recovered
  /\ ReadyAt # {} /\ ~stop
  /\ main' = [main EXCEPT !.pc = "drain", !.cur = pending[FirstReady], !.back = "sources"]
  /\ pending' = Without(pending, FirstReady)
  /\ UNCHANGED <<stages, future, drained, dropped, stop>>

\* A transient failure of a required source defers the row.
Defer ==
  /\ main.pc = "sources" /\ main.next \notin Recovered /\ ~stop
  /\ dropped' = dropped \cup {main.next}
  /\ main' = [main EXCEPT !.pc = "row", !.next = @ + 1]
  /\ UNCHANGED <<stages, future, pending, drained, stop>>

\* A red flag of a required source, or any exception of the row.
FailFast ==
  /\ main.pc = "sources" /\ main.next \notin Recovered
  /\ Raise
  /\ UNCHANGED <<stages, future, pending, drained, dropped, stop>>

\* The stop came while ready rows were drained.
StopInSources ==
  /\ main.pc = "sources" /\ stop
  /\ GoTo("cleanup")
  /\ UNCHANGED <<stages, future, pending, drained, dropped, stop>>

\* How the loop goes on after a row was appended: the queue has room and no
\* ready rows ask to be drained; some are ready; or none is and one must be
\* waited for.
HasRoom(n) == n < QueueLimit

AfterAppend(rows, ready) ==
  LET asked == \/ ReadyLimit > 0 /\ ready > ReadyLimit
               \/ Len(drained) > 0 /\ LowWatermark > 0 /\ ready >= LowWatermark
  IN  IF HasRoom(Len(rows)) /\ ~asked
        THEN /\ pending' = rows
             /\ main' = [main EXCEPT !.pc = "row", !.next = @ + 1]
      ELSE IF ready > 0
        THEN /\ pending' = rows
             /\ main' = [main EXCEPT !.pc = "ready", !.next = @ + 1]
      ELSE   /\ pending' = Tail(rows)
             /\ main' = [main EXCEPT !.pc = "drain", !.next = @ + 1,
                                     !.cur = Head(rows), !.back = "row"]

SelectSites ==
  /\ main.pc = "sources" /\ main.next \notin Recovered /\ ~stop
  /\ GoTo("select")
  /\ task' = [task EXCEPT ![Main] = [Idle EXCEPT !.row = main.next, !.phase = "run"]]
  /\ UNCHANGED <<permits, queueDepth, inflight, lost, shutdown, future, pending, drained, dropped, stop>>

Admit ==
  /\ AtSelection(Main) /\ task[Main].phase = "run" /\ task[Main].leaving = "no"
  /\ task' = [task EXCEPT ![Main] = Idle]
  /\ future' = [future EXCEPT ![main.next] = "queued"]
  /\ AfterAppend(Append(pending, main.next), Cardinality(ReadyAt))
  /\ UNCHANGED <<permits, queueDepth, inflight, lost, shutdown, drained, dropped, stop>>

SelectionFails ==
  /\ main.pc = "select" /\ task[Main].leaving # "no" /\ Ended(Main)
  /\ task' = [task EXCEPT ![Main] = Idle]
  /\ Raise
  /\ UNCHANGED <<permits, queueDepth, inflight, lost, shutdown, future, pending, drained, dropped, stop>>

\* A row recovered from its work unit is drained at once by the main thread,
\* from the boundary its unit is at.
Recover ==
  /\ main.pc = "sources" /\ main.next \in Recovered /\ ~stop
  /\ main' = [main EXCEPT !.pc = "inline", !.next = @ + 1, !.cur = main.next, !.back = "row"]
  /\ \E from \in {1, DeepParseFrom} :
       task' = [task EXCEPT ![Main] = [Idle EXCEPT !.row = main.next, !.phase = "run", !.ip = from]]
  /\ UNCHANGED <<permits, queueDepth, inflight, lost, shutdown, future, pending, drained, dropped, stop>>

EndInline ==
  /\ main.pc = "inline" /\ Ended(Main)
  /\ task' = [task EXCEPT ![Main] = Idle]
  /\ IF task[Main].leaving = "no"
       THEN /\ drained' = Append(drained, main.cur)
            /\ main' = [main EXCEPT !.pc = "row", !.cur = NoRow]
       ELSE Raise /\ UNCHANGED drained
  /\ UNCHANGED <<permits, queueDepth, inflight, lost, shutdown, future, pending, dropped, stop>>

\* drain_ready_pending_explicit_runtime_rows, one row at a time.
DrainReady ==
  /\ main.pc = "ready"
  /\ IF stop THEN GoTo("cleanup") /\ UNCHANGED pending
     ELSE IF ReadyAt = {} THEN GoTo("row") /\ UNCHANGED pending
     ELSE /\ main' = [main EXCEPT !.pc = "drain", !.cur = pending[FirstReady], !.back = "ready"]
          /\ pending' = Without(pending, FirstReady)
  /\ UNCHANGED <<stages, future, drained, dropped, stop>>

\* _resolve_pending_prefetched_downstream_batch: the wait for the future of a
\* row goes on whatever happens to the run meanwhile, and ends with its result or
\* with its exception.
Resolves(r, well) == Settled(r) /\ (well <=> future[r] = "done")

\* _drain_pending_explicit_runtime_row: either stop at the boundary or store the
\* result; the exception of a failed future is the run's.
Drain ==
  /\ main.pc = "drain"
  /\ \/ /\ Resolves(main.cur, TRUE) /\ ~stop
        /\ drained' = Append(drained, main.cur)
        /\ main' = [main EXCEPT !.pc = main.back, !.cur = NoRow]
        /\ UNCHANGED stop
     \/ /\ Resolves(main.cur, TRUE)
        /\ stop' = TRUE
        /\ GoTo(main.back) /\ UNCHANGED drained
     \/ /\ Resolves(main.cur, FALSE)
        /\ Raise /\ UNCHANGED <<drained, stop>>
  /\ UNCHANGED <<stages, future, pending, dropped>>

\* The rest of the deque, ready rows first.
FinalDrain ==
  /\ main.pc = "final"
  /\ IF stop \/ pending = <<>>
       THEN GoTo("cleanup") /\ UNCHANGED pending
       ELSE LET i == IF ReadyAt = {} THEN 1 ELSE FirstReady IN
            /\ main' = [main EXCEPT !.pc = "drain", !.cur = pending[i], !.back = "final"]
            /\ pending' = Without(pending, i)
  /\ UNCHANGED <<stages, future, drained, dropped, stop>>

\* _cleanup_runtime_resources: the event, then the queued tasks, then the wait.
SetShutdown ==
  /\ main.pc = "cleanup"
  /\ shutdown' = TRUE /\ GoTo("cancel")
  /\ UNCHANGED <<permits, queueDepth, inflight, lost, task, future, pending, drained, dropped, stop>>

CancelQueued ==
  /\ main.pc = "cancel"
  /\ future' = [r \in Rows |-> IF future[r] = "queued" THEN "cancelled" ELSE future[r]]
  /\ GoTo("join")
  /\ UNCHANGED <<stages, pending, drained, dropped, stop>>

\* shutdown(wait=False).
NotWaitedFor == TRUE

Joined == \A w \in Workers : ~Working(w)

Join ==
  /\ main.pc = "join" /\ Joined
  /\ GoTo("finished")
  /\ UNCHANGED <<stages, future, pending, drained, dropped, stop>>

\* A thread goes on, or what it is at fails.
ThreadGoesOn(t) ==
  \/ ~AtSelection(t) /\ LeaseGoesOn(t) /\ UNCHANGED loop
  \/ StartTask(t) \/ NoDeepParse(t) \/ NoOcr(t) \/ EndTask(t)

ThreadFails(t) ==
  \/ ~AtSelection(t) /\ TickFails(t) /\ UNCHANGED loop
  \/ StageFails(t)

ThreadStep(t) == ThreadGoesOn(t) \/ ThreadFails(t)

MainStep ==
  \/ BeforeRow \/ ServeTail \/ Defer \/ FailFast \/ StopInSources \/ SelectSites \/ Admit
  \/ SelectionFails \/ Recover \/ EndInline \/ DrainReady \/ Drain \/ FinalDrain \/ SetShutdown \/ CancelQueued \/ Join

Finished == main.pc = "finished" /\ UNCHANGED vars

Next == (\E t \in Threads : ThreadStep(t)) \/ MainStep \/ Finished

Spec == Init /\ [][Next]_vars
\* Every thread runs on, and the polls of the leases come back.  No thread is
\* obliged to fail: one that waits for a permit may wait until it is free, or
\* until the shutdown cancels it.  Wherever the main thread may fail or stop it
\* may go on instead.
FairSpec == Spec /\ WF_vars(MainStep) /\ \A t \in Threads : WF_vars(ThreadGoesOn(t))

-----------------------------------------------------------------------------
(* Properties. *)

InPending == {pending[i] : i \in DOMAIN pending}
Stored == {drained[i] : i \in DOMAIN drained}

\* Every row the loop has taken up is in one place, though rows are taken out of
\* the middle of the deque while others wait for their sources: deferred, stored
\* once, in the hands of the main thread, or in the deque, which stays in the
\* order of the rows.  A run that is stopped or fails loses none of them.
RowsAccounted ==
  /\ \A i, j \in DOMAIN pending : i < j => pending[i] < pending[j]
  /\ Cardinality(Stored) = Len(drained)
  /\ InPending \cap Stored = {} /\ dropped \cap (InPending \cup Stored) = {}
  /\ main.cur \notin InPending \cup Stored \cup dropped
  /\ (InPending \cup Stored \cup {main.cur} \cup dropped) \ {NoRow} = 1..(main.next - 1)

\* A run that ends without a stop and without an exception has stored every row
\* it did not defer.
AllStored ==
  main.pc = "finished" /\ ~stop /\ ~main.raised => Stored \cup dropped = Rows

\* When the run says it is finished, no thread of the pool is at work or holds
\* a lease: what is written afterwards has one writer.
AloneAtTheEnd ==
  main.pc = "finished" =>
    /\ \A t \in Threads : ~Working(t)
    /\ \A s \in Stages : permits[s] = Budget[s]
    /\ \A r \in Rows : future[r] \notin {"queued", "running"}

\* Rows and threads are accounted for to the end.
NothingLeftBehind == RowsAccounted /\ AllStored /\ AloneAtTheEnd

\* Nested leases of several threads never wait for each other in a circle, and
\* a run ends however its tasks fail, stop or are cancelled.
RunEnds == <>(main.pc = "finished")

=============================================================================
