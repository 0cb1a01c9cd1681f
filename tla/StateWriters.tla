----------------------------- MODULE StateWriters -----------------------------
(***************************************************************************)
(* The threads that write runtime_state.json, and what a run that was      *)
(* killed and resumed makes of it.                                         *)
(*                                                                         *)
(* ProgressStore (app/runtime/progress.py) has no lock.  The main thread   *)
(* changes its dictionaries and persists them; worker threads of a         *)
(* downstream pool report through the event buffer of the executor, except *)
(* for the OpenAIDecider, which was given the ProgressStore itself and     *)
(* calls append_event from whatever thread judges a site or a record.      *)
(*                                                                         *)
(* Persisting takes three steps another thread can come between: the list  *)
(* of results is taken, the run metadata and the summary are normalised    *)
(* into a payload, and the file is replaced (each writer has a temporary   *)
(* file of its own, so a file is never torn).  The clock of the run takes  *)
(* five more: the clock so far is read, then the time, then the time of    *)
(* the last report, that one is set, and the new clock is stored.          *)
(*                                                                         *)
(* The main thread does for each company what RunLedger does in sequence:  *)
(* checkpoint, acknowledge, store.  Only the state these three share is    *)
(* kept, and of an LLM event only that it is one.  Time passes between any *)
(* two steps; the machine may be asleep meanwhile, or no process running.  *)
(***************************************************************************)
EXTENDS RunClock, FiniteSets

CONSTANTS NCompanies,  \* companies the main thread completes, in order
          Workers,     \* worker threads with an OpenAIDecider
          MaxCalls,    \* bound on the LLM events of each thread
          MaxTime,     \* bound on the time that passes, a restart counting as one
          MaxRestarts  \* bound on the processes after the first

Companies == 1..NCompanies
Main == "main"
Threads == Workers \cup {Main}

ASSUME WritersAssumption ==
  /\ NCompanies \in Nat \ {0}
  /\ Main \notin Workers
  /\ MaxTime \in Nat \ {0}
  /\ {MaxCalls, MaxRestarts} \subseteq Nat

VARIABLES
  mem,      \* the dictionaries of the ProgressStore
  mono,     \* what the monotonic clock said at the last report of work
  file,     \* runtime_state.json
  events,   \* LLM events in events.jsonl
  torn,     \* a kill left part of a line in events.jsonl
  pc,       \* where each thread is
  back,     \* where a thread goes once it persisted
  snap,     \* the payload a thread is building
  seen,     \* the cost a thread read before adding to it
  report,   \* the telemetry a thread is changing
  apart,    \* history: no two threads ever took the time at once
  span,     \* when a worker finished the buffered stage of a company
  calls,    \* LLM events each thread still may report
  restarts, \* processes started after the first
  now,      \* the wall clock
  asleep    \* the moments no process worked in

store == <<mem, mono>>
disk == <<file, events, torn>>
outside == <<calls, restarts, now, asleep>>
vars == <<store, disk, pc, back, snap, seen, report, apart, span, outside>>

\* results, the work units and their checkpoints in run_metadata, in the
\* summary llm_total_cost_usd and run_status, and of the telemetry the clock.
Empty == [result |-> {}, acked |-> {}, ckpt |-> {}, cost |-> 0, finished |-> FALSE,
          clock |-> NoClock]

NoReport == [at |-> NoTime, next |-> "off", clock |-> NoClock, upto |-> 0]

Init ==
  /\ mem = Empty /\ mono = 0
  /\ file = Empty /\ events = 0 /\ torn = FALSE
  /\ pc = [t \in Threads |-> IF t = Main THEN "start" ELSE "off"]
  /\ back = [t \in Threads |-> "off"]
  /\ snap = [t \in Threads |-> Empty]
  /\ seen = [t \in Threads |-> 0]
  /\ report = [t \in Threads |-> NoReport]
  /\ apart = TRUE
  /\ span = NoTime
  /\ calls = [t \in Threads |-> MaxCalls]
  /\ restarts = 0
  /\ now = 1
  /\ asleep = {}

Goto(t, to) == pc' = [pc EXCEPT ![t] = to]

\* _persist_runtime_state begins.
Persist(t, to) == /\ Goto(t, "results")
                  /\ back' = [back EXCEPT ![t] = to]

----------------------------------------------------------------------------
(* Persisting                                                              *)

\* ordered_results
TakeResults(t) ==
  /\ pc[t] = "results"
  /\ snap' = [snap EXCEPT ![t].result = mem.result]
  /\ Goto(t, "metadata")
  /\ UNCHANGED <<store, disk, back, seen, report, apart, span, outside>>

\* build_runtime_state_payload
TakeMetadata(t) ==
  /\ pc[t] = "metadata"
  /\ snap' = [snap EXCEPT ![t] = [mem EXCEPT !.result = snap[t].result]]
  /\ Goto(t, "replace")
  /\ UNCHANGED <<store, disk, back, seen, report, apart, span, outside>>

\* atomic_write_json
ReplaceFile(t) ==
  /\ pc[t] = "replace"
  /\ file' = snap[t]
  /\ snap' = [snap EXCEPT ![t] = Empty]
  /\ Goto(t, back[t])
  /\ back' = [back EXCEPT ![t] = "off"]
  /\ UNCHANGED <<store, events, torn, seen, report, apart, span, outside>>

----------------------------------------------------------------------------
(* Telemetry                                                               *)

\* Mutant of Monotonic: the clock of the wall.
WallClock == now

\* time.monotonic does not count the time the machine sleeps.
Monotonic == Cardinality((1..now - 1) \ asleep)

\* The telemetry is copied, and so is the time it will be reported for ...
Report(t, at, next) ==
  /\ report' = [report EXCEPT ![t] = [NoReport EXCEPT !.at = at, !.next = next]]
  /\ Goto(t, "advance")

\* ... the clock of the current telemetry is read ...
ReadClock(t) ==
  /\ pc[t] = "advance"
  /\ report' = [report EXCEPT ![t].clock = mem.clock]
  /\ Goto(t, "measure")
  /\ UNCHANGED <<store, disk, back, snap, seen, apart, span, outside>>

\* The threads that took the time and have not yet left it for the next report.
Measuring == {t \in Threads : pc[t] \in {"count", "set"}}

\* ... _advance_runtime_clock_payload takes the time ...
TakeTime(t) ==
  /\ pc[t] = "measure"
  /\ report' = [report EXCEPT ![t].upto = Monotonic]
  /\ apart' = (apart /\ Measuring = {})
  /\ Goto(t, "count")
  /\ UNCHANGED <<store, disk, back, snap, seen, span, outside>>

\* ... counts what passed since the last report (rounded up to nothing if
\* another thread has set a later time by now) ...
CountWork(t) ==
  /\ pc[t] = "count"
  /\ LET worked == IF report[t].upto < mono THEN 0 ELSE report[t].upto - mono
     IN report' = [report EXCEPT ![t].at = NoTime,
                                 ![t].clock = AdvanceClock(@, report[t].at, worked)]
  /\ Goto(t, "set")
  /\ UNCHANGED <<store, disk, back, snap, seen, apart, span, outside>>

\* Mutant of SetTime: the time is not kept.
ForgetTime(t) ==
  /\ pc[t] = "set"
  /\ report' = [report EXCEPT ![t].upto = 0]
  /\ Goto(t, "publish")
  /\ UNCHANGED <<store, disk, back, snap, seen, apart, span, outside>>

\* ... and sets the time the next report will count from ...
SetTime(t) ==
  /\ pc[t] = "set"
  /\ mono' = report[t].upto
  /\ report' = [report EXCEPT ![t].upto = 0]
  /\ Goto(t, "publish")
  /\ UNCHANGED <<mem, disk, back, snap, seen, apart, span, outside>>

\* ... and the new telemetry takes the place of the old.
StoreReport(t) ==
  /\ pc[t] = "publish"
  /\ mem' = [mem EXCEPT !.clock = report[t].clock]
  /\ Goto(t, report[t].next)
  /\ report' = [report EXCEPT ![t] = NoReport]
  /\ UNCHANGED <<mono, disk, back, snap, seen, apart, span, outside>>

----------------------------------------------------------------------------
(* LLM events                                                              *)

\* append_event appends the event to the log ...
AppendEvent(t) ==
  /\ pc[t] = "idle"
  /\ calls[t] > 0
  /\ calls' = [calls EXCEPT ![t] = @ - 1]
  /\ events' = events + 1
  /\ Goto(t, "read")
  /\ UNCHANGED <<store, file, torn, back, snap, seen, report, apart, span, restarts, now, asleep>>

\* ... _apply_llm_event_to_summary reads the cost so far ...
ReadCost(t) ==
  /\ pc[t] = "read"
  /\ seen' = [seen EXCEPT ![t] = mem.cost]
  /\ Goto(t, "add")
  /\ UNCHANGED <<store, disk, back, snap, report, apart, span, outside>>

\* ... and stores the sum; the event is reported, and the state is persisted.
AddCost(t) ==
  /\ pc[t] = "add"
  /\ mem' = [mem EXCEPT !.cost = seen[t] + 1]
  /\ seen' = [seen EXCEPT ![t] = 0]
  /\ Report(t, now, "results")
  /\ back' = [back EXCEPT ![t] = "idle"]
  /\ UNCHANGED <<mono, disk, snap, apart, span, outside>>

----------------------------------------------------------------------------
(* The main thread                                                         *)

\* Companies whose row has no result or whose unit is not acknowledged.
Unsettled == {c \in Companies : ~(c \in mem.result /\ c \in mem.acked)}

IsCurrent(c) == c \in Unsettled /\ \A d \in Unsettled : c <= d

\* A method of the ProgressStore that changes the dictionaries and persists.
Update(from, to, new) ==
  /\ pc[Main] = from
  /\ mem' = new
  /\ Persist(Main, to)
  /\ UNCHANGED <<mono, disk, snap, seen, report, apart, span, outside>>

\* The stage of the next company was done in advance by a worker, whose span
\* waits in a buffer.
StageDone(t) ==
  /\ t # Main
  /\ pc[t] = "idle"
  /\ span = NoTime
  /\ \E c \in Companies : IsCurrent(c) /\ c \notin mem.ckpt \cup mem.result
  /\ span' = now
  /\ UNCHANGED <<store, disk, pc, back, snap, seen, report, apart, outside>>

\* append_events: the span is reported for the time it ended at ...
ReplaySpan ==
  /\ pc[Main] = "idle"
  /\ span # NoTime
  /\ Report(Main, span, "batch")
  /\ span' = NoTime
  /\ UNCHANGED <<store, disk, back, snap, seen, apart, outside>>

\* ... and the batch for the present, and the state is persisted.
ReplayBatch ==
  /\ pc[Main] = "batch"
  /\ Report(Main, now, "results")
  /\ back' = [back EXCEPT ![Main] = "idle"]
  /\ UNCHANGED <<store, disk, snap, seen, apart, span, outside>>

\* capture_runtime_throughput, at any point of a row: the telemetry is made anew
\* of the gauges of the pools, for the present.
Capture ==
  /\ pc[Main] = "idle"
  /\ Report(Main, now, "results")
  /\ back' = [back EXCEPT ![Main] = "idle"]
  /\ UNCHANGED <<store, disk, snap, seen, apart, span, outside>>

\* The result is checkpointed in the work unit, made pending again if it was
\* acknowledged for a result that is lost.
Checkpoint ==
  /\ span = NoTime
  /\ \E c \in Companies :
       /\ IsCurrent(c)
       /\ c \notin mem.result
       /\ Update("idle", "ack", [mem EXCEPT !.ckpt = @ \cup {c}, !.acked = @ \ {c}])

\* ack_stage_handoff_work_unit reports the end of the company's stages (a
\* resumed run begins with it when it finds the result) ...
ReportAck ==
  /\ \/ pc[Main] = "ack"
     \/ /\ pc[Main] = "idle"
        /\ \E c \in mem.result : IsCurrent(c)
  /\ Report(Main, now, "acked")
  /\ UNCHANGED <<store, disk, back, snap, seen, apart, span, outside>>

\* Mutant of AckUnit: the private state of the unit goes with it.
AckAndClear ==
  \E c \in Companies :
    /\ IsCurrent(c)
    /\ Update("acked", IF c \in mem.result THEN "idle" ELSE "store",
              [mem EXCEPT !.acked = @ \cup {c}, !.ckpt = @ \ {c}])

\* ... and acknowledges the unit.
AckUnit ==
  \E c \in Companies :
    /\ IsCurrent(c)
    /\ Update("acked", IF c \in mem.result THEN "idle" ELSE "store",
              [mem EXCEPT !.acked = @ \cup {c}])

\* upsert: the result is there ...
StoreResult ==
  /\ pc[Main] = "store"
  /\ \E c \in Companies : IsCurrent(c) /\ mem' = [mem EXCEPT !.result = @ \cup {c}]
  /\ Goto(Main, "cleanup")
  /\ UNCHANGED <<mono, disk, back, snap, seen, report, apart, span, outside>>

\* ... its checkpoint is dropped, and both are persisted ...
DropCheckpoint == Update("cleanup", "stored", [mem EXCEPT !.ckpt = @ \ mem.result])

\* ... and record_downstream_finalization_timing persists once more.
ReportFinal ==
  /\ pc[Main] = "stored"
  /\ Report(Main, now, "results")
  /\ back' = [back EXCEPT ![Main] = "idle"]
  /\ UNCHANGED <<store, disk, snap, seen, apart, span, outside>>

\* After the last row, or on a stop before one, the pool is shut down.
Stop ==
  /\ pc[Main] = "idle"
  /\ Goto(Main, "shutdown")
  /\ UNCHANGED <<store, disk, back, snap, seen, report, apart, span, outside>>

\* A worker has no more to do, or sees the shutdown event.
WorkerEnds(t) ==
  /\ t # Main
  /\ pc[t] = "idle"
  /\ Goto(t, "ended")
  /\ UNCHANGED <<store, disk, back, snap, seen, report, apart, span, outside>>

\* Executor.shutdown(wait=True) returned; run_finished.
AllEnded == \A t \in Workers : pc[t] = "ended"

\* Mutant of ReportEnd: the workers are not waited for.
ReportEndAtOnce ==
  /\ pc[Main] = "shutdown"
  /\ Report(Main, now, "finish")
  /\ UNCHANGED <<store, disk, back, snap, seen, apart, span, outside>>

ReportEnd ==
  /\ pc[Main] = "shutdown"
  /\ AllEnded
  /\ Report(Main, now, "finish")
  /\ UNCHANGED <<store, disk, back, snap, seen, apart, span, outside>>

RunFinished == Update("finish", "ended", [mem EXCEPT !.finished = TRUE])

----------------------------------------------------------------------------
(* Starting a process                                                      *)

RunStarted ==
  /\ pc[Main] = "start"
  /\ mem' = [mem EXCEPT !.finished = FALSE, !.clock = StartClock(@, now)]
  /\ mono' = Monotonic
  /\ Persist(Main, "begin")
  /\ UNCHANGED <<disk, snap, seen, report, apart, span, outside>>

\* The pools are opened.
OpenPools ==
  /\ pc[Main] = "begin"
  /\ pc' = [t \in Threads |-> "idle"]
  /\ UNCHANGED <<store, disk, back, snap, seen, report, apart, span, outside>>

\* Killed, or a run that ended is stopped for good: a kill while a line is
\* appended to the log leaves part of it.
Kill ==
  /\ pc[Main] # "off"
  /\ restarts < MaxRestarts /\ now + restarts < MaxTime
  /\ pc' = [t \in Threads |-> "off"]
  /\ mem' = Empty /\ mono' = 0
  /\ back' = [t \in Threads |-> "off"]
  /\ snap' = [t \in Threads |-> Empty]
  /\ seen' = [t \in Threads |-> 0]
  /\ report' = [t \in Threads |-> NoReport]
  /\ span' = NoTime
  /\ \/ UNCHANGED torn
     \/ torn' = TRUE /\ \E t \in Threads : pc[t] = "idle" /\ calls[t] > 0
  /\ UNCHANGED <<file, events, apart, outside>>

\* Checkpoints a load takes for results: those of pending units too, unless
\* the run had ended.
Promoted == IF file.finished THEN file.ckpt \cap file.acked ELSE file.ckpt

\* _rebuild_llm_summary_from_events gives up on a line it cannot read.
CostOfLog == IF torn THEN 0 ELSE events

\* ProgressStore.__init__
Load ==
  /\ pc[Main] = "off"
  /\ restarts' = restarts + 1
  /\ mem' = LET results == file.result \cup Promoted
            IN [file EXCEPT !.result = results, !.ckpt = @ \ results, !.cost = CostOfLog]
  /\ Goto(Main, "start")
  /\ UNCHANGED <<mono, disk, back, snap, seen, report, apart, span, calls, now, asleep>>

----------------------------------------------------------------------------
(* Time                                                                    *)

TimePasses ==
  /\ now + restarts < MaxTime
  /\ now' = now + 1
  /\ asleep' \in {asleep, asleep \cup {now}}
  /\ pc[Main] \in {"off", "ended"} => now \in asleep'
  /\ UNCHANGED <<store, disk, pc, back, snap, seen, report, apart, span, calls, restarts>>

----------------------------------------------------------------------------

ThreadStep(t) ==
  \/ TakeResults(t) \/ TakeMetadata(t) \/ ReplaceFile(t)
  \/ ReadClock(t) \/ TakeTime(t) \/ CountWork(t) \/ SetTime(t) \/ StoreReport(t)
  \/ ReadCost(t) \/ AddCost(t)

MainStep ==
  \/ Capture \/ ReplaySpan \/ ReplayBatch
  \/ Checkpoint \/ ReportAck \/ AckUnit
  \/ StoreResult \/ DropCheckpoint \/ ReportFinal
  \/ ReportEnd \/ RunFinished

Next ==
  \/ \E t \in Threads :
       ThreadStep(t) \/ AppendEvent(t) \/ StageDone(t) \/ WorkerEnds(t)
  \/ MainStep \/ Stop
  \/ RunStarted \/ OpenPools \/ Kill \/ Load
  \/ TimePasses

Spec == Init /\ [][Next]_vars

----------------------------------------------------------------------------
(* Properties                                                              *)

Clocks == [start : Nat, tick : Nat, active : Nat, pause : Nat]
State == [result : SUBSET Companies, acked : SUBSET Companies, ckpt : SUBSET Companies,
          cost : Nat, finished : BOOLEAN, clock : Clocks]
Places == {"off", "start", "begin", "idle", "results", "metadata", "replace",
           "advance", "measure", "count", "set", "publish",
           "read", "add", "batch", "ack", "acked", "store", "cleanup", "stored",
           "shutdown", "finish", "ended"}
Reports == [at : Nat, next : Places, clock : Clocks, upto : Nat]

\* Type invariant of the store, its file and the threads.
TypeOK ==
  /\ mem \in State /\ mono \in Nat
  /\ file \in State /\ events \in Nat /\ torn \in BOOLEAN
  /\ pc \in [Threads -> Places]
  /\ back \in [Threads -> Places]
  /\ snap \in [Threads -> State]
  /\ seen \in [Threads -> Nat]
  /\ report \in [Threads -> Reports]
  /\ apart \in BOOLEAN
  /\ span \in 0..MaxTime
  /\ calls \in [Threads -> 0..MaxCalls]
  /\ restarts \in 0..MaxRestarts
  /\ now \in 1..MaxTime
  /\ asleep \in SUBSET (1..MaxTime)

\* The file, as a crash would leave it, never has an acknowledged unit without
\* a result or a checkpoint to restore it from.
FileRecoverable == file.acked \subseteq file.result \cup file.ckpt

\* The run ends with the file saying all there is to say: no writer is left
\* that could put an older payload over the one of run_finished.
FinalFileIsMemory == pc[Main] = "ended" => file = mem

\* The cost counts every event that was reported, unless the log was torn.
CostIsComplete == pc[Main] = "ended" /\ ~torn => file.cost = events

\* No worker has reported an LLM event itself.
WorkersSilent == \A w \in Workers : calls[w] = MaxCalls

\* While the main thread is the only writer, it is safe to crash at any step
\* of the sequence checkpoint, acknowledge, store, drop the checkpoint, and
\* every LLM event it reported is counted once the run is over, whatever was
\* persisted of it when a process was killed.
RecoverableAlone == WorkersSilent => FileRecoverable /\ CostIsComplete

\* What a clock may claim: no more work than was done, and no speed evidence
\* if the run stood still for longer than the threshold, up to the time that
\* passed between the timestamp of a report and its reading of the clocks.
LivedSince(time) == Cardinality({s \in time..now - 1 : s \notin asleep})
AsleepIn(from, to) == Cardinality({s \in asleep : from <= s /\ s < to})

Truthful(clock) ==
  /\ clock.active <= Monotonic
  /\ IsEvidence(clock) =>
       AsleepIn(clock.start, clock.tick) <= Threshold + LivedSince(clock.tick)

\* Speed is only called evidence if the machine was not asleep and no process
\* was missing for longer than the threshold since the run began, and no work
\* is counted that was not done, whatever kills, resumes and late reports of
\* workers came between, and however the reports overtake each other before the
\* time is taken and after it is set.  Two threads that take it at once can set
\* it back, and what follows is counted twice: the code does not exclude it.
EvidenceIsHonest == apart => Truthful(mem.clock) /\ Truthful(file.clock)
=============================================================================
