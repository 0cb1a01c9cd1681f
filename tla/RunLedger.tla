------------------------------ MODULE RunLedger ------------------------------
(***************************************************************************)
(* The progress ledger of a run: what ProgressStore (app/runtime/          *)
(* progress.py) keeps in runtime_state.json and in the stage-message       *)
(* outbox, and the single thread of run_company_enrichment_pipeline.run    *)
(* that reads and writes it, through crashes, failures, controlled stops,  *)
(* resumes and retries.                                                    *)
(*                                                                         *)
(* A company is admitted when its sources are collected and an aggregator  *)
(* work unit is materialized for it; the unit is consumed at once or later *)
(* from the deque of pending rows, it may be handed over to a deep-parse   *)
(* unit, and it is acknowledged when the company's result is stored.  All  *)
(* along, stage messages are appended to an outbox, read back from a       *)
(* cursor and folded into one handoff per company.                         *)
(*                                                                         *)
(* Every ProgressStore method changes its dictionaries and rewrites        *)
(* runtime_state.json atomically before it returns, so one variable stands *)
(* for both the memory of the process and the file: a crash between two    *)
(* methods loses what the thread was doing, and nothing else.  The outbox  *)
(* is a second file, written before the cursor that says it was read.      *)
(*                                                                         *)
(* Abstracted: the contents of results and messages (a result is known by  *)
(* the admission whose sources it was built from), the public output       *)
(* files, the telemetry and the events.  StateWriters models what other    *)
(* threads do to the same state.                                           *)
(***************************************************************************)
EXTENDS Integers, Sequences, FiniteSets

CONSTANTS NCompanies,    \* selected rows, one company each, in row order
          QueueLimit,    \* downstream_prefetch_queue_limit, 1 without a pool
          MaxFailures,   \* bound on crashes, aborts, stops, deferrals, resets
          Reprocess,     \* --retry-blocked-source sessions happen
          CrashInReset   \* a crash may hit the reset of a fresh run

Companies == 1..NCompanies

ASSUME LedgerAssumption ==
  /\ NCompanies \in Nat \ {0}
  /\ QueueLimit \in Nat \ {0}
  /\ MaxFailures \in Nat
  /\ Reprocess \in BOOLEAN
  /\ CrashInReset \in BOOLEAN

Surface == {"agg", "deep"}
Kind == {"source", "candidate", "gate", "done", "completed"}

VARIABLES
  outbox,     \* the stage messages in the outbox file
  cursor,     \* stage_outbox_cursor
  handoff,    \* stage_handoffs, with the pickup of each company
  unit,       \* stage_work_units
  evidence,   \* stage_execution_evidence
  result,     \* results: 0, or the admission the result was built from
  admissions, \* how often each company was admitted (history)
  terminal,   \* the summary has a terminal run_status
  pc,         \* where the main thread is, "off" when no process runs
  next,       \* where it goes after reading the outbox
  cur,        \* the row it is working on
  pos,        \* the next row of the row loop
  selected,   \* the rows of this session
  recovering, \* resume_pending_explicit_inns
  mode,       \* the kind of session
  queue,      \* pending_explicit_runtime_rows
  deferred,   \* rows left behind by a deferred required source
  raised,     \* what the ledger code raised in this session
  budget      \* failures still to come

files == <<outbox, cursor, handoff, unit, evidence, result, admissions, terminal>>
session == <<pos, selected, recovering, mode, queue, deferred>>
vars == <<outbox, cursor, handoff, unit, evidence, result, admissions, terminal,
          pc, next, cur, pos, selected, recovering, mode, queue, deferred,
          raised, budget>>

NoUnit == [st |-> "none", gen |-> 0, ckpt |-> 0]
NoHandoff == [last |-> "none", gate |-> FALSE, done |-> FALSE,
              completed |-> FALSE, picked |-> FALSE]
NoRow == [inn |-> 0, recovery |-> FALSE, existing |-> FALSE, surface |-> "agg",
          gen |-> 0, hasDone |-> FALSE, hasCompleted |-> FALSE, keep |-> 0]

ResumeModes == {"resume", "resume_retry"}

Explicit(u) == u.st \in {"pending", "acked"}
Pending(c) == {s \in Surface : unit[s][c].st = "pending"}

----------------------------------------------------------------------------
(* Handoffs and pickups                                                    *)

\* Messages of company c the cursor has not passed.
Unread(c) == {i \in (cursor + 1)..Len(outbox) : outbox[i].inn = c}
UnreadKinds(c) == {outbox[i].kind : i \in Unread(c)}

\* apply_stage_messages_to_handoff_state, synchronize_stage_handoff_pickup_state:
\* every message changes the fingerprint, so the handoff is no longer picked up.
Applied(c) ==
  IF Unread(c) = {} THEN handoff[c]
  ELSE LET newest == CHOOSE i \in Unread(c) : \A j \in Unread(c) : j <= i
       IN  [last |-> outbox[newest].kind,
            gate |-> handoff[c].gate \/ "gate" \in UnreadKinds(c),
            done |-> handoff[c].done \/ "done" \in UnreadKinds(c),
            completed |-> handoff[c].completed \/ "completed" \in UnreadKinds(c),
            picked |-> FALSE]

\* _queue_status_for_handoff
Ready(h) == h.last = "completed"

\* The unit a ready handoff gets when none was materialized explicitly.
LegacyUnit == [st |-> "legacy", gen |-> 0, ckpt |-> 0]

\* synchronize_stage_work_unit_state: explicit evidence overrides the units,
\* and a ready handoff that was picked up gets its legacy unit back.
Synchronized(units, proof, handoffs) ==
  [s \in Surface |-> [c \in Companies |->
     IF Explicit(proof[s][c]) THEN proof[s][c]
     ELSE IF s = "agg" /\ ~Explicit(units[s][c]) /\ Ready(handoffs[c]) /\ handoffs[c].picked
          THEN LegacyUnit
          ELSE units[s][c]]]

----------------------------------------------------------------------------
(* Work units                                                              *)

\* A unit already there with the identity of the new one is preserved, in
\* whatever state it is; any other is replaced by a fresh pending one.
Kept(old, same) == Explicit(old) /\ same

\* materialize_stage_work_unit: the units, then the evidence from them.
UpsertUnit(s, c, g, same) ==
  LET fresh == [st |-> "pending", gen |-> g, ckpt |-> 0]
      u == IF Kept(unit[s][c], same) THEN unit[s][c] ELSE fresh
  IN  /\ unit' = [unit EXCEPT ![s][c] = u]
      /\ evidence' = [evidence EXCEPT ![s][c] = IF Kept(@, same) THEN @ ELSE u]

\* Mutant of MergeCheckpoint: there is no checkpoint.
MergeNothing(s, c, g) == UNCHANGED <<unit, evidence>>

\* merge_stage_work_unit_private_state with a completed-result checkpoint.
MergeCheckpoint(s, c, g) ==
  /\ unit' = [unit EXCEPT ![s][c].ckpt = g]
  /\ evidence' = [evidence EXCEPT ![s][c].ckpt = IF Explicit(evidence[s][c]) THEN g ELSE @]

\* acknowledge_stage_work_unit
Acked(u) == IF u.st = "none" THEN u ELSE [u EXCEPT !.st = "acked"]

\* ack_stage_handoff_work_unit reports whether anything was pending; the
\* pipeline raises when nothing was, which UnitsAreThere excludes.
CanAck(s, c) == "acked" # unit[s][c].st \/ "acked" # evidence[s][c].st
\* Mutant of Ack: the evidence keeps the unit pending.
AckUnitOnly(s, c) ==
  /\ unit' = [unit EXCEPT ![s][c] = Acked(@)]
  /\ UNCHANGED evidence

Ack(s, c) ==
  /\ unit' = [unit EXCEPT ![s][c] = Acked(@)]
  /\ evidence' = [evidence EXCEPT ![s][c] = Acked(@)]

\* _cleanup_checkpointed_completed_result_duplicates, given the results.
WithoutDuplicates(units, results) ==
  [s \in Surface |-> [c \in Companies |->
     IF results[c] # 0 THEN [units[s][c] EXCEPT !.ckpt = 0] ELSE units[s][c]]]

----------------------------------------------------------------------------
(* Starting a process                                                      *)

\* _reconcile_run_metadata_after_load: before anything is made of the units
\* that were loaded, they are synchronized.
Reconciled == Synchronized(unit, evidence, handoff)

\* Mutant of RestoreSafe: after a terminal status nothing is restored.
RestoreSafeUntilTerminal(s, c) ==
  /\ Reconciled[s][c].ckpt # 0
  /\ ~terminal /\ evidence[s][c].ckpt = Reconciled[s][c].ckpt

\* _completed_checkpoint_is_public_restore_safe
RestoreSafe(s, c) ==
  /\ Reconciled[s][c].ckpt # 0
  /\ \/ Reconciled[s][c].st = "acked"
     \/ ~terminal /\ evidence[s][c].ckpt = Reconciled[s][c].ckpt

\* Mutant of Converged: the deep-parse surface is not looked at.
ConvergedFromAggregator ==
  [c \in Companies |->
     IF result[c] # 0 THEN result[c]
     ELSE IF RestoreSafe("agg", c) THEN Reconciled["agg"][c].ckpt ELSE 0]

\* _converge_checkpointed_completed_results_after_load; the deep-parse
\* surface comes second and wins.
Converged ==
  [c \in Companies |->
     IF result[c] # 0 THEN result[c]
     ELSE IF RestoreSafe("deep", c) THEN Reconciled["deep"][c].ckpt
     ELSE IF RestoreSafe("agg", c) THEN Reconciled["agg"][c].ckpt
     ELSE 0]

\* ProgressStore.__init__ and the row selection of run, for a session over
\* the rows of sel: a session with --resume looks for pending units.
Load(m, sel) ==
  LET loaded == WithoutDuplicates(Reconciled, Converged)
      proof  == WithoutDuplicates(evidence, Converged)
      synced == IF m \in ResumeModes THEN Synchronized(loaded, proof, handoff) ELSE loaded
  IN  /\ result' = Converged
      /\ evidence' = proof
      /\ unit' = synced
      /\ recovering' = {c \in sel : m \in ResumeModes
                                    /\ \E s \in Surface : synced[s][c].st = "pending"}
      /\ mode' = m
      /\ selected' = sel
      /\ raised' = "none"
      /\ UNCHANGED <<outbox, cursor, handoff, admissions, terminal, next, cur,
                     pos, queue, deferred>>

\* run --resume: every row is selected.
StartResume == /\ pc = "off"
               /\ Load("resume", Companies)
               /\ pc' = "loaded"
               /\ UNCHANGED budget

\* run --retry-blocked-source, with or without --resume: rows whose stored
\* result has a blocked source.
StartRetry ==
  /\ Reprocess
  /\ pc = "off"
  /\ budget > 0
  /\ \E m \in {"retry", "resume_retry"} :
       \E rows \in SUBSET {c \in Companies : Converged[c] # 0} \ {{}} : Load(m, rows)
  /\ pc' = "loaded"
  /\ budget' = budget - 1

\* run without either: the ledger is loaded, then thrown away.
StartFresh ==
  /\ pc = "off"
  /\ budget > 0
  /\ Load("fresh", Companies)
  /\ pc' = "fresh"
  /\ budget' = budget - 1

\* _cleanup_append_only_logs deletes the outbox ...
ResetLogs ==
  /\ pc = "fresh"
  /\ outbox' = <<>>
  /\ pc' = "reset"
  /\ UNCHANGED <<cursor, handoff, unit, evidence, result, admissions, terminal,
                 next, cur, session, raised, budget>>

\* ... and run_started persists the emptied state.
ResetState ==
  /\ pc = "reset"
  /\ cursor' = 0
  /\ handoff' = [c \in Companies |-> NoHandoff]
  /\ unit' = [s \in Surface |-> [c \in Companies |-> NoUnit]]
  /\ evidence' = [s \in Surface |-> [c \in Companies |-> NoUnit]]
  /\ result' = [c \in Companies |-> 0]
  /\ admissions' = [c \in Companies |-> 0]
  /\ terminal' = FALSE
  /\ pc' = "read"
  /\ next' = "loop"
  /\ UNCHANGED <<outbox, cur, session, raised, budget>>

\* run_started of a session that continues the run.
RunStarted ==
  /\ pc = "loaded"
  /\ terminal' = FALSE
  /\ pc' = "read"
  /\ next' = "loop"
  /\ UNCHANGED <<outbox, cursor, handoff, unit, evidence, result, admissions,
                 cur, session, raised, budget>>

----------------------------------------------------------------------------
(* The outbox                                                              *)

Emit(kind) == outbox' = Append(outbox, [inn |-> cur.inn, kind |-> kind])

\* The thread appends a message and goes on to materialize_unread_stage_handoffs.
EmitThen(kind, to) ==
  /\ Emit(kind)
  /\ pc' = "read"
  /\ next' = to
  /\ UNCHANGED <<cursor, handoff, unit, evidence, result, admissions, terminal,
                 session, raised, budget>>

\* The process is gone, with everything it held in local variables.
Exit ==
  /\ pc' = "off"
  /\ next' = "loop"
  /\ cur' = NoRow
  /\ pos' = 1
  /\ selected' = {}
  /\ recovering' = {}
  /\ mode' = "none"
  /\ queue' = {}
  /\ deferred' = {}

\* The ledger code raises: run records a terminal status and re-raises.
Raise(what) ==
  /\ raised' = what
  /\ terminal' = TRUE
  /\ Exit
  /\ UNCHANGED <<outbox, cursor, handoff, unit, evidence, result, admissions, budget>>

\* The cursor points behind the end of the file; a message counts as one byte.
Truncated == outbox # <<>> /\ cursor > Len(outbox)

\* materialize_unread_stage_handoffs
ReadOutbox ==
  /\ pc = "read"
  /\ ~Truncated
  /\ cursor' = IF outbox = <<>> THEN cursor ELSE Len(outbox)
  /\ handoff' = [c \in Companies |-> Applied(c)]
  /\ pc' = next
  /\ UNCHANGED <<outbox, unit, evidence, result, admissions, terminal, next, cur,
                 session, raised, budget>>

\* read_unconsumed_stage_messages raises; the first call of a session is made
\* before the try block that records a terminal status.
ReadTruncated ==
  /\ pc = "read"
  /\ Truncated
  /\ raised' = "truncated"
  /\ terminal' = (terminal \/ next # "loop")
  /\ Exit
  /\ UNCHANGED <<outbox, cursor, handoff, unit, evidence, result, admissions, budget>>

----------------------------------------------------------------------------
(* The row loop                                                            *)

LedgerUnchanged == UNCHANGED <<cursor, handoff, unit, evidence, result,
                               admissions, terminal, raised, budget>>

RowOf(c) == [NoRow EXCEPT !.inn = c, !.recovery = c \in recovering,
                          !.existing = result[c] # 0]

\* Mutant of SkipRow: a resume skips every row that has no pending unit.
SkipUnlessPending ==
  /\ pc = "loop"
  /\ pos \in Companies
  /\ \/ pos \notin selected
     \/ mode = "resume" /\ pos \notin recovering
  /\ pos' = pos + 1
  /\ UNCHANGED <<outbox, pc, next, cur, selected, recovering, mode, queue, deferred>>
  /\ LedgerUnchanged

\* Rows outside the selection, and rows whose result is there already.
SkipRow ==
  /\ pc = "loop"
  /\ pos \in Companies
  /\ \/ pos \notin selected
     \/ mode = "resume" /\ pos \notin recovering /\ result[pos] # 0
  /\ pos' = pos + 1
  /\ UNCHANGED <<outbox, pc, next, cur, selected, recovering, mode, queue, deferred>>
  /\ LedgerUnchanged

\* A row with a pending unit is drained at once, any other is collected.
VisitRow ==
  /\ pc = "loop"
  /\ pos \in selected
  /\ ~(mode = "resume" /\ pos \notin recovering /\ result[pos] # 0)
  /\ Cardinality(queue) < QueueLimit
  /\ cur' = RowOf(pos)
  /\ pc' = IF pos \in recovering THEN "drain" ELSE "sources"
  /\ pos' = pos + 1
  /\ UNCHANGED <<outbox, next, selected, recovering, mode, queue, deferred>>
  /\ LedgerUnchanged

\* The sources of the row are collected.
CollectSources == /\ pc = "sources"
                  /\ EmitThen("source", "candidates")
                  /\ UNCHANGED cur

\* A required source failed for this row only: no unit is materialized.
DeferRow ==
  /\ pc = "candidates"
  /\ budget > 0
  /\ budget' = budget - 1
  /\ deferred' = deferred \cup {cur.inn}
  /\ cur' = NoRow
  /\ pc' = "loop"
  /\ UNCHANGED <<files, next, pos, selected, recovering, mode, queue, raised>>

\* Candidate sites, if any, are announced.
ChooseCandidates ==
  /\ pc = "candidates"
  /\ \/ EmitThen("candidate", "unit") /\ UNCHANGED cur
     \/ /\ pc' = "unit"
        /\ UNCHANGED <<outbox, next, cur, session>>
        /\ LedgerUnchanged

\* The aggregator unit is materialized and the row joins the deque; a retried
\* row may come with the payload of its old unit.
MaterializeUnit ==
  /\ pc = "unit"
  /\ admissions' = [admissions EXCEPT ![cur.inn] = @ + 1]
  /\ \E same \in BOOLEAN : UpsertUnit("agg", cur.inn, admissions[cur.inn] + 1, same)
  /\ queue' = queue \cup {cur.inn}
  /\ cur' = NoRow
  /\ pc' = "loop"
  /\ UNCHANGED <<outbox, cursor, handoff, result, terminal, next, pos, selected,
                 recovering, mode, deferred, raised, budget>>

\* The next pending row leaves the deque; any may be the first that is ready.
DrainPending ==
  /\ pc = "loop"
  /\ \E c \in queue : queue' = queue \ {c} /\ cur' = RowOf(c)
  /\ pc' = "drain"
  /\ UNCHANGED <<outbox, next, pos, selected, recovering, mode, deferred>>
  /\ LedgerUnchanged

RowsDone == pc = "loop" /\ pos \notin Companies /\ queue = {}

\* run_finished after the last row.
Finish ==
  /\ RowsDone
  /\ terminal' = TRUE
  /\ Exit
  /\ UNCHANGED <<outbox, cursor, handoff, unit, evidence, result, admissions,
                 raised, budget>>

----------------------------------------------------------------------------
(* Draining one row: _drain_pending_explicit_runtime_row                   *)

Inn == cur.inn

\* The main thread goes on, writing nothing to the session or the outbox.
Goto(to) == /\ pc' = to
            /\ UNCHANGED <<outbox, next, session, raised, budget>>

\* What consume_pending_stage_work_units leaves behind, and the pending
\* surfaces of the row it finds there.
SyncedUnits == Synchronized(unit, evidence, handoff)
PendingFor(c) == {s \in Surface : SyncedUnits[s][c].st = "pending"}

\* A deep-parse unit wins over the aggregator unit it came from.
LookUp ==
  /\ pc = "drain"
  /\ PendingFor(Inn) # {}
  /\ unit' = SyncedUnits
  /\ LET s == IF "deep" \in PendingFor(Inn) THEN "deep" ELSE "agg"
     IN  cur' = [cur EXCEPT !.surface = s,
                            !.gen = SyncedUnits[s][Inn].gen,
                            !.keep = 0,
                            !.hasDone = cur.recovery /\ handoff[Inn].done,
                            !.hasCompleted = cur.recovery /\ handoff[Inn].completed]
  /\ Goto("consume")
  /\ UNCHANGED <<cursor, handoff, evidence, result, admissions, terminal>>

\* "Missing pending explicit runtime work unit", "Missing pending deep_parse
\* queue work unit".
LookUpFails == /\ pc = "drain"
               /\ PendingFor(Inn) = {}
               /\ Raise("missing_unit")

\* Mutant of AnnounceCompletion: what was announced before is forgotten.
AnnounceAgain == "completed"
AnnounceCompletion == IF cur.hasCompleted THEN "sync" ELSE "completed"

\* The ledger keeps its files; the thread decides what it will store.
Decide(keep, to) == /\ cur' = [cur EXCEPT !.keep = keep]
                    /\ Goto(to)
                    /\ UNCHANGED <<cursor, handoff, unit, evidence, result,
                                   admissions, terminal>>

Ckpt == unit[cur.surface][Inn].ckpt

\* Whether one of the shortcuts of a resume applies.
KeepStored == cur.recovery /\ cur.existing /\ cur.hasDone
KeepCheckpoint ==
  /\ Ckpt # 0
  /\ \/ cur.recovery /\ ~cur.existing /\ cur.hasDone
     \/ ~cur.recovery /\ cur.surface = "deep"

\* The stored result is kept, only the acknowledgement is missing.
RestoreStored == pc = "consume" /\ KeepStored /\ Decide(0, AnnounceCompletion)

\* The result checkpointed in the unit is taken over.
RestoreCheckpoint ==
  /\ pc = "consume"
  /\ KeepCheckpoint
  /\ Decide(Ckpt, IF cur.hasDone THEN AnnounceCompletion ELSE "done")

\* gate_candidate_sites_before_deep_parse; decisions announced before a
\* resume are not announced again.
Gate ==
  /\ pc = "consume"
  /\ cur.surface = "agg"
  /\ ~KeepStored /\ ~KeepCheckpoint
  /\ \/ /\ ~(cur.recovery /\ handoff[Inn].gate)
        /\ EmitThen("gate", "gated")
        /\ UNCHANGED cur
     \/ Decide(0, "gated")

\* The gate leaves sites to parse: a deep-parse unit is materialized.
HandOver ==
  /\ pc = "gated"
  /\ \E same \in BOOLEAN : UpsertUnit("deep", Inn, cur.gen, same)
  /\ Goto("handover")
  /\ UNCHANGED <<cursor, handoff, result, admissions, terminal, cur>>

\* A result prefetched by the downstream pool is checkpointed in it.
CheckpointPrefetched ==
  /\ pc = "handover"
  /\ ~cur.recovery
  /\ MergeCheckpoint("deep", Inn, cur.gen)
  /\ Goto("prefetched")
  /\ UNCHANGED <<cursor, handoff, result, admissions, terminal, cur>>

\* Mutant of AckHandedOver: every unit of the company is acknowledged.
AckBoth ==
  /\ pc \in {"handover", "prefetched"}
  /\ CanAck("agg", Inn)
  /\ unit' = [s \in Surface |-> [unit[s] EXCEPT ![Inn] = Acked(@)]]
  /\ evidence' = [s \in Surface |-> [evidence[s] EXCEPT ![Inn] = Acked(@)]]
  /\ Goto("drain")
  /\ UNCHANGED <<cursor, handoff, result, admissions, terminal, cur>>

\* The aggregator unit is acknowledged and the next unit looked up.
AckHandedOver ==
  /\ pc \in {"handover", "prefetched"}
  /\ CanAck("agg", Inn)
  /\ Ack("agg", Inn)
  /\ Goto("drain")
  /\ UNCHANGED <<cursor, handoff, result, admissions, terminal, cur>>

\* Nothing to parse, or the deep parse is done: there is a result.
HaveResult ==
  /\ \/ pc = "gated"
     \/ pc = "consume" /\ cur.surface = "deep" /\ ~KeepStored /\ ~KeepCheckpoint
  /\ Decide(cur.gen, "checkpoint")

\* The result is checkpointed in the unit.
Checkpoint ==
  /\ pc = "checkpoint"
  /\ MergeCheckpoint(cur.surface, Inn, cur.keep)
  /\ Goto(IF cur.hasDone THEN AnnounceCompletion ELSE "done")
  /\ UNCHANGED <<cursor, handoff, result, admissions, terminal, cur>>

EmitDone == /\ pc = "done"
            /\ EmitThen("done", AnnounceCompletion)
            /\ UNCHANGED cur

EmitCompleted == /\ pc = "completed"
                 /\ EmitThen("completed", "sync")
                 /\ UNCHANGED cur

\* sync_stage_handoffs_to_work_units: ready handoffs are picked up, and get a
\* legacy unit unless there is an explicit one.
SyncPickups ==
  LET fresh == {c \in Companies : Ready(handoff[c]) /\ ~handoff[c].picked}
  IN  /\ pc = "sync"
      /\ handoff' = [c \in Companies |->
                       IF c \in fresh THEN [handoff[c] EXCEPT !.picked = TRUE] ELSE handoff[c]]
      /\ unit' = [SyncedUnits EXCEPT !["agg"] =
                    [c \in Companies |-> IF c \in fresh /\ ~Explicit(@[c])
                                         THEN LegacyUnit ELSE @[c]]]
      /\ Goto("ack")
      /\ UNCHANGED <<cursor, evidence, result, admissions, terminal, cur>>

AckUnit ==
  /\ pc = "ack"
  /\ CanAck(cur.surface, Inn)
  /\ Ack(cur.surface, Inn)
  /\ Goto("result")
  /\ UNCHANGED <<cursor, handoff, result, admissions, terminal, cur>>

\* upsert, or mark_existing_result_processed when the stored result stays.
StoreResult ==
  LET results == IF cur.keep = 0 THEN result ELSE [result EXCEPT ![Inn] = cur.keep]
  IN  /\ pc = "result"
      /\ result' = results
      /\ unit' = IF cur.keep = 0 THEN unit ELSE WithoutDuplicates(unit, results)
      /\ evidence' = IF cur.keep = 0 THEN evidence ELSE WithoutDuplicates(evidence, results)
      /\ cur' = NoRow
      /\ Goto("loop")
      /\ UNCHANGED <<cursor, handoff, admissions, terminal>>

----------------------------------------------------------------------------
(* Failures                                                                *)

\* The process is killed, between two writes of its files.
Crash ==
  /\ pc # "off"
  /\ pc = "reset" => CrashInReset
  /\ budget > 0
  /\ budget' = budget - 1
  /\ Exit
  /\ UNCHANGED <<files, raised>>

\* A controlled stop is seen before a row or before a unit is consumed, or an
\* exception is raised in the row loop: run_finished records it.
Interrupt ==
  /\ pc \notin {"off", "loaded", "fresh", "reset"}
  /\ ~(pc = "read" /\ next = "loop")
  /\ budget > 0
  /\ budget' = budget - 1
  /\ terminal' = TRUE
  /\ Exit
  /\ UNCHANGED <<outbox, cursor, handoff, unit, evidence, result, admissions, raised>>

----------------------------------------------------------------------------

Init ==
  /\ outbox = <<>>
  /\ cursor = 0
  /\ handoff = [c \in Companies |-> NoHandoff]
  /\ unit = [s \in Surface |-> [c \in Companies |-> NoUnit]]
  /\ evidence = [s \in Surface |-> [c \in Companies |-> NoUnit]]
  /\ result = [c \in Companies |-> 0]
  /\ admissions = [c \in Companies |-> 0]
  /\ terminal = FALSE
  /\ pc = "off"
  /\ next = "loop"
  /\ cur = NoRow
  /\ pos = 1
  /\ selected = {}
  /\ recovering = {}
  /\ mode = "none"
  /\ queue = {}
  /\ deferred = {}
  /\ raised = "none"
  /\ budget = MaxFailures

\* What the process does on its own once it was started.
Proceed ==
  \/ ResetLogs
  \/ ResetState
  \/ RunStarted
  \/ ReadOutbox
  \/ SkipRow
  \/ VisitRow
  \/ CollectSources
  \/ ChooseCandidates
  \/ MaterializeUnit
  \/ DrainPending
  \/ Finish
  \/ LookUp
  \/ RestoreStored
  \/ RestoreCheckpoint
  \/ Gate
  \/ HandOver
  \/ CheckpointPrefetched
  \/ AckHandedOver
  \/ HaveResult
  \/ Checkpoint
  \/ EmitDone
  \/ EmitCompleted
  \/ SyncPickups
  \/ AckUnit
  \/ StoreResult

\* Or else the ledger raises.
Step == Proceed \/ ReadTruncated \/ LookUpFails

Next ==
  \/ StartResume
  \/ StartRetry
  \/ StartFresh
  \/ Step
  \/ DeferRow
  \/ Crash
  \/ Interrupt

Spec == Init /\ [][Next]_vars

\* A run that is killed, interrupted, resumed and started afresh, but never asked
\* to do rows again: nothing raises then, and where something would, the process
\* is stuck instead.
KilledNext ==
  \/ StartResume
  \/ StartFresh
  \/ Proceed
  \/ DeferRow
  \/ Crash
  \/ Interrupt

KilledSpec == Init /\ [][KilledNext]_vars

\* A running process goes on, and a run that is not finished is resumed by
\* its operator; nothing obliges a failure, a retry or a fresh start.
FairSpec == KilledSpec /\ WF_vars(Proceed) /\ WF_vars(StartResume)

----------------------------------------------------------------------------
(* Properties                                                              *)

UnitType == [st : {"none", "legacy", "pending", "acked"}, gen : Nat, ckpt : Nat]
RowType == [inn : {0} \cup Companies, recovery : BOOLEAN, existing : BOOLEAN,
            surface : Surface, gen : Nat, hasDone : BOOLEAN,
            hasCompleted : BOOLEAN, keep : Nat]

\* Type invariant of the ledger and of the thread that works on it.
TypeOK ==
  /\ outbox \in Seq([inn : Companies, kind : Kind])
  /\ cursor \in Nat
  /\ handoff \in [Companies -> [last : Kind \cup {"none"}, gate : BOOLEAN, done : BOOLEAN,
                                completed : BOOLEAN, picked : BOOLEAN]]
  /\ unit \in [Surface -> [Companies -> UnitType]]
  /\ evidence \in [Surface -> [Companies -> UnitType]]
  /\ result \in [Companies -> Nat]
  /\ admissions \in [Companies -> Nat]
  /\ terminal \in BOOLEAN
  /\ pc \in {"off", "loaded", "fresh", "reset", "read", "loop", "sources",
             "candidates", "unit", "drain", "consume", "gated", "handover",
             "prefetched", "checkpoint", "done", "completed", "sync", "ack",
             "result"}
  /\ next \in {"loop", "candidates", "unit", "gated", "completed", "sync"}
  /\ cur \in RowType
  /\ pos \in 1..(NCompanies + 1)
  /\ selected \in SUBSET Companies
  /\ recovering \in SUBSET Companies
  /\ mode \in {"none", "resume", "retry", "resume_retry", "fresh"}
  /\ queue \in SUBSET Companies
  /\ deferred \in SUBSET Companies
  /\ raised \in {"none", "missing_unit", "truncated"}
  /\ budget \in 0..MaxFailures

\* The execution evidence, which overrides the work units whenever a pending
\* unit is looked up, never says anything else about an explicit unit than
\* the units do: no acknowledgement or checkpoint is undone by a lookup.
EvidenceMirrorsUnits == evidence = unit

\* An admitted company is never lost: at every point where the process can be
\* killed, its unit is pending, or its result is stored, or its result is in
\* the checkpoint of an acknowledged unit and will be promoted.
AdmittedIsRecoverable ==
  \A c \in Companies : Explicit(unit["agg"][c]) =>
    \/ Pending(c) # {}
    \/ result[c] # 0
    \/ \E s \in Surface : RestoreSafe(s, c)

\* However often a run is killed and resumed, the gate decision, the end of the
\* deep parse and the completion of a company are announced at most once.
AnnouncedOnce ==
  \A i, j \in 1..Len(outbox) :
    outbox[i] = outbox[j] /\ outbox[i].kind \in {"gate", "done", "completed"} => i = j

\* Nothing the drain of a row relies on is missing: a unit is pending whenever
\* one is looked up, and not acknowledged yet whenever it is acknowledged, so
\* neither of the drain's errors is ever raised.
UnitsAreThere ==
  /\ pc = "drain" => PendingFor(Inn) # {}
  /\ pc \in {"handover", "prefetched"} => CanAck("agg", Inn)
  /\ pc = "ack" => CanAck(cur.surface, Inn)

\* The cursor never points behind the end of the outbox, so messages can
\* always be read.
CursorInOutbox == cursor <= Len(outbox) \/ outbox = <<>>

\* A company that is settled (no pending unit, not being drained) was
\* completed from the sources of its last admission.
ResultIsCurrent ==
  \A c \in Companies :
    Explicit(unit["agg"][c]) /\ Pending(c) = {} /\ c # cur.inn /\ c \notin queue
      => Converged[c] = unit["agg"][c].gen

\* A resume that keeps the stored result of a company and only acknowledges
\* its unit keeps the result that was built from that unit.
StoredResultIsOfUnit ==
  pc = "consume" /\ KeepStored => result[Inn] = cur.gen

\* A settled company has announced its completion, in the right order, and the
\* handoff knows.
SettledIsAnnounced ==
  \A c \in Companies :
    Explicit(unit["agg"][c]) /\ Pending(c) = {} /\ c # cur.inn
      => /\ handoff[c].done /\ handoff[c].completed /\ Ready(handoff[c])

\* When a session over all rows reaches its end, every row it did not defer
\* has a result, and a unit still pending is an aggregator unit whose deep
\* parse was completed after a crash between the two.
CompleteAtTheEnd ==
  RowsDone /\ selected = Companies =>
    \A c \in Companies \ deferred :
      /\ result[c] # 0
      /\ Pending(c) # {} => Pending(c) = {"agg"} /\ unit["deep"][c].st = "acked"

\* Both: the announcements of a company are made exactly once.
AnnouncedExactlyOnce == AnnouncedOnce /\ SettledIsAnnounced

\* Both: no session is stopped by a missing unit, and one that reaches its end
\* leaves nothing behind.
SessionsComplete == UnitsAreThere /\ CompleteAtTheEnd

\* The ledger as its reader sees it: what CompanyLifecycle promises of a company.
Stage == [c \in Companies |->
            IF ~Explicit(unit["agg"][c]) THEN "waiting"
            ELSE IF Pending(c) # {} THEN "open" ELSE "settled"]
Stored == {c \in Companies :
             \/ result[c] # 0
             \/ \E s \in Surface : unit[s][c].st = "acked" /\ unit[s][c].ckpt # 0}

Lifecycle == INSTANCE CompanyLifecycle WITH stage <- Stage, stored <- Stored

\* The ledger implements the company lifecycle: through every crash and resume
\* no company is settled without a stored result, reopened or forgotten.
ImplementsLifecycle == Lifecycle!Spec

\* A run that is resumed after each of finitely many failures ends up with a
\* result for every company.
EventuallyAllStored == <>[](\A c \in Companies : result[c] # 0)
=============================================================================
