--------------------------- MODULE RequiredSources ---------------------------
(* Required sources that fail for a row (src/app/runtime/
   required_source_deferred.py and the source loop of src/
   run_company_enrichment_pipeline.py): a transient failure defers the row and
   the run goes on, a later run with --retry-deferred-required-sources searches
   just the deferred pairs, and any other failure stops the run.

   Each search is a lookup of SourceLookup, and its status decides.  The sources
   are live or offline, so that should_disable_source_for_run never disables
   one.  The run at this commit searches the required sources; bicotender, which
   no row of it searches, may be added here for the sake of its search: it is
   not required, so the run goes on whatever it answers.                    *)
EXTENDS SourceLookup, Sequences, FiniteSets

CONSTANTS
  NRows,
  Orders,             \* the source_modes a deployment may have, in order
  MaxRuns

Rows == 1..NRows
Cap == CapFor(NRows)

ASSUME RequiredSourcesAssumption ==
  /\ NRows \in Nat /\ MaxRuns \in Nat
  /\ \A order \in Orders :
       /\ order \in Seq(Required \cup {"bicotender"})
       /\ Len(order) = Cardinality({order[i] : i \in DOMAIN order})

VARIABLES
  sourceOrder,        \* source_modes of this deployment
  \* Kept in runtime_state.json.
  record,             \* per row and source: deferred_required_sources.records
  health,             \* per source: source_health
  result,             \* per row: the sources of its completed result
  unit,               \* per row: its pending work unit
  \* The process.
  run,
  \* What happened, for the properties.
  burst               \* rows newly deferred by a source since it last answered

durable == <<sourceOrder, record, health, result, unit>>
rows == <<durable, run, burst>>
vars == <<rows, lookup>>

Sources == {sourceOrder[i] : i \in DOMAIN sourceOrder}

NoUnit == [pending |-> FALSE, has |-> {}]
Off == [mode |-> "off", pc |-> "off", row |-> 1, source |-> 1, has |-> {},
        queue |-> {}, targets |-> [r \in Rows |-> {}], resolving |-> {},
        status |-> "none", count |-> 0]

Init ==
  /\ LookupInit
  /\ sourceOrder \in Orders
  /\ record = [r \in Rows |-> [s \in Sources |-> "none"]]
  /\ health = [s \in Sources |-> [known |-> FALSE, consecutive |-> 0, proved |-> FALSE]]
  /\ result = [r \in Rows |-> {}]
  /\ unit = [r \in Rows |-> NoUnit]
  /\ run = Off
  /\ burst = [s \in Sources |-> 0]

Modes == {"defer", "plain", "resume", "resume_defer", "retry"}
Statuses == {"none", "failed", "failed_required_source", "completed",
             "completed_with_deferred_required_sources"}

TypeOK ==
  /\ LookupTypeOK
  /\ record \in [Rows -> [Sources -> {"none", "unresolved", "resolved"}]]
  /\ health \in [Sources -> [known : BOOLEAN, consecutive : 0..Cap, proved : BOOLEAN]]
  /\ result \in [Rows -> SUBSET Sources]
  /\ unit \in [Rows -> [pending : BOOLEAN, has : SUBSET Sources]]
  /\ run.mode \in Modes \cup {"off"} /\ run.status \in Statuses
  /\ run.row \in 1..(NRows + 1) /\ run.source \in 1..(Len(sourceOrder) + 1)
  /\ run.has \subseteq Sources /\ run.queue \subseteq Rows

Deferring == run.mode \in {"defer", "resume_defer", "retry"}
Resuming == run.mode \in {"resume", "resume_defer"}
Unresolved == {p \in Rows \X Sources : record[p[1]][p[2]] = "unresolved"}
Source == sourceOrder[run.source]
Searching == run.pc = "search" /\ run.source <= Len(sourceOrder)
Answered == run.pc = "search" /\ look.pc = "done"
Accepted == ~FailFast(look.src, look.status)

-----------------------------------------------------------------------------
(* A run starts and goes through its rows. *)

\* _deferred_required_source_retry_plan: the unresolved pairs, by row.
RetryPlan == [r \in Rows |-> {s \in Sources : record[r][s] = "unresolved"}]

\* The first run is a fresh one, the others continue it.
Start(mode) ==
  /\ run.pc \in {"off", "ended"} /\ run.count < MaxRuns
  /\ (run.count = 0) <=> (mode \in {"defer", "plain"})
  /\ run' = [Off EXCEPT !.mode = mode, !.pc = "guard", !.count = run.count + 1,
                        !.targets = IF mode = "retry" THEN RetryPlan ELSE @]
  /\ LookupReset
  /\ UNCHANGED <<file, alive, durable, burst>>

\* should_skip_on_resume: every source has a status in the stored result.
SkipReady(r) == Resuming /\ result[r] = Sources
NotSelected(r) == run.mode = "retry" /\ run.targets[r] = {}

\* _source_search_rows_for_run: a retry searches no row ahead.
SearchRows == IF run.mode = "retry" THEN {}
              ELSE {r \in Rows : ~(Resuming /\ (unit[r].pending \/ SkipReady(r)))}

\* _checko_proxy_provider_startup_stop: no proxy is usable, or the provider says
\* that there is none left.
CannotStart(usable, provider) == usable = 0 \/ provider = "empty_or_expired"

\* Before the first row; what an earlier run left pending waits as well.
Guard(usable, provider) ==
  /\ run.pc = "guard"
  /\ run' = IF "checko" \in Sources /\ SearchRows # {} /\ CannotStart(usable, provider)
              THEN [run EXCEPT !.pc = "ended", !.status = "failed_required_source"]
            ELSE [run EXCEPT !.pc = "row"]
  /\ UNCHANGED <<durable, burst, lookup>>

\* The result of the row so far is where its new one starts from.
Existing(r) == result[r]

BeginRow ==
  /\ run.pc = "row" /\ run.row <= NRows
  /\ run' =
       IF Resuming /\ unit[run.row].pending
         THEN [run EXCEPT !.queue = @ \cup {run.row}, !.row = @ + 1]
       ELSE IF SkipReady(run.row) \/ NotSelected(run.row)
         THEN [run EXCEPT !.row = @ + 1]
       ELSE [run EXCEPT !.pc = "search", !.source = 1, !.has = Existing(run.row)]
  /\ UNCHANGED <<durable, burst, lookup>>

\* A retry searches the sources that deferred the row, no others.
NotRetried(s) == run.mode = "retry" /\ s \notin run.targets[run.row]

PassOver ==
  /\ Searching /\ NotRetried(Source) /\ look.pc = "idle"
  /\ run' = [run EXCEPT !.source = @ + 1]
  /\ UNCHANGED <<durable, burst, lookup>>

Search ==
  /\ Searching /\ ~NotRetried(Source)
  /\ BeginLookup(Source)
  /\ UNCHANGED rows

\* mark_required_source_success: nothing to say of a source without records.
AfterSuccess(s) ==
  LET open == \E r \in Rows : record[r][s] = "unresolved" IN
  IF ~open /\ ~health[s].known THEN health[s]
  ELSE [known |-> TRUE, consecutive |-> 0, proved |-> health[s].proved \/ open]

\* _handle_required_source_runtime_outcome, in its three outcomes.
SearchOk ==
  /\ Answered /\ Accepted
  /\ health' = IF Deferring /\ Source \in Required
                 THEN [health EXCEPT ![Source] = AfterSuccess(Source)] ELSE health
  /\ run' = [run EXCEPT !.source = @ + 1, !.has = @ \cup {Source}]
  /\ burst' = [burst EXCEPT ![Source] = 0]
  /\ look' = NoLook
  /\ UNCHANGED <<sourceOrder, record, result, unit, file, alive, auth>>

\* classify_required_source_outcome: a transient failure, under the cap unless
\* the pair is retried.
MayDefer(s) ==
  /\ Deferring /\ Deferable(s, look.status, look.detail)
  /\ run.mode = "retry" \/ health[s].consecutive < Cap

\* record_required_source_deferred: a pair that has a record, resolved or not,
\* does not count again.
AfterDeferral(s) ==
  [health[s] EXCEPT !.known = TRUE,
                    !.consecutive = @ + IF record[run.row][s] = "none" THEN 1 ELSE 0]

\* The row is left: what its other sources answered is not kept.
SearchDefers ==
  /\ Answered /\ ~Accepted /\ MayDefer(Source)
  /\ record' = [record EXCEPT ![run.row][Source] = "unresolved"]
  /\ health' = [health EXCEPT ![Source] = AfterDeferral(Source)]
  /\ run' = [run EXCEPT !.pc = "row", !.row = @ + 1]
  /\ burst' = [burst EXCEPT ![Source] = @ + IF record[run.row][Source] = "none" THEN 1 ELSE 0]
  /\ look' = NoLook
  /\ UNCHANGED <<sourceOrder, result, unit, file, alive, auth>>

\* _raise_if_required_source_red_flag: the run ends, with the rows it has not
\* drained pending.
SearchStopsRun ==
  /\ Answered /\ ~Accepted /\ ~MayDefer(Source)
  /\ run' = [run EXCEPT !.pc = "ended", !.status = "failed_required_source"]
  /\ UNCHANGED <<durable, burst, lookup>>

\* An exception of search() ends the run like any other.
SearchRaises ==
  /\ run.pc = "search" /\ look.pc = "raised"
  /\ run' = [run EXCEPT !.pc = "ended", !.status = "failed"]
  /\ UNCHANGED <<durable, burst, lookup>>

\* The retried pairs are marked resolved as soon as the row is in the deque.
AdmitAndResolve ==
  /\ run.pc = "search" /\ run.source > Len(sourceOrder)
  /\ unit' = [unit EXCEPT ![run.row] = [pending |-> TRUE, has |-> run.has]]
  /\ record' = [record EXCEPT ![run.row] =
                  [s \in Sources |-> IF s \in run.targets[run.row] THEN "resolved" ELSE @[s]]]
  /\ run' = [run EXCEPT !.pc = "row", !.queue = @ \cup {run.row}, !.row = @ + 1]
  /\ UNCHANGED <<sourceOrder, health, result, burst, lookup>>

\* materialize_stage_work_unit, and the row waits in the deque.
AdmitRow ==
  /\ run.pc = "search" /\ run.source > Len(sourceOrder)
  /\ unit' = [unit EXCEPT ![run.row] = [pending |-> TRUE, has |-> run.has]]
  /\ run' = [run EXCEPT !.pc = "row", !.queue = @ \cup {run.row}, !.row = @ + 1]
  /\ UNCHANGED <<sourceOrder, record, health, result, burst, lookup>>

\* A row of the deque is drained, in between or at the end: its result is
\* stored, and then the pairs it was retried for are marked resolved, one write
\* of the state file each.
Store(r) ==
  /\ run.pc = "row" /\ r \in run.queue
  /\ result' = [result EXCEPT ![r] = unit[r].has]
  /\ unit' = [unit EXCEPT ![r] = NoUnit]
  /\ run' = [run EXCEPT !.pc = "resolve", !.queue = @ \ {r},
                        !.resolving = {<<r, s>> : s \in run.targets[r] \cap unit[r].has}]
  /\ UNCHANGED <<sourceOrder, record, health, burst, lookup>>

ResolveTarget ==
  /\ run.pc = "resolve" /\ run.resolving # {}
  /\ \E p \in run.resolving :
       /\ record' = [record EXCEPT ![p[1]][p[2]] = IF @ = "unresolved" THEN "resolved" ELSE @]
       /\ run' = [run EXCEPT !.resolving = @ \ {p}]
  /\ UNCHANGED <<sourceOrder, health, result, unit, burst, lookup>>

DrainNext ==
  /\ run.pc = "resolve" /\ run.resolving = {}
  /\ run' = [run EXCEPT !.pc = "row"]
  /\ UNCHANGED <<durable, burst, lookup>>

\* _deferred_required_source_final_stop.
NeverProved == {s \in Sources : /\ \E r \in Rows : record[r][s] = "unresolved"
                                /\ ~health[s].proved}

FinalStatus ==
  IF run.mode \in {"defer", "resume_defer"} /\ NeverProved # {} THEN "failed_required_source"
  ELSE IF Deferring /\ Unresolved # {} THEN "completed_with_deferred_required_sources"
  ELSE "completed"

Finish ==
  /\ run.pc = "row" /\ run.row > NRows /\ run.queue = {}
  /\ run' = [run EXCEPT !.pc = "ended", !.status = FinalStatus]
  /\ UNCHANGED <<durable, burst, lookup>>

\* The process is killed: the deque and the targets of the retry go with it.
Kill ==
  /\ run.pc \notin {"off", "ended"}
  /\ run' = [Off EXCEPT !.count = run.count]
  /\ LookupReset
  /\ UNCHANGED <<file, alive, durable, burst>>

Next ==
  \/ \E mode \in Modes : Start(mode)
  \/ \E usable \in 0..1, provider \in {"healthy", "empty_or_expired", "unknown"} :
       Guard(usable, provider)
  \/ BeginRow \/ PassOver \/ Search
  \/ (run.pc = "search" /\ LookupStep /\ UNCHANGED rows)
  \/ (SessionEnds /\ UNCHANGED rows)
  \/ SearchOk \/ SearchDefers \/ SearchStopsRun \/ SearchRaises \/ AdmitRow
  \/ \E r \in Rows : Store(r)
  \/ ResolveTarget \/ DrainNext \/ Finish \/ Kill

Spec == Init /\ [][Next]_vars

-----------------------------------------------------------------------------
(* Properties. *)

EndedWell == run.pc = "ended" /\ run.status \in {"completed", "completed_with_deferred_required_sources"}

\* A pair is resolved only once the result of the row is stored with that
\* source in it, wherever the process is killed between the two writes.
ResolvedIsStored ==
  \A r \in Rows, s \in Sources : record[r][s] = "resolved" => s \in result[r]

\* No row slips away: when a run over all rows ends well, each row has a result
\* with every source in it or an unresolved record that a retry will take up.
NoRowSlips ==
  EndedWell /\ run.mode # "retry" =>
    \A r \in Rows : result[r] = Sources \/ \E s \in Sources : record[r][s] = "unresolved"

\* A source never defers more than Cap rows it had not deferred before without
\* answering in between, over any number of runs and kills: a source that is
\* down stops the run.
BurstIsBounded == \A s \in Sources : burst[s] <= Cap

\* What a deferral promises: nothing is resolved too early, no row is forgotten,
\* and a source that is down is not deferred for ever.
DeferralIsSafe == ResolvedIsStored /\ NoRowSlips /\ BurstIsBounded
=============================================================================
