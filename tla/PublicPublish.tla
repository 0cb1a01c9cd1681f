---------------------------- MODULE PublicPublish ----------------------------
(***************************************************************************)
(* The public outputs of a run and how they are published                  *)
(* (ProgressStore in app/runtime/progress.py).                             *)
(*                                                                         *)
(* runtime_state.json is the truth; the files in the root of the output    *)
(* directory are rendered from it, generation by generation.  A generation *)
(* is written to a staging directory, copied to a private snapshot, moved  *)
(* file by file over the root, and then recorded as committed in           *)
(* public_publish_state.json.  A restart that finds a generation begun and *)
(* not committed moves the snapshot of the committed one over the root,    *)
(* and every restart renders a new generation from the state it loaded.    *)
(*                                                                         *)
(* The workers of the run write summary.json too, each time an event of    *)
(* theirs changes what is counted: without a lock, and with what they read *)
(* some steps earlier (_materialize_runtime_metadata).                     *)
(*                                                                         *)
(* The process can be killed between any two file operations, and a copy   *)
(* or a move can raise.  runtime_state.json is taken to be the state in    *)
(* memory: StateWriters has the saves of the workers that can leave it     *)
(* behind.  Companies complete in the order of their rows, so the results  *)
(* a state holds are a number.  What a file says is the state it was       *)
(* rendered from; a company report only says which company it is about.    *)
(* Files that are always moved one after the other in the same way are one *)
(* file here: results stands for results.json and leads.json, report for   *)
(* availability_summary.json and the Markdown indexes, final for           *)
(* final_results.csv and final_results.xlsx.                               *)
(***************************************************************************)
EXTENDS Naturals, FiniteSets

CONSTANTS NRows,      \* selected rows, one company each
          Gens,       \* generation ids; one may be used again once forgotten
          NoGen,      \* the empty id
          Callers,    \* calls of workers that can be under way at once
          MaxFailures \* bound on crashes, errors, early stops, fresh starts

ASSUME PublishAssumption ==
  /\ NRows \in Nat \ {0}
  /\ NoGen \notin Gens
  /\ MaxFailures \in Nat

Rows == 1..NRows

\* The part of runtime_state.json the outputs depend on.
States == [n : 0..NRows, finished : BOOLEAN]

\* Terminal, or every selected row completed.
FullSurface(s) == s.finished \/ s.n = NRows

Missing == [n |-> NRows + 1]

\* The order in which the root files are replaced; the final exports are the
\* last, and only part of a full surface.
Order == <<"results", "summary", "report", "final">>
Files == {Order[i] : i \in 1..4}
Last(full) == IF full THEN 4 ELSE 3

Dirs == [file : [Files -> States \cup {Missing}], reports : SUBSET Rows]
EmptyDir == [file |-> [f \in Files |-> Missing], reports |-> {}]
NoDir == [absent |-> TRUE]

\* A call of a worker: what the summary it is about to write says, and where
\* it goes, to the staging directory of a generation or (NoGen) to the root.
CallPlaces == {"none", "built", "aimed", "written"}
Calls == [place : CallPlaces, says : States, to : Gens \cup {NoGen}]
NoCall == [place |-> "none", says |-> [n |-> 0, finished |-> FALSE], to |-> NoGen]

VARIABLES
  \* files
  state,     \* runtime_state.json
  active,    \* active_generation_id of public_publish_state.json
  committed, \* committed_generation_id of the same file
  staging,   \* the staging directory
  snapshots,      \* the snapshot directories
  root,      \* the outputs in the root
  \* the process
  phase,
  why,       \* what a publication is part of: load, row or finish
  changed,   \* the row whose report an incremental publication writes
  from,      \* the snapshot being applied, NoGen for the staging directory
  full,      \* the surface being applied
  at,        \* the next root file to replace
  expected,  \* the reports the applied directory had
  call,      \* the calls of the workers
  \* history
  made,      \* what was rendered for each generation
  replays,   \* restores from the snapshot since it was committed, up to 2
  late,      \* a worker wrote an older summary since the main thread wrote one
  failures

files == <<state, active, committed, staging, snapshots, root>>
process == <<phase, why, changed, from, full, at, expected>>
publishVars == <<files, process, call, made, replays, late, failures>>

------------------------------------------------------------------------------
(* The process. *)

Stopped == phase \in {"off", "ended"}

Forget == /\ changed' = {}
          /\ from' = NoGen
          /\ full' = FALSE
          /\ at' = 1
          /\ expected' = {}

KeepPlan == UNCHANGED <<why, changed, from, full, at, expected>>

\* A run has just been started for the first time.
PublishInit ==
  /\ state = [n |-> 0, finished |-> FALSE]
  /\ active = NoGen /\ committed = NoGen
  /\ staging = NoDir
  /\ snapshots = [g \in Gens |-> NoDir]
  /\ root = [EmptyDir EXCEPT !.file["summary"] = [n |-> 0, finished |-> FALSE]]
  /\ phase = "idle" /\ why = "row"
  /\ call = [c \in Callers |-> NoCall]
  /\ changed = {} /\ from = NoGen /\ full = FALSE /\ at = 1 /\ expected = {}
  /\ made = [g \in Gens |-> EmptyDir]
  /\ replays = 0 /\ late = FALSE /\ failures = 0

MayFail == /\ failures < MaxFailures
           /\ failures' = failures + 1

------------------------------------------------------------------------------
(* Publishing a generation. *)

\* The generation the code would render: every report on a full surface, the
\* report of the changed company otherwise.
Rendered(s, isFull, rows) ==
  [file    |-> [f \in Files |-> IF f = "final" /\ ~isFull THEN Missing ELSE s],
   reports |-> IF isFull THEN 1..s.n ELSE rows]

\* Ids are random, so never one that something still refers to; there have to
\* be enough of them.
FreshGens == {g \in Gens \ {active, committed} :
                /\ snapshots[g] = NoDir
                /\ \A c \in Callers : call[c].to # g}
FreshGen == CHOOSE g \in FreshGens : TRUE

\* _prepare_public_publish_staging_dir and the rendering into it.  One step:
\* whoever finds the generation begun removes what was staged unread.
Stage ==
  /\ phase = "stage"
  /\ FreshGens # {}
  /\ active' = FreshGen
  /\ made' = [made EXCEPT ![FreshGen] =
                Rendered(state, why = "finish" \/ FullSurface(state), changed)]
  /\ staging' = made'[FreshGen]
  /\ full' = (why = "finish" \/ FullSurface(state))
  /\ from' = NoGen
  /\ phase' = "copy"
  /\ late' = FALSE
  /\ UNCHANGED <<state, committed, snapshots, root, why, changed, at, expected, call, replays, failures>>

Snapshot == IF snapshots[active] = NoDir THEN EmptyDir ELSE snapshots[active]

\* shutil.copytree, file by file.  The order of a directory is that of the
\* file system; nothing reads a snapshot before it is whole, so one will do.
NotCopied == {i \in 1..4 : /\ staging.file[Order[i]] # Missing
                           /\ Snapshot.file[Order[i]] = Missing}

CopyFile(i) ==
  /\ phase = "copy"
  /\ i \in NotCopied
  /\ \A j \in NotCopied : i <= j
  /\ snapshots' = [snapshots EXCEPT ![active] =
                [Snapshot EXCEPT !.file[Order[i]] = staging.file[Order[i]]]]
  /\ UNCHANGED <<state, active, committed, staging, root, process, call, made, replays, late, failures>>

CopyReport(c) ==
  /\ phase = "copy"
  /\ NotCopied = {}
  /\ c \in staging.reports \ Snapshot.reports
  /\ \A d \in staging.reports \ Snapshot.reports : c <= d
  /\ snapshots' = [snapshots EXCEPT ![active] = [Snapshot EXCEPT !.reports = @ \cup {c}]]
  /\ UNCHANGED <<state, active, committed, staging, root, process, call, made, replays, late, failures>>

\* Without a full surface the final exports are the first to go.
WithoutFinal(isFull) ==
  IF isFull THEN root ELSE [root EXCEPT !.file["final"] = Missing]

\* Mutant of CopyDone: the copy ends with its first file.
CopyFirst == Snapshot.file["results"] = staging.file["results"]

CopyDone == NotCopied = {} /\ staging.reports \subseteq Snapshot.reports

Copied ==
  /\ phase = "copy"
  /\ CopyDone
  /\ root' = WithoutFinal(full)
  /\ at' = 1
  /\ phase' = "apply"
  /\ UNCHANGED <<state, active, committed, staging, snapshots, why, changed, from, full, expected,
                 call, made, replays, late, failures>>

Source == IF from = NoGen THEN staging ELSE snapshots[from]

SourceBecomes(d) ==
  IF from = NoGen
    THEN staging' = d /\ UNCHANGED snapshots
    ELSE snapshots' = [snapshots EXCEPT ![from] = d] /\ UNCHANGED staging

\* _commit_staged_public_output: a file is moved out of the directory, and a
\* file the directory lacks is removed from the root.
ApplyFile ==
  /\ phase = "apply"
  /\ at <= Last(full)
  /\ LET f == Order[at]
     IN /\ root' = [root EXCEPT !.file[f] = Source.file[f]]
        /\ SourceBecomes([Source EXCEPT !.file[f] = Missing])
  /\ at' = at + 1
  /\ UNCHANGED <<state, active, committed, phase, why, changed, from, full, expected,
                 call, made, replays, late, failures>>

FilesApplied ==
  /\ phase = "apply"
  /\ at > Last(full)
  /\ expected' = Source.reports
  /\ phase' = "reports"
  /\ UNCHANGED <<files, why, changed, from, full, at, call, made, replays, late, failures>>

\* _commit_staged_company_reports, in the order of the names.
ApplyReport ==
  /\ phase = "reports"
  /\ \E c \in Source.reports :
       /\ \A d \in Source.reports : c <= d
       /\ root' = [root EXCEPT !.reports = @ \cup {c}]
       /\ SourceBecomes([Source EXCEPT !.reports = @ \ {c}])
  /\ UNCHANGED <<state, active, committed, process, call, made, replays, late, failures>>

\* Only a full surface removes the reports it does not have.
PruneReport(c) ==
  /\ phase = "reports"
  /\ Source.reports = {}
  /\ full
  /\ c \in root.reports \ expected
  /\ root' = [root EXCEPT !.reports = @ \ {c}]
  /\ UNCHANGED <<state, active, committed, staging, snapshots, process, call, made, replays, late, failures>>

Applied ==
  /\ phase = "reports"
  /\ Source.reports = {}
  /\ full => root.reports \subseteq expected
  /\ root' = WithoutFinal(full)
  /\ phase' = IF from = NoGen THEN "commit" ELSE "rematerialize"
  /\ UNCHANGED <<state, active, committed, staging, snapshots, call, made, replays, late, failures>>
  /\ KeepPlan

Commit ==
  /\ phase = "commit"
  /\ committed' = active
  /\ replays' = 0
  /\ phase' = "sweep"
  /\ UNCHANGED <<state, active, staging, snapshots, root, call, made, late, failures>>
  /\ KeepPlan

After == CASE why = "load" -> "loaded"
           [] why = "row" -> "idle"
           [] why = "finish" -> "ended"

\* Stale snapshots and the staging directory go last.
Sweep ==
  /\ phase = "sweep"
  /\ snapshots' = [g \in Gens |-> IF g = committed THEN snapshots[g] ELSE NoDir]
  /\ made' = [g \in Gens |-> IF g = committed THEN made[g] ELSE EmptyDir]
  /\ staging' = NoDir
  /\ phase' = After
  /\ Forget
  /\ UNCHANGED <<state, active, committed, root, why, call, replays, late, failures>>

------------------------------------------------------------------------------
(* Starting a process: ProgressStore.__init__. *)

Incomplete == active # NoGen /\ active # committed

HasSnapshot(g) == g # NoGen /\ snapshots[g] # NoDir

\* _restore_root_public_outputs_from_committed_generation begins.  The surface
\* is that of the state just loaded, not of the generation.
LoadAndRestore ==
  /\ Stopped
  /\ Incomplete
  /\ HasSnapshot(committed)
  /\ staging' = NoDir
  /\ from' = committed
  /\ full' = FullSurface(state)
  /\ root' = WithoutFinal(full')
  /\ at' = 1
  /\ replays' = IF replays = 2 THEN 2 ELSE replays + 1
  /\ phase' = "apply" /\ why' = "load"
  /\ UNCHANGED <<state, active, committed, snapshots, changed, expected, call, made, late, failures>>

\* Mutant of AfterLoad: only what was left incomplete is rendered again.
TrustsRoot == IF Incomplete THEN "rematerialize" ELSE "loaded"

AfterLoad == "rematerialize"

LoadComplete ==
  /\ Stopped
  /\ ~(Incomplete /\ HasSnapshot(committed))
  /\ staging' = IF Incomplete THEN NoDir ELSE staging
  /\ phase' = AfterLoad /\ why' = "load"
  /\ UNCHANGED <<state, active, committed, snapshots, root, changed, from, full, at, expected,
                 call, made, replays, late, failures>>

\* _restore_rematerialized_artifacts_from_runtime_state: no changed company, so
\* an incremental surface stages no company report.
Rematerialize ==
  /\ phase = "rematerialize"
  /\ state.n > 0 \/ FullSurface(state)
  /\ phase' = "stage"
  /\ Forget
  /\ UNCHANGED <<files, why, call, made, replays, late, failures>>

\* Mutant of Cleaned: the reports stay.
CleanedFiles == [root EXCEPT !.file = [f \in Files |-> IF f = "summary" THEN @[f] ELSE Missing]]

\* _cleanup_company_outputs; the summary stays.
Cleaned == [EmptyDir EXCEPT !.file["summary"] = root.file["summary"]]

CleanOutputs ==
  /\ root' = Cleaned
  /\ staging' = NoDir
  /\ phase' = "forget"
  /\ Forget

NothingToShow ==
  /\ phase = "rematerialize"
  /\ state.n = 0 /\ ~FullSurface(state)
  /\ CleanOutputs
  /\ UNCHANGED <<state, active, committed, snapshots, why, call, made, replays, late, failures>>

\* _reset_public_publish_state: first the ids, then the snapshots.
ForgetGenerations ==
  /\ phase = "forget"
  /\ active' = NoGen /\ committed' = NoGen
  /\ replays' = 0
  /\ phase' = "clear"
  /\ UNCHANGED <<state, staging, snapshots, root, call, made, late, failures>>
  /\ KeepPlan

\* Then a load shows the summary of what it loaded, and a fresh run starts
\* from nothing.
ClearSnapshots ==
  /\ phase = "clear"
  /\ snapshots' = [g \in Gens |-> NoDir]
  /\ made' = [g \in Gens |-> EmptyDir]
  /\ phase' = IF why = "load" THEN "show" ELSE "begin"
  /\ UNCHANGED <<state, active, committed, staging, root, call, replays, late, failures>>
  /\ KeepPlan

\* _materialize_runtime_metadata outside a publication: the summary in the
\* root, and on a full surface the one in the committed snapshot.
WriteSummary(s) ==
  /\ root' = [root EXCEPT !.file["summary"] = s]
  /\ snapshots' = IF FullSurface(s) /\ HasSnapshot(committed)
               THEN [snapshots EXCEPT ![committed].file["summary"] = s]
               ELSE snapshots

ShowSummary ==
  /\ phase = "show"
  /\ WriteSummary(state)
  /\ late' = FALSE
  /\ phase' = "loaded"
  /\ UNCHANGED <<state, active, committed, staging, call, made, replays, failures>>
  /\ KeepPlan

------------------------------------------------------------------------------
(* A run. *)

\* run_started persists the state, then the summary.  One step: a load renders
\* the summary again.
StartRun(s) ==
  /\ state' = s
  /\ WriteSummary(s)
  /\ late' = FALSE
  /\ phase' = "idle" /\ why' = "row"
  /\ UNCHANGED <<active, committed, staging, changed, from, full, at, expected, call, made, replays>>

Resume ==
  /\ phase = "loaded"
  /\ StartRun([state EXCEPT !.finished = FALSE])
  /\ UNCHANGED failures

\* _reset_for_fresh_run
StartFresh ==
  /\ phase = "loaded"
  /\ MayFail
  /\ CleanOutputs
  /\ why' = "fresh"
  /\ UNCHANGED <<state, active, committed, snapshots, call, made, replays, late>>

BeginFresh ==
  /\ phase = "begin"
  /\ StartRun([n |-> 0, finished |-> FALSE])
  /\ UNCHANGED failures

\* The many small updates of a run, which leave what is kept of the state here
\* as it is, write the state and then the summary.
Refresh ==
  /\ phase = "idle"
  /\ WriteSummary(state)
  /\ late' = FALSE
  /\ UNCHANGED <<state, active, committed, staging, process, call, made, replays, failures>>

RowLeft == state.n < NRows

\* upsert: the result is persisted, then published.
Upsert ==
  /\ phase = "idle"
  /\ RowLeft
  /\ state' = [state EXCEPT !.n = @ + 1]
  /\ changed' = {state.n + 1}
  /\ phase' = "stage" /\ why' = "row"
  /\ UNCHANGED <<active, committed, staging, snapshots, root, from, full, at, expected,
                 call, made, replays, late, failures>>

\* Mutant of Finished: the end of the run is not recorded.
NotFinished == state

\* run_finished
Finished == [state EXCEPT !.finished = TRUE]

\* The pools are shut down, with their tasks, before run_finished.
NoCalls == \A c \in Callers : call[c].place = "none"

FinishWith ==
  /\ NoCalls
  /\ state' = Finished
  /\ phase' = "stage" /\ why' = "finish"
  /\ Forget
  /\ UNCHANGED <<active, committed, staging, snapshots, root, call, made, replays, late>>

Finish ==
  /\ phase = "idle"
  /\ state.n = NRows
  /\ FinishWith
  /\ UNCHANGED failures

StopEarly ==
  /\ phase = "idle"
  /\ RowLeft
  /\ MayFail
  /\ FinishWith

FinishAborted ==
  /\ phase = "failed"
  /\ FinishWith
  /\ UNCHANGED failures

------------------------------------------------------------------------------
(* The summary of a worker: append_event, update_throughput_telemetry. *)

\* The pools are open from the first row to the end of the last, or to an error
\* of one.
PoolsOpen == why = "row" /\ phase \notin {"off", "ended"}

CallGoes(c, place, to) ==
  call' = [call EXCEPT ![c] = [place |-> place, says |-> @.says, to |-> to]]

BuildSummary(c) ==
  /\ PoolsOpen /\ RowLeft
  /\ call[c].place = "none"
  /\ call' = [call EXCEPT ![c] = [place |-> "built", says |-> state, to |-> NoGen]]
  /\ UNCHANGED <<files, process, made, replays, late, failures>>

\* _public_output_path: while a generation is rendered, its staging directory.
\* Nothing the main thread does when it is rendered (Stage) can be told from a
\* call that aims before the first file is copied.
AimSummary(c) ==
  /\ call[c].place = "built"
  /\ \/ CallGoes(c, "aimed", NoGen)
     \/ phase = "copy" /\ CallGoes(c, "aimed", active)
  /\ UNCHANGED <<files, process, made, replays, late, failures>>

\* A staging directory that is gone makes the call raise.
PutSummary(c) ==
  /\ call[c].place = "aimed"
  /\ CASE call[c].to = NoGen ->
            root' = [root EXCEPT !.file["summary"] = call[c].says] /\ UNCHANGED staging
       [] call[c].to # NoGen /\ call[c].to = active /\ staging # NoDir ->
            staging' = [staging EXCEPT !.file["summary"] = call[c].says] /\ UNCHANGED root
       [] OTHER -> UNCHANGED <<root, staging>>
  /\ late' = (late \/ call[c].says # state)
  /\ CallGoes(c, "written", NoGen)
  /\ UNCHANGED <<state, active, committed, snapshots, process, made, replays, failures>>

\* _sync_committed_public_summary_snapshot, unless a generation is rendered.
SyncSummary(c) ==
  /\ call[c].place = "written"
  /\ \/ /\ FullSurface(state) /\ HasSnapshot(committed)
        /\ snapshots' = [snapshots EXCEPT ![committed].file["summary"] = call[c].says]
     \/ /\ FullSurface(state) /\ HasSnapshot(committed) => phase = "copy"
        /\ UNCHANGED snapshots
  /\ call' = [call EXCEPT ![c] = NoCall]
  /\ UNCHANGED <<state, active, committed, staging, root, process, made, replays, late, failures>>

CallStep(c) == AimSummary(c) \/ PutSummary(c) \/ SyncSummary(c)

------------------------------------------------------------------------------
(* Failures. *)

\* There is a file left to copy or to move.
MayRaise == \/ phase = "copy" /\ NotCopied # {}
            \/ phase = "copy" /\ ~(staging.reports \subseteq Snapshot.reports)
            \/ phase = "apply" /\ at <= Last(full) /\ Source.file[Order[at]] # Missing
            \/ phase = "reports" /\ Source.reports # {}

\* A copy or a move raises.  A row's error ends its run with run_finished; any
\* other ends the process.  Staging is removed either way, unless the error
\* came from a restore.
PublishRaises ==
  /\ MayRaise
  /\ MayFail
  /\ staging' = IF from = NoGen THEN NoDir ELSE staging
  /\ phase' = IF why = "row" THEN "failed" ELSE "off"
  /\ Forget
  /\ UNCHANGED <<state, active, committed, snapshots, root, why, call, made, replays, late>>

Crash ==
  /\ ~Stopped
  /\ MayFail
  /\ phase' = "off"
  /\ call' = [c \in Callers |-> NoCall]
  /\ Forget
  /\ UNCHANGED <<files, why, made, replays, late>>

------------------------------------------------------------------------------

Publish == \/ Stage
           \/ \E i \in 1..4 : CopyFile(i)
           \/ \E c \in Rows : CopyReport(c)
           \/ Copied
           \/ ApplyFile \/ FilesApplied
           \/ ApplyReport
           \/ \E c \in Rows : PruneReport(c)
           \/ Applied \/ Commit \/ Sweep

Start == \/ LoadAndRestore \/ LoadComplete
         \/ Rematerialize \/ NothingToShow
         \/ ForgetGenerations \/ ClearSnapshots \/ ShowSummary

Run == Resume \/ BeginFresh \/ Upsert \/ Finish \/ FinishAborted

Progress == Publish \/ Start \/ Run

PublishNext == \/ Progress \/ Refresh \/ StartFresh \/ StopEarly \/ PublishRaises \/ Crash
               \/ \E c \in Callers : BuildSummary(c) \/ CallStep(c)

PublishSpec == PublishInit /\ [][PublishNext]_publishVars

\* A process goes on, and one that stopped is started again until every row
\* has its result and the run is finished.  A call goes on too; a row makes only
\* so many, so the shutdown that waits for them comes to its end (SF).
Done == phase = "ended" /\ state.n = NRows

FairPublishSpec == /\ PublishSpec
                   /\ SF_publishVars(~Done /\ Progress)
                   /\ \A c \in Callers : WF_publishVars(CallStep(c))

------------------------------------------------------------------------------
(* Properties. *)

PublishTypeOK ==
  /\ state \in States
  /\ active \in Gens \cup {NoGen} /\ committed \in Gens \cup {NoGen}
  /\ staging \in Dirs \cup {NoDir}
  /\ snapshots \in [Gens -> Dirs \cup {NoDir}]
  /\ root \in Dirs
  /\ phase \in {"off", "stage", "copy", "apply", "reports", "commit", "sweep",
             "rematerialize", "forget", "clear", "show", "loaded", "begin",
             "idle", "failed", "ended"}
  /\ why \in {"load", "row", "finish", "fresh"}
  /\ changed \in SUBSET Rows
  /\ from \in Gens \cup {NoGen}
  /\ full \in BOOLEAN
  /\ at \in 1..5
  /\ expected \in SUBSET Rows
  /\ call \in [Callers -> Calls]
  /\ made \in [Gens -> Dirs]
  /\ replays \in 0..2
  /\ late \in BOOLEAN
  /\ failures \in 0..MaxFailures

\* Between two operations of a run, whatever happened before, the results and
\* the indexes in the root show every result of the state, and so does the
\* summary unless a worker has just put an older one back; a finished run has
\* its own summary, whatever the workers did, its final exports and exactly the
\* reports of its companies.
Shows(f, n) == IF n = 0 /\ root.file[f] = Missing THEN TRUE
                                                 ELSE root.file[f].n = n

PublicIsCurrent ==
  /\ phase = "idle" => /\ Shows("results", state.n)
                       /\ Shows("report", state.n)
                       /\ late \/ root.file["summary"] = state
  /\ phase = "ended" => root = Rendered(state, TRUE, {})

\* At no time do the outputs show a company whose result the state does not
\* have: not while a publication is under way, not after a restore from a
\* snapshot, and not after a fresh start that was killed half way.
OutputsNeverAhead ==
  /\ root.reports \subseteq 1..state.n
  /\ \A f \in Files \ {"summary"} :
       root.file[f] # Missing => root.file[f].n <= state.n

\* What a restart needs is there at every moment: until a restore takes it
\* apart, the snapshot of the committed generation is that generation (its
\* summary is kept up to date with the root).
CommittedIsWhole ==
  committed # NoGen /\ replays = 0 =>
    /\ snapshots[committed] # NoDir
    /\ snapshots[committed].reports = made[committed].reports
    /\ \A f \in Files \ {"summary"} : snapshots[committed].file[f] = made[committed].file[f]

\* The first restore after a commit leaves the results and the indexes of the
\* committed generation in the root, whatever part of the next generation had
\* been moved there.
RestoredIsCommitted ==
  phase = "rematerialize" /\ Incomplete /\ committed # NoGen /\ replays = 1 =>
    /\ root.file["results"] = made[committed].file["results"]
    /\ root.file["report"] = made[committed].file["report"]

\* A run that is started again after each of finitely many failures ends with
\* everything published.
EventuallyPublished ==
  <>(Done /\ root = Rendered([n |-> NRows, finished |-> TRUE], TRUE, {}))

=============================================================================
