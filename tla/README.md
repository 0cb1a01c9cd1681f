# A specification of the company enrichment pipeline

The program (`src/run_company_enrichment_pipeline.py` and `src/app/`) takes a list of companies, searches several
sources for each, picks candidate sites, judges them, crawls the accepted ones, reviews what it finds and writes one
result and one dossier per company. It is a batch system: a run can be stopped, killed and resumed, sources are
searched ahead of the row loop by pools of threads, hosts are leased and cool down, proxies are shared, and everything
a run knows is in `.runtime/runtime_state.json`, two append-only logs, the dossiers and the published outputs.

This directory models the runtime core (executors, host ledger, run ledger, writers of the state, publication), the
network layer under it (shared client, proxy pool, page fetcher), the sources, the sites of a company from claims to
lead cards, and the dossiers. `PROJECT.json` lists each component, run, mapped definition, hazard and theorem.

## 1. Inventory

| Component | State | Operations | What is hard about it | What makes it correct |
|---|---|---|---|---|
| Rolling executor (`runtime/bounded_executor.py`) | remaining rows, futures, ready batches, consumed keys, `_error`, `_completed`, `_closed`, buffer of events | submit, worker task, completion callback, `take`, `take_ready`, `ensure_drained`, `close` | callbacks and the consumer refill the pool from different threads; shutdown in the middle of a wait | no batch lost or doubled; bounded queue; no stuck `take`; `close` returns |
| Host governor (`runtime/host_governor.py`) | leases, cooldowns and waiters per host | `acquire`, cancellation, `release`, preflight | overlapping host sets, cooldowns that arrive by three ways | exclusion, cooldowns respected, every wait ends |
| Host memory (`runtime/host_memory.py`) | a bounded list of attempts per host, persisted | update from an event, active signals, recent proxy labels | only the tail survives; the last word decides; workers' events are replayed late | decisions agree with the history, up to forgetting |
| Run ledger (`runtime/work_units.py`, `handoff.py`, `handoff_queue.py`, `stage_messages.py`) | outbox and cursor, handoff snapshot, aggregator and deep-parse work units, execution evidence, checkpoints, results | materialize, drain, checkpoint, emit, acknowledge, store, restore, reconcile at load | a crash between any two of them; retries of a company; two copies of a unit | nothing admitted is lost, announced twice, or settled without a result |
| Row loop (`run_company_enrichment_pipeline.py`) | position, selected rows, rows to recover, deque of prefetched rows | guard at startup, skip on resume, search, defer, admit, drain, stop, clean up, finish | decisions taken before the loop and again inside it; tasks that outlive a stop | every row ends with a result or a record of why not; nothing is at work after the run |
| Progress store (`runtime/progress.py`) | results, run metadata, summary, clock and throughput telemetry | every change persists the whole state | worker threads persist too, without a lock | the file is a state to resume from; the clock calls nothing evidence that is not |
| Public outputs (`runtime/progress.py`) | generations, snapshots, root files | stage, snapshot, apply, commit, restore | a crash between two file operations | root outputs are of one generation |
| Stage pools (`runtime/stage_pools.py`) | permits and statistics per stage | nested leases with cancellation | a cancelled or failing wait | no permit lost, no circle of waits |
| Capacity of a run (`runtime/concurrency.py`, `queue_families.py`, row loop) | none: worked out once | lane budgets, workers, queue limits, watermarks | limits that must fit each other | workers get what they need, queues hold what workers hand over |
| Proxy pool (`runtime/proxies.py`) | proxies with cooldowns, sticky choice, reserved floor | select, mark bad, mark ok, rotate | late answers, reserved capacity | the reserve is kept |
| HTTP client (`company_enrichment_core.py`) | spacing and cooldown per host, attempts of a request | request with failover | several threads wait for one host; the pool moves between two attempts | hosts are spared, no proxy twice, bound sources never direct |
| Sources (`sources/`) | the session of rusprofile | a search, page by page | sessions that end at any page; batches of which some fail | a result never claims what was not read |
| Required sources (`runtime/required_source_deferred.py`) | records, health per source | defer, resolve, retry, classify | a cap over rows, retries and resumes | deferral stops at the cap, no row slips away |
| Page fetcher (`site_intelligence/fetcher.py`, `antibot.py`) | breaker, cooldowns and hints of a fetcher; shared session and memory | fetch a route, escalate, classify | retries and escalation, memory that is replayed late | known blocks and cooldowns are respected |
| Site parser (`site_intelligence/factory_site_parser/`) | plans, document queue, records of two passes | probe, plan, crawl, judge, crawl again, deduplicate, count | budgets and caps against guaranteed coverage; merging two passes | coverage is not wasted, heavy fetches follow the verdict, counts add up |
| Sites of a company (`discovery/`, `site_authenticity.py`, `preparse_trust_gate.py`, `relevance.py`, `llm/`) | decisions, trusted phones, records, budget of the model | choose, look at, admit, judge, review, make cards | a site judged three times, redirects, shared budget | no candidate lost, none promoted without cause, calls and cards add up |
| Dossier (`dossier/`) | revisions of a company on disk, pointer to the latest | write, read, bind records to material | many files, none replaced atomically; a company changes its name | references hold, readers get what was written |
| Scripts, arguments, OCR, reports | | | | |

How they interact. The row loop is the only consumer of up to two executors. A worker task of an executor searches
the sources of one row, leases the hosts of its candidate sites from the governor, prepares downstream work, and
leaves its events in a buffer; the row loop takes the batch and replays the events into the progress store, which
feeds the host memory. Where the sources are not all direct, the row loop searches by itself and hands the row to a
pool of downstream threads instead, keeps it in a deque and drains it when it is ready. A downstream task works under
the permits of the stage pools: it chooses candidate sites, gates them, lets the parser crawl them with fetchers of
its own, judges them and asks the model. The row loop then writes an aggregator work unit and drains it: gate, hand
over to a deep-parse unit or finish at once, checkpoint the result, emit `deep_parse_done` and `company_completed` to
the outbox, read the outbox back into the handoff snapshot, acknowledge the unit, write the dossier and store the
result with a reference to it. Each of these persists `runtime_state.json`. A resume loads that file and the outbox,
reconciles them and goes on.

## 2. Order of the project

What loses data came first, then what the network does, then what is decided about a company.

1. `RollingExecutor`, `HostMemory` and `HostGovernor`, `RunLedger` with `CompanyLifecycle`, `StateWriters`,
   `PublicPublish`: the runtime core, all of it with proofs.
2. `RunCapacity`, proved about in `RollingExecutorProofs`: the limits the executor and the prefetch are instantiated with.
3. `StagePools` and `DownstreamPrefetch` over it, `ProxyPool` and `HttpClient` over it, each pair with its proofs;
   `SourceStatus`, `TenderSearch`, `SourceLookup` and `RequiredSources` over them; `Antibot` and `RouteFetch` over it and
   `HostMemory`.
4. `SitePlan`, `SiteDocuments`, `SiteCrawl`, `SiteIdentity`, `ContentReview`, composed in `CompanySites`.
5. `DossierProcedures` and `DossierStore`, composed with `RunLedger` in `LedgerDossier`; `RunClock`, composed with the
   writers in `StateWriters`.
6. Worth doing next: a proof of `CrawlAccounted`, with `PlanIsSound` in it; the legacy layout and reprocessing of
   dossiers; the upgrade of legacy states.

Recursion is written with functions and folds, and constants have named assumptions, so every module can be proved
about.

## 3. Modules

| Modules | Code | Composition |
|---|---|---|
| `RollingExecutor`, `RollingExecutorProofs` | `bounded_executor.py`, consumer side of the row loop | limits from `RunCapacity` |
| `HostMemory`, `HostGovernor`, `HostGovernorProofs` | `host_memory.py`, `host_governor.py` | `HostGovernor` and `RouteFetch` extend `HostMemory` |
| `RunLedger`, `RunLedgerProofs`, `CompanyLifecycle` | ledger modules, row loop, load of `progress.py` | implements `CompanyLifecycle`; extended by `LedgerDossier` |
| `StateWriters`, `RunClock` | persisting side of `progress.py` | `StateWriters` extends `RunClock` |
| `PublicPublish`, `ProgressStoreProofs` | publication in `progress.py` | the proofs are about `StateWriters` too |
| `RunCapacity`, `RollingExecutorProofs` | `concurrency.py`, plans and limits of a run | assumptions of the executor and prefetch instances |
| `StagePools`, `DownstreamPrefetch`, `DownstreamPrefetchProofs` | `stage_pools.py`, downstream half of the row loop | limits from `RunCapacity` |
| `ProxyPool`, `HttpClient`, `HttpClientProofs` | `proxies.py`, `RateLimitedHttpClient` | |
| `SourceStatus`, `TenderSearch`, `SourceLookup`, `RequiredSources`, `RequiredSourcesProofs` | `sources/`, `required_source_deferred.py`, source half of the row loop | each search of `RequiredSources` is a lookup |
| `Antibot`, `RouteFetch`, `SiteProofs` | `antibot.py`, `fetcher.py` | `RouteFetch` extends `Antibot` and `HostMemory` |
| `SitePlan`, `SiteDocuments`, `SiteCrawl`, `SiteIdentity`, `ContentReview`, `CompanySites`, `SiteProofs` | parser, identity, review | `CompanySites` extends them all |
| `DossierProcedures`, `DossierStore`, `LedgerDossier`, `RunLedgerProofs` | `dossier/` | the store is an instance in `LedgerDossier` |

### RollingExecutor

One executor, its worker threads and its consumer. `task[r]` is where the future of row `r` is: `idle` (not in
`_future_to_row_key`), `queued` (submitted, no thread yet), five places inside `_search_company_sources`, and three
ends a completion callback has not handled yet. `ready`, `consumed`, `error`, `completed`, `closed` are the fields of
the same names; `lease` is the part of the host ledger a task touches; `buffer` has one element per non-empty bucket
of `_ThreadBoundEventBuffer`; `cpc`, `pos`, `outcome` are the row loop.

An action is one critical section of the executor's condition or a stretch of worker code between two points where
another thread can be noticed. `HandleCompletion` is the whole callback, `TakeReturns` the whole successful `take`,
refill included: `RefillCount` is the closed form of the two refill loops. A future that ends before
`add_done_callback` runs its callback nested in the submission; the model runs it right after, which no other thread
can tell apart as both hold the condition. `take_ready` has no caller in the pipeline; it is a public operation of
the class and is modelled as one. `SkipRows` are rows the loop may pass over without a `take` (skip on resume).

### HostMemory and HostGovernor

`HostMemory` is a module of operators, which `HostGovernor` and `RouteFetch` extend: `Remember` appends an attempt and
cuts the list to `LedgerLimit`, `Active` is the trailing run of block signals up to the first success, `SignalLabels` and `Avoided` the proxy labels a preflight
avoids, `CooldownLeft` the seconds it still waits, rounded half to even as Python's `round` does. An attempt is
`[contour, verdict, until]`: the tags `_derive_signal_tags` would derive are a verdict (`hard`, `soft`, `clear`, `mute`), times
are in ticks of `Second` to a second.

`HostGovernor` adds tasks, the main thread and time. `AcquireBlocked`/`AcquireHosts`/`AcquireCancelled` are the three
ways a round of the loop in `acquire` ends; the lock makes each atomic. `EntryCooldown` is `_entry_locked`: the first
use of a host takes the cooldown over from the persisted memory, later uses never look again. `Replay` is the row
loop appending a task's event; `MainFetch` is the row loop fetching by itself. `shown` is a history variable: the
latest end of a cooldown the ledger was shown.

### RunLedger and CompanyLifecycle

One process at a time works on what is persisted: `outbox`, `cursor`, `handoff`, `unit`, `evidence`, `result`,
`terminal`. `admissions` numbers the admissions of a company, and a work unit, a checkpoint and a result carry the
number (`gen`) of the sources they were built from, which is all the properties tell apart of their contents. `pc`
walks through the row loop and the drain of one row; each step ends with the persisted change it stands for, so
`Crash`, which forgets the volatile state, can come between any two. `Load` is the constructor of the store with all it
does to what it read: synchronization (`Reconciled`), promotion of checkpoints, removal of duplicates. The source and candidate messages of a row are
one `source` message, and the two gate paths (`aggregator` and `deep`) are kept apart.

`wait_callback` may drain an admitted row while the loop waits in `take`; in the model draining happens at the loop,
which is the same as no message of the waiting row was emitted before its take. `QueueLimit` is the length of the
deque of rows that are admitted and not yet drained. `StartResume`, `StartRetry` and `StartFresh` are the operator's
command lines; `MaxFailures` bounds how often anything but progress happens (crash, interrupt, deferral, retry,
fresh start).

`CompanyLifecycle` is what a reader of the ledger may rely on: a company waits, is open, and is settled with a stored
result; only a fresh start takes it back. `RunLedger` implements it (`ImplementsLifecycle`) with `Stage` and `Stored`
as the refinement mapping, checked with retries switched off: a retry reopens a settled company by intention.

### StateWriters and RunClock

The main thread and worker threads with an `OpenAIDecider`, which holds the real progress store. A persist takes
three steps other threads can come between: the list of results, the metadata and summary, the file; a report to the clock
takes five more (the clock is read, the time taken, the work since the last report counted, the time set, the clock
stored), and the cost of an event is read and added to in two. `apart` is a history variable: no two threads ever were
between taking the time and setting it. `Checkpoint`, `AckUnit`,
`StoreResult`, `DropCheckpoint` are the persisting methods `RunLedger` has in the same order; here only the sets they
share are kept. `ReplaySpan`, `ReplayBatch`, `ReportAck`, `ReportFinal` and `Capture` are the places where the main
thread reports to the clock. `Kill` may tear the last line of `events.jsonl`; `Load` promotes checkpoints and rebuilds
the cost from the log. `RunClock` has the clock as functions of a record: it starts, ticks, and compares wall and
monotonic time, over the processes that continue a run, and says when pauses are too long for its speed to count as
evidence. Time passes between any two steps, with the machine awake or asleep.

### PublicPublish

The files an operator opens and how a generation of them is published. `state` is the part of `runtime_state.json` they
are rendered from, `staging`, `snapshots` and `root` are directories, `active` and `committed` are
`public_publish_state.json`. A directory maps each root file to the state it shows, or to `Missing`, and has a set of
company reports. A publication is `Stage`, the copy (`CopyFile`, `CopyReport`), the moves (`ApplyFile` in the order of
the code, `ApplyReport`, `PruneReport`), `Commit` and `Sweep`; each move is an action, and `Crash` comes between any two. A
restart after an unfinished publication applies the committed snapshot with the same actions (`from` says which
directory is the source), and every restart renders a new generation. `made` and `replays` are history variables.
`Refresh` is any small update by the main thread that writes the state and then the summary. A worker does the same
whenever an event of its row is counted (`append_event`, `update_throughput_telemetry`), in steps of its own: it reads
what the summary will say (`BuildSummary`), finds out where it goes, to the root or to a generation being rendered
(`AimSummary`), writes it (`PutSummary`) and copies it into the committed snapshot (`SyncSummary`); the main thread goes on between
them. `late` remembers that one of them put an older summary over a newer one. `Callers` bounds how many are under way at once.
What a worker saves before is `StateWriters`' subject: here `runtime_state.json` is always what memory holds, so a crash
between a late save and the next one, which loads an older state than the outputs were rendered from, is left out.
Results that exist as checkpoints only are left out: `RunLedger` has them.

### RunCapacity

What a run works out once before its first row, as operators: `WorkerLaneBudget` and `EffectiveCap` of the lanes,
`WorkerCount` of the executor, `QueueLimitFor`, `ReadyDrainLimit` and `LowWatermarkFor` of the prefetch, `StageBudget` of the
pools; `RunLimits` puts them together as `run` does. The model-checking modules of the executor and of the prefetch
assume that their constants are limits a run computes (with the constants of the code scaled down to one), so no
instance has limits the program cannot have. The cap on companies at a time is only reported, never enforced; that is how
the code is, and `ReportedCap` is no input of anything else.

### StagePools and DownstreamPrefetch

A thread of `StagePools` follows a program, the brackets of the with-statements it runs through, and holds the leases
it is inside of. A lease polls: `stages` has free permits, waits and uses, and a poll may cancel or fail.
`DownstreamPrefetch` gives the programs to the tasks of the rows and adds the main thread: select, admit or do inline,
append to the deque, serve what is ready, drain, defer, stop or raise, and the cleanup in its three steps (event, cancel,
join). Which rows need a deep parse, which fail and when the stop file appears is any choice.

### ProxyPool and HttpClient

The pool's entries with cooldown, failures and the source that is to blame; `Select`, `MarkBad` and `MarkOk` are whole
critical sections. A request of `HttpClient` goes through the places of `RateLimitedHttpClient.request`: wait for the
host, resolve a proxy, send, and depending on the answer report, fail over or return. Time is what is left of each
deadline. `sync_from_proxy_provider`, `lifecycle_snapshot` and `mark_ok_by_label_or_id` have no caller in the program.

### SourceStatus, TenderSearch, SourceLookup and RequiredSources

`SourceStatus` says what a status means: fail fast, deferrable, what the result may say of a contact. `SourceLookup` is
the search of one row in one source, as pages: for rusprofile with the session of the process, the profile file and
the login, where any page may fail to show whether it is an authorized session's and then counts as a guest's; for
bicotender with the list pages of `TenderSearch`, one batch of keywords after another. `RequiredSources`
is the source half of the row loop over it: `Guard` refuses to begin a run whose checko has no usable proxy,
`BeginRow` skips or takes up a row, the lookup ends in success, a deferral under the cap or the end of the run,
`AdmitRow` and `Store` write the result, `ResolveTarget` resolves the pairs of a retry afterwards. `burst` is a history
variable. A kill comes between any two steps; a run is fresh, a resume or a retry of deferred pairs.
At this commit bicotender is no source of a row (only a calibration script calls its adapter); it stands among the sources of a
run so that its search is taken in the same way, and it never defers or ends one.

### Antibot and RouteFetch

`Antibot` has the decision tables in the order of the code: symptoms of a response, transport of a route, block class,
what to do, and the breaker of the domain. `RouteFetch` is a fetch of at most two attempts, by the main thread and by
workers that get a new fetcher for each company; `Begin` is what happens before the first attempt (memory, bootstrap of
the breaker, session, pause), `Attempt` an attempt with everything that follows from it. The client may send a request it
was handed through one proxy after another, as long as they fail (`Sent`), and reports an event for each; the fetcher knows
only the one it selected, and puts what came of the attempt down to it. What a page says is a set of marks. `history`,
`known` and `asked` (`handed`: the label the client was given) are history variables.

### SitePlan, SiteDocuments, SiteCrawl, SiteIdentity, ContentReview and CompanySites

The site intelligence of a company as one sequence. `SiteIdentity` draws candidate sites from claims and judges them in
thousandths, `CompanySites` opens each once (`SurfaceCheck`) and admits what the gate passes; `SitePlan` probes a site,
collects links and ranks routes under the budgets; `SiteCrawl` crawls the plans without heavy fetches, judges each
site by the records of all plans with its normalized url (`KeyOf`; a plan keeps the spelling it was given), crawls the trusted ones again in full with the queue of `SiteDocuments`, merges and counts;
`CompanySites` then judges each site in full, with extra pages and the model, and reviews the records with
`ContentReview`, whose last step makes the lead cards. Other companies draw on the budget of the model at any time.
Pages, links, answers and documents are constants: `Serve` is the set of answers a url may give, each time it is asked.

### DossierProcedures, DossierStore and LedgerDossier

`DossierStore` writes a revision file by file and is killed between or inside any two; `DossierProcedures` builds the
procedure records and binds them again at every write and read. `LedgerDossier` puts the write where the ledger stores
a result: dossier first, then the reference with the result. The dossiers of two companies are in directories of their
own, so the store of one `Company` is watched among those of the run; at each build it is given any of `Materials`, under
any name it may have by then. Items keep the places they were found at, and of those with one `Key` the first is kept.

## 4. Runs

| Run | Instance | Shows |
|---|---|---|
| `executor` | 5 rows, 2 workers, ready queue of 3, two rows share a host, taken in and out of row order | `RowConservation`, `NoStuckTaker`, `DrainSucceeds`, `Termination` |
| `governor` | 3 tasks in a ring over 2 hosts, earlier memory with a cooldown of 1.5 s, main thread without a lease | `HostExclusive`, `CooldownRespected`, `EveryWaitEnds` |
| `ledger_crash` | 2 companies, deque of 2, 2 failures, no retries | `EvidenceMirrorsUnits`, `AdmittedIsRecoverable`, `AnnouncedExactlyOnce`, `SessionsComplete`, `ResultIsCurrent`, `ImplementsLifecycle`, `EventuallyAllStored` |
| `ledger_stale` | 1 company, 2 failures with retries | violates `StoredResultIsOfUnit` (the finding) |
| `dossier` | 1 company, two names, three materials, 2 failures with retries and crashes inside a reset | `ReferenceHolds` (with `AdmittedIsRecoverable`), `DirectoryIsSound`, `ReadIsWritten` |
| `writers` | 1 company, 1 worker, an LLM event each, time up to 3 or up to 2 and a restart | `FinalFileIsMemory`, `RecoverableAlone`, `EvidenceIsHonest` |
| `publish` | 2 rows, 1 call of a worker at a time, 3 failures among crashes, errors, early stops, fresh starts | `PublicIsCurrent`, `OutputsNeverAhead`, `RestoredIsCommitted`, `EventuallyPublished` |
| `http` | 2 threads, 3 requests, 2 proxies of which 1 reserved, a bound source and a company site | `ReserveHeld`, `ProxiesInTurn`, `HostIsSpared` |
| `prefetch` | 4 rows, one recovered, 2 pool threads and the main thread, 3 stages | `PermitsConserved`, `NothingLeftBehind`, `RunEnds` |
| `sources` | 3 rows, three pairs of sources, 3 runs with kills, 2 batches | `DeferralIsSafe`, `LookupIsHonest` |
| `site` | 2 fetches by the main thread and a worker at one host, two proxies or none, a page that is good, thin, forbidden or not there | `BlockedProxyIsAvoided`, `CoolingHostIsSpared`, `RestartKeepsCaution`, `MemoryTellsTheTruth` |
| `crawl` | 3 companies to choose from, 3 sites of which one mirrors another and one has two spellings, tight budgets, 3 calls of the model per run | `CrawlAccounted` (with `PlanIsSound`), `HeavyOnlyIfTrusted`, `SitesAreJudged`, `BudgetsAddUp` (with `DocumentsAccounted` and `ReviewsAddUp`) |

Why the bounds are enough. Executor: with more rows than workers plus the queue, the queue fills, submission stops and
resumes, and a row can complete out of order while the consumer waits for an earlier one. Governor: three tasks whose
needs form a chain are the smallest that can wait for a task that waits. Ledger: two companies are enough for one to
be drained while another is admitted, two failures for a crash during the recovery from a crash. Dossier: two names
and three materials give a rewrite under another name, a document that is gone and a page whose content changed.
Writers: one worker races with the main thread, and the time is enough for a sleep and work after it, or a restart and a
late report, with the threshold at zero, so every missed moment shows. Publication: two rows give a generation of each
kind (incremental, full, final), one call is enough for a late summary at every place of a publication, three failures a
crash of the restore after a crash in the restore; five ids are more than a state can refer to. HTTP: the second thread finds the reserve taken or frees it between the check and the selection of
the first, the third request meets the state the first two left. Prefetch: four rows over two threads and single permits
make tasks wait inside other leases, and one row is left for the next process. Sources: three rows pass the cap of two;
the third run retries what the second, killed, left. Site: a worker's event is replayed after the main thread's second
attempt; the ledger holds five entries, fewer than two fetches write; with two proxies there is one to avoid and one to
go to, and a request can fail over to either (they are alike, hence the symmetry). Crawl: every budget (routes, families, hosts,
slots, bytes, depth of archives, calls) is reached; the companies differ in what the sources claim, and one has a site in two spellings, of which one can say nothing and is
yet crawled in full on the word of the other.

Deadlock checking is off where behaviours end: the executor is closed, tasks, requests or fetches are done, the run has
ended. The ledger, dossier, publication and prefetch runs check it: there a run that ended can be started again or stays
finished.

Fairness. Threads are scheduled (weak fairness of each worker's steps and of the consumer's), since searches and
downstream calls have timeouts; time passes; a waiting task polls. In `DownstreamPrefetch` the
fairness of a thread is that of what it does while nothing fails (`ThreadGoesOn`, without `ThreadFails`): a waiter may wait until
its permit is free, the failure of a stage or of a telemetry tick is never obliged to come, and neither is a stop. A
cancellation is obliged only once the shutdown has begun, because every poll asks for it. In `RunLedger`, `FairSpec` is the specification without
retries (`KilledSpec`) with weak fairness of `Proceed`, what a started process does by itself, and of `StartResume`: an
unfinished run is resumed by its operator, which is what a resume is for. `EventuallyAllStored` is a statement about
runs that are resumed after each of finitely many failures. Nothing is assumed of failures, stops, retries or fresh
starts. In `PublicPublish` a call of a worker goes on (weak fairness of `CallStep`), and so does the main thread: strong
fairness, because it joins the pools before it finishes the run, and a row makes finitely many calls where the model lets a
worker begin another one at any time.

### What does not hold

`ledger_stale` is the finding: after a crash in a retry the old result is kept for the new unit. The limits below are
stated inside passing properties, as conditions that name them, or as definitions no run checks.

- `DrainSucceeds` holds where no row is passed over. A selection with a company twice has its second row skipped on
  resume after its batch was scheduled; nobody takes the batch and `ensure_drained` ends a good run with an error
  (`SkipRows` of the executor).
- `RecoverableAlone` ends with the first persist by a worker: then the file may have an acknowledged unit with neither
  result nor checkpoint (`FileRecoverable`), until the main thread persists again. It also exempts a torn line of the
  event log, after which the rebuilt cost is zero.
- `EvidenceIsHonest` ends when two threads take the time at once (`apart`): the one that took it earlier may set it
  later, and the next report counts again what the other has counted. The clock then claims more work than was done,
  and a pause of that length stays below the threshold unseen.
- `PublicIsCurrent` does not promise the summary while rows are processed: a worker that read it before a publication may
  write it after, and `summary.json` goes back to an earlier row until the main thread writes it again (`late`). The
  finished run has its own, because the pools are joined first. The outputs of results never go back.
- `CursorIsValid` assumes that no crash hits the reset of a fresh run (`CrashInReset`): the reset removes the outbox before the
  cursor, and a crash between leaves a cursor behind the end of every outbox to come.
- `RestoredIsCommitted` speaks of the first restore only: a restore moves the files out of the snapshot, and a second one
  before the next commit unlinks them from the root (they come back when the load renders them). A run stopped early
  says its final exports are suppressed and leaves them in the root.
- `SitesAreJudged` exempts the site of the spreadsheet row: the parser is given it whatever the gate said of it.
- `BlockedProxyIsAvoided` exempts a second attempt after a passing failure or thin content, which goes through the same
  proxy on purpose; a page that answers 5xx and is a challenge too is among them. And it binds the fetcher, not the
  client: when the proxy a request was handed to fails, the client goes on through any other, also one the fetch avoids
  (`company_enrichment_core.py:3724-3733`, `3776-3785`). What that one meets is recorded under the label the fetcher
  selected, so `MemoryTellsTheTruth` is about the attempts as they were recorded.
- `CooldownRespected` allows half a second, which the rounding to whole seconds takes away.
- A result promoted from a checkpoint has no dossier, so `ReferenceHolds` speaks of stored references.
- A success of another row in the same run lets a deferred pair count as healthy, so `BurstIsBounded` counts deferrals
  without an answer in between.

## 5. Proofs

`RollingExecutorProofs` proves for all rows, workers, limits and hosts: `TypeCorrect`, `NoBatchLost`, `Bounded`,
`TakeNeverStarves` and `DrainIsClean` (`DrainSucceeds`). The invariant is

    IInv == TypeOK /\ RowConservation /\ WorkerBound /\ ReadyBound /\ RefillInv /\ ConsumerInv

`RefillInv` is what makes it inductive: while the executor is open, has not failed and still has rows to submit, either the pool is full or
the ready queue is at its limit. Without it nothing says that a consumer waiting for a row finds one in flight.
`ConsumerInv` ties the row loop's position to the consumed set: every row before it was consumed or skipped, and
the row it waits for was not consumed. `TakeNeverStarves` and `DrainIsClean` assume `SkipRows = {}`: with skipped rows the ready queue can fill up with batches nobody asks for, which is the
case described above. `DrainIsClean` needs `TidyInv` as well: a consumer that has passed its last row without an error
has consumed every row, so nothing is scheduled, in flight or ready when the executor is asked whether it is drained. `RefillBounds` and `SubmitAdds` state what the two operators return, on finite sets.

`HostGovernorProofs` proves for any set of tasks, hosts and memory `TypeCorrect`, `HostsExclusive` (`HostExclusive`) and
`CooldownsAreWaitedFor` (`CooldownRespected`). The inductive invariant of the leases is that a task that holds has
a positive lease count on each of its hosts, equal to the number of its holders, and that no two tasks hold a host:
the ledger only knows counts, and a count above zero is what blocks the second task. Of the cooldowns it is `CoolInv`: of
every end the ledger was shown, half a second at most is neither waited for nor over (`Near`), and an announced cooldown counts from its
fetch, so from the release at the latest. `RoundedIsClose` and `LatestEnd` are about the rounding and the maximum
of a set; `MaxExists`, which induction over finite sets would give, comes from the well-founded order of the
finite subsets. Of the memory earlier rows left only its type is assumed.

`RunLedgerProofs` proves, for any set of companies and any bounds, with crashes, interrupts, deferrals, retries and fresh
starts: `TypeCorrect`, `EvidenceAgrees` (the copy of a work unit in the execution evidence is the unit),
`LookupChangesNothing` (the synchronization a unit lookup starts with never changes a unit), `LegacyUnitsAreUnused`
(no unit is built from a checkpoint or completed message without one) and `CursorIsValid` (the cursor stays inside
the outbox). The invariant is

    IInv == TypeOK /\ EvidenceMirrorsUnits /\ PlaceInv /\ TraceInv

`EvidenceMirrorsUnits` is not inductive: synchronization would build a unit for a company that left a trace in the
ledger and has none. `TraceInv` says that never happens: every trace of a company (a place in the queue or among the
rows to recover, a ready handoff, a completed message, a deep unit) comes after its admission, and the admission wrote
the unit. `PlaceInv` carries this through the steps of a drain: at each place of the row loop it says what the row in
hand already has. `CursorIsValid` assumes `~CrashInReset`, without which it does not hold.

`AdmittedSurvives` (`AdmittedIsRecoverable`, with retries) needs `RecoverInv` next to `IInv`: a unit is acknowledged only
after a checkpoint, a result or the hand-over to a deep unit that is still there (`UnitsSafe`), and the thread knows so
before it acknowledges the unit of the row in hand (`RowSafe`).

Its second part proves more of the runs that are killed, interrupted, resumed and started afresh but retry nothing
(`KilledSpec`), for any companies and bounds, when no crash hits the reset of a fresh run (`~CrashInReset`):
`NoSessionIsStopped` (`SessionsComplete`), `ResultsAreCurrent` (`ResultIsCurrent`), `AnnouncementsAreExact`
(`AnnouncedExactlyOnce`) and `LifecycleIsImplemented`, the refinement of `CompanyLifecycle`. `NothingIsRaised` ties `KilledSpec` to
`Spec`: where nothing is reprocessed, the errors of the drain and the loss of an outbox the steps of `Spec` allow for never come, so both have
the same behaviours. The invariant is

    Known     == IInv /\ RecoverInv /\ KilledInv
    KilledInv == UnitsInv /\ MessagesInv /\ ReadInv /\ SettledInv /\ SessionInv /\ RowsInv /\ RowInv

A kill cuts the outbox, the cursor, the units and the result of a company off from each other at any step, so each part
says how two of them may differ. `UnitsInv`: units, checkpoint and result are of one admission. `MessagesInv`: what was
announced agrees with the units (`SaidOK`: a finished deep parse left a result or a checkpoint, an acknowledgement comes after the
completion), and a handoff knows exactly the messages before the cursor (`HandoffKnows`). `ReadInv`: a thread at work has
read them all, since it decides by the handoff what not to announce again. `RowsInv`: a row is still to come, waits in the deque, is in hand, or the session is
through with it (`Coming`, `Waiting`, `Through`), and each says what its units are. `RowInv`: at each place of the row
loop, what the thread has in its hands (`cur`) against what is persisted. The lemmas follow the actions: `RowStep` and
what rests on it for the steps that change one row, `TakeRow` and `PutRow` for the loop, `LoadedRow` for the load, which is where the pieces a kill left must fit
again. In the refinement `Materialize` is `Admit`, the first checkpoint or stored result is `Store`, the last
acknowledgement is `Settle`, the reset of a fresh run is `Restart`, and every other step stutters (`AdmitOne`, `StoreOnly`,
`SettleOne`).

Its third part is about `LedgerDossier`, with retries and crashes anywhere, for any companies, names and materials:
`ReferencesHold` (`ReferenceHolds`), `DirectoriesAreSound` (`DirectoryIsSound`) and `ReadsAreWrites` (`ReadIsWritten`). Every
step of the composition is one of the ledger's or leaves the ledger alone, so `IInv` and `RecoverInv` carry over. The invariant is

    DossierInv == IInv /\ RecoverInv /\ StoreInv
    StoreInv   == DirsType /\ WriterInv /\ OneDirectory /\ PointersHold /\ RefInv

`DirsType` says more than a type: every revision was begun from some material, or copied and written on with its files in
order, so one that can be seen is complete (`VisibleLoads`). `WriterInv` says how far the newest revision is at each place
of the writer, and `OneDirectory` that the writer is in the only directory that is known: it is not known before its
first revision is whole, and a kill before that leaves nothing a second name could disagree with. `PointersHold`: the company
manifest and the pointer to the latest come after a revision that can be seen. `RefInv`: a reference names a visible
revision of the stored result, none newer than the pointer. The store's steps share `DirectoryStep`: a directory that
keeps its visible revisions (`Follows`) keeps all of this. `ReadIsWritten` is a fact about the operators: two items
have one copy only with one checksum (`SameFileSameSum`), the archive manifest of a copied revision agrees with its
snapshot (`WrittenIsBound`), and a reference found once among the copied items is found again, alone, in the tier of
its file or locator (`FoundAgain`), so binding the records twice is binding them once (`ReboundAgain`). That needs what
`DossierAssumption` says of the material: a downloaded document has a checksum, by which its file is named.

The second part of `ProgressStoreProofs` proves, for any number of rows, generations and failures: `PublishTypeCorrect`, `SnapshotIsWhole`
(`CommittedIsWhole`), `NeverAhead` (`OutputsNeverAhead`), `RestoreIsExact` (`RestoredIsCommitted`) and `OutputsAreCurrent`
(`PublicIsCurrent`). The invariant is

    PublishInv == PublishTypeOK /\ StepInv /\ SnapshotsInv /\ BehindInv /\ RestoreInv

None of the first three properties is inductive alone. That the root is never ahead needs the same of every directory that
may still be moved there: what is staged, the snapshot of the generation begun and that of the committed one
(`BehindInv`), and an empty root from the clean-up of a fresh run until its state is written. That the committed
snapshot is whole needs the snapshot about to be committed to be whole (`StepInv`, `SnapshotsInv`), which holds because
the surface is only applied after the copy was completed. The restore needs to know, at each file it moves, which ones are
already in the root and which are still in the snapshot (`RestoreInv`); after a second interrupted restore the
snapshot has holes, which is why the properties speak of the first. That the outputs are current when a publication has ended
takes `CurrentInv`: at each place, which files of the plan are in the root and which are still in the staging directory
(`PlanInv`; the state does not change meanwhile, and a summary may be a worker's: `Spoilt`), and that a load with nothing to
show and a fresh start have emptied the root (`EmptyInv`). `WorkersInv` says when calls can be under way, so that none is left where a
run is finished; that the snapshot is whole although a worker may write into the directory being copied is why
`StepInv` compares it with the copy file by file (`CopyOf`). `CopyStep`, `SourceStep`, `QuietStep` and
`SummaryStep` hold what actions of one kind have in common.

`RollingExecutorProofs` also proves of the limits of a run, for any set of sources, concurrency, number of proxies and rows:
`LanesFit` (a lane has between one and the requested workers, a proxy-bound source at most one per proxy), `CheckoFits`,
`WorkersFit`, `QueueFits` (a prefetch that is enabled can hold more rows than the executor has workers, its drain limit
fits its queue, its low watermark lies below: the assumptions of `DownstreamPrefetch`) and `ReadyQueueFits`. They are facts
about operators, so what the instances assume of their limits holds of every run.

`HttpClientProofs` proves, for any threads, sources, hosts, proxies and limits: `TypeCorrect`, `ReserveIsHeld`, `EachProxyOnce`
(`ProxiesInTurn`) and `HostsAreSpared` (`HostIsSpared`). The invariant is

    ClientInv == TypeOK /\ \A t \in Threads : RequestOK(t, req[t], delayLock[Host(t)], gap[Host(t)])

together with `ReserveHeld`, which is inductive with the type of the pool: `mark_bad` counts under the lock of the pool. `RequestOK` says of a
request, at each place of `request`, which proxies it has tried, how its attempts count them and which proxy it may hold, and
that a thread asleep for the spacing of a host owns the lock of that host: that is why a gap cannot be set anew
between its end and the answer of the thread that waited for it. `HostsAreSpared` is a statement about steps and follows
from it. The one assumption beyond the types is that `NoThread`, the owner of a free lock, is no thread.

`DownstreamPrefetchProofs` proves, for any rows, worker threads, limits, budgets and programs of stages: `TypeCorrect`,
`PermitsAreConserved` (`PermitsConserved`) and `NothingIsLeftBehind` (`NothingLeftBehind`). The invariant is

    LoopInv == TypeOK /\ PoolInv /\ RowsAccounted /\ MainOK /\ FutureOK

`PoolInv` says that the leases a thread holds are those its program has entered and not left at its place
(`Inside`), and that permits and queue depth are conserved; `PermitsConserved` is not inductive without the first half.
`MainOK` says at each place of the main thread which row it works on (`Placed`), and that a task of its own moves only
where it selects sites or prepares a row itself. `FutureOK` says that a running future has a thread at work on it, and
that the end of the run waits for both. That no row is drained twice needs both: a row is drained
from the deque or inline, and a future of a drained row is never asked again. `EndOK` is for the last sentence of
`NothingLeftBehind`: the cleanup is reached with every row taken up and an empty deque, or with a stop or an exception
(`main.raised`). Assumed of the constants is what with-statements guarantee of a
program (`StageAssumption`: each stage is left as often as entered, the last one entered first, and never entered
inside itself) and that the downstream half of a task begins outside every lease, with an OCR lease of one step
(`PrefetchAssumption`). TLC evaluates both for the program of the code.

The first part of `ProgressStoreProofs` proves, for any companies, worker threads, LLM events, restarts and moments: `TypeCorrect`,
`FinalFileIsFresh` (`FinalFileIsMemory`), `AloneIsSafe` (`RecoverableAlone`) and `ClocksAreHonest` (`EvidenceIsHonest`). The
invariant is

    IInv      == WriterInv /\ ClockInv
    WriterInv == TypeOK /\ PlaceInv /\ SilentInv /\ SnapInv /\ RowInv /\ CostInv
                 /\ FinalFileIsMemory /\ (WorkersSilent => FileRecoverable)

A thread reports and persists on its way somewhere; `At` is where it goes on, so that most of a step's reasoning does not
see the three steps of each. `SnapInv` is why one writer is safe: what the main thread has taken for its payload
is what it has in memory, as long as no worker has persisted, and again once all have ended. `RowInv` says that the unit in hand has a
checkpoint or a result when it is acknowledged, and `CostInv` that the cost of the summary lags behind the log by the event in hand.
`ClockInv` holds with any number of writers whose measurements stay `apart`: every clock in memory, in the file, in a payload or in a report is
`Sound` for itself, so it does not matter which one is stored last. A sound clock has no more work than was lived since its start, and its
pauses and what was lived since its tick cover all that was slept between; in a running process it also has no work since the last report
(`Current`), which makes the next advance sound. `ReportInv` says so at each of the five places of a report: the thread that took the time
(there is one, as long as they are apart) will set it to a later one, so the clocks the others have in hand stay `Current`. `SoundStart` and `SoundAdvance` show that `StartClock` and
`AdvanceClock` return sound clocks; they rest on counting moments (`MomentsAddUp`, `LivedSplits`).

`RequiredSourcesProofs` proves, for any number of rows and runs, any orders of sources and any failures and pages the sites
may answer with: `TypeCorrect`, `ResultsAreHonest` (`LookupIsHonest`) and `DeferralSafe` (`DeferralIsSafe`). The invariant is

    IInv == LookupInv /\ TypeInv /\ PlaceInv /\ StoredInv /\ UnitInv /\ RetryInv
            /\ SearchedInv /\ RowsInv /\ BurstInv /\ ResolvedIsStored /\ NoRowSlips

`LookupInv` adds to the honesty of a finished search what is known of one on its way (`LookOK`): rusprofile looks at a card
again only when its session was renewed or is known to have lapsed, so a guest's answer to it has that lapse for a cause or
a page that does not show its state, and an error of a tender page stays in the classes its batches are combined from. That a resolved pair is in the stored result
spans three places a kill can separate: `StoredInv` says that the sources of a stored result stay with the row through a
new search and its pending unit, and `RetryInv` that the record of a pair being retried stands until the result is stored,
so a retry that was killed is planned again. That no row slips through needs `RowsInv` for the rows a run has left behind,
`SearchedInv` for the row in hand, and `UnitInv` for the units of an earlier run, which are complete or of a retry whose record
still stands. The cap needs only that the deferrals since the last answer are among those the health record counts
(`BurstInv`). Assumed is that an order of sources names each source once and only sources that exist.

The first part of `SiteProofs` proves, for any hosts, urls, proxies, pages a site may answer with and settings of the fetchers:
`FetchTypeCorrect`, `BlockedProxyIsAvoidedHolds`, `CoolingHostIsSparedHolds`, `RestartKeepsCautionHolds` and
`MemoryTellsTheTruthHolds`, each named after its property. The invariants are

    RouteInv   == FetchTyped /\ AvoidInv /\ NearInv
    LedgerInv  == \A h \in Hosts : EndOf(memory[h], history[h])
    CautionInv, and BoundInv for the clock

`AvoidInv`: while a fetch is under way, the labels it avoids contain what it was told of and what its first attempt met, so
whatever a selection comes up with, the check before the request refuses these.
`NearInv`: a cooldown it was told of or met is in its own clock of the host, but for half a second, so an attempt that is let
through is too early by two halves at most; the two are lost at different places, the memory and the fetcher, which the
property has to allow. `LedgerInv` ties the bounded memory to the unbounded history variable: one is the end of the
other, so a verdict, a block or a cooldown read from it is one of the history, and a last word is lost only when
`LedgerLimit` attempts came after it. `CautionInv` says of a fetcher that writes to the memory by itself and has one
host that the breaker the memory would teach is at least as cautious as its own. Taught is a fold over the
attempts; `BootstrapGoesOn` says that attempts that go on after others are learned from where those end, by the least
counterexample of `LeastExists`, and `ApplyKeepsOrder` and `TaughtKeepsOrder` that an attempt keeps the order
of two breakers whatever the times it is read with. What the memory adds, entries of the client and of a paused
domain, can only make the replayed breaker more cautious; a success of somebody else could not, hence the
condition of the property.

The second part of `SiteProofs` is about `CompanySites`, for any companies, sites, plans, documents, archives, budgets and
answers: `TrustGateHolds` (`HeavyOnlyIfTrusted`), `SitesJudgedHold` (`SitesAreJudged`), `ReviewsHold` (`ReviewsAddUp`),
`DocumentsHold` (`DocumentsAccounted`) and `BudgetsHold` (`BudgetsAddUp`, both of these). The invariants are

    GateInv     == what keeps the gate shut, for the pass, the first pass and the result
    JudgeInv    == what is known of the sites at the gate, in the parser, during the checks and after
    PlannedInv  == only sites the parser was given are planned
    ReviewInv   == Budgeted calls, a review per record in order, and the cards of the records
    DocumentInv == Filed(crawl.queue, crawl.entries)

`GateInv`: as long as the embargo holds a pass has light records only; a pass without it is over sites that `Passed`, which
is a verdict over the records of the first pass (`cheap`) with its key, so it can be stated long after these are thrown away; the result
is drawn from both passes, and what it has of a site that did not pass is of the first. Each record a fetch makes is in the
stage of its route, heavy or light, and `Merged` selects and cuts but adds none.

`JudgeInv`: a candidate waits, or a decision has the key of a place it leads to (`Keyed`), or the check of that place
has put a decision of its own there (`Seen`). The second is what survives the steps that lose decisions: of two that
lead to one address the gate keeps the first, the division of its decisions the last of a key (`DividedTells`), and the
check of a site takes all that wait on its key away, whatever address it meets this time. A decision waiting is `Unproven`; one that
stands is `Settled`: by the rules a site with a sign against it is never verified, and the model is asked about one only
if its pages show the INN or its domain is that of an email (`CheckedTells`). Assumed is that the claims of a company are a
sequence. The plans of the parser name sites it was given (`PlannedInv`), which is the site of the row and what the
gate opened.

`ReviewInv`: slots are taken before a question is asked, so the counts of the company and the run bound each
other with what other companies asked (`Budgeted`); `next` separates the records that have an outcome (`Done`) from those
that have none; and the cards are, at every moment, those of the records. With the model switched off a record of an
untrusted site is told that the model is off, not that its site is not trusted, as in the code; it is never sent.

`DocumentInv`: `Filed` relates the queue, a record of sets and counters, to the entries made of it, which are its
ledger: urls, checksums, slots, slots by type and bytes are those of the entries kept, no checksum is kept twice, a
duplicate has an earlier original. Bytes are added along the ledger (`IsCharge`), and a charge is unique, so the sum of
the property is that of the queue. A step is reduced to one document: each candidate `Settles` the queue, keeps nothing
or its first entry alone, of a new url and a new checksum (`SettlesFiled`). Unpacking is a recursive function of the archive;
`UnpackTells` says that what comes of it lies at most at the depth limit. Both, and the folds over candidates, are
reasoned about by the least counterexample (`LeastExists`), as the memory is.

Model-checked only: liveness (`Termination`, `EveryWaitEnds`, `RunEnds`, `EventuallyAllStored`, `EventuallyPublished`), since
proofs under fairness and `ENABLED` are out of the prover's reach; and `CrawlAccounted`, which counts the routes of a plan
as a bag that selection, budgets and skips divide. The ledger theorems without retries are not claimed with them: a retry announces again, and
the finding of `ledger_stale` is a stale result. Induction with an operator as parameter is out of the prover's
reach; where a theorem needed what a fold computes, it was proved by the least counterexample instead: the breaker a memory
teaches, the document queue, unpacking, records drawn from sites. What sorts and plans compute for every
input was not proved.

## 6. Not modelled

`PROJECT.json` lists each component with the reason. Content is not the subject: what patterns find in a text, how
addresses and names are matched, what a report looks like; the models take what they find as marks, weights or claims.
The fields by which procedure records prefer one kind of source (`procedures.py:355-368`) and fall back on a guess of the
section (`assembly.py:662`) are among it.
Left out of components that are modelled in part: argument and input parsing; export and host statistics of the
progress store, and its upgrade of legacy states; durations in telemetry; the reprocessing and the legacy layout of
dossiers; the conversion of documents and OCR (external tools); prompts and fixtures of the model; the polling of the
captcha service. `_consume_aggregator_site_work_unit` hands over to its second version in its first statement, and what
follows it (`run_company_enrichment_pipeline.py:2127-2355`) is never reached. The scripts run outside the pipeline.

Named as hazards without a property that holds: a crash in the reset of a fresh run, a torn line of the event log, the
exports of a run stopped early, the site of the row that passes by the gate, the failover of the client through an avoided
proxy, and a promoted result without a dossier.
A torn line of the outbox is not modelled: its reader refuses it by design.
