# A TLA+ model of the INSSA QA execution platform

The repository runs QA campaigns (Playwright suites, security and
authentication checks) against external sites. Its program logic is the
*dashboard*: a Next.js application that accepts campaign requests, a durable
queue, a worker that runs one campaign process at a time, a scheduler, an
evidence store with retention and migration, e-mail alerts, a ledger of what
campaigns leave behind on the staging system, the commands that start and build
the dashboard itself, and an operator console in the browser. This directory
models that logic in TLA+, checks it with TLC and proves parts of it with TLAPS.
Paths below are relative to `src/dashboard/` unless they begin with `src/`.

## 1. Inventory

| Component | State | Operations | Talks to |
|---|---|---|---|
| Execution job store (`lib/inssa-ops/execution-job-store.ts`, SQL `poll_inssa_execution_job`) | table `execution_jobs`: status, attempt, owner, lease, idempotency key | enqueue, poll (recover + claim), recoverAbandoned, markRunning, heartbeat, complete, look-ups | requests, workers |
| Campaign request (`runner.ts` startInssaPhase1Run) | one run record per request | look up key, create run, enqueue, fail | run store, job store |
| Worker loop and recovery (`scripts/inssa-worker.ts`, `execution-recovery.ts`) | local: recovered jobs, claimed job | startup reconciliation, poll, reconcile, execute | both stores |
| Campaign runner (`runner.ts`, `evidence-safety.ts`, `process-tree.ts`) | local: verdict, lease signal; a detached process group | mark, start, spawn, wait, assert ownership, index, publish, final write, complete, catch | both stores, the process |
| Lease heartbeat (`execution-lease.ts`) | timer, failures in a row | beat, fail, abort, stop | job store, runner |
| Local file lock (`local-file-lock.ts`) | a lock file beside each JSON snapshot | create, stat, remove stale, release | every local store |
| Run store (`run-store.ts`) | runs, logs, artifacts, evidence | create, update (full row), append log, replace evidence | runner, request, API |
| Scheduler (`lib/monitoring/scheduler*.ts`) | occurrences with owner and lease | evaluate, claim occurrence, enqueue, mark | request path |
| Evidence retention (`retention-executor.ts`, SQL) | occurrences, reservations, leases, intents, counters | claim, plan, reserve, remove, settle, recover, finish | objects, records |
| Historical evidence migration (`historical-evidence-migration.ts`, SQL) | ledger of each bundle, operator lease | plan, copy, verify, switch, verify, preserve, roll back, resume | objects, records |
| Production login alerts (`lib/monitoring/…`, `notification-delivery.ts`, SQL) | incident, outbox rows, delivery leases and attempts | record once, evaluate, claim, send, finish | e-mail provider |
| Cleanup ledger and live campaigns (`cleanup-ledger.ts`, `cleanup-manifest.ts`, `live-campaigns.ts`) | ledger records, manifests in run rows, audit events | gate, publish, initialize, audit, resolve, confirm | request path, worker, administrators |
| Process supervision (`scripts/dashboard-*.mjs`) | runtime lock directory, `.next`, children | dev, start, build, clean, doctor, signals | the shell |
| Operator console (`components/inssa-ops-client.tsx`, `terminal-run-detail-cache.ts`) | run list, selection, detail, request sequence, cache, pending requests | poll, select, load detail, refresh, start, attest | API |
| Campaign scripts and specs (`src/scripts/inssa`, `src/tests/inssa`, `src/pages/inssa`) | flags of a creation spec, phases of the network monitor, result file, summaries | create, discover, share, probe, verdict | the product, the worker |

Everything else (storage HTTP clients, artifact indexing, rate limits, the other
API routes, authentication result parsing, ingestion service, SIEM export, load
tests) is I/O, formatting or test code and is listed as not modelled in
`PROJECT.json`, each with its reason.

What is hard in this code:

* *No transaction joins the two tables.* A run record and its job are written
  by separate calls, from the request, the worker and the reconciler; a run's
  row is written back whole.
* *The job store checks only `claimed_by`*, never status or expiry, so its
  consistency rests on what a worker's session does and when. Occurrence marks
  do not even name their claim.
* *Leases expire while workers live*: a slow host or an unreachable store.
* *Replies are lost*: a call, a deletion, an e-mail may have been applied and
  still throw.
* *Workers die*; the campaign's process group is detached and survives them.
* *Lock files and directories go stale* and are removed by name.
* *Retention and migration share objects*, under database triggers that both
  must pass.
* *An alert is known to have been delivered only later*, possibly after the
  incident is over.
* *A browser sees only replies*: neither the console nor a campaign knows what
  the other side has stored, in which order, or for which request.

What makes each part correct: one campaign at a time; a campaign that started
is never started again; every job leaves the slot; a passed run is backed by a
process that passed; a campaign does not outlive its lease; no update of a
snapshot is lost; an occurrence starts at most one campaign; a bundle of
evidence is whole until its deletion begins, and is counted once; one e-mail per
alert, recoveries exactly for alerted incidents; what a campaign left behind
blocks the next one until it is attested; one command owns the runtime
directory; the console never shows one run as another; a live campaign passes
only when its capsule exists, and accounts for it when it may.

## 2. Modules

```
CampaignSlot            what the queue promises (abstract)
   ^ implemented by
ExecutionJobs           the job table and the sessions of its workers
   ^ EXTENDS (shared variables), implemented by
CampaignExecution       request + worker loop + runner + process group

EvidenceBundle          what becomes of published evidence (abstract)
   ^ implemented by
Evidence                EvidenceRetention and EvidenceMigration,
                        both over EvidenceRecords

LeaseHeartbeat          one session's heartbeat loop with explicit time
LocalFileLock           the lock below every local store
Scheduler               evaluation loop + occurrence claims + request path
ProductionAlerts        incidents, outbox, dispatchers, e-mail provider
CleanupLedger           gate, worker's publication, ledger, administrators
DashboardRuntime        runtime lock, commands, supervisor, .next
OperatorConsole         run list, detail pane, cache, answers in any order
LiveCampaign            creation spec, campaign scripts, cleanup manifest

*_proofs                theorems, by component; MC*: instances for TLC
  CampaignExecution_proofs  the job store and the campaigns that use it
  SingleWriter_proofs       LocalFileLock and LeaseHeartbeat
  OperatorClaims_proofs     LiveCampaign and OperatorConsole
```

### ExecutionJobs

`status`, `attempt`, `maxAttempts`, `claimedBy`, `lease`, `keyOf` are columns of
`execution_jobs`. `lease[j]` counts down to the expiry, `Tick` is the passing of
time; because nothing but the difference to *now* is ever compared, no clock and
no clock bound is needed. `holds` and `stage` are the session of a worker, that
is what `executeClaimedInssaJob` knows: `claimed` before `markRunning`,
`running` after it, `closing` once `complete` was sent and heartbeats still run.
Each owner's update is refused when `claimed_by` is somebody else (`Owns`),
nothing more, as `updateOwned` and the conditional PATCH do. `PollClaims` is the
whole transaction: it recovers every expired job and claims. `CompleteAgain` is
the catch block after a lost reply. `EndSession` covers all ways a session
stops without writing, a crash included. Enqueue is atomic here, as the local
store and the unique indexes make it; its separate reads are in
CampaignExecution.

`started` is a history variable. `OneActiveJob`, `NoStuckSlot`,
`RunningNeverRetried`, `SoleExecutor` and `SessionsAgree` form the inductive
invariant. `SessionsAgree` is the one that is not visible in any line: although
the store does not look at the status, an owner's update always finds the status
its session expects, since recovery clears the owner in the same step.

### CampaignExecution

It extends ExecutionJobs: its actions contain those of the store (`JobsInit`,
`JobsNext` and `JobsSpec` are the store's own), so both work on the same
variables. It adds the run records (`run`, `begun` = `startedAt` set), the request (`post`,
`wanted`), the program counter of each worker (`step`) with its local variables
(`todo`, `target`, `verdict`), the abort signal (`aborted`) and the process
groups (`live`). Run and job share an id; a run has at most one job
(`run_id unique`). One action per awaited call: for instance the final
ownership assertion (`AssertSafe`), the write of the final status (`Final`) and
`complete` (`Complete`) are three steps with everything else between them.
`passed_with_warnings` is `passed`. `cancelled` is written by no code of the
path. The evidence steps between indexing and the last assertion write no
status and run under the same assertion, so they are the one step `publish`.

The variable `hazards`, fixed at the start, is what may go wrong around the code: `crash`, `fault` (a
store call throws, applied or not), `stall` (a lease expires under a live
worker) and `survivor` (a process group survives SIGKILL). The constant
`HazardSets` gives the choices; a property that needs an undisturbed execution
says `hazards = {}`.

`ImplementsExecutionJobs` (`JobsSpec`) states that workers, with all their
error paths, use the job store only as ExecutionJobs allows, so what is proved
there holds here.

### LeaseHeartbeat, LocalFileLock

LeaseHeartbeat has time in ticks and the delays that the code bounds as
parameters: lease, interval, failure limit, request timeout and termination
grace. Time may not pass a due beat, a timeout or the end of the grace. The
session's calls between `markRunning` and the loop (runner.ts:141-148), and
between the loop and the spawn, have no timeout, so `StartLoop` and `Spawn` may
come at any time, after the lease has run out too. `lease` is what the store
holds; the Supabase client computes the new lease before it sends the request
(`Computed`), and a request that timed out is one of the `strays` that may still
reach the store after newer ones. `Recover` takes the job away once the lease is
0: from then on the store refuses heartbeats, which is fatal, and the campaign
may have a successor. Two history variables say what the properties need:
`covered` (the loop has renewed the lease, no stray has shortened it since, and
the campaign was not spawned after the abort) and `overlap` (how long the
campaign has lived beside a possible successor). `ContractAssumption` is
`validateContract`.

LocalFileLock models each file operation as a step: exclusive create, stat,
unlink by name, read, rename. Stat and unlink of `removeStaleLock` are separate
steps, as is the `finally` block, which unlinks whatever has the lock's name.

### Scheduler

One definition, its numbered occurrences (`due` is the latest), the row of each
occurrence (`status`, `claimedBy`, `age` of `updated_at`, `runId`) and, for each
scheduler process, where it is in `evaluateSchedulerOnce` (`pc`), its caches
(`cached` definition, `terminal` occurrence) and the run it is enqueuing
(`mine`, `result`). `claimOccurrence` of the Supabase store is a read followed by
an insert or by a PATCH conditional on `updated_at`; the condition is the set
`current` of schedulers whose last read of their row is still accurate, which any
write to the row empties. The enqueue is modelled call by call: reload of the
definition, `listRuns`, key look-up, `createRun`, the two look-ups of `enqueue`,
the insert under its two unique indexes, the `failed_startup` of the catch
block, the mark. A claim is not renewed and a mark does not name its claim, so a
*stalled* holder and its successor may both be at work.

The worker is reduced to what the scheduler sees of it: a run ends, then its job
completes (`EndRun`, `CompleteJob`, the order CampaignExecution shows). A manual
request is accepted in one step. Which minute an occurrence belongs to
(`evaluateSchedule`) is not modelled. `skip` is the only `runPolicy` the code
tells apart, so `allow_parallel` and `retry` behave as `one_active_run`.

### EvidenceRecords, EvidenceRetention, EvidenceMigration, Evidence

One published bundle. EvidenceRecords has the records (`status`, `place` that
they name, `hold`, `aged`), the objects at both providers (`source`, `copy`) and
the database triggers that every writer passes; a transaction takes the advisory
lock first and is one step. EvidenceRetention is `executeRetention` and the
retention functions: an occurrence is claimed, plans against a snapshot that may
be stale (`current` tells whose is not), reserves, removes objects one call at a
time (`flight` are the calls not answered), proves their absence, settles.
EvidenceMigration is `migrateEvidence` and `evidence_migration_step`, with every
failure, resumption and rollback; `ledger` is its row, `owner` and `leased` its
lease. Evidence joins them and implements EvidenceBundle: kept, being deleted,
gone, whole until then. `outlived` is set when a removal is still in flight when
its lease ends: the provider may apply it later.

### ProductionAlerts

A run's result is evaluated by a worker that claims the row `observed`; a
failure opens or continues the incident and inserts `failed`, a pass closes it
and inserts `recovered` if the failure was delivered. Rows are claimed under a
token (the attempt count), sent with an idempotency key that the provider
remembers for `KeyLife` ticks, and finished under the token, in any order with
later evaluations: `Following` is the recovery that a late delivery must still
produce. A tick is the retry poll of five minutes; seconds lie between ticks.

### CleanupLedger

`row` is a run record as far as cleanup is concerned, `ledger` the status of each
object's record, `audited` the audit events, `left` what each campaign really
left on the staging system. A request reads ledger and runs, judges them
(unresolved objects, manifests, limit; `policy` is the mode) and creates its run
in later calls. The worker publishes the manifest into the run, then the ledger
records one by one. `overtaken` is history: the requests that were between their
check of the active job and their own job while another run's campaign ran. An administrator's confirmation writes audit event, record
and manifest in this order, each by its own call. `updateRun` reads a row and
writes all of it back.

### DashboardRuntime

Each file operation on the lock directory is a step (make, write the owner,
read, stat, unlink, remove), each command a process that another shell's may
interleave with, and any process may be killed, its children surviving it.
`raced` becomes true when a lock is made, or thirty seconds pass, under a command
that is looking at it: the code cannot tell these cases apart, and the
properties say what holds short of them.

### OperatorConsole

The list and the detail are requested independently and answered in any order or
not at all. A detail request carries the sequence number and the run of its
start (`IsCurrent`), an answer goes into the cache when the list called the run
terminal, and a forced refresh invalidates what is in flight. A `Select` is the
render with the new selection; its effect runs later. The cache is the Map of
the code as the sequence of its entries, oldest first; `Without` is the deletion
of a run's entry, of which there is never more than one (`OnePerRun`).

### LiveCampaign

The product's state (`draft`, `final`, `picture`, `revealed`) is what the browser
cannot see; `answered` holds the phases in which successful replies arrived.
Each step of the creation spec may throw, the click may be dispatched and still
throw, the process may be killed before it writes the result file. The lifecycle
script judges exit status and file, then runs the discovery and the public share
spec; the security script reads the schedule, may wait, probes the routes and
gives its verdict; the worker derives the manifest. A reveal-later test may fail
after its file is written, and that file may still be `Resumable` by a later
campaign: each script asks for different fields (`Usable`, `Accepted`). The text, media and
reveal-later specs differ in when they set their flags and phases, which is what
the conditions on `kind` are. The properties leave out one case that the code
does lose, named `Hidden` (see the known limits).

## 3. What the runs check

| Run | Instance | Shows |
|---|---|---|
| MCExecutionJobs | 2 jobs, 2 workers, 2 keys, lease 2, limits 1 and 2 | SoleExecutor, refinement of CampaignSlot, EveryJobSettles |
| MCCampaignExecution | 2 requests and 2 workers without hazards; 1 request, 2 workers and all hazards | ImplementsExecutionJobs, SpawnedOnce, OwnerEndsRun, PassedRan, EveryRunEnds, StartupReconciles; NoOverlap and EndedRunIsFinal without hazards |
| MCLocalFileLock | 3 clients; no hazards, and crash + slow | NoLostUpdate (without hazards), EveryUpdateEnds |
| LeaseHeartbeat | the defaults in 5 s ticks, setup of any length | GoneBeforeExpiry, OverlapBounded |
| MCScheduler | 2 schedulers, 1 occurrence, 2 run ids; no hazards, crash + fault, and stall too | OneJobPerOccurrence, NoStaleEnqueue, SettlesWithoutHazards |
| MCEvidence | 2 objects; 2 operators, or 1 beside an occurrence, or 2 occurrences, or a rollback beside one | Readable, SourceKept, ReclaimedOnce, RemovalCovered, refinement of EvidenceBundle, OccurrenceCloses |
| MCProductionAlerts | up to 4 runs, 1 or 2 dispatchers, 2 attempts | OneEmail, RecoveryEarned, RecoveryReported, EveryNotificationEnds |
| MCCleanupLedger | 2 requests, 2 administrators, 1 configured record, limit 3 | ObligationKept, StartsAccounted, ResolutionEarned |
| DashboardRuntime | 2 shells, any command, 2 children | OneOwner, ServedBuild, EveryCommandAnswers |
| MCOperatorConsole | an ended run and one to be started, 2 requests in flight | ShowsSelected, ForgottenAnswers, RestsOnTheEnd |
| LiveCampaign | text, media and reveal-later, both cleanup modes, 2 routes | PassedPersisted, CapsuleAccounted, VerdictEarned |

Bounds. Two jobs and two workers give every race over the slot and over a job:
an old and a new owner, a reconciler beside the owner, two requests with equal
or different keys. The limit 2 gives one retry, the limit 1 none. A lease of one
tick is enough for expiry at any point, since ticks interleave with everything;
two ticks let a renewal differ from a fresh lease. With hazards one campaign is
enough, as the properties checked with them relate a run to its own job and
process; two would make the state space too large. Three clients of a lock are
the dead holder and the two waiters. In LeaseHeartbeat a tick is 5 s: lease 24,
interval 3, limit 3, request timeout 2, grace 6; the setup is not bounded, as
the lease stops at 0, and the bound of OverlapBounded, 17 ticks or 85 s, is
reached. Two schedulers are the holder of a claim and
whoever takes it over; the second run id is the manual run or the other
scheduler's run. An edit, a manual run and the `skip` policy are explored in the
undisturbed executions of MCScheduler, where the bounds `MaxEdits` and
`ManualRuns` are 1. Two objects make a deletion and a copy that stop half way,
two occurrences the recovery of one by the other. MCEvidence, MCCleanupLedger
and MCProductionAlerts take their initial states in parts, each of which has one
kind of interaction; their headers say which. In MCProductionAlerts two attempts
are the first and the last one, and `Budget` < `KeyLife` is the assumption the
code states. Two shells are an owner and one that inspects it. In
MCOperatorConsole two requests in flight overtake one another, `MaxLists` = 1
(one list request), `MaxConfirms` = 1 (one attestation, so the rows have at most
one version after the end) and a cache of one entry (10 in the code) make
eviction and replacement happen; requests are symmetric, as no liveness is
checked. In LiveCampaign one draft and one final write are all that a creation
makes; two routes are one with a token and one without, which is the distinction
that the verdict makes. Deadlock checking is off where the system stops: the job
ids or occurrences are used up, or every client has ended.

| Refuting run | Statement | What happens |
|---|---|---|
| MCSchedulerOrphan | src/docs/scheduler-trigger.md:46 and 48: a prevented occurrence is retried, a restart reclaims | a crash between `createRun` and the job insert leaves a queued run without a job; it counts as active, nothing ends it, and every later evaluation is deferred |

Next to an operation the modules keep a *seeded fault* (or mutant), an altered
form of it that a property must catch; `PROJECT.json` pairs them.

### Fairness

Time passes. In ExecutionJobs some worker keeps polling (the supervisor restarts
the platform when a worker exits) and a session ends: every command has a
timeout after which its group is killed. In CampaignExecution each request and
each worker keeps executing, a campaign process ends, and nothing is assumed
about hazards. EveryRunEnds is therefore stated up to the death of a worker,
and StartupReconciles says what a restart repairs. In Scheduler a started process
goes on, an evaluation with the stored definition happens again and again (the
cache is reloaded after ten minutes), time passes and the worker finishes its
jobs; starting a process is not assumed, so the liveness properties ask for a
scheduler that stays alive. In LocalFileLock a client keeps executing and its
deadline, checked again and again while it waits, is strongly fair. In Evidence
an executor that lives goes on, and neither time nor operators are assumed to
act. In ProductionAlerts the dispatchers poll and time passes. In
DashboardRuntime a process takes its next step and a child that was sent SIGKILL
exits; no child is assumed to obey SIGTERM. LeaseHeartbeat, CleanupLedger,
OperatorConsole and LiveCampaign have only safety properties: a browser may be
closed and an administrator may never come.

## 4. What is proved

For every value of the constants that satisfies the assumptions named in the
modules:

* `CampaignExecution_proofs`, first the job store: `JobInductive` (each action
  preserves `JobInvariant`) gives `JobSafety`, and with it JobTypeOK, OneActiveJob,
  NoStuckSlot, RunningNeverRetried, SoleExecutor, LeaseRespected, TerminalIsFinal,
  and `JobsImplementSlot`, the refinement of CampaignSlot. Why the strengthening is
  needed: RunningNeverRetried is disturbed by `MarkRunning` of a former owner
  unless SessionsAgree ties the owner to the status; OneActiveJob is disturbed
  by a late update of a terminal job unless the same holds; a recovered job is
  claimable only with NoStuckSlot. `RecoveryFacts` states what recovery does to
  one job and is used by the three actions that contain it.
  Then the campaigns: `StoreStep` shows that every step of requests, workers and
  processes is a step of the store or leaves it alone, which is
  `CampaignsImplementJobs` and makes JobInvariant available. `CampaignInvariant`
  adds two halves. `Disturbed` holds through every hazard: a worker's place in the
  code fits its session (StepFits), what it recovered it still has to reconcile
  (Reconciling), a session past markRunning has its job to finish (Unfinished), the
  run ends before the job does and no verdict is earned without a process
  (Progress), and a run has at most one process group and one end of it (Spawned,
  Requested). With it come SpawnedOnce, OwnerEndsRun and PassedRan. SpawnedOnce needs
  most of it: a second spawn would be that of a second session, which JobInvariant
  excludes only for sessions past markRunning, so Progress must say that nobody has
  spawned before. `Undisturbed` holds while hazards = {}: no worker fails or loses
  its job (Quiet), only the owner ends a run (Open), an active job has its session
  and a lease that is never spent (Attended), a run is its request's alone until
  its job is inserted (Untouched), and a process lives only while its worker waits
  for it (Watched). NoOverlap and EndedRunIsFinal follow.
* `SingleWriter_proofs`: `LockSafety`, `MutualExclusionHolds`,
  `NoLostUpdateHolds`, for executions with `hazards = {}`. The invariant: whoever
  is inside is the creator of the present file, nobody is about to unlink it, and
  a copy that will be written back equals the snapshot.
  For the heartbeat `BudgetSafety` has two budgets under every accepted contract:
  what a covered lease still holds, and how long a campaign has been without its
  slot, both counted by the failures so far. `OverlapBoundedHolds` follows from
  the second without a further assumption: a campaign that has lost its slot is
  gone after limit * max(interval, request) + request + grace, because no beat
  can be healthy any more. `GoneBeforeExpiryHolds` follows from the first and
  `SufficientContract`: limit * max(interval, request) + request + grace < lease.
  The defaults satisfy it (3 * 15 + 10 + 30 s < 120 s); `validateContract` tests
  a weaker condition.
* `Scheduler_proofs`: `EnqueueSafety` from `EnqueueInductive`, and with it
  `OccurrenceRunsOnce` and `LedgerIsHonest`, with every hazard. OneJobPerOccurrence
  alone is not inductive: the insert must not give a key to a run that has a job
  already, so OwnRun says that the run in a scheduler's hands is open and jobless
  and DistinctRuns that nobody else has it; QueuedHasJob (a row that says queued
  has its job) needs MarkHasJob (who is
  about to write "queued" has seen the job) and that keyed jobs never vanish.
  `NoStaleEnqueueHolds` is a second argument: SeenBounded says that no scheduler
  has seen an edit that has not happened, so an edit always makes `seen` old.
* `Evidence_proofs`: `EvidenceSafety` (types, Readable, SourceKept and what they
  need: one leased occurrence, requests in flight belong to the intent, the
  migration ledger agrees with records and objects), `RemovalCoveredHolds`, and
  `EvidenceImplementsBundle`. The gate in the triggers is what keeps LedgerAgrees
  and FlightOwned from disturbing each other. `ReclaimedOnceHolds` is an argument of
  its own (`ReclaimInvariant`): the counted objects can be divided among the
  occurrences, the parts are disjoint, and what the present attempt is charged with
  is in none of them. A reservation charges what is present, so nothing that was
  counted; recovery and settlement move a part of the charge to an occurrence and
  empty it. Nothing is counted before a deletion begins, and afterwards no operator
  moves the records to the other place, where the objects would be present again.
* `ProductionAlerts_proofs`: `AlertSafety`, with OneEmail, RecoveryEarned and
  RecoveryReported, for any number of runs and dispatchers. OneEmail rests on an
  invariant that relates a row's age, its attempts and the provider's memory:
  while a row may be claimed its key is known. Assumption: `Budget < KeyLife`.
* `CleanupLedger_proofs`: `CleanupSafety`, with ObligationKept and
  ResolutionEarned. A row is *honest* when its manifest names everything the
  ledger has not yet taken over; the invariant carries this through the stale
  copies that `updateRun` and the confirmation hold.
  `RequestSafety` follows a request from its first read to its job: the ledger it
  has read is *earlier* than the present one (records were completed, configured
  ones added, objects of ended campaigns recorded since), the rows it has read are
  still honest, and what it was admitted with in enforced mode stays true.
  `GateTells` is the step from the two reads to the store: a record that appeared
  between them would have made its run an issue. `StartsAccountedHolds` follows, for
  the requests that no campaign has overtaken (see the known limits); `CampaignsOvertake`
  says that nothing a campaign leaves is new to the others. It rests on finitely
  many runs and objects, because the gate counts them.
* `DashboardRuntime_proofs`: `RuntimeSafety` and `OneOwnerHolds`, for any number
  of shells: before `raced`, only one maker is between mkdir and its owner file,
  and whoever is about to remove the lock has read a dead owner that is still
  named.
  `ServedBuildHolds` follows from it, as every command that writes .next owns
  the lock while it does, and a command in "serving" does too.

* `OperatorClaims_proofs`, for LiveCampaign: `LiveSafety`, with PassedPersisted and
  CapsuleAccounted, and `VerdictEarnedHolds`, for any set of routes. PassedPersisted
  needs what the spec knows at each step (`SpecKnows`: which phases it may have
  finished, when the final write may have been sent, that its file says no more than
  it knew) and that later stages only follow an exit (`InTurn`, `ShareHasLink`).
  VerdictEarned needs `ProbesTell`: until the reveal, what the answered probes saw is
  exactly the routes among them that leak.
  For OperatorConsole: `ConsoleSafety`, with ShowsSelected and ForgottenAnswers, and
  `RestsOnTheEndHolds`, for any number of runs and requests in flight and any cache
  limit. Versions order everything: nobody knows a later version than the server
  (`NotAhead`), an answer is no older than the summary it was asked for
  (`AnswersNewer`), what is awaited was not forgotten (`Awaited`). RestsOnTheEnd looks
  like a liveness property but is an invariant once `EndIsComing` says that the end
  is on screen or that the awaited answer cannot be older than what the list shows.

Every invariant and every action property that a run checks is proved, as are both
refinements of an abstract specification and that of the job store. Each inductive
invariant was checked on the run's instance before it was proved.

Only model-checked: liveness, that is EveryJobSettles, EveryRunEnds,
StartupReconciles, EveryUpdateEnds, SettlesWithoutHazards, OccurrenceCloses,
EveryNotificationEnds and EveryCommandAnswers, which with ENABLED is beyond the
prover; that MCSchedulerOrphan is violated; and that an instance reaches every action.
A sum over the occurrences would be a recursive function, about which the
installed provers cannot argue; ReclaimedOnce says the same by parts: the objects
that are gone can be divided so that each occurrence counts as many as its part has.
Several facts are proved that no run checks by itself, as the runs'
refinements contain them: OneActiveJob, NoStuckSlot, RunningNeverRetried,
LeaseRespected, TerminalIsFinal, MutualExclusion; and QueuedHasJob.

## 5. Not modelled, and the plan

Not modelled: storage HTTP clients, artifact indexing, result parsing, rendering,
the ingestion service, the SIEM export and the load tests (input to output,
without state of their own worth a model); the rate limit (one counter in one
transaction); calendar arithmetic and backoff (pure functions with unit tests);
the cross-user and security-verification campaigns, whose legs repeat those of
LiveCampaign.

Next: `RunLog` (Supabase log sequencing, the rejected log chain); an abstract
specification of the cleanup obligation (owed, recorded, resolved) with
CleanupLedger shown to implement it, and one of an alert (open, told, over, told)
for ProductionAlerts; the cross-user campaign.

### Known limits

Behaviours that the modelling brought to light, or that a reader should not take
to be excluded:

* *Requests.* Two requests with one key may both pass the first look-up; the
  loser's run stays queued without a job (src/docs/worker-operations.md:42 against
  runner.ts:84). A stall between the last ownership assertion and the final
  `updateRun`, which takes no owner, lets a stale worker write over a recovered
  run (runner.ts:474); the reconciler may as well write over a run that a stalled
  worker finishes between its read and its write (execution-recovery.ts:18 and
  :35). Both happen in CampaignExecution. A store error right after the spawn fails and completes
  the job with the child alive, so another campaign can start beside it
  (runner.ts:206 and 320); so can a crash or a stall. NoOverlap and
  EndedRunIsFinal are therefore stated without hazards.
* *Worker.* A process that leaves its group and keeps a pipe open would keep
  `await completion` waiting, which the model excludes by letting every campaign
  end; a rejected log append is a worker's death here, without its cause.
* *Heartbeat.* `validateContract` accepts configurations in which the request
  timeout and the grace exceed the lease (execution-lease.ts:73). Under any
  configuration the lease may run out before the loop has renewed it, because the
  calls before it have no timeout (runner.ts:141-148, notification-outbox.ts:141-152,
  run-store.ts:700-701), and a heartbeat that was given up after 10 s may be
  applied after a newer one and shorten the lease (execution-job-store.ts:317-322).
  GoneBeforeExpiry does not hold there; a campaign may then run beside another, for
  no longer than OverlapBounded says. The model assumes that the worker lives and
  its timers fire when they are due, that the liveness file takes no time, and that
  the process group is gone after SIGKILL within the grace.
* *Scheduler.* The mark calls name the row, not the claim (scheduler-store.ts:262):
  in MCScheduler's instance a former holder's late markFailed overwrites a row that
  the new holder has marked queued, and a lost insert reply leaves one that says
  failed with its job queued. What is promised is that the occurrence gets no second
  job.
* *File lock.* Two waiters may remove one stale lock, the second of them the
  first one's new lock (local-file-lock.ts:34), and a holder slower than 30 s
  loses its lock to a waiter: updates are lost in LocalFileLock with these hazards,
  so NoLostUpdate is stated without them.
* *Alerts.* An observation whose three attempts fail is never evaluated; an alert
  delivered after the next incident was opened gets no recovery; mail accepted
  with its reply lost on the last attempt leaves `alerted` false. The model
  assumes that no dispatcher stalls for a whole tick between claim and request,
  and that the provider remembers keys for 30 minutes.
* *Cleanup.* Snapshot and start are separate calls, with nothing that ties the
  start to what was read. StartsAccounted therefore leaves out the requests that a
  campaign has overtaken: without that condition there is an execution in which
  request b reads ledger and runs, a is queued, its campaign creates an object and
  dies, recovery frees the slot, and b is queued although a's object is recorded
  nowhere.
  A request that loses the slot, a campaign that created nothing, a resumed
  reveal-later run and a worker that dies before publication leave a manifest
  without ids, which blocks the enforced gate and cannot be confirmed. Unknown
  objects pass in deferred mode (cleanup-manifest.ts:28), and the limit can be
  exceeded by one campaign's objects. Age and daily limits, account flags and
  local manifests only refuse more and are left out.
* *Runtime.* With `raced` two commands can own the directory (src/docs/dashboard-runtime.md:31
  excludes it). A signal before the handlers are installed leaves a stale lock; a
  killed build's orphans still write `.next`; process ids are not reused.
* *Console.* The refresh that follows a start or an attestation raises the
  request sequence for whatever run it is called with (inssa-ops-client.tsx:1128);
  coming after the operator selected an ended run, it silences that run's request
  and leaves the pane blank, although src/docs/stabilization-wave-2-efficiency-2026-09.md:19
  says that selecting a run loads it: hence `~late` in RestsOnTheEnd. The four
  answers that make a detail are read separately, so files may be older than the
  row; runner.ts:492 appends a log line after the terminal write, so a cached
  detail may lack it. Only the row is modelled, with one active version; the
  other panels take the latest answer and are left out.
* *Campaign scripts.* The schedule is read before the wait
  (run-reveal-later-security-campaign.js:116): with a wait configured the
  *before* probes run after the reveal, and a correct product is reported as
  leaking; an elapsed or unknown schedule with visible content is always a
  failure, so the resumed verification of src/docs/inssa-siem-runbook.md:200 is
  out of reach. Failed probes count as hidden, and probes after the reveal are
  not judged. VerdictEarned is stated where none of this applies. In the media
  and video campaigns a click that is dispatched but throws, or a capsule without
  an id in deferred mode, leaves a manifest that names only the picture and is no
  longer pending: the case `Hidden`. `video` is treated as `media`.
