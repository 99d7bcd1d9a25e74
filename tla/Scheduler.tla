------------------------------ MODULE Scheduler ------------------------------
(***************************************************************************)
(* The scheduler trigger: evaluateSchedulerOnce for one definition, over   *)
(* the occurrence ledger (scheduler-store.ts, the calls of the Supabase    *)
(* backend), and startInssaPhase1Run, which it calls, over the run and the *)
(* job tables.  Several scheduler processes may live at once: `start`      *)
(* hands the ownership over, and the old owner learns of it when it writes *)
(* its status.  Occurrences are numbered in the order they fall due.       *)
(* hazards: "crash", "fault" (a call throws; of the two inserts also after *)
(* they were applied), "stall" (a claim outlives its lease while its holder*)
(* is at work).  An id is a process: one that is started again is a new one*)
(* whose id is used again when nothing but the ledger remembers it.        *)
(***************************************************************************)
EXTENDS Integers

CONSTANTS Schedulers, NoScheduler,
          LastOccurrence,   \* occurrences considered
          Lease,            \* OCCURRENCE_CLAIM_LEASE_MS in ticks
          Runs, NoRun, ManualRuns,
          Configs, Off, Unloaded, MaxEdits,
          Policies,         \* values of runPolicy; only "skip" is told apart
          HazardSets

ASSUME SchedulerAssumption ==
  /\ NoScheduler \notin Schedulers /\ NoRun \notin Runs
  /\ LastOccurrence \in Nat /\ Lease \in Nat /\ MaxEdits \in Nat /\ ManualRuns \in Nat
  /\ Off \notin Configs /\ Unloaded \notin Configs \cup {Off}
  /\ Policies \subseteq {"one_active_run", "allow_parallel", "queue", "skip", "retry"}
  /\ HazardSets \subseteq SUBSET {"crash", "fault", "stall"}

VARIABLES
  due,      \* the latest occurrence that has fallen due, 0 before the first
  config,   \* the stored definition, Off while it is disabled
  edits,    \* how often it was edited
  policy,   \* its runPolicy
  status, claimedBy, age, runId,  \* monitoring_schedule_occurrences; age: of updated_at
  current,  \* schedulers whose last read of their row is still accurate
  run,      \* status of each run: none, open, ended
  job,      \* status of its job: none, active, done
  key,      \* occurrence in the job's idempotency key, 0 for a manual run
  manual,   \* manual runs so far
  owner,    \* scheduler_id of the runtime status
  pc,       \* where each scheduler is
  at,       \* the occurrence its evaluation is about
  cached,   \* the definition in its cache
  terminal, \* the occurrence it caches as ended, 0 if none
  mine,     \* the run it created or was given
  result,   \* the outcome of the enqueue, until it is recorded
  seen,     \* number of edits when its evaluation began
  hazards   \* what can go wrong in this execution

worldVars == <<due, config, edits, policy, manual, hazards>>
rowVars == <<status, claimedBy, age, runId, current>>
runVars == <<run, job, key>>
evalVars == <<at, cached, terminal, seen>>
callVars == <<mine, result>>
vars == <<worldVars, rowVars, runVars, owner, pc, evalVars, callVars>>

Occurrences == 1..LastOccurrence
Settled == {"queued", "skipped"}
Enqueuing == {"byKey", "byActive", "insert"}
Handling == {"reload", "reject", "list", "lookup", "create", "fail", "mark"} \cup Enqueuing
Reading == {"claim", "add", "takeover", "reread"}
Pc == {"off", "idle", "record"} \cup Handling \cup Reading

Status == {"none", "claimed", "failed"} \cup Settled
Result == {"none", "deferred", "failed"} \cup Settled

Init ==
  /\ due = 0
  /\ config \in Configs \cup {Off}
  /\ edits \in 0..MaxEdits        \* what was used of a bound before
  /\ policy \in Policies
  /\ status = [o \in Occurrences |-> "none"]
  /\ claimedBy = [o \in Occurrences |-> NoScheduler]
  /\ age = [o \in Occurrences |-> 0]
  /\ runId = [o \in Occurrences |-> NoRun]
  /\ current = {}
  /\ run = [r \in Runs |-> "none"]
  /\ job = [r \in Runs |-> "none"]
  /\ key = [r \in Runs |-> 0]
  /\ manual \in 0..ManualRuns
  /\ owner = NoScheduler
  /\ pc = [s \in Schedulers |-> "off"]
  /\ at = [s \in Schedulers |-> 0]
  /\ cached = [s \in Schedulers |-> Unloaded]
  /\ terminal = [s \in Schedulers |-> 0]
  /\ mine = [s \in Schedulers |-> NoRun]
  /\ result = [s \in Schedulers |-> "none"]
  /\ seen = [s \in Schedulers |-> 0]
  /\ hazards \in HazardSets

-----------------------------------------------------------------------------
Goto(s, l) == pc' = [pc EXCEPT ![s] = l]

HasJob(o) == \E r \in Runs : job[r] # "none" /\ key[r] = o
ActiveJob == \E r \in Runs : job[r] = "active"

\* Any write moves updated_at, so what others read of the row is outdated.
WriteRow(o, st) ==
  /\ status' = [status EXCEPT ![o] = st]
  /\ age' = [age EXCEPT ![o] = 0]
  /\ current' = {s \in current : at[s] # o}

Clear(s) ==
  /\ at' = [at EXCEPT ![s] = 0]
  /\ cached' = [cached EXCEPT ![s] = Unloaded]
  /\ terminal' = [terminal EXCEPT ![s] = 0]
  /\ seen' = [seen EXCEPT ![s] = 0]
  /\ mine' = [mine EXCEPT ![s] = NoRun]
  /\ result' = [result EXCEPT ![s] = "none"]

Answer(s, res, r) ==
  /\ result' = [result EXCEPT ![s] = res]
  /\ mine' = [mine EXCEPT ![s] = r]

\* The enqueue callback is done; a deferral is recorded under the skip policy.
Conclude(s, res, r) ==
  IF res = "deferred"
  THEN /\ Goto(s, IF policy = "skip" THEN "mark" ELSE "record")
       /\ Answer(s, IF policy = "skip" THEN "skipped" ELSE "none", NoRun)
  ELSE Goto(s, "mark") /\ Answer(s, res, r)

-----------------------------------------------------------------------------
(* The loop of a scheduler process. *)

\* start() takes the ownership, whoever has it.
Start(s) ==
  /\ pc[s] = "off"
  /\ Goto(s, "idle")
  /\ owner' = s
  /\ UNCHANGED <<worldVars, rowVars, runVars, evalVars, callVars>>

\* The definitions come from the cache until it is too old (at any time here).
\* Nothing is claimed when no occurrence is due or its end is already cached.
EvaluateWith(s, definition) ==
  /\ pc[s] = "idle"
  /\ at' = [at EXCEPT ![s] = due]
  /\ cached' = [cached EXCEPT ![s] = definition]
  /\ terminal' = [terminal EXCEPT ![s] = IF definition = Off THEN 0 ELSE @]
  /\ seen' = [seen EXCEPT ![s] = edits]
  /\ Goto(s, IF definition = Off \/ due = 0 \/ terminal[s] = due THEN "record" ELSE "claim")
  /\ UNCHANGED <<worldVars, rowVars, runVars, owner, callVars>>

Evaluate(s) ==
  \E definition \in {config} \cup ({cached[s]} \ {Unloaded}) : EvaluateWith(s, definition)

\* A process ends after an evaluation when it is told to, or with --once.
Stop(s) ==
  /\ pc[s] = "idle"
  /\ Goto(s, "off")
  /\ Clear(s)
  /\ UNCHANGED <<worldVars, rowVars, runVars, owner>>

\* recordEvaluation adds to the status; the write is omitted when nothing was
\* queued, failed or changed.
Record(s) ==
  /\ pc[s] = "record"
  /\ owner = s \/ result[s] \notin {"queued", "failed"}
  /\ Goto(s, "idle")
  /\ result' = [result EXCEPT ![s] = "none"]
  /\ mine' = [mine EXCEPT ![s] = NoRun]
  /\ at' = [at EXCEPT ![s] = 0]
  /\ seen' = [seen EXCEPT ![s] = 0]
  /\ UNCHANGED <<worldVars, rowVars, runVars, owner, cached, terminal>>

\* The write is refused to a former owner, which ends the process.
OwnershipLost(s) ==
  /\ pc[s] = "record"
  /\ owner # s
  /\ Goto(s, "off")
  /\ Clear(s)
  /\ UNCHANGED <<worldVars, rowVars, runVars, owner>>

-----------------------------------------------------------------------------
(* claimOccurrence. *)

Reclaimable(o) ==
  \/ status[o] = "failed"
  \/ status[o] = "claimed" /\ age[o] >= Lease

\* Not created: what the row says of the occurrence decides what is cached.
Learn(s) ==
  /\ terminal' = [terminal EXCEPT ![s] = IF status[at[s]] \in Settled THEN at[s] ELSE @]
  /\ Goto(s, "record")

ReadClaim(s) ==
  /\ pc[s] = "claim"
  /\ \/ /\ status[at[s]] = "none"
        /\ Goto(s, "add")
        /\ UNCHANGED <<current, terminal>>
     \/ /\ Reclaimable(at[s])
        /\ Goto(s, "takeover")
        /\ current' = current \cup {s}
        /\ UNCHANGED terminal
     \/ /\ status[at[s]] # "none" /\ ~Reclaimable(at[s])
        /\ Learn(s)
        /\ UNCHANGED current
  /\ UNCHANGED <<worldVars, status, claimedBy, age, runId, runVars, owner, at, cached, seen, callVars>>

TakeRow(s) ==
  /\ WriteRow(at[s], "claimed")
  /\ claimedBy' = [claimedBy EXCEPT ![at[s]] = s]
  /\ UNCHANGED runId
  /\ Goto(s, "reload")

\* The occurrence key is unique: one of two inserts fails and reads again.
AddClaim(s) ==
  /\ pc[s] = "add"
  /\ IF status[at[s]] = "none" THEN TakeRow(s)
     ELSE Goto(s, "reread") /\ UNCHANGED rowVars
  /\ UNCHANGED <<worldVars, runVars, owner, evalVars, callVars>>

\* The PATCH holds only for the updated_at that was read.
TakeOver(s) ==
  /\ pc[s] = "takeover"
  /\ IF s \in current THEN TakeRow(s)
     ELSE Goto(s, "reread") /\ UNCHANGED rowVars
  /\ UNCHANGED <<worldVars, runVars, owner, evalVars, callVars>>

Reread(s) ==
  /\ pc[s] = "reread"
  /\ Learn(s)
  /\ UNCHANGED <<worldVars, rowVars, runVars, owner, at, cached, seen, callVars>>

-----------------------------------------------------------------------------
(* The enqueue of a claimed occurrence. *)

\* Seeded fault: the cached definition is trusted.
ReloadNothing(s) ==
  /\ pc[s] = "reload"
  /\ Goto(s, "list")
  /\ UNCHANGED <<worldVars, rowVars, runVars, owner, evalVars, callVars>>

\* The definition is read again and must be the cached one.
Reload(s) ==
  /\ pc[s] = "reload"
  /\ Goto(s, IF config = cached[s] THEN "list" ELSE "reject")
  /\ cached' = [cached EXCEPT ![s] = IF config = @ THEN @ ELSE Unloaded]
  /\ UNCHANGED <<worldVars, rowVars, runVars, owner, at, terminal, seen, callVars>>

Reject(s) ==
  /\ pc[s] = "reject"
  /\ WriteRow(at[s], "failed")
  /\ Goto(s, "record")
  /\ UNCHANGED <<worldVars, claimedBy, runId, runVars, owner, evalVars, callVars>>

\* Any run record that has not ended defers the occurrence.
ListRuns(s) ==
  /\ pc[s] = "list"
  /\ IF \E r \in Runs : run[r] = "open"
     THEN Conclude(s, "deferred", NoRun)
     ELSE Goto(s, "lookup") /\ UNCHANGED callVars
  /\ UNCHANGED <<worldVars, rowVars, runVars, owner, evalVars>>

Lookup(s) ==
  /\ pc[s] = "lookup"
  /\ \/ \E r \in Runs : job[r] # "none" /\ key[r] = at[s] /\ Conclude(s, "queued", r)
     \/ ~HasJob(at[s]) /\ Goto(s, "create") /\ UNCHANGED callVars
  /\ UNCHANGED <<worldVars, rowVars, runVars, owner, evalVars>>

\* A failed run without a job is as good as none, so its id is used again.
Free(r) == run[r] = "none" /\ job[r] = "none"

CreateRun(s) ==
  /\ pc[s] = "create"
  /\ \E r \in Runs : /\ Free(r)
                     /\ run' = [run EXCEPT ![r] = "open"]
                     /\ mine' = [mine EXCEPT ![s] = r]
  /\ Goto(s, "byKey")
  /\ UNCHANGED <<worldVars, rowVars, job, key, owner, evalVars, result>>

\* The job exists: `created` is false, and the caller keeps its own new run.
EnqueueByKey(s) ==
  /\ pc[s] = "byKey"
  /\ IF HasJob(at[s])
     THEN Conclude(s, "queued", mine[s])
     ELSE Goto(s, "byActive") /\ UNCHANGED callVars
  /\ UNCHANGED <<worldVars, rowVars, runVars, owner, evalVars>>

Refused(s, res) ==
  /\ Goto(s, "fail")
  /\ result' = [result EXCEPT ![s] = res]
  /\ UNCHANGED mine

\* ActiveExecutionJobError: the run fails, the occurrence is deferred (409).
EnqueueByActive(s) ==
  /\ pc[s] = "byActive"
  /\ IF ActiveJob THEN Refused(s, "deferred")
                  ELSE Goto(s, "insert") /\ UNCHANGED callVars
  /\ UNCHANGED <<worldVars, rowVars, runVars, owner, evalVars>>

AddJob(s) ==
  /\ job' = [job EXCEPT ![mine[s]] = "active"]
  /\ key' = [key EXCEPT ![mine[s]] = at[s]]

\* Seeded fault: the insert is refused by an active job only, not by the key.
InsertUnkeyed(s) ==
  /\ pc[s] = "insert"
  /\ \/ ~ActiveJob /\ AddJob(s) /\ Conclude(s, "queued", mine[s])
     \/ ActiveJob /\ Refused(s, "failed") /\ UNCHANGED <<job, key>>
  /\ UNCHANGED <<worldVars, rowVars, run, owner, evalVars>>

\* Two unique indexes refuse the insert: the key, and one active job.
Insert(s) ==
  /\ pc[s] = "insert"
  /\ IF HasJob(at[s]) \/ ActiveJob
     THEN Refused(s, "failed") /\ UNCHANGED <<job, key>>
     ELSE AddJob(s) /\ Conclude(s, "queued", mine[s])
  /\ UNCHANGED <<worldVars, rowVars, run, owner, evalVars>>

\* Seeded fault: the run of a refused enqueue is left open.
FailStartupNothing(s) ==
  /\ pc[s] = "fail"
  /\ Conclude(s, result[s], NoRun)
  /\ UNCHANGED <<worldVars, rowVars, runVars, owner, evalVars>>

\* updateRun(failed_startup) in the catch block of startInssaPhase1Run.
FailStartup(s) ==
  /\ pc[s] = "fail"
  /\ run' = [run EXCEPT ![mine[s]] = IF job[mine[s]] = "none" THEN "none" ELSE "ended"]
  /\ Conclude(s, result[s], NoRun)
  /\ UNCHANGED <<worldVars, rowVars, job, key, owner, evalVars>>

\* markQueued, markSkipped and markFailed name the row only, not its claim.
Mark(s) ==
  /\ pc[s] = "mark"
  /\ WriteRow(at[s], result[s])
  /\ runId' = [runId EXCEPT ![at[s]] = IF result[s] = "queued" THEN mine[s] ELSE @]
  /\ terminal' = [terminal EXCEPT ![s] = IF result[s] \in Settled THEN at[s] ELSE @]
  /\ Goto(s, "record")
  /\ UNCHANGED <<worldVars, claimedBy, runVars, owner, at, cached, seen, callVars>>

-----------------------------------------------------------------------------
(* What goes wrong. *)

\* A call throws: an error of this definition ...
Fault(s) ==
  /\ "fault" \in hazards
  /\ pc[s] \in Reading \cup {"reload", "reject", "list", "mark"}
  /\ Goto(s, "record")
  /\ Answer(s, "failed", NoRun)
  /\ UNCHANGED <<worldVars, rowVars, runVars, owner, evalVars>>

\* ... within startInssaPhase1Run a failed enqueue ...
EnqueueFault(s) ==
  /\ "fault" \in hazards
  /\ \/ pc[s] \in {"lookup", "create", "fail"} /\ Conclude(s, "failed", NoRun)
     \/ pc[s] \in Enqueuing /\ Refused(s, "failed")
  /\ UNCHANGED <<worldVars, rowVars, runVars, owner, evalVars>>

\* ... in recordEvaluation the end of the process.
RecordFault(s) ==
  /\ "fault" \in hazards
  /\ pc[s] = "record"
  /\ Goto(s, "off")
  /\ Clear(s)
  /\ UNCHANGED <<worldVars, rowVars, runVars, owner>>

\* The run is inserted and the reply lost.
CreateReplyLost(s) ==
  /\ "fault" \in hazards
  /\ pc[s] = "create"
  /\ \E r \in Runs : Free(r) /\ run' = [run EXCEPT ![r] = "open"]
  /\ Conclude(s, "failed", NoRun)
  /\ UNCHANGED <<worldVars, rowVars, job, key, owner, evalVars>>

\* The job is inserted and the reply lost.
InsertReplyLost(s) ==
  /\ "fault" \in hazards
  /\ pc[s] = "insert"
  /\ ~HasJob(at[s]) /\ ~ActiveJob
  /\ AddJob(s)
  /\ Refused(s, "failed")
  /\ UNCHANGED <<worldVars, rowVars, run, owner, evalVars>>

Crash(s) ==
  /\ "crash" \in hazards
  /\ pc[s] # "off"
  /\ Goto(s, "off")
  /\ Clear(s)
  /\ UNCHANGED <<worldVars, rowVars, runVars, owner>>

-----------------------------------------------------------------------------
(* The rest of the platform. *)

\* Time: the next occurrence falls due, a claim grows older.
FallDue ==
  /\ due < LastOccurrence
  /\ due' = due + 1
  /\ UNCHANGED <<config, edits, policy, manual, hazards, rowVars, runVars, owner, pc, evalVars, callVars>>

InHand(o) == \E s \in Schedulers : claimedBy[o] = s /\ pc[s] \in Handling /\ at[s] = o

Age(o) ==
  /\ status[o] = "claimed" /\ age[o] < Lease
  /\ "stall" \in hazards \/ ~InHand(o)
  /\ age' = [age EXCEPT ![o] = @ + 1]
  /\ UNCHANGED <<worldVars, status, claimedBy, runId, current, runVars, owner, pc, evalVars, callVars>>

Edit ==
  /\ edits < MaxEdits
  /\ edits' = edits + 1
  /\ config' \in (Configs \cup {Off}) \ {config}
  /\ UNCHANGED <<due, policy, manual, hazards, rowVars, runVars, owner, pc, evalVars, callVars>>

\* A manual request is accepted.
ManualRun ==
  /\ manual < ManualRuns
  /\ ~ActiveJob
  /\ manual' = manual + 1
  /\ \E r \in Runs : /\ Free(r)
                     /\ run' = [run EXCEPT ![r] = "open"]
                     /\ job' = [job EXCEPT ![r] = "active"]
  /\ UNCHANGED <<due, config, edits, policy, hazards, rowVars, key, owner, pc, evalVars, callVars>>

\* The worker ends a run and then completes its job; a job whose run has ended
\* is completed without executing it.  Of a manual run nobody here asks later, so
\* its id is free again.
EndRun(r) ==
  /\ job[r] = "active" /\ run[r] = "open"
  /\ run' = [run EXCEPT ![r] = "ended"]
  /\ UNCHANGED <<worldVars, rowVars, job, key, owner, pc, evalVars, callVars>>

CompleteJob(r) ==
  /\ job[r] = "active" /\ run[r] = "ended"
  /\ job' = [job EXCEPT ![r] = IF key[r] = 0 THEN "none" ELSE "done"]
  /\ run' = [run EXCEPT ![r] = IF key[r] = 0 THEN "none" ELSE @]
  /\ UNCHANGED <<worldVars, rowVars, key, owner, pc, evalVars, callVars>>

Work(s) ==
  \/ Evaluate(s) \/ Record(s) \/ OwnershipLost(s)
  \/ ReadClaim(s) \/ AddClaim(s) \/ TakeOver(s) \/ Reread(s)
  \/ Reload(s) \/ Reject(s) \/ ListRuns(s) \/ Lookup(s) \/ CreateRun(s)
  \/ EnqueueByKey(s) \/ EnqueueByActive(s) \/ Insert(s) \/ FailStartup(s) \/ Mark(s)

Disturbance(s) ==
  \/ Fault(s) \/ EnqueueFault(s) \/ RecordFault(s)
  \/ CreateReplyLost(s) \/ InsertReplyLost(s) \/ Crash(s)

Next ==
  \/ \E s \in Schedulers : Start(s) \/ Stop(s) \/ Work(s) \/ Disturbance(s)
  \/ FallDue \/ Edit \/ ManualRun
  \/ \E o \in Occurrences : Age(o)
  \/ \E r \in Runs : EndRun(r) \/ CompleteJob(r)

Spec == Init /\ [][Next]_vars

\* Processes go on once started, definitions are read again when the cache is ten
\* minutes old, time passes and the worker finishes its jobs.
Fairness ==
  /\ \A s \in Schedulers : WF_vars(Work(s)) /\ SF_vars(EvaluateWith(s, config))
  /\ \A o \in Occurrences : WF_vars(Age(o))
  /\ \A r \in Runs : WF_vars(EndRun(r)) /\ WF_vars(CompleteJob(r))

FairSpec == Spec /\ Fairness

-----------------------------------------------------------------------------
\* Type invariant: every variable holds what its column or field may hold.
TypeOK ==
  /\ due \in 0..LastOccurrence
  /\ config \in Configs \cup {Off}
  /\ edits \in 0..MaxEdits
  /\ policy \in Policies
  /\ manual \in 0..ManualRuns
  /\ hazards \in HazardSets
  /\ status \in [Occurrences -> Status]
  /\ claimedBy \in [Occurrences -> Schedulers \cup {NoScheduler}]
  /\ age \in [Occurrences -> 0..Lease]
  /\ runId \in [Occurrences -> Runs \cup {NoRun}]
  /\ current \subseteq Schedulers
  /\ run \in [Runs -> {"none", "open", "ended"}]
  /\ job \in [Runs -> {"none", "active", "done"}]
  /\ key \in [Runs -> 0..LastOccurrence]
  /\ owner \in Schedulers \cup {NoScheduler}
  /\ pc \in [Schedulers -> Pc]
  /\ at \in [Schedulers -> 0..LastOccurrence]
  /\ cached \in [Schedulers -> Configs \cup {Off, Unloaded}]
  /\ terminal \in [Schedulers -> 0..LastOccurrence]
  /\ mine \in [Schedulers -> Runs \cup {NoRun}]
  /\ result \in [Schedulers -> Result]
  /\ seen \in [Schedulers -> 0..MaxEdits]

\* Neither repeated evaluations nor restarts, lost replies or two owners of a
\* claim at once enqueue a second job for an occurrence (scheduler-trigger.md:44).
OneJobPerOccurrence ==
  \A q, r \in Runs :
    job[q] # "none" /\ job[r] # "none" /\ key[q] = key[r] /\ key[q] # 0 => q = r

\* The ledger calls an occurrence queued only when its job exists.
QueuedHasJob == \A o \in Occurrences : status[o] = "queued" => HasJob(o)

\* A definition that did not change since the evaluation began and is disabled or
\* different from the cached copy starts no run (scheduler.ts:96).
NoStaleEnqueue ==
  \A s \in Schedulers :
    pc[s] \in {"list", "lookup", "create"} \cup Enqueuing /\ seen[s] = edits => cached[s] = config

\* A due occurrence is queued or skipped, unless the next one falls due first or
\* the definition is disabled, provided that some scheduler stays alive
\* (scheduler-trigger.md:48: it is retried after its claim expires).
OccurrenceSettles ==
  (\E s \in Schedulers : <>[](pc[s] # "off")) =>
    \A o \in Occurrences :
      due = o ~> status[o] \in Settled \/ due # o \/ config = Off

\* The same for executions in which nothing goes wrong.
SettlesWithoutHazards == hazards = {} => OccurrenceSettles
-----------------------------------------------------------------------------
(* The inductive invariant behind OneJobPerOccurrence and QueuedHasJob. *)

Owning == Enqueuing \cup {"fail"}

\* Only a job carries an idempotency key.
KeysOfJobs == \A r \in Runs : job[r] = "none" => key[r] = 0

\* Whoever handles the claim has an occurrence to handle.
HandlesOccurrence ==
  \A s \in Schedulers : pc[s] \in Handling \cup Reading => at[s] \in Occurrences

\* What is written to the ledger is an outcome of the enqueue.
AnswerKnown ==
  \A s \in Schedulers :
    /\ pc[s] = "fail" => result[s] \in {"deferred", "failed"}
    /\ pc[s] = "mark" => result[s] \in {"failed", "queued", "skipped"}

\* A run being enqueued is open and has no job, unless the insert's reply was lost.
OwnRun ==
  \A s \in Schedulers :
    pc[s] \in Owning =>
      /\ mine[s] \in Runs
      /\ run[mine[s]] # "none"
      /\ \/ job[mine[s]] = "none"
         \/ pc[s] = "fail" /\ key[mine[s]] # 0

\* No two schedulers enqueue the same run.
DistinctRuns ==
  \A s, t \in Schedulers :
    pc[s] \in Owning /\ pc[t] \in Owning /\ mine[s] = mine[t] => s = t

\* A scheduler about to call the occurrence queued has seen its job.
MarkHasJob ==
  \A s \in Schedulers : pc[s] = "mark" /\ result[s] = "queued" => HasJob(at[s])

\* The conjunction of these facts, which each step preserves.
EnqueueInvariant ==
  /\ TypeOK /\ KeysOfJobs /\ HandlesOccurrence /\ AnswerKnown /\ OwnRun /\ DistinctRuns
  /\ OneJobPerOccurrence /\ QueuedHasJob /\ MarkHasJob
=============================================================================
