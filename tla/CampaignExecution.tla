-------------------------- MODULE CampaignExecution --------------------------
(***************************************************************************)
(* A campaign from the POST that asks for it to its terminal run record:   *)
(* the dashboard request (startInssaPhase1Run), the job store              *)
(* (ExecutionJobs), the worker's main loop with its startup and poll       *)
(* reconciliation, executeClaimedInssaJob and executeRun, and the campaign *)
(* process group, which is detached and so outlives a worker that dies.    *)
(*                                                                         *)
(* Run records and jobs live in two tables that no transaction joins.  A   *)
(* run and its job share one id here: a run gets at most one job.  What    *)
(* can go wrong around the code in an execution is hazards, a member of    *)
(* HazardSets:                                                             *)
(*   "crash"    a worker or a dashboard request dies                       *)
(*   "fault"    a store call fails, or is applied but its reply is lost    *)
(*   "stall"    a lease runs out although its worker lives (slow host,     *)
(*              unreachable store)                                         *)
(*   "survivor" a process group outlives SIGKILL                           *)
(***************************************************************************)
EXTENDS ExecutionJobs

CONSTANT HazardSets

ASSUME HazardAssumption ==
  HazardSets \subseteq SUBSET {"crash", "fault", "stall", "survivor"}

VARIABLES
  run,      \* the status of each run record; "none": not created
  begun,    \* runs whose startedAt is set
  post,     \* where the request that creates the run is
  wanted,   \* the idempotency key of that request
  step,     \* where each worker is
  todo,     \* terminal jobs a worker has still to reconcile
  target,   \* the run a worker is about to reconcile
  verdict,  \* the run status a worker read or decided, and acts on next
  aborted,  \* workers whose lease signal is aborted
  live,     \* <<worker, run>> for every campaign process group alive
  spawns,   \* history: how often the run's campaign was spawned
  result,   \* history: how the run's campaign process ended
  hazards   \* what can go wrong, fixed from the start

runVars == <<run, begun>>
postVars == <<post, wanted, hazards>>
workerVars == <<step, todo, target, verdict, aborted>>
processVars == <<live, spawns, result>>
vars == <<storeVars, runVars, postVars, workerVars, processVars>>

TerminalRun == {"passed", "failed", "failed_startup", "timed_out"}
RunEnded(j) == run[j] \in TerminalRun

\* Before the worker's try block, inside it, and in its catch block.
Preparing == {"load", "settle", "mark", "marked"}
Executing == {"starting", "spawn", "running", "await", "own", "indexing", "publish",
              "final", "complete"}
Step == {"off", "reconcile", "reconcileWrite", "poll", "failing", "failed", "closing", "dead"}
        \cup Preparing \cup Executing

Init ==
  /\ JobsInit
  /\ run = [j \in Jobs |-> "none"]
  /\ begun = {}
  /\ post \in [Jobs -> {"new", "done"}]  \* done: no request is made
  /\ wanted \in [Jobs -> Keys]
  /\ step = [w \in Workers |-> "off"]
  /\ todo = [w \in Workers |-> {}]
  /\ target = [w \in Workers |-> NoJob]
  /\ verdict = [w \in Workers |-> "none"]
  /\ aborted = {}
  /\ live = {}
  /\ spawns = [j \in Jobs |-> 0]
  /\ result = [j \in Jobs |-> "none"]
  /\ hazards \in HazardSets

Goto(w, s) == step' = [step EXCEPT ![w] = s]
Write(j, s) == run' = [run EXCEPT ![j] = s]

\* The local variables of a call that returned or of a process that died.
Forget(w) ==
  /\ todo' = [todo EXCEPT ![w] = {}]
  /\ target' = [target EXCEPT ![w] = NoJob]
  /\ verdict' = [verdict EXCEPT ![w] = "none"]
  /\ aborted' = aborted \ {w}
-----------------------------------------------------------------------------
(* The request. *)

PostGoto(j, s) == post' = [post EXCEPT ![j] = s] /\ UNCHANGED <<wanted, hazards>>

\* No job has the key, so the request creates its run record.  (A request
\* that finds a job answers with the run of that job and changes nothing.)
CreateRun(j) ==
  /\ post[j] = "new"
  /\ \A i \in Jobs : keyOf[i] # wanted[j]
  /\ Write(j, "queued")
  /\ PostGoto(j, "byKey")
  /\ UNCHANGED <<storeVars, begun, workerVars, processVars>>

\* enqueue reads the key again: a job made by a concurrent request is returned
\* as created = false, and the request ends with the run it just created.
EnqueueByKey(j) ==
  /\ post[j] = "byKey"
  /\ PostGoto(j, IF \E i \in Jobs : keyOf[i] = wanted[j] THEN "done" ELSE "byActive")
  /\ UNCHANGED <<storeVars, runVars, workerVars, processVars>>

EnqueueByActive(j) ==
  /\ post[j] = "byActive"
  /\ PostGoto(j, IF \E i \in Jobs : Active(i) THEN "failing" ELSE "insert")
  /\ UNCHANGED <<storeVars, runVars, workerVars, processVars>>

\* The insert, under the unique key and the one-active index.
Insert(j) ==
  /\ post[j] = "insert"
  /\ \E limit \in AttemptLimits : Enqueue(j, wanted[j], limit)
  /\ \/ PostGoto(j, "done")
     \/ "fault" \in hazards /\ PostGoto(j, "failing")
  /\ UNCHANGED <<runVars, workerVars, processVars>>

InsertRefused(j) ==
  /\ post[j] = "insert"
  /\ \E i \in Jobs : keyOf[i] = wanted[j] \/ Active(i)
  /\ PostGoto(j, "failing")
  /\ UNCHANGED <<storeVars, runVars, workerVars, processVars>>

\* enqueue threw: the run is marked failed_startup and the caller gets an error.
FailStartup(j) ==
  /\ post[j] = "failing"
  /\ Write(j, "failed_startup")
  /\ PostGoto(j, "done")
  /\ UNCHANGED <<storeVars, begun, workerVars, processVars>>

PostFault(j) ==
  /\ "fault" \in hazards
  /\ \/ post[j] \in {"byKey", "byActive", "insert"} /\ PostGoto(j, "failing")
     \/ post[j] = "failing" /\ PostGoto(j, "done")
  /\ UNCHANGED <<storeVars, runVars, workerVars, processVars>>

PostCrash(j) ==
  /\ "crash" \in hazards
  /\ post[j] \notin {"new", "done"}
  /\ PostGoto(j, "done")
  /\ UNCHANGED <<storeVars, runVars, workerVars, processVars>>

Request(j) ==
  \/ EnqueueByKey(j) \/ EnqueueByActive(j) \/ Insert(j) \/ InsertRefused(j) \/ FailStartup(j)
-----------------------------------------------------------------------------
(* The worker's main loop. *)

\* Seeded fault: startup does not reconcile.
BootWithoutReconciling(w) ==
  /\ step[w] = "off"
  /\ Goto(w, "poll")
  /\ UNCHANGED <<storeVars, runVars, postVars, todo, target, verdict, aborted, processVars>>

\* Startup reconciles every terminal job before the first poll.
Boot(w) ==
  /\ step[w] = "off"
  /\ todo' = [todo EXCEPT ![w] = {j \in Jobs : Terminal(j)}]
  /\ Goto(w, "reconcile")
  /\ UNCHANGED <<storeVars, runVars, postVars, target, verdict, aborted, processVars>>

\* Seeded fault: a run that already ended is reconciled too.
ReconcileAny(w, j) ==
  /\ step[w] = "reconcile"
  /\ j \in todo[w]
  /\ todo' = [todo EXCEPT ![w] = @ \ {j}]
  /\ Goto(w, "reconcileWrite")
  /\ target' = [target EXCEPT ![w] = j]
  /\ verdict' = [verdict EXCEPT ![w] = IF j \in begun THEN "failed" ELSE "failed_startup"]
  /\ UNCHANGED <<storeVars, runVars, postVars, aborted, processVars>>

\* reconcileTerminalExecutionJobRun reads the run ...
ReconcileRead(w, j) ==
  /\ step[w] = "reconcile"
  /\ j \in todo[w]
  /\ todo' = [todo EXCEPT ![w] = @ \ {j}]
  /\ IF RunEnded(j)
     THEN UNCHANGED <<step, target, verdict>>
     ELSE /\ Goto(w, "reconcileWrite")
          /\ target' = [target EXCEPT ![w] = j]
          /\ verdict' = [verdict EXCEPT ![w] = IF j \in begun THEN "failed" ELSE "failed_startup"]
  /\ UNCHANGED <<storeVars, runVars, postVars, aborted, processVars>>

\* ... and writes the terminal status it derived, whatever the run is by now.
ReconcileWrite(w) ==
  /\ step[w] = "reconcileWrite"
  /\ Write(target[w], verdict[w])
  /\ Goto(w, "reconcile")
  /\ target' = [target EXCEPT ![w] = NoJob]
  /\ verdict' = [verdict EXCEPT ![w] = "none"]
  /\ UNCHANGED <<storeVars, begun, postVars, todo, aborted, processVars>>

Reconciled(w) ==
  /\ step[w] = "reconcile"
  /\ todo[w] = {}
  /\ Goto(w, IF holds[w] = NoJob THEN "poll" ELSE "load")
  /\ UNCHANGED <<storeVars, runVars, postVars, todo, target, verdict, aborted, processVars>>

\* Seeded fault: the jobs abandoned by a poll are not reported.
PollUnreported(w) ==
  /\ step[w] = "poll"
  /\ Poll(w)
  /\ Goto(w, "reconcile")
  /\ UNCHANGED <<runVars, postVars, todo, target, verdict, aborted, processVars>>

\* Abandoned jobs are reconciled before the claimed one is executed.
PollAndReport(w) ==
  /\ step[w] = "poll"
  /\ Poll(w)
  /\ todo' = [todo EXCEPT ![w] =
                {j \in Expired : RecoveredStatus[j] = "abandoned"}]
  /\ Goto(w, "reconcile")
  /\ UNCHANGED <<runVars, postVars, target, verdict, aborted, processVars>>

MainLoop(w) ==
  \/ Boot(w) \/ PollAndReport(w) \/ Reconciled(w) \/ ReconcileWrite(w)
  \/ \E j \in Jobs : ReconcileRead(w, j)
-----------------------------------------------------------------------------
(* executeClaimedInssaJob and executeRun. *)

Outcome(s) == IF s = "passed" THEN "completed" ELSE "failed"

\* The session is over and the worker polls again; the job is left as it is.
LeaveSession(w) == EndSession(w) /\ Goto(w, "poll") /\ Forget(w)

\* Seeded fault: the campaign starts although the job is only claimed.
LoadAndStart(w) ==
  /\ step[w] = "load"
  /\ ~RunEnded(holds[w])
  /\ Goto(w, "starting")
  /\ UNCHANGED <<storeVars, runVars, postVars, todo, target, verdict, aborted, processVars>>

Load(w) ==
  /\ step[w] = "load"
  /\ IF RunEnded(holds[w])
     THEN Goto(w, "settle") /\ verdict' = [verdict EXCEPT ![w] = run[holds[w]]]
     ELSE Goto(w, "mark") /\ UNCHANGED verdict
  /\ UNCHANGED <<storeVars, runVars, postVars, todo, target, aborted, processVars>>

\* The run is already terminal: the job is completed without a campaign.
Settle(w) ==
  /\ step[w] = "settle"
  /\ Complete(w, Outcome(verdict[w]))
  /\ Goto(w, "poll")
  /\ Forget(w)
  /\ UNCHANGED <<runVars, postVars, processVars>>

\* Seeded fault: the session proceeds whatever markRunning answers.
MarkUnchecked(w) ==
  /\ step[w] = "mark"
  /\ stage' = [stage EXCEPT ![w] = "running"]
  /\ Goto(w, "marked")
  /\ UNCHANGED <<status, attempt, maxAttempts, claimedBy, lease, keyOf, holds, started>>
  /\ UNCHANGED <<runVars, postVars, todo, target, verdict, aborted, processVars>>

Mark(w) ==
  /\ step[w] = "mark"
  /\ MarkRunning(w)
  /\ Goto(w, "marked")
  /\ UNCHANGED <<runVars, postVars, todo, target, verdict, aborted, processVars>>

\* Notifications and the audit event, still outside the try block.
Announce(w) ==
  /\ step[w] = "marked"
  /\ Goto(w, "starting")
  /\ UNCHANGED <<storeVars, runVars, postVars, todo, target, verdict, aborted, processVars>>

Starting(w) ==
  /\ step[w] = "starting"
  /\ Write(holds[w], "starting")
  /\ begun' = begun \cup {holds[w]}
  /\ Goto(w, "spawn")
  /\ UNCHANGED <<storeVars, postVars, todo, target, verdict, aborted, processVars>>

Spawn(w) ==
  /\ step[w] = "spawn"
  /\ live' = live \cup {<<w, holds[w]>>}
  /\ spawns' = [spawns EXCEPT ![holds[w]] = @ + 1]
  /\ Goto(w, "running")
  /\ UNCHANGED <<storeVars, runVars, postVars, todo, target, verdict, aborted, result>>

Running(w) ==
  /\ step[w] = "running"
  /\ Write(holds[w], "running")
  /\ Goto(w, "await")
  /\ UNCHANGED <<storeVars, begun, postVars, todo, target, verdict, aborted, processVars>>

\* The campaign ends by itself, by its timeout or by a termination; it may
\* do so while the worker still persists the running status.
CampaignExits(w, j) ==
  /\ <<w, j>> \in live
  /\ live' = live \ {<<w, j>>}
  /\ \E r \in TerminalRun : result' = [result EXCEPT ![j] = r]
  /\ UNCHANGED <<storeVars, runVars, postVars, workerVars, spawns>>

\* Seeded fault: the worker does not wait for the end of the process group.
AwaitNothing(w) ==
  /\ step[w] = "await"
  /\ verdict' = [verdict EXCEPT ![w] = "failed"]
  /\ Goto(w, "own")
  /\ UNCHANGED <<storeVars, runVars, postVars, todo, target, aborted, processVars>>

Await(w) ==
  /\ step[w] = "await"
  /\ <<w, holds[w]>> \notin live
  /\ verdict' = [verdict EXCEPT ![w] = result[holds[w]]]
  /\ Goto(w, "own")
  /\ UNCHANGED <<storeVars, runVars, postVars, todo, target, aborted, processVars>>

\* Seeded fault: the launcher's exit code counts, whoever survived it.
AwaitLauncher(w) ==
  /\ step[w] = "await"
  /\ <<w, holds[w]>> \in live
  /\ verdict' = [verdict EXCEPT ![w] = "passed"]
  /\ Goto(w, "publish")
  /\ UNCHANGED <<storeVars, runVars, postVars, todo, target, aborted, processVars>>

\* The launcher closed, the rest of its group survived the termination:
\* indexing and publication are withheld and the run fails.
AwaitSurvivor(w) ==
  /\ "survivor" \in hazards
  /\ step[w] = "await"
  /\ <<w, holds[w]>> \in live
  /\ \E s \in {"failed", "timed_out"} : verdict' = [verdict EXCEPT ![w] = s]
  /\ Goto(w, "publish")
  /\ UNCHANGED <<storeVars, runVars, postVars, todo, target, aborted, processVars>>

\* assertEvidenceExecutionSafety.
SafelyOwned(w) ==
  /\ w \notin aborted
  /\ Owns(w)
  /\ status[holds[w]] \in {"claimed", "running"}
  /\ lease[holds[w]] > 0

AssertSafe(w) ==
  /\ \/ step[w] = "own" /\ Goto(w, "indexing")
     \/ step[w] = "publish" /\ Goto(w, "final")
  /\ SafelyOwned(w)
  /\ UNCHANGED <<storeVars, runVars, postVars, todo, target, verdict, aborted, processVars>>

\* Indexing, and evidence publication under the same assertions.
Indexing(w) ==
  /\ step[w] = "indexing"
  /\ Write(holds[w], "indexing_artifacts")
  /\ Goto(w, "publish")
  /\ UNCHANGED <<storeVars, begun, postVars, todo, target, verdict, aborted, processVars>>

\* The final status is written without looking at the lease again.
Final(w) ==
  /\ step[w] = "final"
  /\ Write(holds[w], verdict[w])
  /\ Goto(w, "complete")
  /\ UNCHANGED <<storeVars, begun, postVars, todo, target, verdict, aborted, processVars>>

CompleteJob(w) ==
  /\ step[w] = "complete"
  /\ Complete(w, Outcome(verdict[w]))
  /\ \/ Goto(w, "closing")
     \/ "fault" \in hazards /\ w \notin aborted /\ Goto(w, "failing")
  /\ UNCHANGED <<runVars, postVars, todo, target, verdict, aborted, processVars>>

\* Seeded fault: the catch block fails the job and not the run.
FailingJobOnly(w) ==
  /\ step[w] = "failing"
  /\ Goto(w, "failed")
  /\ UNCHANGED <<storeVars, runVars, postVars, todo, target, verdict, aborted, processVars>>

\* The catch block for any error but lost ownership.
Failing(w) ==
  /\ step[w] = "failing"
  /\ Write(holds[w], "failed_startup")
  /\ Goto(w, "failed")
  /\ UNCHANGED <<storeVars, begun, postVars, todo, target, verdict, aborted, processVars>>

Failed(w) ==
  /\ step[w] = "failed"
  /\ Complete(w, "failed") \/ CompleteAgain(w)
  /\ Goto(w, "closing")
  /\ UNCHANGED <<runVars, postVars, todo, target, verdict, aborted, processVars>>

Closing(w) ==
  /\ step[w] = "closing"
  /\ LeaveSession(w)
  /\ UNCHANGED <<runVars, postVars, processVars>>

\* Lost ownership, detected by an owner's update or by an assertion.
LoseOwnership(w) ==
  /\ \/ step[w] \in {"settle", "mark", "complete", "failed"} /\ ~Owns(w)
     \/ step[w] \in {"own", "publish"} /\ ~SafelyOwned(w)
  /\ LeaveSession(w)
  /\ UNCHANGED <<runVars, postVars, processVars>>

Execute(w) ==
  \/ Load(w) \/ Settle(w) \/ Mark(w) \/ Announce(w) \/ Starting(w) \/ Spawn(w) \/ Running(w)
  \/ Await(w) \/ AssertSafe(w) \/ Indexing(w) \/ Final(w) \/ CompleteJob(w) \/ Failing(w) \/ Failed(w)
  \/ Closing(w) \/ LoseOwnership(w)
-----------------------------------------------------------------------------
(* The heartbeat loop, failures and the clock. *)

Beating(w) == stage[w] \in {"running", "closing"} /\ step[w] # "marked" /\ w \notin aborted

Beat(w) ==
  /\ Beating(w)
  /\ Heartbeat(w)
  /\ UNCHANGED <<runVars, postVars, workerVars, processVars>>

\* Ownership lost, or the failure limit reached: the signal is aborted, which
\* terminates the campaign (CampaignExits) and ends the heartbeats.
AbortLease(w) ==
  /\ Beating(w)
  /\ ~Owns(w) \/ "fault" \in hazards
  /\ aborted' = aborted \cup {w}
  /\ UNCHANGED <<storeVars, runVars, postVars, step, todo, target, verdict, processVars>>

\* A store call of the session throws: inside the try block the run is failed,
\* unless the lease signal is aborted; outside it the session just ends.
SessionFault(w) ==
  /\ "fault" \in hazards
  /\ \/ /\ step[w] \in Executing \ {"await"}
        /\ w \notin aborted
        /\ Goto(w, "failing")
        /\ UNCHANGED <<storeVars, todo, target, verdict, aborted>>
     \/ /\ step[w] \in Executing \ {"await"}
        /\ w \in aborted
        /\ LeaveSession(w)
     \/ /\ step[w] \in Preparing \cup {"failing", "failed"}
        /\ LeaveSession(w)
  /\ UNCHANGED <<runVars, postVars, processVars>>

\* The worker process ends: a crash, SIGKILL by the supervisor, or (in the
\* main loop) an error nobody catches.  Its campaign process lives on.
WorkerDies(w) ==
  /\ \/ "crash" \in hazards /\ step[w] \notin {"off", "dead"}
     \/ "fault" \in hazards /\ step[w] \in {"reconcile", "reconcileWrite", "poll"}
  /\ IF holds[w] = NoJob THEN UNCHANGED storeVars ELSE EndSession(w)
  /\ Goto(w, "dead")
  /\ Forget(w)
  /\ UNCHANGED <<runVars, postVars, processVars>>

\* Without the "stall" a live session renews or ends before its lease
\* runs out.
TimePasses ==
  /\ Tick
  /\ \/ "stall" \in hazards
     \/ \A w \in Workers : Owns(w) => lease[holds[w]] # 1
  /\ UNCHANGED <<runVars, postVars, workerVars, processVars>>
-----------------------------------------------------------------------------
Next ==
  \/ \E j \in Jobs :
       CreateRun(j) \/ Request(j) \/ PostFault(j) \/ PostCrash(j)
  \/ \E w \in Workers :
       \/ MainLoop(w) \/ Execute(w) \/ AwaitSurvivor(w) \/ Beat(w) \/ AbortLease(w)
       \/ SessionFault(w) \/ WorkerDies(w)
       \/ \E j \in Jobs : CampaignExits(w, j)
  \/ TimePasses

Spec == Init /\ [][Next]_vars

\* Time passes, requests and workers keep executing, a campaign ends (its
\* timeout kills the process group).
Fairness ==
  /\ WF_vars(TimePasses)
  /\ WF_vars(\E j \in Jobs : Request(j))
  /\ WF_vars(\E w \in Workers, j \in Jobs : CampaignExits(w, j))
  /\ \A w \in Workers : WF_vars(MainLoop(w) \/ Execute(w))

FairSpec == Spec /\ Fairness
-----------------------------------------------------------------------------
(* Properties. *)

\* The campaign of a run is spawned at most once, through retries of the claim,
\* crashes, expired leases and repeated requests.
SpawnedOnce == \A j \in Jobs : spawns[j] <= 1

\* A job its worker completed, successfully or not, has a run in a terminal
\* state: the two tables agree although nothing joins their updates.
OwnerEndsRun == \A j \in Jobs : status[j] \in {"completed", "failed"} => RunEnded(j)

\* A run says passed only if its own campaign process was started and passed.
PassedRan == \A j \in Jobs : run[j] = "passed" => j \in started /\ result[j] = "passed"

\* Worker sessions and the job store follow the protocol of ExecutionJobs.
ImplementsExecutionJobs == JobsSpec

\* Unless something goes wrong around the code, no two campaign process groups
\* are alive at once: the slot is freed only when the group has ended.
NoOverlap == hazards = {} => \A p, q \in live : p = q

\* Unless something goes wrong around the code, a finished run is never written
\* again, not even by the reconciliation of a worker that starts meanwhile.
EndedRunStep == hazards = {} => \A j \in Jobs : RunEnded(j) => run'[j] = run[j]

EndedRunIsFinal == [][EndedRunStep]_vars

\* The run of a queued job reaches a terminal state unless a worker dies: the
\* poll that abandons a job is the only one that reports it for reconciliation.
EveryRunEnds ==
  \A j \in Jobs : status[j] = "queued" ~> RunEnded(j) \/ \E w \in Workers : step[w] = "dead"

\* Workers that start bring the run of a job that is already terminal to a
\* terminal state, whoever died before doing so, unless they all die too.
StartupReconciles ==
  \A j \in Jobs :
    Terminal(j) /\ (\E w \in Workers : step[w] = "off")
      ~> RunEnded(j) \/ \A w \in Workers : step[w] = "dead"
=============================================================================
