---------------------------- MODULE ExecutionJobs ----------------------------
(***************************************************************************)
(* The durable execution-job store (LocalExecutionJobStore and the         *)
(* execution_jobs table) together with the sessions of the workers that    *)
(* poll it.  A session is the worker's local knowledge of the job it       *)
(* executes: the store only checks claimed_by, never the status and never  *)
(* the expiry, so what keeps the table consistent is the protocol the      *)
(* sessions follow.                                                        *)
(*                                                                         *)
(* lease[j] is lease_expires_at minus the current time, in ticks: the      *)
(* clock is the countdown of every lease, so no clock bound is needed.     *)
(***************************************************************************)
EXTENDS Integers, FiniteSets

CONSTANTS
  Jobs,        \* job ids, one per campaign run
  Workers,     \* worker ids
  Keys,        \* idempotency keys
  NoWorker, NoJob, NoKey,  \* the database's null, one per column type
  LeaseTicks,  \* INSSA_WORKER_LEASE_MS, in ticks
  AttemptLimits \* max_attempts an enqueue may choose: 1 mutating, 2 otherwise

ASSUME NullAssumption ==
  /\ NoWorker \notin Workers
  /\ NoJob \notin Jobs
  /\ NoKey \notin Keys

ASSUME LeaseAssumption == LeaseTicks \in Nat \ {0}

ASSUME AttemptAssumption == AttemptLimits \subseteq Nat \ {0}

VARIABLES
  status, attempt, maxAttempts, claimedBy, lease, keyOf,  \* columns of the job
  holds, stage,  \* the session of each worker
  started        \* history: jobs that were ever marked running

jobVars == <<status, attempt, maxAttempts, claimedBy, lease, keyOf, started>>
sessionVars == <<holds, stage>>
storeVars == <<jobVars, sessionVars>>

NoLease == -1
ActiveStatus == {"queued", "claimed", "running"}
TerminalStatus == {"completed", "failed", "abandoned"}
Status == {"none"} \cup ActiveStatus \cup TerminalStatus

\* "claimed": executeClaimedInssaJob before markRunning returns; "running":
\* after it, heartbeats on; "closing": complete was sent, heartbeats still on.
Stage == {"idle", "claimed", "running", "closing"}

Active(j) == status[j] \in ActiveStatus
Terminal(j) == status[j] \in TerminalStatus
\* Seeded fault: the owner's updates do not compare claimed_by.
OwnsWhatItHolds(w) == holds[w] # NoJob

Owns(w) == holds[w] # NoJob /\ claimedBy[holds[w]] = w

JobsInit ==
  /\ status = [j \in Jobs |-> "none"]
  /\ attempt = [j \in Jobs |-> 0]
  /\ maxAttempts = [j \in Jobs |-> 0]
  /\ claimedBy = [j \in Jobs |-> NoWorker]
  /\ lease = [j \in Jobs |-> NoLease]
  /\ keyOf = [j \in Jobs |-> NoKey]
  /\ holds = [w \in Workers |-> NoJob]
  /\ stage = [w \in Workers |-> "idle"]
  /\ started = {}
-----------------------------------------------------------------------------
(* The store. *)

\* A job is created only under a new idempotency key and while no job is
\* queued, claimed or running; otherwise the caller gets the existing job or
\* an error and the table is unchanged.
Enqueue(j, k, limit) ==
  /\ status[j] = "none"
  /\ \A i \in Jobs : keyOf[i] # k /\ ~Active(i)
  /\ status' = [status EXCEPT ![j] = "queued"]
  /\ attempt' = [attempt EXCEPT ![j] = 0]
  /\ maxAttempts' = [maxAttempts EXCEPT ![j] = limit]
  /\ claimedBy' = [claimedBy EXCEPT ![j] = NoWorker]
  /\ lease' = [lease EXCEPT ![j] = NoLease]
  /\ keyOf' = [keyOf EXCEPT ![j] = k]
  /\ UNCHANGED <<started, sessionVars>>

LeaseExpired(j) == lease[j] = 0

Expired == {j \in Jobs : status[j] \in {"claimed", "running"} /\ LeaseExpired(j)}
\* Seeded fault: recovery does not look at the attempts.
RetryableForEver(j) == status[j] = "claimed"

Retryable(j) == status[j] = "claimed" /\ attempt[j] < maxAttempts[j]

RecoveredStatus ==
  [j \in Jobs |-> IF j \notin Expired THEN status[j]
                  ELSE IF Retryable(j) THEN "queued" ELSE "abandoned"]

RecoveredOwner == [j \in Jobs |-> IF j \in Expired THEN NoWorker ELSE claimedBy[j]]
RecoveredLease == [j \in Jobs |-> IF j \in Expired THEN NoLease ELSE lease[j]]

\* Seeded fault: failed jobs are claimed again.
ClaimableFailed ==
  {j \in Jobs : RecoveredStatus[j] \in {"queued", "failed"} /\ attempt[j] < maxAttempts[j]}

Claimable == {j \in Jobs : RecoveredStatus[j] = "queued" /\ attempt[j] < maxAttempts[j]}

\* recoverAbandoned: recovery on its own, without a claim.
RecoverAbandoned ==
  /\ Expired # {}
  /\ status' = RecoveredStatus
  /\ claimedBy' = RecoveredOwner
  /\ lease' = RecoveredLease
  /\ UNCHANGED <<attempt, maxAttempts, keyOf, started, sessionVars>>

\* poll: one transaction recovers every expired job, then claims.  The code
\* claims the oldest queued job; OneActiveJob leaves at most one to choose.
PollClaims(w, j) ==
  /\ stage[w] = "idle"
  /\ j \in Claimable
  /\ status' = [RecoveredStatus EXCEPT ![j] = "claimed"]
  /\ claimedBy' = [RecoveredOwner EXCEPT ![j] = w]
  /\ lease' = [RecoveredLease EXCEPT ![j] = LeaseTicks]
  /\ attempt' = [attempt EXCEPT ![j] = @ + 1]
  /\ holds' = [holds EXCEPT ![w] = j]
  /\ stage' = [stage EXCEPT ![w] = "claimed"]
  /\ UNCHANGED <<maxAttempts, keyOf, started>>

\* A poll that finds nothing to claim.
PollIdle(w) ==
  /\ stage[w] = "idle"
  /\ Claimable = {}
  /\ RecoverAbandoned

Poll(w) == PollIdle(w) \/ \E j \in Jobs : PollClaims(w, j)
-----------------------------------------------------------------------------
(* The owner's updates: each is refused unless claimed_by is the caller. *)

MarkRunning(w) ==
  /\ stage[w] = "claimed"
  /\ Owns(w)
  /\ status' = [status EXCEPT ![holds[w]] = "running"]
  /\ lease' = [lease EXCEPT ![holds[w]] = LeaseTicks]
  /\ started' = started \cup {holds[w]}
  /\ stage' = [stage EXCEPT ![w] = "running"]
  /\ UNCHANGED <<attempt, maxAttempts, claimedBy, keyOf, holds>>

\* Heartbeats run beside the campaign until the session's finally block stops
\* them, so one may still renew the lease after the job was completed.
Heartbeat(w) ==
  /\ stage[w] \in {"running", "closing"}
  /\ Owns(w)
  /\ lease' = [lease EXCEPT ![holds[w]] = LeaseTicks]
  /\ UNCHANGED <<status, attempt, maxAttempts, claimedBy, keyOf, started, sessionVars>>

\* complete keeps claimed_by.  Without a campaign (its run is missing or
\* already terminal) the session is over; after one, heartbeats must stop.
Complete(w, outcome) ==
  /\ stage[w] \in {"claimed", "running"}
  /\ Owns(w)
  /\ status' = [status EXCEPT ![holds[w]] = outcome]
  /\ lease' = [lease EXCEPT ![holds[w]] = NoLease]
  /\ IF stage[w] = "claimed"
     THEN /\ stage' = [stage EXCEPT ![w] = "idle"]
          /\ holds' = [holds EXCEPT ![w] = NoJob]
     ELSE /\ stage' = [stage EXCEPT ![w] = "closing"]
          /\ UNCHANGED holds
  /\ UNCHANGED <<attempt, maxAttempts, claimedBy, keyOf, started>>

\* The reply to complete was lost: the catch block completes as failed.
CompleteAgain(w) ==
  /\ stage[w] = "closing"
  /\ Owns(w)
  /\ status' = [status EXCEPT ![holds[w]] = "failed"]
  /\ lease' = [lease EXCEPT ![holds[w]] = NoLease]
  /\ UNCHANGED <<attempt, maxAttempts, claimedBy, keyOf, started, sessionVars>>

\* The session ends without writing: the normal end after complete, an
\* ownership error, the heartbeat failure limit, an unreachable store, a crash.
EndSession(w) ==
  /\ stage[w] # "idle"
  /\ stage' = [stage EXCEPT ![w] = "idle"]
  /\ holds' = [holds EXCEPT ![w] = NoJob]
  /\ UNCHANGED jobVars

Tick ==
  /\ \E j \in Jobs : lease[j] > 0
  /\ lease' = [j \in Jobs |-> IF lease[j] > 0 THEN lease[j] - 1 ELSE lease[j]]
  /\ UNCHANGED <<status, attempt, maxAttempts, claimedBy, keyOf, started, sessionVars>>
-----------------------------------------------------------------------------
SessionEnds(w) ==
  \/ \E outcome \in {"completed", "failed"} : Complete(w, outcome)
  \/ EndSession(w)

JobsNext ==
  \/ \E j \in Jobs, k \in Keys, limit \in AttemptLimits : Enqueue(j, k, limit)
  \/ RecoverAbandoned
  \/ Tick
  \/ \E w \in Workers :
       Poll(w) \/ MarkRunning(w) \/ Heartbeat(w) \/ CompleteAgain(w) \/ SessionEnds(w)

JobsSpec == JobsInit /\ [][JobsNext]_storeVars

\* Time passes; some worker keeps polling; a session does not last for ever
\* (a command has a timeout, and the process tree is killed when it passes).
JobsFairness ==
  /\ WF_storeVars(Tick)
  /\ WF_storeVars(\E w \in Workers : Poll(w))
  /\ \A w \in Workers : WF_storeVars(SessionEnds(w))

JobsFairSpec == JobsSpec /\ JobsFairness
-----------------------------------------------------------------------------
(* Properties. *)

\* Every column and every session has its type.
JobTypeOK ==
  /\ status \in [Jobs -> Status]
  /\ attempt \in [Jobs -> Nat]
  /\ maxAttempts \in [Jobs -> Nat]
  /\ claimedBy \in [Jobs -> Workers \cup {NoWorker}]
  /\ lease \in [Jobs -> {NoLease} \cup 0..LeaseTicks]
  /\ keyOf \in [Jobs -> Keys \cup {NoKey}]
  /\ holds \in [Workers -> Jobs \cup {NoJob}]
  /\ stage \in [Workers -> Stage]
  /\ started \in SUBSET Jobs

\* One job at a time is queued, claimed or running, through enqueues, retries
\* and late owner updates (execution_jobs_one_active).
OneActiveJob == \A i, j \in Jobs : Active(i) /\ Active(j) => i = j

\* No active job is one that recovery and claim both pass over, which would
\* occupy the only slot for ever: a queued job has an attempt left and no owner,
\* and a claimed or running one has an owner and a lease that can expire.
NoStuckSlot ==
  \A j \in Jobs :
    /\ status[j] = "queued" => attempt[j] < maxAttempts[j]
    /\ status[j] \in {"none", "queued"} => claimedBy[j] = NoWorker
    /\ status[j] \in {"claimed", "running"} => claimedBy[j] # NoWorker /\ lease[j] # NoLease

\* A campaign that was declared running is never retried: the job never again
\* becomes queued or claimed ("Running campaigns are NEVER automatically
\* retried").
RunningNeverRetried == \A j \in started : status[j] \notin {"none", "queued", "claimed"}

\* Two workers are never both past markRunning with the same job, whatever
\* leases expired and whatever either still believes.
SoleExecutor ==
  \A v, w \in Workers :
    stage[v] = "running" /\ stage[w] = "running" /\ holds[v] = holds[w] => v = w

\* While a worker still owns the job of its session, the job is in the status
\* the session left it in; recovery never changes a job behind its owner's back.
SessionAgrees(w) ==
  /\ stage[w] = "idle" <=> holds[w] = NoJob
  /\ stage[w] \in {"running", "closing"} => holds[w] \in started
  /\ Owns(w) => \/ stage[w] = "claimed" /\ status[holds[w]] = "claimed"
                \/ stage[w] = "running" /\ status[holds[w]] = "running"
                \/ stage[w] = "closing" /\ status[holds[w]] \in {"completed", "failed"}

SessionsAgree == \A w \in Workers : SessionAgrees(w)

\* The inductive invariant: the safety properties support one another.
JobInvariant ==
  /\ JobTypeOK
  /\ OneActiveJob
  /\ NoStuckSlot
  /\ RunningNeverRetried
  /\ SoleExecutor
  /\ SessionsAgree

\* A live lease is respected: a job loses its owner only when its lease has
\* run out completely.
LeaseRespectingStep ==
  \A j \in Jobs :
    claimedBy[j] # NoWorker /\ claimedBy'[j] # claimedBy[j] => LeaseExpired(j)

LeaseRespected == [][LeaseRespectingStep]_storeVars

\* A terminal job stays terminal, although complete leaves claimed_by set and
\* the store would accept a late update; only a completed job whose reply was
\* lost may still turn into failed.
OutcomeKeepingStep ==
  \A j \in Jobs : Terminal(j) =>
    status'[j] = status[j] \/ (status[j] = "completed" /\ status'[j] = "failed")

TerminalIsFinal == [][OutcomeKeepingStep]_storeVars

\* Every queued job reaches a terminal status, so the slot is freed again.
EveryJobSettles == \A j \in Jobs : status[j] = "queued" ~> Terminal(j)

Slot == INSTANCE CampaignSlot WITH
  occupant <- {j \in Jobs : Active(j)},
  started <- started,
  finished <- {j \in Jobs : Terminal(j)}

\* The job store implements the single campaign slot.
ImplementsCampaignSlot == Slot!Spec
=============================================================================
