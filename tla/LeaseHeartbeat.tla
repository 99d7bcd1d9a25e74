--------------------------- MODULE LeaseHeartbeat ---------------------------
(***************************************************************************)
(* The heartbeat loop of a worker (startExecutionLeaseHeartbeat), the      *)
(* lease it renews and the termination it triggers, with explicit time,    *)
(* from the answer to markRunning on.  How long the session takes to start *)
(* the loop and then to spawn the campaign is not bounded: it awaits calls *)
(* without a timeout.  A heartbeat is answered, or abandoned, within       *)
(* RequestTicks; one that is abandoned may still reach the store later.    *)
(* Once the lease has run out, recovery may give the slot away.  The       *)
(* worker lives, and its event loop runs when a timer is due.              *)
(***************************************************************************)
EXTENDS Integers

CONSTANTS
  LeaseTicks,      \* leaseMs
  HeartbeatTicks,  \* heartbeatMs
  FailureLimit,    \* failureLimit
  RequestTicks,    \* the timeout of a store request
  GraceTicks       \* SIGTERM, grace, SIGKILL and reaping of the process group

\* validateContract.
ASSUME ContractAssumption ==
  /\ FailureLimit \in Nat \ {0}
  /\ HeartbeatTicks \in Nat \ {0}
  /\ LeaseTicks \in Nat
  /\ LeaseTicks > HeartbeatTicks
  /\ HeartbeatTicks * FailureLimit < LeaseTicks

ASSUME TimeAssumption == RequestTicks \in Nat /\ GraceTicks \in Nat

VARIABLES
  lease,     \* ticks until the lease expires, 0 when it has
  taken,     \* recovery has taken the job away: claimed_by names the worker no more
  loop,      \* "setup", "waiting" for the next beat, "sent" a request, "renewed"
             \* or "refused" by the store but not yet answered, or "stopped"
  timer,     \* ticks until the next beat
  elapsed,   \* ticks since the current beat started
  failures,  \* consecutiveFailures
  strays,    \* what abandoned requests still in flight would set the lease to
  campaign,  \* "none" yet, "alive", "stopping" after the abort, or "gone"
  grace,     \* ticks since its termination began
  covered,   \* history: the loop has renewed the lease, no stray has shortened it
             \* since, and the campaign was not spawned after the abort
  overlap    \* history: ticks the campaign has lived beside a possible successor

storeVars == <<lease, taken, strays, covered>>
loopVars == <<loop, timer, elapsed, failures>>
campaignVars == <<campaign, grace, overlap>>
vars == <<storeVars, loopVars, campaignVars>>

Later(t) == IF t > 0 THEN t - 1 ELSE 0

\* What is left of a lease that was computed when the current beat started.
Computed(e) == IF e < LeaseTicks THEN LeaseTicks - e ELSE 0

\* The answer to markRunning; the local store computes the lease as it writes.
Init ==
  /\ lease \in {Computed(e) : e \in 0 .. RequestTicks}
  /\ taken = FALSE
  /\ loop = "setup"
  /\ timer = 0
  /\ elapsed = 0
  /\ failures = 0
  /\ strays = {}
  /\ campaign = "none"
  /\ grace = 0
  /\ covered = FALSE
  /\ overlap = 0

Beating == loop \in {"sent", "renewed", "refused"}
Exists == campaign \in {"alive", "stopping"}
-----------------------------------------------------------------------------
(* The session and its campaign. *)

StartLoop ==
  /\ loop = "setup"
  /\ campaign = "none"
  /\ loop' = "waiting"
  /\ timer' = HeartbeatTicks
  /\ UNCHANGED <<elapsed, failures, storeVars, campaignVars>>

\* Seeded fault: the spawn does not look at the signal.
SpawnUnchecked ==
  /\ campaign = "none"
  /\ loop # "setup"
  /\ campaign' = "alive"
  /\ covered' = (covered /\ loop # "stopped")
  /\ UNCHANGED <<lease, taken, strays, loopVars, grace, overlap>>

\* The abort signal is looked at once more after the spawn.
Spawn ==
  /\ campaign = "none"
  /\ loop # "setup"
  /\ campaign' = IF loop = "stopped" THEN "stopping" ELSE "alive"
  /\ covered' = (covered /\ loop # "stopped")
  /\ UNCHANGED <<lease, taken, strays, loopVars, grace, overlap>>

\* The campaign ended, by itself or terminated, or the session failed before it.
CampaignGone ==
  /\ campaign # "gone"
  /\ campaign' = "gone"
  /\ UNCHANGED <<grace, overlap, storeVars, loopVars>>

\* stop(), when the session is through.
StopLoop ==
  /\ campaign = "gone"
  /\ loop = "waiting"
  /\ loop' = "stopped"
  /\ UNCHANGED <<timer, elapsed, failures, storeVars, campaignVars>>
-----------------------------------------------------------------------------
(* The loop. *)

\* The next beat is due HeartbeatTicks after this one started, or at once.
NextBeat == IF elapsed < HeartbeatTicks THEN HeartbeatTicks - elapsed ELSE 0

Beat ==
  /\ loop = "waiting"
  /\ timer = 0
  /\ loop' = "sent"
  /\ elapsed' = 0
  /\ UNCHANGED <<timer, failures, storeVars, campaignVars>>

\* A beat that ends after stop() was called schedules no other.
EndBeat ==
  /\ \/ loop' = "waiting"
     \/ campaign = "gone" /\ loop' = "stopped"
  /\ timer' = NextBeat

\* Seeded fault: whatever the store answers counts as healthy.
HealthyUnchecked ==
  /\ Beating
  /\ failures' = 0
  /\ EndBeat
  /\ UNCHANGED <<elapsed, storeVars, campaignVars>>

Healthy ==
  /\ loop = "renewed"
  /\ failures' = 0
  /\ EndBeat
  /\ UNCHANGED <<elapsed, storeVars, campaignVars>>

\* A failed request is over, or abandoned on its way to the store.
MayStray ==
  \/ UNCHANGED strays
  \/ loop = "sent" /\ strays' = strays \cup {Computed(elapsed)}

Failure ==
  /\ Beating
  /\ failures + 1 < FailureLimit
  /\ failures' = failures + 1
  /\ EndBeat
  /\ MayStray
  /\ UNCHANGED <<elapsed, lease, taken, covered, campaignVars>>

\* The failure limit is reached, or the store says that the job is another's:
\* the abort signal terminates the campaign.
FatalFailure ==
  /\ Beating
  /\ failures + 1 >= FailureLimit \/ loop = "refused"
  /\ failures' = failures + 1
  /\ loop' = "stopped"
  /\ campaign' = IF campaign = "alive" THEN "stopping" ELSE campaign
  /\ MayStray
  /\ UNCHANGED <<timer, elapsed, lease, taken, covered, grace, overlap>>
-----------------------------------------------------------------------------
(* The store. *)

\* The Supabase client computes the new lease before it sends the request, the
\* local store as it writes.
StoreRenews ==
  /\ loop = "sent"
  /\ ~taken
  /\ loop' = "renewed"
  /\ lease' \in {Computed(elapsed), LeaseTicks}
  /\ covered' = TRUE
  /\ UNCHANGED <<taken, strays, timer, elapsed, failures, campaignVars>>

StoreRefuses ==
  /\ loop = "sent"
  /\ taken
  /\ loop' = "refused"
  /\ UNCHANGED <<timer, elapsed, failures, storeVars, campaignVars>>

\* An abandoned request arrives; it does not know of newer ones.
StrayLands ==
  \E left \in strays :
    /\ strays' = strays \ {left}
    /\ lease' = IF taken THEN lease ELSE left
    /\ covered' = (covered /\ (taken \/ left >= lease))
    /\ UNCHANGED <<taken, loopVars, campaignVars>>

\* recoverAbandoned: the slot is free for another campaign.
Recover ==
  /\ lease = 0
  /\ ~taken
  /\ taken' = TRUE
  /\ UNCHANGED <<lease, strays, covered, loopVars, campaignVars>>

\* Time does not pass a due beat, a request's timeout or the end of the grace.
Tick ==
  /\ loop = "waiting" => timer > 0
  /\ Beating => elapsed < RequestTicks
  /\ campaign = "stopping" => grace < GraceTicks
  /\ lease' = Later(lease)
  /\ strays' = {Later(left) : left \in strays}
  /\ timer' = IF loop = "waiting" THEN timer - 1 ELSE timer
  /\ elapsed' = IF Beating THEN elapsed + 1 ELSE elapsed
  /\ grace' = IF campaign = "stopping" THEN grace + 1 ELSE grace
  /\ overlap' = IF taken /\ Exists THEN overlap + 1 ELSE overlap
  /\ UNCHANGED <<taken, covered, loop, failures, campaign>>

Next ==
  \/ StartLoop \/ Spawn \/ CampaignGone \/ StopLoop
  \/ Beat \/ Healthy \/ Failure \/ FatalFailure
  \/ StoreRenews \/ StoreRefuses \/ StrayLands \/ Recover
  \/ Tick

Spec == Init /\ [][Next]_vars
-----------------------------------------------------------------------------
(* Properties. *)

\* Ticks from the start of one beat to the start of the next, at most.
Cycle == IF HeartbeatTicks < RequestTicks THEN RequestTicks ELSE HeartbeatTicks

Spent(n) == n * Cycle

TypeOK ==
  /\ lease \in 0 .. LeaseTicks
  /\ taken \in BOOLEAN
  /\ loop \in {"setup", "waiting", "sent", "renewed", "refused", "stopped"}
  /\ timer \in 0 .. Cycle
  /\ elapsed \in 0 .. RequestTicks
  /\ failures \in 0 .. FailureLimit
  /\ strays \subseteq 0 .. LeaseTicks
  /\ campaign \in {"none", "alive", "stopping", "gone"}
  /\ grace \in 0 .. GraceTicks
  /\ covered \in BOOLEAN
  /\ overlap \in Nat

\* From its first renewal by the loop on, and unless an abandoned request has
\* shortened it since, the lease outlives the campaign: failures become fatal,
\* and the processes end, before the slot can be given away.
GoneBeforeExpiry == Exists /\ covered => lease > 0

\* However long the setup takes and however late requests arrive: a campaign
\* that has lost its slot is gone after the heartbeats that may fail, the last
\* request and the grace, so it never runs longer beside its successor.
OverlapBounded == overlap <= Spent(FailureLimit) + RequestTicks + GraceTicks

\* What the contract would have to say to give GoneBeforeExpiry.
SufficientContract == Spent(FailureLimit) + RequestTicks + GraceTicks < LeaseTicks

\* Where the loop, the process and the termination agree.
Phases ==
  /\ campaign = "none" => overlap = 0
  /\ loop = "setup" => campaign \in {"none", "gone"} /\ ~covered
  /\ campaign = "alive" => loop # "stopped"
  /\ campaign = "stopping" => loop = "stopped"
  /\ campaign \in {"none", "alive"} => grace = 0
  /\ loop # "stopped" => failures < FailureLimit
  /\ loop = "refused" => taken

\* What a covered lease still holds, counted from the last beat that renewed it.
LeaseBudget ==
  covered =>
    /\ loop = "waiting" => lease >= LeaseTicks - Spent(failures + 1) + timer
    /\ Beating => lease >= LeaseTicks - Spent(failures + 1) - elapsed
    /\ loop = "renewed" => lease >= LeaseTicks - elapsed
    /\ campaign = "stopping" => lease >= LeaseTicks - Spent(FailureLimit) - RequestTicks - grace

\* How long the campaign can have been without its slot, counted from the beat
\* during or before which it was lost.
OverlapBudget ==
  /\ ~taken => overlap = 0
  /\ Exists =>
       /\ loop = "waiting" => overlap + timer <= Spent(failures + 1)
       /\ Beating => overlap <= Spent(failures + 1) + elapsed
       /\ loop = "renewed" => overlap <= elapsed
       /\ campaign = "stopping" => overlap <= Spent(FailureLimit) + RequestTicks + grace

HeartbeatInvariant == TypeOK /\ Phases /\ LeaseBudget /\ OverlapBudget /\ OverlapBounded
=============================================================================
