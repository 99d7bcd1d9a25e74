------------------------ MODULE SingleWriter_proofs -------------------------
(***************************************************************************)
(* The two mechanisms that keep a writer alone, for every configuration:   *)
(* the lock around a local snapshot, which protects it for any number of   *)
(* clients as long as nobody dies inside and operations end within         *)
(* StaleTicks; and the heartbeat of a lease, of which something is left    *)
(* when its campaign is gone.                                              *)
(***************************************************************************)
EXTENDS LocalFileLock, LeaseHeartbeat, TLAPS

-----------------------------------------------------------------------------
(* LocalFileLock.                                                          *)

LEMMA LockInductive == LockInvariant /\ [LockNext]_lockVars => LockInvariant'
<1> SUFFICES ASSUME LockInvariant, [LockNext]_lockVars PROVE LockInvariant'
  OBVIOUS
<1> USE LockAssumption DEF LockInvariant, LockProtects, LockTypeOK, UpdatesKept, Pc, Holding, Ended, Goto, lockVars
<1>1. ASSUME NEW c \in Clients, Open(c) PROVE LockInvariant'
  BY <1>1 DEF Open
<1>2. ASSUME NEW c \in Clients, Stat(c) PROVE LockInvariant'
  BY <1>2 DEF Stat
<1>3. ASSUME NEW c \in Clients, Unlink(c) PROVE LockInvariant'
  BY <1>3 DEF Unlink
<1>4. ASSUME NEW c \in Clients, Retry(c) PROVE LockInvariant'
  BY <1>4 DEF Retry
<1>5. ASSUME NEW c \in Clients, GiveUp(c) PROVE LockInvariant'
  BY <1>5 DEF GiveUp
<1>6. ASSUME NEW c \in Clients, Read(c) PROVE LockInvariant'
  BY <1>6 DEF Read
<1>7. ASSUME NEW c \in Clients, Rename(c) PROVE LockInvariant'
  BY <1>7 DEF Rename
<1>8. ASSUME NEW c \in Clients, OperationFails(c) PROVE LockInvariant'
  BY <1>8 DEF OperationFails
<1>9. ASSUME NEW c \in Clients, Release(c) PROVE LockInvariant'
  BY <1>9 DEF Release
<1>10. ASSUME NEW c \in Clients, Crash(c) PROVE LockInvariant'
  BY <1>10 DEF Crash
<1>11. ASSUME LockAges PROVE LockInvariant'
  BY <1>11 DEF LockAges
<1>12. CASE UNCHANGED lockVars
  BY <1>12
<1> QED
  BY <1>1, <1>2, <1>3, <1>4, <1>5, <1>6, <1>7, <1>8, <1>9, <1>10, <1>11, <1>12 DEF LockNext, Step

LEMMA LockInitial == LockInit => LockInvariant
BY LockAssumption DEF LockInit, LockInvariant, LockProtects, LockTypeOK, UpdatesKept, Pc, Holding, Ended

\* The invariant holds in every state; what it says of an execution without
\* crashes and slow operations is LockProtects.
THEOREM LockSafety == LockSpec => []LockInvariant
<1>1. LockInvariant /\ [LockNext]_lockVars => LockInvariant'
  BY LockInductive
<1> QED
  BY <1>1, LockInitial, PTL DEF LockSpec

\* Without crashes and slow operations no successful update is lost.
THEOREM NoLostUpdateHolds == LockSpec => []NoLostUpdate
<1>1. LockInvariant => NoLostUpdate
  BY DEF LockInvariant, LockProtects, NoLostUpdate
<1> QED
  BY <1>1, LockSafety, PTL

\* Without crashes and slow operations at most one client is inside the lock.
THEOREM MutualExclusionHolds == LockSpec => []MutualExclusion
<1>1. LockInvariant => MutualExclusion
  BY DEF LockInvariant, LockProtects, MutualExclusion
<1> QED
  BY <1>1, LockSafety, PTL

-----------------------------------------------------------------------------
(* LeaseHeartbeat.                                                         *)

LEMMA CycleType == Cycle \in Nat /\ HeartbeatTicks <= Cycle /\ RequestTicks <= Cycle
BY ContractAssumption, TimeAssumption DEF Cycle

\* Every cycle costs Cycle ticks.
LEMMA SpentGrows ==
  ASSUME NEW n \in Nat
  PROVE  /\ Spent(n) \in Nat
         /\ Spent(n + 1) = Spent(n) + Cycle
         /\ \A m \in 0 .. n : Spent(m) <= Spent(n)
<1>1. ASSUME NEW C \in Nat
      PROVE  /\ n * C \in Nat
             /\ (n + 1) * C = n * C + C
             /\ \A m \in 0 .. n : m * C <= n * C
  OBVIOUS
<1> QED
  BY <1>1, CycleType DEF Spent

\* The next beat starts at most a cycle after this one did.
LEMMA NextBeatBound ==
  ASSUME TypeOK
  PROVE  NextBeat \in Nat /\ NextBeat <= Cycle /\ NextBeat + elapsed <= Cycle
BY CycleType, ContractAssumption, TimeAssumption DEF TypeOK, NextBeat, Cycle

LEMMA ComputedBound ==
  ASSUME NEW e \in Nat
  PROVE  Computed(e) \in 0 .. LeaseTicks /\ Computed(e) >= LeaseTicks - e
BY ContractAssumption DEF Computed

LEMMA LaterBound ==
  ASSUME NEW t \in Nat
  PROVE  Later(t) \in Nat /\ Later(t) <= t /\ Later(t) >= t - 1
BY DEF Later

LEMMA StrayType ==
  ASSUME TypeOK, MayStray
  PROVE  strays' \subseteq 0 .. LeaseTicks
<1>1. Computed(elapsed) \in 0 .. LeaseTicks
  BY ComputedBound, TimeAssumption DEF TypeOK
<1> QED
  BY <1>1 DEF TypeOK, MayStray

LEMMA HeartbeatInitial == Init => HeartbeatInvariant
<1> SUFFICES ASSUME Init PROVE HeartbeatInvariant
  OBVIOUS
<1>1. lease \in 0 .. LeaseTicks
  BY ComputedBound, TimeAssumption DEF Init
<1>2. Spent(FailureLimit) \in Nat
  BY SpentGrows, ContractAssumption
<1>3. FailureLimit \in Nat \ {0} /\ RequestTicks \in Nat /\ GraceTicks \in Nat /\ Cycle \in Nat
  BY CycleType, ContractAssumption, TimeAssumption
<1>4. TypeOK
  <2>1. /\ timer = 0 /\ elapsed = 0 /\ failures = 0 /\ grace = 0 /\ overlap = 0
        /\ loop = "setup" /\ campaign = "none"
    BY DEF Init
  <2>2. strays = {} /\ taken \in BOOLEAN /\ covered \in BOOLEAN
    BY DEF Init
  <2> QED BY <1>1, <1>3, <2>1, <2>2 DEF TypeOK
<1>5. Phases
  BY <1>3 DEF Init, Phases
<1>6. LeaseBudget /\ OverlapBudget
  BY DEF Init, LeaseBudget, OverlapBudget, Exists, Beating
<1>7. OverlapBounded
  BY <1>2, <1>3 DEF Init, OverlapBounded
<1> QED
  BY <1>4, <1>5, <1>6, <1>7 DEF HeartbeatInvariant

LEMMA TypePreserved == HeartbeatInvariant /\ [Next]_vars => TypeOK'
<1> SUFFICES ASSUME HeartbeatInvariant, [Next]_vars PROVE TypeOK'
  OBVIOUS
<1> USE CycleType, ContractAssumption, TimeAssumption
    DEF HeartbeatInvariant, TypeOK, Phases, storeVars, loopVars, campaignVars
<1>1. CASE StartLoop
  BY <1>1 DEF StartLoop
<1>2. CASE Spawn
  BY <1>2 DEF Spawn
<1>3. CASE CampaignGone
  BY <1>3 DEF CampaignGone
<1>4. CASE StopLoop
  BY <1>4 DEF StopLoop
<1>5. CASE Beat
  BY <1>5 DEF Beat
<1>6. CASE Healthy
  BY <1>6, NextBeatBound DEF Healthy, EndBeat
<1>7. CASE Failure
  <2>1. strays' \subseteq 0 .. LeaseTicks
    BY <1>7, StrayType DEF Failure
  <2> QED BY <1>7, <2>1, NextBeatBound DEF Failure, EndBeat
<1>8. CASE FatalFailure
  <2>1. strays' \subseteq 0 .. LeaseTicks
    BY <1>8, StrayType DEF FatalFailure
  <2> QED BY <1>8, <2>1 DEF FatalFailure, Beating
<1>9. CASE StoreRenews
  <2>1. lease' \in 0 .. LeaseTicks
    BY <1>9, ComputedBound DEF StoreRenews
  <2> QED BY <1>9, <2>1 DEF StoreRenews
<1>10. CASE StoreRefuses
  BY <1>10 DEF StoreRefuses
<1>11. CASE StrayLands
  BY <1>11 DEF StrayLands
<1>12. CASE Recover
  BY <1>12 DEF Recover
<1>13. CASE Tick
  <2>1. lease' \in 0 .. LeaseTicks
    BY <1>13, LaterBound DEF Tick
  <2>2. strays' \subseteq 0 .. LeaseTicks
    BY <1>13, LaterBound DEF Tick
  <2> QED BY <1>13, <2>1, <2>2 DEF Tick
<1>14. CASE UNCHANGED vars
  BY <1>14 DEF vars
<1> QED
  BY <1>1, <1>2, <1>3, <1>4, <1>5, <1>6, <1>7, <1>8, <1>9, <1>10, <1>11, <1>12, <1>13, <1>14 DEF Next

LEMMA HeartbeatInductive == HeartbeatInvariant /\ [Next]_vars => HeartbeatInvariant'
<1> SUFFICES ASSUME HeartbeatInvariant, [Next]_vars PROVE HeartbeatInvariant'
  OBVIOUS
<1>t. TypeOK'
  BY TypePreserved
<1>n. failures + 1 \in Nat /\ FailureLimit \in Nat /\ elapsed \in Nat
  BY ContractAssumption, TimeAssumption DEF HeartbeatInvariant, TypeOK
<1>s. /\ Spent(failures + 1) \in Nat
      /\ Spent(FailureLimit) \in Nat
      /\ Spent(failures + 2) = Spent(failures + 1) + Cycle
      /\ Spent(1) = Cycle
      /\ Spent(failures + 1) >= Cycle
  <2>1. Spent(0 + 1) = Spent(0) + Cycle /\ Spent(0) = 0
    BY SpentGrows, CycleType DEF Spent
  <2>2. Spent((failures + 1) + 1) = Spent(failures + 1) + Cycle
    BY <1>n, SpentGrows
  <2>3. (failures + 1) + 1 = failures + 2 /\ 0 + 1 = 1 /\ 1 \in 0 .. failures + 1
    BY DEF HeartbeatInvariant, TypeOK
  <2>4. Spent(1) = Cycle
    BY <2>1, <2>3, CycleType
  <2>5. Spent(failures + 1) \in Nat /\ Spent(FailureLimit) \in Nat
    BY <1>n, SpentGrows
  <2>6. Spent(1) <= Spent(failures + 1)
    BY <1>n, <2>3, SpentGrows
  <2> QED BY <2>2, <2>3, <2>4, <2>5, <2>6
<1> USE CycleType, ContractAssumption, TimeAssumption, <1>t, <1>s
    DEF HeartbeatInvariant, TypeOK, Phases, LeaseBudget, OverlapBudget, OverlapBounded,
        Exists, Beating, storeVars, loopVars, campaignVars
<1>1. CASE StartLoop
  <2>1. failures' = failures /\ overlap' = 0 /\ HeartbeatTicks \in Nat
    BY <1>1 DEF StartLoop
  <2> QED BY <1>1, <2>1 DEF StartLoop
<1>2. CASE Spawn
  <2>1. overlap' = 0 /\ grace' = 0 /\ failures' = failures
    BY <1>2 DEF Spawn
  <2>2. covered' => covered /\ campaign' = "alive"
    BY <1>2 DEF Spawn
  <2>3. LeaseBudget'
    BY <1>2, <2>1, <2>2 DEF Spawn
  <2>4. Phases' /\ OverlapBudget' /\ OverlapBounded'
    BY <1>2, <2>1 DEF Spawn
  <2> QED BY <2>3, <2>4
<1>3. CASE CampaignGone
  BY <1>3 DEF CampaignGone
<1>4. CASE StopLoop
  BY <1>4 DEF StopLoop
<1>5. CASE Beat
  BY <1>5 DEF Beat
<1>6. CASE Healthy
  BY <1>6, NextBeatBound DEF Healthy, EndBeat
<1>7. CASE Failure
  BY <1>7, NextBeatBound DEF Failure, EndBeat
<1>8. CASE FatalFailure
  <2>1. Spent(failures + 1) <= Spent(FailureLimit)
    BY <1>8, SpentGrows DEF FatalFailure
  <2> QED BY <1>8, <2>1 DEF FatalFailure
<1>9. CASE StoreRenews
  BY <1>9, <1>n, ComputedBound DEF StoreRenews
<1>10. CASE StoreRefuses
  BY <1>10 DEF StoreRefuses
<1>11. CASE StrayLands
  BY <1>11 DEF StrayLands
<1>12. CASE Recover
  BY <1>12 DEF Recover
<1>13. CASE Tick
  <2>1. lease' >= lease - 1 /\ lease' \in Nat
    BY <1>13, LaterBound DEF Tick
  <2>2. Phases' /\ LeaseBudget' /\ OverlapBudget'
    BY <1>13, <2>1 DEF Tick
  <2>3. CASE ~Exists
    BY <1>13, <2>2, <2>3 DEF Tick
  <2>4. CASE campaign = "stopping"
    BY <1>13, <2>2, <2>4 DEF Tick
  <2>5. CASE campaign = "alive"
    <3>1. loop \in {"waiting", "sent", "renewed", "refused"} /\ failures + 1 \in 0 .. FailureLimit
      BY <2>5
    <3>2. Spent(failures + 1) <= Spent(FailureLimit)
      BY <3>1, SpentGrows
    <3> QED BY <1>13, <2>2, <2>5, <3>1, <3>2 DEF Tick
  <2> QED BY <2>2, <2>3, <2>4, <2>5
<1>14. CASE UNCHANGED vars
  BY <1>14 DEF vars
<1> QED
  BY <1>1, <1>2, <1>3, <1>4, <1>5, <1>6, <1>7, <1>8, <1>9, <1>10, <1>11, <1>12, <1>13, <1>14 DEF Next

\* The budgets of lease and overlap are kept in every configuration.
THEOREM BudgetSafety == Spec => []HeartbeatInvariant
BY HeartbeatInitial, HeartbeatInductive, PTL DEF Spec

\* A campaign never lives longer beside its successor than the failing
\* heartbeats, the last request and the grace take, under every contract.
THEOREM OverlapBoundedHolds == Spec => []OverlapBounded
<1>1. HeartbeatInvariant => OverlapBounded
  BY DEF HeartbeatInvariant
<1> QED
  BY <1>1, BudgetSafety, PTL

\* Under the sufficient contract a campaign whose lease the loop has renewed is
\* gone before it expires.
THEOREM GoneBeforeExpiryHolds ==
  ASSUME SufficientContract PROVE Spec => []GoneBeforeExpiry
<1>1. HeartbeatInvariant => GoneBeforeExpiry
  <2> SUFFICES ASSUME HeartbeatInvariant, Exists, covered PROVE lease > 0
    BY DEF GoneBeforeExpiry
  <2> USE ContractAssumption, TimeAssumption
      DEF HeartbeatInvariant, TypeOK, Phases, LeaseBudget, Exists, Beating
  <2>1. Spent(FailureLimit) \in Nat /\ Spent(FailureLimit) + RequestTicks + GraceTicks < LeaseTicks
    BY SpentGrows DEF SufficientContract
  <2>2. CASE campaign = "stopping"
    BY <2>1, <2>2
  <2>3. CASE campaign = "alive"
    <3>1. loop \in {"waiting", "sent", "renewed", "refused"} /\ failures + 1 \in 0 .. FailureLimit
      BY <2>3
    <3>2. Spent(failures + 1) \in Nat /\ Spent(failures + 1) <= Spent(FailureLimit)
      BY <3>1, SpentGrows
    <3> QED BY <2>1, <3>1, <3>2
  <2> QED BY <2>2, <2>3
<1> QED
  BY <1>1, BudgetSafety, PTL
=============================================================================
