----------------------- MODULE CampaignExecution_proofs -----------------------
(***************************************************************************)
(* What a campaign may rely on, for any sets of jobs, workers and keys,    *)
(* any lease length and attempt limits.  The argument is by one inductive  *)
(* invariant with two halves: what holds through every hazard, and what    *)
(* holds as long as nothing goes wrong around the code.  The job store's   *)
(* own invariant comes with its proofs, as every step of the composition   *)
(* is a step of the store or leaves it alone.                              *)
(***************************************************************************)
EXTENDS CampaignExecution, TLAPS

-----------------------------------------------------------------------------
(* Type correctness. *)

LEMMA RecoveryTypes ==
  ASSUME JobTypeOK
  PROVE  /\ RecoveredStatus \in [Jobs -> Status]
         /\ RecoveredOwner \in [Jobs -> Workers \cup {NoWorker}]
         /\ RecoveredLease \in [Jobs -> {NoLease} \cup 0..LeaseTicks]
         /\ Claimable \subseteq Jobs
BY DEF JobTypeOK, RecoveredStatus, RecoveredOwner, RecoveredLease, Claimable, Status,
       ActiveStatus, TerminalStatus
LEMMA TypeInvariance == JobTypeOK /\ [JobsNext]_storeVars => JobTypeOK'
<1> SUFFICES ASSUME JobTypeOK, [JobsNext]_storeVars PROVE JobTypeOK'
  OBVIOUS
<1> USE DEF JobTypeOK, storeVars, jobVars, sessionVars
<1>t. LeaseTicks \in Nat \ {0} /\ LeaseTicks \in {NoLease} \cup 0..LeaseTicks
  BY LeaseAssumption
<1>s. {"queued", "claimed", "running", "completed", "failed"} \subseteq Status
  BY DEF Status, ActiveStatus, TerminalStatus
<1>g. {"idle", "claimed", "running", "closing"} \subseteq Stage
  BY DEF Stage
<1>o. ASSUME NEW w \in Workers, Owns(w) PROVE holds[w] \in Jobs
  BY <1>o DEF Owns
<1>1. ASSUME NEW j \in Jobs, NEW k \in Keys, NEW limit \in AttemptLimits, Enqueue(j, k, limit)
      PROVE  JobTypeOK'
  BY <1>1, <1>s, AttemptAssumption DEF Enqueue
<1>2. ASSUME RecoverAbandoned PROVE JobTypeOK'
  BY <1>2, RecoveryTypes DEF RecoverAbandoned
<1>3. ASSUME Tick PROVE JobTypeOK'
  <2>1. lease' \in [Jobs -> {NoLease} \cup 0..LeaseTicks]
    BY <1>3, <1>t DEF Tick, NoLease
  <2> QED BY <1>3, <2>1 DEF Tick
<1>4. ASSUME NEW w \in Workers, NEW j \in Jobs, PollClaims(w, j) PROVE JobTypeOK'
  <2>1. status' \in [Jobs -> Status] /\ claimedBy' \in [Jobs -> Workers \cup {NoWorker}]
        /\ lease' \in [Jobs -> {NoLease} \cup 0..LeaseTicks]
    BY <1>4, <1>s, <1>t, RecoveryTypes DEF PollClaims
  <2>2. attempt' \in [Jobs -> Nat] /\ holds' \in [Workers -> Jobs \cup {NoJob}]
        /\ stage' \in [Workers -> Stage]
    BY <1>4, <1>g DEF PollClaims
  <2> QED BY <1>4, <2>1, <2>2 DEF PollClaims
<1>5. ASSUME NEW w \in Workers, MarkRunning(w) PROVE JobTypeOK'
  BY <1>5, <1>o, <1>s, <1>t, <1>g DEF MarkRunning
<1>6. ASSUME NEW w \in Workers, Heartbeat(w) PROVE JobTypeOK'
  BY <1>6, <1>t DEF Heartbeat
<1>7. ASSUME NEW w \in Workers, NEW outcome \in {"completed", "failed"}, Complete(w, outcome)
      PROVE  JobTypeOK'
  BY <1>7, <1>s, <1>g DEF Complete
<1>8. ASSUME NEW w \in Workers, CompleteAgain(w) PROVE JobTypeOK'
  BY <1>8, <1>s DEF CompleteAgain
<1>9. ASSUME NEW w \in Workers, EndSession(w) PROVE JobTypeOK'
  BY <1>9, <1>g DEF EndSession
<1>10. CASE UNCHANGED storeVars
  BY <1>10
<1> QED
  BY <1>1, <1>2, <1>3, <1>4, <1>5, <1>6, <1>7, <1>8, <1>9
  DEF JobsNext, Poll, PollIdle, SessionEnds
\* Every reachable state of the job store and its sessions is well typed.
THEOREM TypeCorrect == JobsSpec => []JobTypeOK
<1>1. JobsInit => JobTypeOK
  BY DEF JobsInit, JobTypeOK, Status, Stage
<1> QED
  BY <1>1, TypeInvariance, PTL DEF JobsSpec

-----------------------------------------------------------------------------
(* The safety invariant. *)

LEMMA StatusSets ==
  /\ ActiveStatus = {"queued", "claimed", "running"}
  /\ TerminalStatus = {"completed", "failed", "abandoned"}
BY DEF ActiveStatus, TerminalStatus

\* What recovery does to a job, with the cases of RecoveredStatus spelled out.
LEMMA RecoveryFacts ==
  ASSUME JobInvariant, NEW j \in Jobs
  PROVE  /\ RecoveredStatus[j] \in ActiveStatus => Active(j)
         /\ RecoveredStatus[j] = "queued" => attempt[j] < maxAttempts[j]
         /\ j \notin Expired => /\ RecoveredStatus[j] = status[j]
                                /\ RecoveredOwner[j] = claimedBy[j]
                                /\ RecoveredLease[j] = lease[j]
         /\ j \in Expired => /\ status[j] \in {"claimed", "running"}
                             /\ RecoveredStatus[j] \in {"queued", "abandoned"}
                             /\ RecoveredStatus[j] = "queued" => status[j] = "claimed"
                             /\ RecoveredOwner[j] = NoWorker
BY StatusSets
DEF JobInvariant, NoStuckSlot, RecoveredStatus, RecoveredOwner, RecoveredLease, Expired,
    Retryable, Active
LEMMA JobInductive == JobInvariant /\ [JobsNext]_storeVars => JobInvariant'
<1> SUFFICES ASSUME JobInvariant, [JobsNext]_storeVars PROVE JobInvariant'
  OBVIOUS
<1>t. JobTypeOK /\ JobTypeOK'
  BY TypeInvariance DEF JobInvariant
<1> USE NullAssumption, LeaseAssumption DEF storeVars, jobVars, sessionVars
<1>1. ASSUME NEW j \in Jobs, NEW k \in Keys, NEW limit \in AttemptLimits, Enqueue(j, k, limit)
      PROVE  JobInvariant'
  <2>1. OneActiveJob'
    BY <1>1 DEF Enqueue, OneActiveJob, Active
  <2>2. NoStuckSlot'
    BY <1>1, AttemptAssumption DEF JobInvariant, JobTypeOK, Enqueue, NoStuckSlot
  <2>3. RunningNeverRetried'
    BY <1>1 DEF JobInvariant, Enqueue, RunningNeverRetried
  <2>4. SoleExecutor'
    BY <1>1 DEF JobInvariant, Enqueue, SoleExecutor
  <2>5. SessionsAgree'
    BY <1>1 DEF JobInvariant, Enqueue, SessionsAgree, SessionAgrees, Owns
  <2> QED BY <1>t, <2>1, <2>2, <2>3, <2>4, <2>5 DEF JobInvariant
<1>2. ASSUME RecoverAbandoned
      PROVE  JobInvariant'
  <2>1. OneActiveJob'
    BY <1>2, RecoveryFacts DEF JobInvariant, RecoverAbandoned, OneActiveJob, Active
  <2>2. NoStuckSlot'
    BY <1>2, RecoveryFacts DEF JobInvariant, RecoverAbandoned, NoStuckSlot
  <2>3. RunningNeverRetried'
    BY <1>2, RecoveryFacts DEF JobInvariant, JobTypeOK, RecoverAbandoned, RunningNeverRetried
  <2>4. SoleExecutor'
    BY <1>2 DEF JobInvariant, RecoverAbandoned, SoleExecutor
  <2>5. SessionsAgree'
    BY <1>2, RecoveryFacts
    DEF JobInvariant, JobTypeOK, RecoverAbandoned, SessionsAgree, SessionAgrees, Owns
  <2> QED BY <1>t, <2>1, <2>2, <2>3, <2>4, <2>5 DEF JobInvariant
<1>3. ASSUME Tick
      PROVE  JobInvariant'
  <2>1. OneActiveJob'
    BY <1>3 DEF JobInvariant, Tick, OneActiveJob, Active
  <2>2. NoStuckSlot'
    BY <1>3 DEF JobInvariant, Tick, NoStuckSlot, NoLease
  <2>3. RunningNeverRetried'
    BY <1>3 DEF JobInvariant, Tick, RunningNeverRetried
  <2>4. SoleExecutor'
    BY <1>3 DEF JobInvariant, Tick, SoleExecutor
  <2>5. SessionsAgree'
    BY <1>3 DEF JobInvariant, Tick, SessionsAgree, SessionAgrees, Owns
  <2> QED BY <1>t, <2>1, <2>2, <2>3, <2>4, <2>5 DEF JobInvariant
<1>4. ASSUME NEW w \in Workers, NEW j \in Jobs, PollClaims(w, j)
      PROVE  JobInvariant'
  <2>1. OneActiveJob'
    BY <1>4, RecoveryFacts, StatusSets
    DEF JobInvariant, PollClaims, OneActiveJob, Active, Claimable
  <2>2. NoStuckSlot'
    BY <1>4, RecoveryFacts, RecoveryTypes
    DEF JobInvariant, PollClaims, NoStuckSlot, NoLease
  <2>3. RunningNeverRetried'
    BY <1>4, RecoveryFacts
    DEF JobInvariant, JobTypeOK, PollClaims, RunningNeverRetried, Claimable
  <2>4. SoleExecutor'
    BY <1>4 DEF JobInvariant, PollClaims, SoleExecutor
  <2>5. SessionsAgree'
    BY <1>4, RecoveryFacts, RecoveryTypes
    DEF JobInvariant, JobTypeOK, PollClaims, SessionsAgree, SessionAgrees, Owns
  <2> QED BY <1>t, <2>1, <2>2, <2>3, <2>4, <2>5 DEF JobInvariant
<1>5. ASSUME NEW w \in Workers, MarkRunning(w)
      PROVE  JobInvariant'
  <2>1. OneActiveJob'
    BY <1>5, StatusSets
    DEF JobInvariant, MarkRunning, OneActiveJob, Active, SessionsAgree, SessionAgrees
  <2>2. NoStuckSlot'
    BY <1>5
    DEF JobInvariant, MarkRunning, NoStuckSlot, NoLease, SessionsAgree, SessionAgrees
  <2>3. RunningNeverRetried'
    BY <1>5, <1>t DEF JobInvariant, JobTypeOK, MarkRunning, RunningNeverRetried
  <2>4. SoleExecutor'
    BY <1>5
    DEF JobInvariant, MarkRunning, SoleExecutor, SessionsAgree, SessionAgrees,
        RunningNeverRetried
  <2>5. SessionsAgree'
    BY <1>5 DEF JobInvariant, JobTypeOK, MarkRunning, SessionsAgree, SessionAgrees, Owns
  <2> QED BY <1>t, <2>1, <2>2, <2>3, <2>4, <2>5 DEF JobInvariant
<1>6. ASSUME NEW w \in Workers, Heartbeat(w)
      PROVE  JobInvariant'
  <2>1. OneActiveJob'
    BY <1>6 DEF JobInvariant, Heartbeat, OneActiveJob, Active
  <2>2. NoStuckSlot'
    BY <1>6 DEF JobInvariant, Heartbeat, NoStuckSlot, NoLease
  <2>3. RunningNeverRetried'
    BY <1>6 DEF JobInvariant, Heartbeat, RunningNeverRetried
  <2>4. SoleExecutor'
    BY <1>6 DEF JobInvariant, Heartbeat, SoleExecutor
  <2>5. SessionsAgree'
    BY <1>6 DEF JobInvariant, Heartbeat, SessionsAgree, SessionAgrees, Owns
  <2> QED BY <1>t, <2>1, <2>2, <2>3, <2>4, <2>5 DEF JobInvariant
<1>7. ASSUME NEW w \in Workers, NEW outcome \in {"completed", "failed"}, Complete(w, outcome)
      PROVE  JobInvariant'
  <2>1. OneActiveJob'
    BY <1>7, StatusSets DEF JobInvariant, Complete, OneActiveJob, Active
  <2>2. NoStuckSlot'
    BY <1>7 DEF JobInvariant, JobTypeOK, Complete, NoStuckSlot
  <2>3. RunningNeverRetried'
    BY <1>7 DEF JobInvariant, Complete, RunningNeverRetried
  <2>4. SoleExecutor'
    BY <1>7 DEF JobInvariant, JobTypeOK, Complete, SoleExecutor
  <2>5. SessionsAgree'
    BY <1>7 DEF JobInvariant, JobTypeOK, Complete, SessionsAgree, SessionAgrees, Owns
  <2> QED BY <1>t, <2>1, <2>2, <2>3, <2>4, <2>5 DEF JobInvariant
<1>8. ASSUME NEW w \in Workers, CompleteAgain(w)
      PROVE  JobInvariant'
  <2>1. OneActiveJob'
    BY <1>8, StatusSets DEF JobInvariant, CompleteAgain, OneActiveJob, Active
  <2>2. NoStuckSlot'
    BY <1>8 DEF JobInvariant, CompleteAgain, NoStuckSlot, SessionsAgree, SessionAgrees
  <2>3. RunningNeverRetried'
    BY <1>8 DEF JobInvariant, CompleteAgain, RunningNeverRetried
  <2>4. SoleExecutor'
    BY <1>8 DEF JobInvariant, CompleteAgain, SoleExecutor
  <2>5. SessionsAgree'
    BY <1>8 DEF JobInvariant, CompleteAgain, SessionsAgree, SessionAgrees, Owns
  <2> QED BY <1>t, <2>1, <2>2, <2>3, <2>4, <2>5 DEF JobInvariant
<1>9. ASSUME NEW w \in Workers, EndSession(w)
      PROVE  JobInvariant'
  <2>1. OneActiveJob'
    BY <1>9 DEF JobInvariant, EndSession, OneActiveJob, Active
  <2>2. NoStuckSlot'
    BY <1>9 DEF JobInvariant, EndSession, NoStuckSlot
  <2>3. RunningNeverRetried'
    BY <1>9 DEF JobInvariant, EndSession, RunningNeverRetried
  <2>4. SoleExecutor'
    BY <1>9 DEF JobInvariant, EndSession, SoleExecutor, SessionsAgree, SessionAgrees
  <2>5. SessionsAgree'
    BY <1>9 DEF JobInvariant, JobTypeOK, EndSession, SessionsAgree, SessionAgrees, Owns
  <2> QED BY <1>t, <2>1, <2>2, <2>3, <2>4, <2>5 DEF JobInvariant
<1>10. CASE UNCHANGED storeVars
  BY <1>10, <1>t
  DEF JobInvariant, OneActiveJob, Active, NoStuckSlot, RunningNeverRetried, SoleExecutor,
      SessionsAgree, SessionAgrees, Owns
<1> QED
  BY <1>1, <1>2, <1>3, <1>4, <1>5, <1>6, <1>7, <1>8, <1>9, <1>10
  DEF JobsNext, Poll, PollIdle, SessionEnds
LEMMA JobInitial == JobsInit => JobInvariant
BY DEF JobsInit, JobInvariant, JobTypeOK, Status, Stage, OneActiveJob, Active, ActiveStatus,
       NoStuckSlot, RunningNeverRetried, SoleExecutor, SessionsAgree, SessionAgrees, Owns
\* The inductive invariant holds in every reachable state.
THEOREM JobSafety == JobsSpec => []JobInvariant
BY JobInitial, JobInductive, PTL DEF JobsSpec

\* One campaign slot: at most one job is queued, claimed or running.
THEOREM OneActiveJobHolds == JobsSpec => []OneActiveJob
<1>1. JobInvariant => OneActiveJob
  BY DEF JobInvariant
<1> QED
  BY <1>1, JobSafety, PTL

\* No job can block the slot in a way that neither claim nor recovery sees.
THEOREM NoStuckSlotHolds == JobsSpec => []NoStuckSlot
<1>1. JobInvariant => NoStuckSlot
  BY DEF JobInvariant
<1> QED
  BY <1>1, JobSafety, PTL

\* A campaign that was declared running is never queued or claimed again.
THEOREM RunningNeverRetriedHolds == JobsSpec => []RunningNeverRetried
<1>1. JobInvariant => RunningNeverRetried
  BY DEF JobInvariant
<1> QED
  BY <1>1, JobSafety, PTL

\* No two workers are past markRunning with the same job.
THEOREM SoleExecutorHolds == JobsSpec => []SoleExecutor
<1>1. JobInvariant => SoleExecutor
  BY DEF JobInvariant
<1> QED
  BY <1>1, JobSafety, PTL

-----------------------------------------------------------------------------
(* Action properties. *)

LEMMA LeaseStep == JobInvariant /\ [JobsNext]_storeVars => [LeaseRespectingStep]_storeVars
<1> SUFFICES ASSUME JobInvariant, JobsNext PROVE LeaseRespectingStep
  OBVIOUS
<1> USE NullAssumption DEF storeVars, jobVars, sessionVars
<1>1. ASSUME NEW j \in Jobs, NEW k \in Keys, NEW limit \in AttemptLimits, Enqueue(j, k, limit)
     PROVE  LeaseRespectingStep
  BY <1>1 DEF Enqueue, LeaseRespectingStep, JobInvariant, NoStuckSlot
<1>2. ASSUME RecoverAbandoned
     PROVE  LeaseRespectingStep
  BY <1>2, RecoveryFacts DEF RecoverAbandoned, LeaseRespectingStep, Expired
<1>3. ASSUME Tick
     PROVE  LeaseRespectingStep
  BY <1>3 DEF Tick, LeaseRespectingStep
<1>4. ASSUME NEW w \in Workers, NEW j \in Jobs, PollClaims(w, j)
     PROVE  LeaseRespectingStep
  BY <1>4, RecoveryFacts
  DEF PollClaims, LeaseRespectingStep, Claimable, Expired, JobInvariant, NoStuckSlot
<1>5. ASSUME NEW w \in Workers, MarkRunning(w)
     PROVE  LeaseRespectingStep
  BY <1>5 DEF MarkRunning, LeaseRespectingStep
<1>6. ASSUME NEW w \in Workers, Heartbeat(w)
     PROVE  LeaseRespectingStep
  BY <1>6 DEF Heartbeat, LeaseRespectingStep
<1>7. ASSUME NEW w \in Workers, NEW outcome \in {"completed", "failed"}, Complete(w, outcome)
     PROVE  LeaseRespectingStep
  BY <1>7 DEF Complete, LeaseRespectingStep
<1>8. ASSUME NEW w \in Workers, CompleteAgain(w)
     PROVE  LeaseRespectingStep
  BY <1>8 DEF CompleteAgain, LeaseRespectingStep
<1>9. ASSUME NEW w \in Workers, EndSession(w)
     PROVE  LeaseRespectingStep
  BY <1>9 DEF EndSession, LeaseRespectingStep
<1> QED
  BY <1>1, <1>2, <1>3, <1>4, <1>5, <1>6, <1>7, <1>8, <1>9
  DEF JobsNext, Poll, PollIdle, SessionEnds

\* A live lease is respected: a job changes hands only after its lease ran out.
THEOREM LeaseRespectedHolds == JobsSpec => LeaseRespected
BY LeaseStep, JobSafety, PTL DEF JobsSpec, LeaseRespected

LEMMA OutcomeStep == JobInvariant /\ [JobsNext]_storeVars => [OutcomeKeepingStep]_storeVars
<1> SUFFICES ASSUME JobInvariant, JobsNext PROVE OutcomeKeepingStep
  OBVIOUS
<1> USE NullAssumption DEF storeVars, jobVars, sessionVars
<1>1. ASSUME NEW j \in Jobs, NEW k \in Keys, NEW limit \in AttemptLimits, Enqueue(j, k, limit)
     PROVE  OutcomeKeepingStep
  BY <1>1, StatusSets DEF Enqueue, OutcomeKeepingStep, Terminal
<1>2. ASSUME RecoverAbandoned
     PROVE  OutcomeKeepingStep
  BY <1>2, RecoveryFacts, StatusSets DEF RecoverAbandoned, OutcomeKeepingStep, Terminal
<1>3. ASSUME Tick
     PROVE  OutcomeKeepingStep
  BY <1>3 DEF Tick, OutcomeKeepingStep
<1>4. ASSUME NEW w \in Workers, NEW j \in Jobs, PollClaims(w, j)
     PROVE  OutcomeKeepingStep
  BY <1>4, RecoveryFacts, StatusSets
  DEF PollClaims, OutcomeKeepingStep, Terminal, Claimable
<1>5. ASSUME NEW w \in Workers, MarkRunning(w)
     PROVE  OutcomeKeepingStep
  BY <1>5, StatusSets
  DEF MarkRunning, OutcomeKeepingStep, Terminal, JobInvariant, SessionsAgree,
      SessionAgrees
<1>6. ASSUME NEW w \in Workers, Heartbeat(w)
     PROVE  OutcomeKeepingStep
  BY <1>6 DEF Heartbeat, OutcomeKeepingStep
<1>7. ASSUME NEW w \in Workers, NEW outcome \in {"completed", "failed"}, Complete(w, outcome)
     PROVE  OutcomeKeepingStep
  BY <1>7, StatusSets
  DEF Complete, OutcomeKeepingStep, Terminal, JobInvariant, SessionsAgree, SessionAgrees
<1>8. ASSUME NEW w \in Workers, CompleteAgain(w)
     PROVE  OutcomeKeepingStep
  BY <1>8
  DEF CompleteAgain, OutcomeKeepingStep, JobInvariant, SessionsAgree, SessionAgrees
<1>9. ASSUME NEW w \in Workers, EndSession(w)
     PROVE  OutcomeKeepingStep
  BY <1>9 DEF EndSession, OutcomeKeepingStep
<1> QED
  BY <1>1, <1>2, <1>3, <1>4, <1>5, <1>6, <1>7, <1>8, <1>9
  DEF JobsNext, Poll, PollIdle, SessionEnds

\* A terminal job stays terminal; only completed may still turn into failed.
THEOREM TerminalIsFinalHolds == JobsSpec => TerminalIsFinal
BY OutcomeStep, JobSafety, PTL DEF JobsSpec, TerminalIsFinal

-----------------------------------------------------------------------------
(* Refinement of the campaign slot. *)

LEMMA SlotInitial == JobsInit => Slot!Init
BY DEF JobsInit, Slot!Init, Active, Terminal, ActiveStatus, TerminalStatus
\* A step that changes no job between its three phases (unborn, active,
\* terminal) and no history is a stutter of the slot.
LEMMA SlotStutter ==
  ASSUME started' = started,
         \A i \in Jobs : (Active(i)' <=> Active(i)) /\ (Terminal(i)' <=> Terminal(i))
  PROVE  UNCHANGED Slot!vars
BY DEF Slot!vars

\* The only active job became terminal.
LEMMA SlotFinish ==
  ASSUME OneActiveJob, started' = started,
         NEW j \in Jobs, Active(j), ~Active(j)', Terminal(j)',
         \A i \in Jobs \ {j} : (Active(i)' <=> Active(i)) /\ (Terminal(i)' <=> Terminal(i))
  PROVE  Slot!Finish(j)
BY DEF Slot!Finish, OneActiveJob
LEMMA SlotStep == JobInvariant /\ [JobsNext]_storeVars => [Slot!Next]_(Slot!vars)
<1> SUFFICES ASSUME JobInvariant, [JobsNext]_storeVars PROVE [Slot!Next]_(Slot!vars)
  OBVIOUS
<1> USE NullAssumption DEF storeVars, jobVars, sessionVars
<1>i. OneActiveJob /\ JobTypeOK /\ RunningNeverRetried
  BY DEF JobInvariant
<1>o. ASSUME NEW w \in Workers, Owns(w)
      PROVE  /\ holds[w] \in Jobs
             /\ stage[w] = "claimed" => status[holds[w]] = "claimed"
             /\ stage[w] = "running" => status[holds[w]] = "running"
             /\ stage[w] = "closing" => status[holds[w]] \in {"completed", "failed"}
  BY <1>o DEF JobInvariant, JobTypeOK, SessionsAgree, SessionAgrees
<1>1. ASSUME NEW j \in Jobs, NEW k \in Keys, NEW limit \in AttemptLimits, Enqueue(j, k, limit)
      PROVE  Slot!Next
  <2>1. Slot!Admit(j)
    BY <1>1, <1>i, StatusSets DEF Enqueue, Slot!Admit, Active, Terminal, JobTypeOK
  <2> QED BY <2>1 DEF Slot!Next
<1>2. ASSUME RecoverAbandoned PROVE [Slot!Next]_(Slot!vars)
  <2>1. PICK j \in Jobs : j \in Expired
    BY <1>2 DEF RecoverAbandoned, Expired
  <2>2. Active(j) /\ \A i \in Jobs \ {j} : i \notin Expired
    BY <2>1, <1>i, StatusSets DEF Expired, Active, OneActiveJob
  <2>3. \A i \in Jobs \ {j} : status'[i] = status[i]
    BY <1>2, <2>2 DEF RecoverAbandoned, RecoveredStatus
  <2>4. CASE Retryable(j)
    <3>1. status'[j] = "queued"
      BY <1>2, <2>1, <2>4 DEF RecoverAbandoned, RecoveredStatus
    <3> QED BY <1>2, <2>2, <2>3, <3>1, SlotStutter, StatusSets
            DEF RecoverAbandoned, Active, Terminal
  <2>5. CASE ~Retryable(j)
    <3>1. status'[j] = "abandoned"
      BY <1>2, <2>1, <2>5 DEF RecoverAbandoned, RecoveredStatus
    <3>2. Slot!Finish(j)
      BY <1>2, <1>i, <2>2, <2>3, <3>1, SlotFinish, StatusSets
      DEF RecoverAbandoned, Active, Terminal
    <3> QED BY <3>2 DEF Slot!Next
  <2> QED BY <2>4, <2>5
<1>3. ASSUME Tick PROVE UNCHANGED Slot!vars
  BY <1>3, SlotStutter DEF Tick, Active, Terminal
<1>4. ASSUME NEW w \in Workers, NEW j \in Jobs, PollClaims(w, j) PROVE UNCHANGED Slot!vars
  <2>1. Active(j) /\ status'[j] = "claimed"
    BY <1>4, <1>i, RecoveryFacts, RecoveryTypes, StatusSets DEF PollClaims, Claimable
  <2>2. \A i \in Jobs \ {j} : status'[i] = status[i]
    BY <1>4, <2>1, <1>i, StatusSets
    DEF PollClaims, RecoveredStatus, Expired, OneActiveJob, Active
  <2> QED BY <1>4, <2>1, <2>2, SlotStutter, StatusSets DEF PollClaims, Active, Terminal
<1>5. ASSUME NEW w \in Workers, MarkRunning(w) PROVE Slot!Next
  <2>1. holds[w] \in Jobs /\ status[holds[w]] = "claimed" /\ status'[holds[w]] = "running"
    BY <1>5, <1>o, <1>i DEF MarkRunning, JobTypeOK
  <2>2. holds[w] \notin started
    BY <1>i, <2>1 DEF RunningNeverRetried
  <2>3. \A i \in Jobs : (Active(i)' <=> Active(i)) /\ (Terminal(i)' <=> Terminal(i))
    BY <1>5, <2>1, StatusSets DEF MarkRunning, Active, Terminal
  <2>4. Active(holds[w]) /\ started' = started \cup {holds[w]}
    BY <1>5, <2>1, StatusSets DEF MarkRunning, Active
  <2>5. Slot!Start(holds[w])
    BY <2>1, <2>2, <2>3, <2>4 DEF Slot!Start
  <2> QED BY <2>1, <2>5 DEF Slot!Next
<1>6. ASSUME NEW w \in Workers, Heartbeat(w) PROVE UNCHANGED Slot!vars
  BY <1>6, SlotStutter DEF Heartbeat, Active, Terminal
<1>7. ASSUME NEW w \in Workers, NEW outcome \in {"completed", "failed"}, Complete(w, outcome)
      PROVE  Slot!Next
  <2>1. PICK j \in Jobs : j = holds[w] /\ status[j] \in {"claimed", "running"}
    BY <1>7, <1>o DEF Complete
  <2>2. status' = [status EXCEPT ![j] = outcome] /\ started' = started
    BY <1>7, <2>1 DEF Complete
  <2>3. Active(j) /\ ~Active(j)' /\ Terminal(j)'
    BY <1>i, <2>1, <2>2, StatusSets DEF JobTypeOK, Active, Terminal
  <2>4. \A i \in Jobs \ {j} : (Active(i)' <=> Active(i)) /\ (Terminal(i)' <=> Terminal(i))
    BY <2>2 DEF Active, Terminal
  <2>5. Slot!Finish(j)
    BY <1>i, <2>2, <2>3, <2>4, SlotFinish
  <2> QED BY <2>5 DEF Slot!Next
<1>8. ASSUME NEW w \in Workers, CompleteAgain(w) PROVE UNCHANGED Slot!vars
  BY <1>8, <1>o, SlotStutter, StatusSets DEF CompleteAgain, Active, Terminal
<1>9. ASSUME NEW w \in Workers, EndSession(w) PROVE UNCHANGED Slot!vars
  BY <1>9, SlotStutter DEF EndSession, Active, Terminal
<1>10. CASE UNCHANGED storeVars
  BY <1>10, SlotStutter DEF Active, Terminal
<1> QED
  BY <1>1, <1>2, <1>3, <1>4, <1>5, <1>6, <1>7, <1>8, <1>9, <1>10
  DEF JobsNext, Poll, PollIdle, SessionEnds
\* The job store implements the single campaign slot.
THEOREM JobsImplementSlot == JobsSpec => ImplementsCampaignSlot
BY SlotInitial, SlotStep, JobSafety, PTL DEF JobsSpec, ImplementsCampaignSlot, Slot!Spec

-----------------------------------------------------------------------------
(* Campaigns. *)

RunStatus == {"none", "queued", "starting", "running", "indexing_artifacts"} \cup TerminalRun
PostStep == {"new", "byKey", "byActive", "insert", "failing", "done"}

CampaignTypes ==
  /\ run \in [Jobs -> RunStatus]
  /\ begun \in SUBSET Jobs
  /\ post \in [Jobs -> PostStep]
  /\ wanted \in [Jobs -> Keys]
  /\ step \in [Workers -> Step]
  /\ todo \in [Workers -> SUBSET Jobs]
  /\ target \in [Workers -> Jobs \cup {NoJob}]
  /\ verdict \in [Workers -> TerminalRun \cup {"none"}]
  /\ aborted \in SUBSET Workers
  /\ live \in SUBSET (Workers \X Jobs)
  /\ spawns \in [Jobs -> Nat]
  /\ result \in [Jobs -> TerminalRun \cup {"none"}]
  /\ hazards \in HazardSets

-----------------------------------------------------------------------------
(* Through every hazard. *)

\* Where a worker is agrees with the stage of its session in the job store.
StepFits(w) ==
  /\ step[w] \in {"off", "poll", "dead"} => stage[w] = "idle"
  /\ step[w] \in {"reconcile", "reconcileWrite"} => stage[w] \in {"idle", "claimed"}
  /\ step[w] \in {"load", "settle", "mark"} => stage[w] = "claimed"
  /\ step[w] \in {"marked"} \cup Executing => stage[w] = "running"
  /\ step[w] \in {"failing", "failed"} => stage[w] \in {"running", "closing"}
  /\ step[w] = "closing" => stage[w] = "closing"

\* What is reconciled is terminal, and reconciliation only ever fails a run.
Reconciling(w) ==
  /\ \A j \in todo[w] : Terminal(j)
  /\ step[w] = "reconcileWrite" =>
       /\ target[w] \in Jobs
       /\ Terminal(target[w])
       /\ verdict[w] \in {"failed", "failed_startup"}

\* A session past markRunning has its job to finish, whoever lost it, until it
\* has completed it.
Unfinished(w) ==
  /\ stage[w] = "running" => status[holds[w]] \in {"running", "abandoned"}
  /\ stage[w] = "closing" => status[holds[w]] \in {"completed", "failed"}

\* Before the spawn nobody has spawned; after it the campaign is alive or has
\* ended; the verdict of a safe execution is how it ended.
Progress(w) ==
  /\ step[w] \in {"marked", "starting", "spawn"} => spawns[holds[w]] = 0
  /\ step[w] \in {"running", "await"} =>
       <<w, holds[w]>> \in live \/ result[holds[w]] # "none"
  /\ step[w] \in {"own", "indexing", "publish", "final"} =>
       /\ verdict[w] \in TerminalRun
       /\ verdict[w] = "passed" => result[holds[w]] = "passed"
  /\ step[w] \in {"complete", "failed"} => RunEnded(holds[w])
  /\ step[w] = "settle" /\ Owns(w) => RunEnded(holds[w])

\* A run has one process group in its life, and one end of it.
Spawned(j) ==
  /\ spawns[j] <= 1
  /\ spawns[j] # 0 => j \in started
  /\ result[j] # "none" => spawns[j] # 0
  /\ \A w \in Workers : <<w, j>> \in live => spawns[j] # 0 /\ result[j] = "none"
  /\ \A v, w \in Workers : <<v, j>> \in live /\ <<w, j>> \in live => v = w

\* A request whose insert is still to come has no job; before it creates the
\* run there is none.
Requested(j) ==
  /\ post[j] \in {"new", "byKey", "byActive", "insert"} => status[j] = "none"
  /\ post[j] = "new" => run[j] = "none"

Disturbed ==
  /\ \A w \in Workers : StepFits(w) /\ Reconciling(w) /\ Unfinished(w) /\ Progress(w)
  /\ \A j \in Jobs : Spawned(j) /\ Requested(j)
  /\ OwnerEndsRun
  /\ PassedRan

-----------------------------------------------------------------------------
(* As long as nothing goes wrong. *)

\* Nobody fails, and there is nothing to reconcile.
Quiet(w) ==
  /\ step[w] \notin {"failing", "failed", "dead", "reconcileWrite"}
  /\ w \notin aborted
  /\ stage[w] # "idle" => Owns(w)

\* Only the session that owns an active job ends its run.
Open(w) ==
  step[w] \in {"mark", "marked"} \cup (Executing \ {"complete"}) => ~RunEnded(holds[w])

\* A claimed or running job has its session, with a lease that is never spent.
Attended(j) ==
  /\ status[j] # "abandoned"
  /\ status[j] \in {"claimed", "running"} => holds[claimedBy[j]] = j /\ lease[j] > 0

\* Until its job is inserted the run is the request's alone.
Untouched(j) ==
  post[j] \in {"byKey", "byActive", "insert", "failing"} =>
    status[j] = "none" /\ run[j] = "queued"

\* A campaign is alive only while its worker persists "running" or waits.
Watched(w, j) == <<w, j>> \in live => step[w] \in {"running", "await"} /\ holds[w] = j

Undisturbed ==
  /\ \A w \in Workers : Quiet(w) /\ Open(w)
  /\ \A j \in Jobs : Attended(j) /\ Untouched(j)
  /\ \A w \in Workers, j \in Jobs : Watched(w, j)

CampaignInvariant ==
  /\ JobInvariant
  /\ CampaignTypes
  /\ Disturbed
  /\ hazards = {} => Undisturbed

-----------------------------------------------------------------------------
(* The steps of the composition, as its invariant's proofs take them apart. *)

\* Every step is a step of the job store or leaves it alone.
LEMMA StoreStep == CampaignTypes /\ [Next]_vars => [JobsNext]_storeVars
<1> SUFFICES ASSUME CampaignTypes, [Next]_vars PROVE [JobsNext]_storeVars
  OBVIOUS
<1>1. ASSUME NEW j \in Jobs, CreateRun(j) \/ Request(j) \/ PostFault(j) \/ PostCrash(j)
      PROVE  [JobsNext]_storeVars
  BY <1>1
  DEF CampaignTypes, CreateRun, Request, PostFault, PostCrash, EnqueueByKey, EnqueueByActive,
      Insert, InsertRefused, FailStartup, JobsNext
<1>2. ASSUME NEW w \in Workers, MainLoop(w) PROVE [JobsNext]_storeVars
  BY <1>2 DEF MainLoop, Boot, PollAndReport, Reconciled, ReconcileWrite, ReconcileRead, JobsNext
<1>3. ASSUME NEW w \in Workers, Execute(w) PROVE [JobsNext]_storeVars
  <2>1. \A s \in TerminalRun \cup {"none"} : Outcome(s) \in {"completed", "failed"}
    BY DEF Outcome
  <2>2. verdict[w] \in TerminalRun \cup {"none"}
    BY DEF CampaignTypes
  <2> QED
    BY <1>3, <2>1, <2>2
    DEF Execute, Load, Settle, Mark, Announce, Starting, Spawn, Running, Await, AssertSafe,
        Indexing, Final, CompleteJob, Failing, Failed, Closing, LoseOwnership, LeaveSession,
        JobsNext, SessionEnds
<1>4. ASSUME NEW w \in Workers,
             AwaitSurvivor(w) \/ Beat(w) \/ AbortLease(w) \/ SessionFault(w) \/ WorkerDies(w)
      PROVE  [JobsNext]_storeVars
  BY <1>4
  DEF AwaitSurvivor, Beat, AbortLease, SessionFault, WorkerDies, LeaveSession, JobsNext,
      SessionEnds
<1>5. ASSUME NEW w \in Workers, NEW j \in Jobs, CampaignExits(w, j) PROVE [JobsNext]_storeVars
  BY <1>5 DEF CampaignExits
<1>6. CASE TimePasses
  BY <1>6 DEF TimePasses, JobsNext
<1>7. CASE UNCHANGED vars
  BY <1>7 DEF vars
<1> QED
  BY <1>1, <1>2, <1>3, <1>4, <1>5, <1>6, <1>7 DEF Next

\* What the invariants say of a session that holds a job.
LEMMA SessionFacts ==
  ASSUME JobInvariant, Disturbed, NEW w \in Workers
  PROVE  /\ stage[w] \in Stage
         /\ stage[w] = "idle" <=> holds[w] = NoJob
         /\ stage[w] # "idle" => holds[w] \in Jobs
         /\ stage[w] = "running" =>
              holds[w] \in started /\ status[holds[w]] \in {"running", "abandoned"}
         /\ stage[w] = "claimed" /\ Owns(w) =>
              holds[w] \notin started /\ status[holds[w]] = "claimed"
         /\ stage[w] = "closing" =>
              holds[w] \in started /\ status[holds[w]] \in {"completed", "failed"}
         /\ \A v \in Workers :
              stage[v] = "running" /\ stage[w] = "running" /\ holds[v] = holds[w] => v = w
<1>1. stage[w] \in Stage /\ holds[w] \in Jobs \cup {NoJob}
  BY DEF JobInvariant, JobTypeOK
<1>2. SessionAgrees(w) /\ Unfinished(w)
  BY DEF JobInvariant, SessionsAgree, Disturbed
<1>3. \A v \in Workers :
        stage[v] = "running" /\ stage[w] = "running" /\ holds[v] = holds[w] => v = w
  BY DEF JobInvariant, SoleExecutor
<1>4. \A j \in started : status[j] # "claimed"
  BY DEF JobInvariant, RunningNeverRetried
<1>5. stage[w] = "claimed" /\ Owns(w) => status[holds[w]] = "claimed"
  BY <1>2 DEF SessionAgrees
<1> QED
  BY <1>1, <1>2, <1>3, <1>4, <1>5 DEF SessionAgrees, Unfinished

\* What a poll does to the jobs, and to the session of the worker.
PollEffect(w) ==
  /\ stage[w] = "idle" /\ stage'[w] \in {"idle", "claimed"}
  /\ \A v \in Workers \ {w} : stage'[v] = stage[v] /\ holds'[v] = holds[v]
  /\ started' = started
  /\ stage'[w] = "claimed" => holds'[w] \in Jobs
  /\ \A j \in Jobs :
       /\ status'[j] # status[j] =>
            /\ Active(j)
            /\ status'[j] \in {"queued", "claimed", "abandoned"}
            /\ status[j] = "running" => status'[j] = "abandoned"
            /\ status'[j] = "abandoned" => j \in Expired
       /\ j \in Expired /\ RecoveredStatus[j] = "abandoned" => status'[j] = "abandoned"

LEMMA PollFacts == ASSUME JobInvariant, NEW w \in Workers, Poll(w) PROVE PollEffect(w)
<1> USE StatusSets, RecoveryTypes DEF PollEffect
<1>t. JobTypeOK
  BY DEF JobInvariant
<1>1. CASE PollIdle(w)
  BY <1>1, <1>t, RecoveryFacts
  DEF PollIdle, RecoverAbandoned, sessionVars, JobTypeOK, Active, RecoveredStatus
<1>2. ASSUME NEW j \in Jobs, PollClaims(w, j) PROVE PollEffect(w)
  <2>1. RecoveredStatus[j] = "queued" /\ j \in Claimable
    BY <1>2 DEF PollClaims, Claimable
  <2> QED
    BY <1>2, <1>t, <2>1, RecoveryFacts DEF PollClaims, JobTypeOK, Active
<1> QED
  BY <1>1, <1>2 DEF Poll

\* The steps by who takes them, as the next lemmas use them.
RequestStep == \E j \in Jobs : CreateRun(j) \/ Request(j) \/ PostFault(j) \/ PostCrash(j)
AsideStep ==
  \/ \E w \in Workers : Beat(w) \/ AbortLease(w) \/ \E j \in Jobs : CampaignExits(w, j)
  \/ TimePasses
WorkerStep(w) ==
  MainLoop(w) \/ Execute(w) \/ AwaitSurvivor(w) \/ SessionFault(w) \/ WorkerDies(w)

LEMMA NextCases == Next <=> RequestStep \/ AsideStep \/ \E w \in Workers : WorkerStep(w)
BY DEF Next, RequestStep, AsideStep, WorkerStep

LEMMA TypesInvariance == JobInvariant /\ CampaignTypes /\ Disturbed /\ [Next]_vars => CampaignTypes'
<1> SUFFICES ASSUME JobInvariant, CampaignTypes, Disturbed, [Next]_vars PROVE CampaignTypes'
  OBVIOUS
<1> USE DEF CampaignTypes, runVars, postVars, workerVars, processVars, Goto, Write, PostGoto
<1>1. CASE RequestStep
  <2> USE DEF PostStep
  <2>t. {"queued", "failed_startup"} \subseteq RunStatus
    BY DEF RunStatus, TerminalRun
  <2>1. ASSUME NEW j \in Jobs, CreateRun(j) \/ FailStartup(j) PROVE CampaignTypes'
    BY <2>1, <2>t DEF CreateRun, FailStartup
  <2>2. ASSUME NEW j \in Jobs, EnqueueByKey(j) \/ EnqueueByActive(j) \/ InsertRefused(j)
        PROVE  CampaignTypes'
    BY <2>2 DEF EnqueueByKey, EnqueueByActive, InsertRefused
  <2>3. ASSUME NEW j \in Jobs, Insert(j) PROVE CampaignTypes'
    BY <2>3 DEF Insert
  <2>4. ASSUME NEW j \in Jobs, PostFault(j) \/ PostCrash(j) PROVE CampaignTypes'
    BY <2>4 DEF PostFault, PostCrash
  <2> QED BY <1>1, <2>1, <2>2, <2>3, <2>4 DEF RequestStep, Request
<1>2. CASE AsideStep
  <2>1. ASSUME NEW w \in Workers, Beat(w) \/ AbortLease(w) PROVE CampaignTypes'
    BY <2>1 DEF Beat, AbortLease
  <2>2. ASSUME NEW w \in Workers, NEW j \in Jobs, CampaignExits(w, j) PROVE CampaignTypes'
    BY <2>2 DEF CampaignExits
  <2>3. CASE TimePasses
    BY <2>3 DEF TimePasses
  <2> QED BY <1>2, <2>1, <2>2, <2>3 DEF AsideStep
<1>3. ASSUME NEW w \in Workers, WorkerStep(w) PROVE CampaignTypes'
  <2> USE DEF Step, Executing, Preparing, Forget, LeaveSession
  <2>t. /\ TerminalRun \subseteq RunStatus
        /\ {"failed", "failed_startup", "timed_out"} \subseteq TerminalRun
        /\ {"starting", "running", "indexing_artifacts"} \subseteq RunStatus
    BY DEF RunStatus, TerminalRun
  <2>j. stage[w] = "running" => holds[w] \in Jobs
    BY SessionFacts
  <2>1. CASE MainLoop(w)
    <3>1. CASE Boot(w) \/ Reconciled(w)
      BY <3>1 DEF Boot, Reconciled
    <3>2. CASE PollAndReport(w)
      BY <3>2 DEF PollAndReport, Expired
    <3>3. CASE ReconcileWrite(w)
      <4>1. verdict[w] \in TerminalRun
        BY <3>3, <2>t DEF ReconcileWrite, Disturbed, Reconciling
      <4> QED BY <3>3, <2>t, <4>1 DEF ReconcileWrite
    <3>4. ASSUME NEW j \in Jobs, ReconcileRead(w, j) PROVE CampaignTypes'
      BY <3>4, <2>t DEF ReconcileRead
    <3> QED BY <2>1, <3>1, <3>2, <3>3, <3>4 DEF MainLoop
  <2>2. CASE AwaitSurvivor(w)
    BY <2>2, <2>t DEF AwaitSurvivor
  <2>3. CASE SessionFault(w)
    BY <2>3 DEF SessionFault
  <2>4. CASE WorkerDies(w)
    BY <2>4 DEF WorkerDies
  <2>5. CASE Load(w) \/ Settle(w) \/ Mark(w) \/ Announce(w)
    BY <2>5, <2>t DEF Load, Settle, Mark, Announce, RunEnded
  <2>6. CASE Starting(w) \/ Spawn(w) \/ Running(w)
    <3>1. stage[w] = "running"
      BY <2>6 DEF Starting, Spawn, Running, Disturbed, StepFits
    <3> QED BY <2>6, <2>t, <2>j, <3>1 DEF Starting, Spawn, Running
  <2>7. CASE Await(w) \/ AssertSafe(w) \/ Indexing(w) \/ Final(w) \/ CompleteJob(w)
    <3>1. CASE Await(w)
      <4>1. holds[w] \in Jobs
        BY <3>1, <2>j DEF Await, Disturbed, StepFits
      <4> QED BY <3>1, <4>1 DEF Await
    <3>2. CASE Final(w)
      <4>1. verdict[w] \in TerminalRun
        BY <3>2 DEF Final, Disturbed, Progress
      <4> QED BY <3>2, <2>t, <4>1 DEF Final
    <3>3. CASE AssertSafe(w) \/ Indexing(w) \/ CompleteJob(w)
      BY <3>3, <2>t DEF AssertSafe, Indexing, CompleteJob
    <3> QED BY <2>7, <3>1, <3>2, <3>3
  <2>8. CASE Failing(w) \/ Failed(w) \/ Closing(w) \/ LoseOwnership(w)
    BY <2>8, <2>t DEF Failing, Failed, Closing, LoseOwnership
  <2> QED
    BY <1>3, <2>1, <2>2, <2>3, <2>4, <2>5, <2>6, <2>7, <2>8 DEF WorkerStep, Execute
<1>4. CASE UNCHANGED vars
  BY <1>4 DEF vars
<1> QED
  BY <1>1, <1>2, <1>3, <1>4, NextCases

-----------------------------------------------------------------------------
\* A request only writes its own run and, once, its job.
RequestEffect ==
  /\ UNCHANGED <<begun, wanted, hazards, workerVars, processVars>>
  /\ UNCHANGED <<sessionVars, started>>
  /\ \A j \in Jobs :
       /\ status'[j] # status[j] =>
            status[j] = "none" /\ status'[j] = "queued" /\ post'[j] \in {"done", "failing"}
       /\ post'[j] = "new" => post[j] = "new"
       /\ post'[j] \in {"byKey", "byActive", "insert"} =>
            post[j] \in {"new", "byKey", "byActive", "insert"}
       /\ run'[j] # run[j] =>
            \/ post[j] = "new" /\ post'[j] = "byKey" /\ run'[j] = "queued"
            \/ post[j] = "failing" /\ post'[j] = "done" /\ run'[j] = "failed_startup"

LEMMA RequestFacts == ASSUME JobTypeOK, CampaignTypes, RequestStep PROVE RequestEffect
<1> USE DEF RequestEffect, JobTypeOK, CampaignTypes, runVars, postVars, storeVars, jobVars,
           sessionVars, PostGoto, Write
<1>1. ASSUME NEW j \in Jobs, CreateRun(j) \/ FailStartup(j) PROVE RequestEffect
  BY <1>1 DEF CreateRun, FailStartup
<1>2. ASSUME NEW j \in Jobs, EnqueueByKey(j) \/ EnqueueByActive(j) \/ InsertRefused(j)
      PROVE  RequestEffect
  BY <1>2 DEF EnqueueByKey, EnqueueByActive, InsertRefused
<1>3. ASSUME NEW j \in Jobs, Insert(j) PROVE RequestEffect
  BY <1>3 DEF Insert, Enqueue
<1>4. ASSUME NEW j \in Jobs, PostFault(j) \/ PostCrash(j) PROVE RequestEffect
  BY <1>4 DEF PostFault, PostCrash
<1> QED BY <1>1, <1>2, <1>3, <1>4 DEF RequestStep, Request

\* Heartbeats, aborts, the end of a process and the clock: neither a run nor a
\* job nor a worker goes on.
AsideEffect ==
  /\ UNCHANGED <<runVars, postVars, step, todo, target, verdict, spawns>>
  /\ UNCHANGED <<status, claimedBy, sessionVars, started>>

LEMMA AsideFacts == ASSUME AsideStep PROVE AsideEffect
<1> USE DEF AsideEffect, storeVars, jobVars, sessionVars, workerVars, processVars
<1>1. ASSUME NEW w \in Workers, Beat(w) \/ AbortLease(w) PROVE AsideEffect
  BY <1>1 DEF Beat, AbortLease, Heartbeat
<1>2. ASSUME NEW w \in Workers, NEW j \in Jobs, CampaignExits(w, j) PROVE AsideEffect
  BY <1>2 DEF CampaignExits
<1>3. CASE TimePasses
  BY <1>3 DEF TimePasses, Tick
<1> QED BY <1>1, <1>2, <1>3 DEF AsideStep

\* A worker moves no other worker.
WorkerEffect(w) ==
  /\ UNCHANGED postVars
  /\ \A v \in Workers \ {w} :
       /\ step'[v] = step[v] /\ stage'[v] = stage[v] /\ holds'[v] = holds[v]
       /\ todo'[v] = todo[v] /\ target'[v] = target[v] /\ verdict'[v] = verdict[v]

LEMMA WorkerFacts ==
  ASSUME JobInvariant, CampaignTypes, NEW w \in Workers, WorkerStep(w)
  PROVE  WorkerEffect(w)
<1>t. JobTypeOK
  BY DEF JobInvariant
<1> USE <1>t DEF WorkerEffect, JobTypeOK, CampaignTypes, storeVars, jobVars, sessionVars,
    workerVars, Goto, Forget, LeaveSession, EndSession
<1>1. CASE MainLoop(w)
  <2>1. CASE PollAndReport(w)
    BY <2>1, PollFacts DEF PollAndReport, PollEffect
  <2>2. CASE Boot(w) \/ Reconciled(w) \/ ReconcileWrite(w) \/ \E j \in Jobs : ReconcileRead(w, j)
    BY <2>2 DEF Boot, Reconciled, ReconcileWrite, ReconcileRead
  <2> QED BY <1>1, <2>1, <2>2 DEF MainLoop
<1>2. CASE Load(w) \/ Announce(w) \/ Starting(w) \/ Spawn(w) \/ Running(w) \/ Await(w)
           \/ AssertSafe(w) \/ Indexing(w) \/ Final(w) \/ Failing(w) \/ AwaitSurvivor(w)
  BY <1>2 DEF Load, Announce, Starting, Spawn, Running, Await, AssertSafe, Indexing, Final,
     Failing, AwaitSurvivor
<1>3. CASE Settle(w) \/ Mark(w) \/ CompleteJob(w)
  BY <1>3 DEF Settle, Mark, CompleteJob, Complete, MarkRunning
<1>4. CASE Failed(w) \/ Closing(w) \/ LoseOwnership(w)
  BY <1>4 DEF Failed, Closing, LoseOwnership, Complete, CompleteAgain
<1>5. CASE SessionFault(w) \/ WorkerDies(w)
  BY <1>5 DEF SessionFault, WorkerDies
<1> QED
  BY <1>1, <1>2, <1>3, <1>4, <1>5 DEF WorkerStep, Execute

-----------------------------------------------------------------------------
(* The worker's place and its session agree. *)

LEMMA FitsInvariance ==
  ASSUME CampaignInvariant, [Next]_vars, NEW v \in Workers
  PROVE  StepFits(v)'
<1> USE DEF CampaignInvariant, StepFits
<1>t. JobTypeOK /\ StepFits(v) /\ SessionAgrees(v)
  BY DEF JobInvariant, SessionsAgree, Disturbed
<1>1. CASE RequestStep
  BY <1>1, <1>t, RequestFacts DEF RequestEffect, workerVars, sessionVars
<1>2. CASE AsideStep
  BY <1>2, <1>t, AsideFacts DEF AsideEffect, sessionVars
<1>3. ASSUME NEW w \in Workers, w # v, WorkerStep(w) PROVE StepFits(v)'
  BY <1>3, <1>t, WorkerFacts DEF WorkerEffect
<1>4. CASE WorkerStep(v)
  <2> USE <1>t DEF JobTypeOK, CampaignTypes, Goto, Forget, storeVars, sessionVars, Executing
  <2>1. CASE MainLoop(v)
    <3>1. CASE PollAndReport(v)
      BY <3>1, PollFacts DEF PollAndReport, PollEffect
    <3>2. CASE Boot(v) \/ ReconcileWrite(v) \/ \E j \in Jobs : ReconcileRead(v, j)
      BY <3>2 DEF Boot, ReconcileWrite, ReconcileRead
    <3>3. CASE Reconciled(v)
      BY <3>3 DEF Reconciled, SessionAgrees
    <3> QED BY <2>1, <3>1, <3>2, <3>3 DEF MainLoop
  <2>2. CASE Load(v) \/ Announce(v) \/ Starting(v) \/ Spawn(v) \/ Running(v) \/ Await(v)
    BY <2>2 DEF Load, Announce, Starting, Spawn, Running, Await
  <2>3. CASE AssertSafe(v) \/ Indexing(v) \/ Final(v) \/ Failing(v) \/ AwaitSurvivor(v)
    BY <2>3 DEF AssertSafe, Indexing, Final, Failing, AwaitSurvivor
  <2>4. CASE Settle(v)
    BY <2>4 DEF Settle, Complete
  <2>5. CASE Mark(v)
    BY <2>5 DEF Mark, MarkRunning
  <2>6. CASE CompleteJob(v)
    BY <2>6 DEF CompleteJob, Complete
  <2>7. CASE Failed(v)
    BY <2>7 DEF Failed, Complete, CompleteAgain
  <2>8. CASE Closing(v) \/ LoseOwnership(v)
    BY <2>8 DEF Closing, LoseOwnership, LeaveSession, EndSession
  <2>9. CASE SessionFault(v)
    BY <2>9 DEF SessionFault, LeaveSession, EndSession
  <2>10. CASE WorkerDies(v)
    BY <2>10 DEF WorkerDies, EndSession, SessionAgrees
  <2> QED
    BY <1>4, <2>1, <2>2, <2>3, <2>4, <2>5, <2>6, <2>7, <2>8, <2>9, <2>10
    DEF WorkerStep, Execute
<1>5. CASE UNCHANGED vars
  BY <1>5, <1>t DEF vars, workerVars, storeVars, sessionVars
<1> QED
  BY <1>1, <1>2, <1>3, <1>4, <1>5, NextCases

-----------------------------------------------------------------------------
(* The jobs under the sessions. *)

\* A worker changes a job only by a poll, which may recover and claim it, or as
\* its owner.
StatusEffect(w, j) ==
  status'[j] # status[j] =>
    \/ /\ PollAndReport(w) /\ Active(j)
       /\ status'[j] \in {"queued", "claimed", "abandoned"}
       /\ status[j] = "running" => status'[j] = "abandoned"
       /\ status'[j] = "abandoned" => j \in Expired
    \/ /\ Owns(w) /\ j = holds[w]
       /\ \/ Mark(w) /\ status[j] = "claimed" /\ status'[j] = "running"
          \/ Settle(w) /\ status[j] = "claimed" /\ status'[j] \in {"completed", "failed"}
          \/ /\ CompleteJob(w) \/ Failed(w)
             /\ status'[j] \in {"completed", "failed"} /\ stage'[w] = "closing"
             /\ status[j] = IF stage[w] = "running" THEN "running" ELSE "completed"

LEMMA StatusFacts ==
  ASSUME JobInvariant, CampaignTypes, Disturbed, NEW w \in Workers, WorkerStep(w), NEW j \in Jobs
  PROVE  StatusEffect(w, j) /\ (started' = started \/ Mark(w))
<1>t. JobTypeOK /\ SessionAgrees(w) /\ StepFits(w)
  BY DEF JobInvariant, SessionsAgree, Disturbed
<1> USE <1>t DEF StatusEffect, JobTypeOK, storeVars, jobVars
<1>o. \A s \in TerminalRun \cup {"none"} : Outcome(s) \in {"completed", "failed"}
  BY DEF Outcome
<1>v. Outcome(verdict[w]) \in {"completed", "failed"}
  BY <1>o DEF CampaignTypes
<1>1. CASE MainLoop(w)
  <2>1. CASE PollAndReport(w)
    BY <2>1, PollFacts DEF PollAndReport, PollEffect
  <2>2. CASE Boot(w) \/ Reconciled(w) \/ ReconcileWrite(w) \/ \E i \in Jobs : ReconcileRead(w, i)
    BY <2>2 DEF Boot, Reconciled, ReconcileWrite, ReconcileRead
  <2> QED BY <1>1, <2>1, <2>2 DEF MainLoop
<1>2. CASE Load(w) \/ Announce(w) \/ Starting(w) \/ Spawn(w) \/ Running(w) \/ Await(w)
           \/ AssertSafe(w) \/ Indexing(w) \/ Final(w) \/ Failing(w) \/ AwaitSurvivor(w)
  BY <1>2 DEF Load, Announce, Starting, Spawn, Running, Await, AssertSafe, Indexing, Final,
     Failing, AwaitSurvivor
<1>3. CASE Settle(w)
  BY <1>3, <1>v DEF Settle, Complete, SessionAgrees, StepFits
<1>4. CASE Mark(w)
  BY <1>4 DEF Mark, MarkRunning, SessionAgrees
<1>5. CASE CompleteJob(w)
  BY <1>5, <1>v DEF CompleteJob, Complete, SessionAgrees, StepFits, Executing
<1>6. CASE Failed(w)
  <2>1. /\ Owns(w) /\ holds[w] \in Jobs /\ stage[w] \in {"running", "closing"}
        /\ stage'[w] = "closing" /\ started' = started
        /\ status' = [status EXCEPT ![holds[w]] = "failed"]
    BY <1>6 DEF Failed, Complete, CompleteAgain, StepFits, Owns, sessionVars
  <2>2. status[holds[w]] # "failed" =>
          status[holds[w]] = IF stage[w] = "running" THEN "running" ELSE "completed"
    BY <2>1 DEF SessionAgrees
  <2> QED BY <1>6, <2>1, <2>2
<1>7. CASE Closing(w) \/ LoseOwnership(w) \/ SessionFault(w) \/ WorkerDies(w)
  BY <1>7 DEF Closing, LoseOwnership, SessionFault, WorkerDies, LeaveSession, EndSession
<1> QED
  BY <1>1, <1>2, <1>3, <1>4, <1>5, <1>6, <1>7 DEF WorkerStep, Execute

\* Terminal jobs stay terminal, and those their owner completed stay completed.
LEMMA TerminalStays ==
  ASSUME CampaignInvariant, [Next]_vars, NEW j \in Jobs
  PROVE  /\ Terminal(j) => Terminal(j)'
         /\ status[j] \in {"completed", "failed"} => status'[j] \in {"completed", "failed"}
<1>1. [OutcomeKeepingStep]_storeVars
  BY StoreStep, OutcomeStep DEF CampaignInvariant
<1>2. CASE OutcomeKeepingStep
  BY <1>2, StatusSets DEF OutcomeKeepingStep, Terminal
<1>3. CASE UNCHANGED storeVars
  BY <1>3 DEF storeVars, jobVars, Terminal
<1> QED BY <1>1, <1>2, <1>3

\* A session is entered by a poll, goes on by markRunning and complete, and else
\* stays or ends.
SessionEffect(w) ==
  \/ stage'[w] = stage[w] /\ holds'[w] = holds[w]
  \/ stage'[w] = "idle"
  \/ PollAndReport(w) /\ stage'[w] = "claimed"
  \/ Mark(w)
  \/ CompleteJob(w) \/ Failed(w)

LEMMA SessionMoves ==
  ASSUME CampaignInvariant, NEW w \in Workers, WorkerStep(w)
  PROVE  SessionEffect(w)
<1> USE DEF CampaignInvariant, SessionEffect
<1>t. JobTypeOK
  BY DEF JobInvariant
<1> USE <1>t DEF JobTypeOK, storeVars, sessionVars
<1>1. CASE MainLoop(w)
  <2>1. CASE PollAndReport(w)
    BY <2>1, PollFacts DEF PollAndReport, PollEffect
  <2>2. CASE Boot(w) \/ Reconciled(w) \/ ReconcileWrite(w)
             \/ \E i \in Jobs : ReconcileRead(w, i)
    BY <2>2 DEF Boot, Reconciled, ReconcileWrite, ReconcileRead
  <2> QED BY <1>1, <2>1, <2>2 DEF MainLoop
<1>2. CASE Load(w) \/ Announce(w) \/ Starting(w) \/ Spawn(w) \/ Running(w) \/ Await(w)
           \/ AssertSafe(w) \/ Indexing(w) \/ Final(w) \/ Failing(w) \/ AwaitSurvivor(w)
  BY <1>2 DEF Load, Announce, Starting, Spawn, Running, Await, AssertSafe, Indexing, Final,
     Failing, AwaitSurvivor
<1>3. CASE Settle(w)
  <2>1. stage[w] = "claimed"
    BY <1>3 DEF Settle, Disturbed, StepFits
  <2> QED BY <1>3, <2>1 DEF Settle, Complete
<1>4. CASE Closing(w) \/ LoseOwnership(w) \/ SessionFault(w) \/ WorkerDies(w)
  BY <1>4 DEF Closing, LoseOwnership, SessionFault, WorkerDies, LeaveSession, EndSession
<1> QED BY <1>1, <1>2, <1>3, <1>4 DEF WorkerStep, Execute

LEMMA UnfinishedInvariance ==
  ASSUME CampaignInvariant, [Next]_vars, NEW v \in Workers
  PROVE  Unfinished(v)'
<1> USE DEF CampaignInvariant
<1>t. JobTypeOK /\ Unfinished(v) /\ StepFits(v)
  BY DEF JobInvariant, Disturbed
<1>s. stage[v] # "idle" => holds[v] \in Jobs
  BY SessionFacts
<1>1. CASE RequestStep
  BY <1>1, <1>t, <1>s, RequestFacts DEF Unfinished, RequestEffect, sessionVars
<1>2. CASE AsideStep
  BY <1>2, <1>t, AsideFacts DEF Unfinished, AsideEffect, sessionVars
<1>3. ASSUME NEW w \in Workers, WorkerStep(w) PROVE Unfinished(v)'
  <2>1. CASE stage'[v] = stage[v] /\ holds'[v] = holds[v] /\ stage[v] = "running"
    <3>1. holds[v] \in Jobs /\ status[holds[v]] \in {"running", "abandoned"}
      BY <1>s, <1>t, <2>1 DEF Unfinished
    <3>2. StatusEffect(w, holds[v])
      BY <1>3, <3>1, StatusFacts
    <3>3. CASE w = v
      BY <2>1, <3>1, <3>2, <3>3, StatusSets DEF StatusEffect, Unfinished, Active
    <3>4. CASE w # v
      <4>1. ~(stage[w] = "running" /\ holds[w] = holds[v])
        BY <2>1, <3>4, SessionFacts
      <4> QED BY <2>1, <3>1, <3>2, <4>1, StatusSets DEF StatusEffect, Unfinished, Active
    <3> QED BY <3>3, <3>4
  <2>2. CASE stage'[v] = stage[v] /\ holds'[v] = holds[v] /\ stage[v] = "closing"
    BY <1>t, <1>s, <2>2, TerminalStays DEF Unfinished
  <2>3. CASE stage'[v] \in {"idle", "claimed"}
    BY <2>3 DEF Unfinished
  <2>4. CASE Mark(v)
    BY <2>4, <1>t DEF Mark, MarkRunning, Owns, Unfinished, JobTypeOK
  <2>5. CASE CompleteJob(v)
    <3>1. Outcome(verdict[v]) \in {"completed", "failed"}
      BY DEF Outcome
    <3>2. stage[v] = "running"
      BY <2>5, <1>t DEF CompleteJob, StepFits, Executing
    <3> QED
      BY <2>5, <1>t, <1>s, <3>1, <3>2 DEF CompleteJob, Complete, Unfinished, JobTypeOK
  <2>6. CASE Failed(v)
    BY <2>6, <1>t, <1>s
    DEF Failed, StepFits, Complete, CompleteAgain, Unfinished, JobTypeOK, sessionVars
  <2>7. stage[v] \in Stage
    BY <1>t DEF JobTypeOK
  <2>8. w # v => stage'[v] = stage[v] /\ holds'[v] = holds[v]
    BY <1>3, WorkerFacts DEF WorkerEffect
  <2>9. w = v => SessionEffect(v)
    BY <1>3, SessionMoves
  <2> QED
    BY <2>1, <2>2, <2>3, <2>4, <2>5, <2>6, <2>7, <2>8, <2>9 DEF SessionEffect, Stage
<1>4. CASE UNCHANGED vars
  BY <1>4, <1>t DEF Unfinished, vars, storeVars, jobVars, sessionVars
<1> QED
  BY <1>1, <1>2, <1>3, <1>4, NextCases

-----------------------------------------------------------------------------
(* The run records. *)

\* What a worker writes into a run, and from where.
RunEffect(w, j) ==
  run'[j] # run[j] =>
    \/ step[w] = "reconcileWrite" /\ j = target[w] /\ run'[j] = verdict[w]
    \/ /\ step[w] \in {"starting", "running", "indexing"} /\ j = holds[w]
       /\ run'[j] \in {"starting", "running", "indexing_artifacts"}
    \/ step[w] = "final" /\ j = holds[w] /\ run'[j] = verdict[w]
    \/ step[w] = "failing" /\ j = holds[w] /\ run'[j] = "failed_startup"

\* A worker touches the campaign processes only by spawning one.
ProcessEffect(w) == UNCHANGED processVars \/ Spawn(w)

LEMMA RunFacts ==
  ASSUME CampaignTypes, NEW w \in Workers, WorkerStep(w)
  PROVE  (\A j \in Jobs : RunEffect(w, j)) /\ ProcessEffect(w)
<1> USE DEF RunEffect, ProcessEffect, CampaignTypes, runVars, processVars, Write
<1>1. CASE MainLoop(w)
  BY <1>1 DEF MainLoop, Boot, PollAndReport, Reconciled, ReconcileWrite, ReconcileRead
<1>2. CASE Starting(w) \/ Running(w) \/ Indexing(w) \/ Final(w) \/ Failing(w)
  BY <1>2 DEF Starting, Running, Indexing, Final, Failing
<1>3. CASE Spawn(w)
  BY <1>3 DEF Spawn
<1>4. CASE Load(w) \/ Announce(w) \/ Await(w) \/ AssertSafe(w) \/ AwaitSurvivor(w)
           \/ Settle(w) \/ Mark(w) \/ CompleteJob(w) \/ Failed(w)
  BY <1>4 DEF Load, Announce, Await, AssertSafe, AwaitSurvivor, Settle, Mark, CompleteJob, Failed
<1>5. CASE Closing(w) \/ LoseOwnership(w) \/ SessionFault(w) \/ WorkerDies(w)
  BY <1>5 DEF Closing, LoseOwnership, SessionFault, WorkerDies
<1> QED BY <1>1, <1>2, <1>3, <1>4, <1>5 DEF WorkerStep, Execute

\* What the invariants say of the runs a worker is about to write.
LEMMA WriterFacts ==
  ASSUME CampaignInvariant, NEW w \in Workers
  PROVE  /\ step[w] = "reconcileWrite" =>
              target[w] \in Jobs /\ Terminal(target[w]) /\ verdict[w] \in {"failed", "failed_startup"}
         /\ step[w] \in {"marked"} \cup Executing =>
              /\ stage[w] = "running" /\ holds[w] \in Jobs /\ holds[w] \in started
              /\ status[holds[w]] \in {"running", "abandoned"}
         /\ step[w] \in {"failing", "failed"} =>
              /\ stage[w] \in {"running", "closing"} /\ holds[w] \in Jobs
              /\ status[holds[w]] \in {"running", "abandoned", "completed", "failed"}
         /\ step[w] \in {"own", "indexing", "publish", "final"} =>
              verdict[w] \in TerminalRun /\ (verdict[w] = "passed" => result[holds[w]] = "passed")
<1>1. StepFits(w) /\ Reconciling(w) /\ Progress(w)
  BY DEF CampaignInvariant, Disturbed
<1>2. JobInvariant /\ Disturbed
  BY DEF CampaignInvariant
<1> QED
  BY <1>1, <1>2, SessionFacts DEF StepFits, Reconciling, Progress

\* A run that has ended goes on only if a request has still to create it or a
\* session executes it.
LEMMA EndedStays ==
  ASSUME CampaignInvariant, [Next]_vars, NEW j \in Jobs, RunEnded(j), status[j] # "none",
         \A w \in Workers : WorkerStep(w) /\ stage[w] = "running" => holds[w] # j
  PROVE  RunEnded(j)'
<1> USE DEF RunEnded, TerminalRun
<1>1. CASE RequestStep
  <2>1. post[j] # "new"
    BY DEF CampaignInvariant, Disturbed, Requested
  <2> QED BY <1>1, <2>1, RequestFacts DEF RequestEffect, CampaignInvariant, JobInvariant
<1>2. CASE AsideStep
  BY <1>2, AsideFacts DEF AsideEffect, runVars
<1>3. ASSUME NEW w \in Workers, WorkerStep(w) PROVE RunEnded(j)'
  <2>1. RunEffect(w, j)
    BY <1>3, RunFacts DEF CampaignInvariant
  <2> QED BY <1>3, <2>1, WriterFacts DEF RunEffect, Executing
<1>4. CASE UNCHANGED vars
  BY <1>4 DEF vars, runVars
<1> QED BY <1>1, <1>2, <1>3, <1>4, NextCases

LEMMA OwnerEndsRunInvariance == CampaignInvariant /\ [Next]_vars => OwnerEndsRun'
<1> SUFFICES ASSUME CampaignInvariant, [Next]_vars, NEW j \in Jobs,
                    status'[j] \in {"completed", "failed"}
             PROVE  RunEnded(j)'
  BY DEF OwnerEndsRun, RunEnded
<1>1. CASE status[j] = status'[j]
  <2>1. RunEnded(j)
    BY <1>1 DEF CampaignInvariant, Disturbed, OwnerEndsRun
  <2>2. \A w \in Workers : stage[w] = "running" => holds[w] # j
    BY <1>1, SessionFacts DEF CampaignInvariant
  <2> QED BY <1>1, <2>1, <2>2, EndedStays
<1>2. CASE status[j] # status'[j]
  <2>1. CASE RequestStep
    BY <1>2, <2>1, RequestFacts DEF RequestEffect, CampaignInvariant, JobInvariant
  <2>2. CASE AsideStep
    BY <1>2, <2>2, AsideFacts DEF AsideEffect
  <2>3. ASSUME NEW w \in Workers, WorkerStep(w) PROVE RunEnded(j)'
    <3>1. /\ Owns(w) /\ j = holds[w]
          /\ Settle(w) \/ CompleteJob(w) \/ Failed(w)
      BY <1>2, <2>3, StatusFacts DEF StatusEffect, CampaignInvariant
    <3>2. RunEnded(j)
      BY <3>1 DEF Settle, CompleteJob, Failed, CampaignInvariant, Disturbed, Progress
    <3>3. run' = run
      BY <3>1 DEF Settle, CompleteJob, Failed, runVars
    <3> QED BY <3>2, <3>3 DEF RunEnded
  <2>4. CASE UNCHANGED vars
    BY <1>2, <2>4 DEF vars, storeVars, jobVars
  <2> QED BY <2>1, <2>2, <2>3, <2>4, NextCases
<1> QED BY <1>1, <1>2

LEMMA ReconcilingInvariance ==
  ASSUME CampaignInvariant, [Next]_vars, NEW v \in Workers
  PROVE  Reconciling(v)'
<1>t. Reconciling(v) /\ todo[v] \subseteq Jobs
  BY DEF CampaignInvariant, Disturbed, CampaignTypes
<1>s. \A j \in Jobs : Terminal(j) => Terminal(j)'
  BY TerminalStays
<1>k. ASSUME step'[v] = step[v] \/ step'[v] # "reconcileWrite",
             todo'[v] = todo[v], target'[v] = target[v], verdict'[v] = verdict[v]
      PROVE  Reconciling(v)'
  BY <1>t, <1>s, <1>k DEF Reconciling, Terminal
<1>1. CASE RequestStep
  BY <1>1, <1>k, RequestFacts DEF RequestEffect, workerVars, CampaignInvariant, JobInvariant
<1>2. CASE AsideStep
  BY <1>2, <1>k, AsideFacts DEF AsideEffect
<1>3. ASSUME NEW w \in Workers, w # v, WorkerStep(w) PROVE Reconciling(v)'
  BY <1>3, <1>k, WorkerFacts DEF WorkerEffect, CampaignInvariant
<1>4. CASE WorkerStep(v)
  <2> USE <1>t DEF Goto, Forget, LeaveSession, CampaignInvariant, CampaignTypes
  <2>1. CASE Boot(v)
    BY <2>1, <1>s DEF Boot, Reconciling, Terminal, storeVars, jobVars
  <2>2. CASE PollAndReport(v)
    <3>1. \A j \in Expired : RecoveredStatus[j] = "abandoned" => status'[j] = "abandoned"
      BY <2>2, PollFacts DEF PollAndReport, PollEffect, Expired
    <3> QED BY <2>2, <3>1, StatusSets DEF PollAndReport, Reconciling, Terminal
  <2>3. ASSUME NEW j \in Jobs, ReconcileRead(v, j) PROVE Reconciling(v)'
    BY <2>3, <1>s DEF ReconcileRead, Reconciling, Terminal
  <2>4. CASE ReconcileWrite(v) \/ Reconciled(v)
    BY <2>4, <1>s DEF ReconcileWrite, Reconciled, Reconciling, Terminal
  <2>5. CASE Load(v) \/ Announce(v) \/ Starting(v) \/ Spawn(v) \/ Running(v) \/ Await(v)
             \/ Mark(v) \/ CompleteJob(v)
    BY <2>5, <1>s DEF Load, Announce, Starting, Spawn, Running, Await, Mark, CompleteJob,
       Reconciling, Terminal
  <2>6. CASE AssertSafe(v) \/ Indexing(v) \/ Final(v) \/ Failing(v) \/ Failed(v)
             \/ AwaitSurvivor(v)
    BY <2>6, <1>s DEF AssertSafe, Indexing, Final, Failing, Failed, AwaitSurvivor, Reconciling,
       Terminal
  <2>7. CASE Settle(v) \/ Closing(v) \/ LoseOwnership(v) \/ SessionFault(v) \/ WorkerDies(v)
    BY <2>7, <1>s DEF Settle, Closing, LoseOwnership, SessionFault, WorkerDies, Reconciling,
       Terminal
  <2> QED
    BY <1>4, <2>1, <2>2, <2>3, <2>4, <2>5, <2>6, <2>7 DEF WorkerStep, MainLoop, Execute
<1>5. CASE UNCHANGED vars
  BY <1>5, <1>k DEF vars, workerVars
<1> QED BY <1>1, <1>2, <1>3, <1>4, <1>5, NextCases

LEMMA RequestedInvariance ==
  ASSUME CampaignInvariant, [Next]_vars, NEW j \in Jobs
  PROVE  Requested(j)'
<1>t. Requested(j)
  BY DEF CampaignInvariant, Disturbed
<1>k. ASSUME post'[j] = post[j], status'[j] = status[j] \/ status[j] # "none",
             run'[j] = run[j] \/ status[j] # "none"
      PROVE  Requested(j)'
  BY <1>t, <1>k DEF Requested
<1>1. CASE RequestStep
  BY <1>1, <1>t, RequestFacts DEF Requested, RequestEffect, CampaignInvariant, JobInvariant
<1>2. CASE AsideStep
  BY <1>2, <1>k, AsideFacts DEF AsideEffect, postVars, runVars
<1>3. ASSUME NEW w \in Workers, WorkerStep(w) PROVE Requested(j)'
  <2>1. post' = post
    BY <1>3, WorkerFacts DEF WorkerEffect, postVars, CampaignInvariant
  <2>2. status'[j] # status[j] => status[j] # "none"
    <3>1. StatusEffect(w, j)
      BY <1>3, StatusFacts DEF CampaignInvariant
    <3> QED BY <3>1, StatusSets DEF StatusEffect, Active
  <2>3. run'[j] # run[j] => status[j] # "none"
    <3>1. RunEffect(w, j)
      BY <1>3, RunFacts DEF CampaignInvariant
    <3> QED BY <3>1, WriterFacts, StatusSets DEF RunEffect, Executing, Terminal
  <2> QED BY <1>k, <2>1, <2>2, <2>3
<1>4. CASE UNCHANGED vars
  BY <1>4, <1>k DEF vars, postVars, runVars, storeVars, jobVars
<1> QED BY <1>1, <1>2, <1>3, <1>4, NextCases

-----------------------------------------------------------------------------
(* The campaign processes. *)

\* A job is never won back by the session that lost it.
LEMMA OwnedBefore ==
  ASSUME CampaignInvariant, [Next]_vars, NEW v \in Workers,
         stage[v] # "idle", holds'[v] = holds[v], Owns(v)'
  PROVE  Owns(v)
<1> USE NullAssumption DEF Owns, JobTypeOK
<1>t. JobTypeOK
  BY DEF CampaignInvariant, JobInvariant
<1>1. [JobsNext]_storeVars
  BY StoreStep DEF CampaignInvariant
<1>2. ASSUME NEW j \in Jobs, NEW k \in Keys, NEW limit \in AttemptLimits, Enqueue(j, k, limit)
      PROVE  Owns(v)
  BY <1>2, <1>t DEF Enqueue
<1>3. CASE RecoverAbandoned
  BY <1>3, <1>t DEF RecoverAbandoned, RecoveredOwner
<1>4. ASSUME NEW w \in Workers, Poll(w) PROVE Owns(v)
  <2>1. CASE PollIdle(w)
    BY <2>1, <1>t DEF PollIdle, RecoverAbandoned, RecoveredOwner
  <2>2. ASSUME NEW j \in Jobs, PollClaims(w, j) PROVE Owns(v)
    <3>1. w # v /\ claimedBy' = [RecoveredOwner EXCEPT ![j] = w]
      BY <2>2 DEF PollClaims
    <3>2. holds[v] \in Jobs /\ claimedBy'[holds[v]] = v
      BY <1>t, NullAssumption
    <3>3. RecoveredOwner[holds[v]] = v
      BY <3>1, <3>2 DEF RecoveredOwner
    <3> QED BY <1>t, <3>2, <3>3 DEF RecoveredOwner
  <2> QED BY <1>4, <2>1, <2>2 DEF Poll
<1>5. ASSUME NEW w \in Workers, MarkRunning(w) \/ Heartbeat(w) \/ CompleteAgain(w) \/ SessionEnds(w)
      PROVE  Owns(v)
  BY <1>5 DEF MarkRunning, Heartbeat, CompleteAgain, SessionEnds, Complete, EndSession, jobVars
<1>6. CASE Tick \/ UNCHANGED storeVars
  BY <1>6 DEF Tick, storeVars, jobVars
<1> QED BY <1>1, <1>2, <1>3, <1>4, <1>5, <1>6 DEF JobsNext

\* A campaign process only starts and ends.
LEMMA ProcessMoves ==
  ASSUME CampaignInvariant, [Next]_vars
  PROVE  \/ UNCHANGED processVars
         \/ \E w \in Workers : Spawn(w)
         \/ \E w \in Workers, j \in Jobs : CampaignExits(w, j)
<1>1. CASE RequestStep
  BY <1>1, RequestFacts DEF RequestEffect, CampaignInvariant, JobInvariant
<1>2. CASE AsideStep
  BY <1>2 DEF AsideStep, Beat, AbortLease, TimePasses
<1>3. ASSUME NEW w \in Workers, WorkerStep(w) PROVE UNCHANGED processVars \/ Spawn(w)
  BY <1>3, RunFacts DEF ProcessEffect, CampaignInvariant
<1>4. CASE UNCHANGED vars
  BY <1>4 DEF vars
<1> QED BY <1>1, <1>2, <1>3, <1>4, NextCases

LEMMA SpawnFacts ==
  ASSUME CampaignInvariant, NEW w \in Workers, Spawn(w)
  PROVE  /\ holds[w] \in Jobs /\ holds[w] \in started /\ stage[w] = "running"
         /\ spawns[holds[w]] = 0 /\ result[holds[w]] = "none"
         /\ \A v \in Workers : <<v, holds[w]>> \notin live
         /\ result' = result /\ started' = started
         /\ live' = live \cup {<<w, holds[w]>>}
         /\ spawns' = [spawns EXCEPT ![holds[w]] = 1]
<1>1. step[w] = "spawn" /\ Progress(w)
  BY DEF Spawn, CampaignInvariant, Disturbed
<1>2. holds[w] \in Jobs /\ holds[w] \in started /\ stage[w] = "running"
  BY <1>1, WriterFacts DEF Executing
<1>3. Spawned(holds[w]) /\ spawns[holds[w]] = 0
  BY <1>1, <1>2 DEF Progress, CampaignInvariant, Disturbed
<1>4. UNCHANGED storeVars /\ result' = result /\ live' = live \cup {<<w, holds[w]>>}
      /\ spawns' = [spawns EXCEPT ![holds[w]] = @ + 1]
  BY DEF Spawn
<1>5. spawns' = [spawns EXCEPT ![holds[w]] = 1]
  BY <1>2, <1>3, <1>4 DEF CampaignInvariant, CampaignTypes
<1> QED BY <1>2, <1>3, <1>4, <1>5 DEF Spawned, storeVars, jobVars

LEMMA ExitFacts ==
  ASSUME CampaignInvariant, NEW w \in Workers, NEW j \in Jobs, CampaignExits(w, j)
  PROVE  /\ <<w, j>> \in live /\ live' = live \ {<<w, j>>}
         /\ result[j] = "none" /\ result'[j] \in TerminalRun
         /\ \A i \in Jobs \ {j} : result'[i] = result[i]
         /\ spawns' = spawns /\ started' = started
<1>1. Spawned(j)
  BY DEF CampaignInvariant, Disturbed
<1> QED
  BY <1>1 DEF CampaignExits, Spawned, CampaignInvariant, CampaignTypes, storeVars, jobVars

LEMMA StartedGrows == CampaignInvariant /\ [Next]_vars => started \subseteq started'
<1> SUFFICES ASSUME CampaignInvariant, [Next]_vars PROVE started \subseteq started'
  OBVIOUS
<1>1. CASE RequestStep
  BY <1>1, RequestFacts DEF RequestEffect, CampaignInvariant, JobInvariant
<1>2. CASE AsideStep
  BY <1>2, AsideFacts DEF AsideEffect
<1>3. ASSUME NEW w \in Workers, WorkerStep(w) PROVE started \subseteq started'
  <2> SUFFICES ASSUME NEW j \in started PROVE j \in started'
    OBVIOUS
  <2>1. j \in Jobs
    BY DEF CampaignInvariant, JobInvariant, JobTypeOK
  <2>2. started' = started \/ Mark(w)
    BY <1>3, <2>1, StatusFacts DEF CampaignInvariant
  <2> QED BY <2>2 DEF Mark, MarkRunning
<1>4. CASE UNCHANGED vars
  BY <1>4 DEF vars, storeVars, jobVars
<1> QED BY <1>1, <1>2, <1>3, <1>4, NextCases

LEMMA SpawnedInvariance ==
  ASSUME CampaignInvariant, [Next]_vars, NEW j \in Jobs
  PROVE  Spawned(j)'
<1>t. Spawned(j) /\ CampaignTypes
  BY DEF CampaignInvariant, Disturbed
<1>s. j \in started => j \in started'
  BY StartedGrows
<1>1. CASE UNCHANGED processVars
  BY <1>1, <1>t, <1>s DEF processVars, Spawned
<1>2. ASSUME NEW w \in Workers, Spawn(w) PROVE Spawned(j)'
  BY <1>2, <1>t, SpawnFacts DEF Spawned, CampaignTypes
<1>3. ASSUME NEW w \in Workers, NEW i \in Jobs, CampaignExits(w, i) PROVE Spawned(j)'
  BY <1>3, <1>t, ExitFacts DEF Spawned, TerminalRun
<1> QED BY <1>1, <1>2, <1>3, ProcessMoves

\* What others do leaves the progress of a session alone.
LEMMA ProgressKept ==
  ASSUME CampaignInvariant, [Next]_vars, NEW v \in Workers, ~WorkerStep(v),
         stage'[v] = stage[v], holds'[v] = holds[v], step'[v] = step[v], verdict'[v] = verdict[v]
  PROVE  Progress(v)'
<1>t. Progress(v) /\ StepFits(v)
  BY DEF CampaignInvariant, Disturbed
<1>s. JobInvariant /\ Disturbed /\ CampaignTypes
  BY DEF CampaignInvariant
<1>r. ASSUME NEW w \in Workers, WorkerStep(w), stage[w] = "running", holds[w] = holds[v]
      PROVE  stage[v] # "running" /\ stage[v] # "closing" /\ ~Owns(v)
  <2>1. stage[v] # "running"
    BY <1>r, <1>s, SessionFacts
  <2>2. status[holds[v]] \in {"running", "abandoned"}
    BY <1>r, <1>s, SessionFacts
  <2>3. stage[v] # "claimed" \/ ~Owns(v)
    BY <1>s, <2>2, SessionFacts
  <2>4. stage[v] # "closing"
    BY <1>s, <2>2, SessionFacts
  <2>5. stage[v] # "idle" => stage[v] \in {"claimed", "running", "closing"}
    BY <1>s, SessionFacts DEF Stage
  <2>6. stage[v] = "idle" => ~Owns(v)
    BY <1>s, SessionFacts DEF Owns
  <2> QED BY <2>1, <2>3, <2>4, <2>5, <2>6
<1>1. ASSUME step[v] \in {"marked", "starting", "spawn"} PROVE spawns'[holds[v]] = 0
  <2>1. stage[v] = "running" /\ holds[v] \in Jobs /\ spawns[holds[v]] = 0
    BY <1>1, <1>t, WriterFacts DEF Progress, Executing
  <2>2. CASE UNCHANGED processVars
    BY <2>1, <2>2 DEF processVars
  <2>3. ASSUME NEW w \in Workers, Spawn(w) PROVE spawns'[holds[v]] = 0
    <3>1. WorkerStep(w)
      BY <2>3 DEF WorkerStep, Execute
    <3>2. holds[w] # holds[v]
      BY <1>r, <2>1, <2>3, <3>1, SpawnFacts
    <3> QED BY <1>s, <2>1, <2>3, <3>2, SpawnFacts DEF CampaignTypes
  <2>4. ASSUME NEW w \in Workers, NEW j \in Jobs, CampaignExits(w, j) PROVE spawns'[holds[v]] = 0
    BY <2>1, <2>4, ExitFacts
  <2> QED BY <2>2, <2>3, <2>4, ProcessMoves
<1>2. ASSUME step[v] \in {"running", "await"}
      PROVE  <<v, holds[v]>> \in live' \/ result'[holds[v]] # "none"
  <2>1. holds[v] \in Jobs /\ (<<v, holds[v]>> \in live \/ result[holds[v]] # "none")
    BY <1>2, <1>t, WriterFacts DEF Progress, Executing
  <2>2. CASE UNCHANGED processVars
    BY <2>1, <2>2 DEF processVars
  <2>3. ASSUME NEW w \in Workers, Spawn(w)
        PROVE  <<v, holds[v]>> \in live' \/ result'[holds[v]] # "none"
    BY <2>1, <2>3, SpawnFacts
  <2>4. ASSUME NEW w \in Workers, NEW j \in Jobs, CampaignExits(w, j)
        PROVE  <<v, holds[v]>> \in live' \/ result'[holds[v]] # "none"
    BY <2>1, <2>4, ExitFacts DEF TerminalRun
  <2> QED BY <2>2, <2>3, <2>4, ProcessMoves
<1>3. ASSUME step[v] \in {"own", "indexing", "publish", "final"}, verdict[v] = "passed"
      PROVE  result'[holds[v]] = "passed"
  <2>1. holds[v] \in Jobs /\ result[holds[v]] = "passed"
    BY <1>3, <1>t, WriterFacts DEF Progress, Executing
  <2>2. CASE UNCHANGED processVars
    BY <2>1, <2>2 DEF processVars
  <2>3. ASSUME NEW w \in Workers, Spawn(w) PROVE result'[holds[v]] = "passed"
    BY <2>1, <2>3, SpawnFacts
  <2>4. ASSUME NEW w \in Workers, NEW j \in Jobs, CampaignExits(w, j)
        PROVE  result'[holds[v]] = "passed"
    BY <2>1, <2>4, ExitFacts
  <2> QED BY <2>2, <2>3, <2>4, ProcessMoves
<1>4. ASSUME step[v] \in {"complete", "failed"} PROVE RunEnded(holds[v])'
  <2>1. RunEnded(holds[v]) /\ holds[v] \in Jobs /\ stage[v] \in {"running", "closing"}
        /\ status[holds[v]] # "none"
    BY <1>4, <1>t, WriterFacts DEF Progress, Executing
  <2>2. \A w \in Workers : WorkerStep(w) /\ stage[w] = "running" => holds[w] # holds[v]
    BY <1>r, <2>1
  <2>3. PICK j \in Jobs : j = holds[v]
    BY <2>1
  <2>4. RunEnded(j)'
    BY <2>1, <2>2, <2>3, EndedStays
  <2> QED BY <2>3, <2>4 DEF RunEnded
<1>5. ASSUME step[v] = "settle", Owns(v)' PROVE RunEnded(holds[v])'
  <2>1. stage[v] = "claimed"
    BY <1>5, <1>t DEF StepFits
  <2>2. Owns(v)
    BY <1>5, <2>1, OwnedBefore
  <2>3. PICK j \in Jobs : j = holds[v]
    BY <1>s, <2>1, SessionFacts
  <2>4. RunEnded(j) /\ status[j] = "claimed"
    BY <1>s, <1>t, <1>5, <2>1, <2>2, <2>3, SessionFacts DEF Progress
  <2>5. \A w \in Workers : WorkerStep(w) /\ stage[w] = "running" => holds[w] # j
    BY <1>r, <2>2, <2>3
  <2>6. RunEnded(j)'
    BY <2>4, <2>5, EndedStays
  <2> QED BY <2>3, <2>6 DEF RunEnded
<1> QED
  BY <1>t, <1>1, <1>2, <1>3, <1>4, <1>5 DEF Progress

\* A worker stays where it is while others take steps.
LEMMA PlaceKept ==
  ASSUME CampaignInvariant, [Next]_vars, NEW v \in Workers, ~WorkerStep(v)
  PROVE  stage'[v] = stage[v] /\ holds'[v] = holds[v] /\ step'[v] = step[v] /\ verdict'[v] = verdict[v]
<1>1. CASE RequestStep
  BY <1>1, RequestFacts
  DEF RequestEffect, workerVars, sessionVars, CampaignInvariant, JobInvariant
<1>2. CASE AsideStep
  BY <1>2, AsideFacts DEF AsideEffect, sessionVars
<1>3. ASSUME NEW w \in Workers, w # v, WorkerStep(w)
      PROVE  /\ stage'[v] = stage[v] /\ holds'[v] = holds[v]
             /\ step'[v] = step[v] /\ verdict'[v] = verdict[v]
  BY <1>3, WorkerFacts DEF WorkerEffect, CampaignInvariant
<1>4. CASE UNCHANGED vars
  BY <1>4 DEF vars, workerVars, storeVars, sessionVars
<1> QED BY <1>1, <1>2, <1>3, <1>4, NextCases

LEMMA ProgressInvariance ==
  ASSUME CampaignInvariant, [Next]_vars, NEW v \in Workers
  PROVE  Progress(v)'
<1>t. JobTypeOK /\ CampaignTypes /\ Progress(v) /\ StepFits(v)
  BY DEF CampaignInvariant, JobInvariant, Disturbed
<1>1. CASE WorkerStep(v)
  <2> USE DEF Goto, Forget, LeaveSession
  <2>k. ASSUME step'[v] \in Step \ ({"marked", "starting", "spawn", "running", "await", "own", "indexing",
                            "publish", "final", "complete", "failed", "settle"})
        PROVE  Progress(v)'
    BY <2>k DEF Progress
  <2>s. step \in [Workers -> Step]
    BY <1>t DEF CampaignTypes
  <2>1. CASE MainLoop(v)
    <3>1. step'[v] \in {"reconcile", "reconcileWrite", "poll", "load"}
      BY <2>1, <2>s
      DEF MainLoop, Boot, PollAndReport, Reconciled, ReconcileWrite, ReconcileRead
    <3> QED BY <2>k, <3>1 DEF Step, Preparing
  <2>2. CASE Load(v)
    BY <2>2, <2>s DEF Load, Progress, RunEnded, runVars, storeVars, sessionVars
  <2>3. CASE Settle(v) \/ CompleteJob(v) \/ Failed(v) \/ Closing(v) \/ LoseOwnership(v)
             \/ SessionFault(v) \/ WorkerDies(v)
    <3>1. step'[v] \in {"poll", "closing", "failing", "dead"}
      BY <2>3, <2>s
      DEF Settle, CompleteJob, Failed, Closing, LoseOwnership, SessionFault, WorkerDies
    <3> QED BY <2>k, <3>1 DEF Step
  <2>4. CASE Mark(v)
    <3>1. /\ stage[v] = "claimed" /\ Owns(v)
          /\ step'[v] = "marked" /\ holds' = holds /\ UNCHANGED processVars
      BY <2>4, <2>s DEF Mark, MarkRunning
    <3>2. holds[v] \in Jobs /\ holds[v] \notin started
      BY <3>1, SessionFacts DEF CampaignInvariant
    <3>3. spawns[holds[v]] = 0
      BY <3>2 DEF CampaignInvariant, Disturbed, Spawned
    <3> QED BY <3>1, <3>3 DEF Progress, processVars
  <2>5. CASE Announce(v) \/ Starting(v)
    BY <2>5, <1>t, <2>s
    DEF Announce, Starting, Progress, processVars, storeVars, sessionVars
  <2>6. CASE Spawn(v)
    <3>1. step'[v] = "running" /\ holds' = holds /\ <<v, holds[v]>> \in live'
      BY <2>6, <2>s DEF Spawn, storeVars, sessionVars
    <3> QED BY <3>1 DEF Progress
  <2>7. CASE Running(v) \/ Await(v)
    <3>1. CASE Running(v)
      BY <3>1, <1>t, <2>s DEF Running, Progress, processVars, storeVars, sessionVars
    <3>2. CASE Await(v)
      <4>1. step'[v] = "own" /\ holds' = holds /\ result' = result
            /\ verdict'[v] = result[holds[v]]
        BY <3>2, <1>t, <2>s DEF Await, CampaignTypes, processVars, storeVars, sessionVars
      <4>2. holds[v] \in Jobs /\ result[holds[v]] # "none"
        BY <3>2, <1>t, WriterFacts DEF Await, Progress, Executing
      <4>3. verdict'[v] \in TerminalRun
        BY <1>t, <4>1, <4>2 DEF CampaignTypes
      <4> QED BY <4>1, <4>3 DEF Progress
    <3> QED BY <2>7, <3>1, <3>2
  <2>8. CASE AwaitSurvivor(v)
    BY <2>8, <1>t, <2>s DEF AwaitSurvivor, Progress, CampaignTypes, TerminalRun
  <2>9. CASE AssertSafe(v) \/ Indexing(v)
    BY <2>9, <1>t, <2>s
    DEF AssertSafe, Indexing, Progress, processVars, storeVars, sessionVars
  <2>10. CASE Final(v) \/ Failing(v)
    <3>1. /\ step'[v] \in {"complete", "failed"} /\ holds' = holds
          /\ run' = [run EXCEPT ![holds[v]] = IF Final(v) THEN verdict[v] ELSE "failed_startup"]
          /\ step[v] \in {"final", "failing"} /\ (Final(v) => step[v] = "final")
      BY <2>10, <2>s DEF Final, Failing, Write, storeVars, sessionVars
    <3>2. holds[v] \in Jobs /\ (Final(v) => verdict[v] \in TerminalRun)
      BY <3>1, WriterFacts DEF Executing
    <3>3. run'[holds[v]] \in TerminalRun
      BY <1>t, <3>1, <3>2 DEF CampaignTypes, TerminalRun
    <3> QED BY <3>1, <3>3 DEF Progress, RunEnded
  <2> QED
    BY <1>1, <2>1, <2>2, <2>3, <2>4, <2>5, <2>6, <2>7, <2>8, <2>9, <2>10
    DEF WorkerStep, Execute
<1>2. CASE ~WorkerStep(v)
  BY <1>2, PlaceKept, ProgressKept
<1> QED BY <1>1, <1>2

LEMMA PassedRanInvariance == CampaignInvariant /\ [Next]_vars => PassedRan'
<1> SUFFICES ASSUME CampaignInvariant, [Next]_vars, NEW j \in Jobs, run'[j] = "passed"
             PROVE  j \in started' /\ result'[j] = "passed"
  BY DEF PassedRan
<1>1. j \in started /\ result[j] = "passed"
  <2>1. CASE run'[j] = run[j]
    BY <2>1 DEF CampaignInvariant, Disturbed, PassedRan
  <2>2. ASSUME run'[j] # run[j], NEW w \in Workers, WorkerStep(w)
        PROVE  j \in started /\ result[j] = "passed"
    <3>1. RunEffect(w, j)
      BY <2>2, RunFacts DEF CampaignInvariant
    <3> QED BY <2>2, <3>1, WriterFacts DEF RunEffect, Executing
  <2>3. CASE RequestStep /\ run'[j] # run[j]
    BY <2>3, RequestFacts DEF RequestEffect, CampaignInvariant, JobInvariant
  <2>4. AsideStep \/ UNCHANGED vars => run'[j] = run[j]
    BY AsideFacts DEF AsideEffect, vars, runVars
  <2> QED BY <2>1, <2>2, <2>3, <2>4, NextCases
<1>2. CASE UNCHANGED processVars
  BY <1>1, <1>2, StartedGrows DEF processVars
<1>3. ASSUME NEW w \in Workers, Spawn(w) PROVE j \in started' /\ result'[j] = "passed"
  BY <1>1, <1>3, SpawnFacts
<1>4. ASSUME NEW w \in Workers, NEW i \in Jobs, CampaignExits(w, i)
      PROVE  j \in started' /\ result'[j] = "passed"
  BY <1>1, <1>4, ExitFacts
<1> QED BY <1>2, <1>3, <1>4, ProcessMoves

LEMMA DisturbedInvariance == CampaignInvariant /\ [Next]_vars => Disturbed'
BY FitsInvariance, ReconcilingInvariance, UnfinishedInvariance, ProgressInvariance,
   SpawnedInvariance, RequestedInvariance, OwnerEndsRunInvariance, PassedRanInvariance
DEF Disturbed

-----------------------------------------------------------------------------
(* Undisturbed executions. *)

\* What a worker can still do when nothing goes wrong around it.
CalmStep(w) ==
  \/ Boot(w) \/ Reconciled(w) \/ Load(w) \/ Settle(w) \/ Mark(w) \/ Announce(w)
  \/ Starting(w) \/ Spawn(w) \/ Running(w) \/ Await(w) \/ AssertSafe(w) \/ Indexing(w)
  \/ Final(w) \/ Closing(w)
  \/ CompleteJob(w) /\ step'[w] = "closing"
  \/ \E j \in Jobs : ReconcileRead(w, j) /\ RunEnded(j)
  \/ /\ PollAndReport(w)
     /\ \E j \in Jobs : status[j] = "queued" /\ PollClaims(w, j)

LEMMA CalmFacts ==
  ASSUME CampaignInvariant, hazards = {}
  PROVE  /\ Undisturbed
         /\ Expired = {}
         /\ \A j \in Jobs : RecoveredStatus[j] = status[j] /\ RecoveredOwner[j] = claimedBy[j]
                            /\ RecoveredLease[j] = lease[j]
         /\ \A w \in Workers : stage[w] # "idle" =>
              /\ Owns(w) /\ holds[w] \in Jobs
              /\ stage[w] = "claimed" => status[holds[w]] = "claimed"
              /\ stage[w] = "running" => status[holds[w]] = "running"
              /\ stage[w] = "closing" => status[holds[w]] \in {"completed", "failed"}
              /\ stage[w] \in {"claimed", "running"} => lease[holds[w]] > 0
         /\ \A v, w \in Workers :
              stage[v] # "idle" /\ stage[w] # "idle" /\ holds[v] = holds[w] => v = w
<1>1. Undisturbed /\ JobTypeOK
  BY DEF CampaignInvariant, JobInvariant
<1>2. Expired = {}
  BY <1>1 DEF Undisturbed, Attended, Expired, LeaseExpired
<1>3. \A w \in Workers : stage[w] # "idle" =>
              /\ Owns(w) /\ holds[w] \in Jobs
              /\ stage[w] = "claimed" => status[holds[w]] = "claimed"
              /\ stage[w] = "running" => status[holds[w]] = "running"
              /\ stage[w] = "closing" => status[holds[w]] \in {"completed", "failed"}
  <2> SUFFICES ASSUME NEW w \in Workers, stage[w] # "idle"
               PROVE  /\ Owns(w) /\ holds[w] \in Jobs
                      /\ stage[w] = "claimed" => status[holds[w]] = "claimed"
                      /\ stage[w] = "running" => status[holds[w]] = "running"
                      /\ stage[w] = "closing" => status[holds[w]] \in {"completed", "failed"}
    OBVIOUS
  <2>1. Owns(w) /\ SessionAgrees(w)
    BY <1>1 DEF Undisturbed, Quiet, CampaignInvariant, JobInvariant, SessionsAgree
  <2> QED BY <1>1, <2>1 DEF SessionAgrees, JobTypeOK
<1>4. \A w \in Workers : stage[w] \in {"claimed", "running"} => lease[holds[w]] > 0
  BY <1>1, <1>3 DEF Undisturbed, Attended
<1>5. \A v, w \in Workers :
        stage[v] # "idle" /\ stage[w] # "idle" /\ holds[v] = holds[w] => v = w
  BY <1>3 DEF Owns
<1>6. \A j \in Jobs : RecoveredStatus[j] = status[j] /\ RecoveredOwner[j] = claimedBy[j]
                            /\ RecoveredLease[j] = lease[j]
  BY <1>2 DEF RecoveredStatus, RecoveredOwner, RecoveredLease
<1> QED BY <1>1, <1>2, <1>3, <1>4, <1>5, <1>6

LEMMA CalmWork ==
  ASSUME CampaignInvariant, hazards = {}, NEW w \in Workers, WorkerStep(w)
  PROVE  CalmStep(w)
<1>1. Quiet(w) /\ StepFits(w) /\ Reconciling(w) /\ todo[w] \subseteq Jobs /\ step \in [Workers -> Step]
  BY CalmFacts DEF Undisturbed, CampaignInvariant, Disturbed, CampaignTypes
<1>2. ~ReconcileWrite(w) /\ ~Failing(w) /\ ~Failed(w)
  BY <1>1 DEF Quiet, ReconcileWrite, Failing, Failed
<1>3. ~AwaitSurvivor(w) /\ ~SessionFault(w) /\ ~WorkerDies(w)
  BY DEF AwaitSurvivor, SessionFault, WorkerDies
<1>4. CompleteJob(w) => step'[w] = "closing"
  BY <1>1 DEF CompleteJob, Goto
<1>5. ~LoseOwnership(w)
  <2> SUFFICES ASSUME LoseOwnership(w) PROVE FALSE
    OBVIOUS
  <2>1. step[w] \in {"settle", "mark", "complete", "own", "publish"}
    BY <1>1 DEF LoseOwnership, Quiet
  <2>2. /\ stage[w] \in {"claimed", "running"}
        /\ step[w] \in {"own", "publish"} => stage[w] = "running"
    BY <1>1, <2>1 DEF StepFits, Executing
  <2>3. Owns(w) /\ (step[w] \in {"own", "publish"} => SafelyOwned(w))
    BY <1>1, <2>2, CalmFacts DEF SafelyOwned, Quiet
  <2> QED BY <2>1, <2>3 DEF LoseOwnership
<1>6. ASSUME NEW j \in Jobs, ReconcileRead(w, j) PROVE RunEnded(j)
  <2>1. Terminal(j) /\ status[j] # "abandoned"
    BY <1>1, <1>6, CalmFacts DEF ReconcileRead, Reconciling, Undisturbed, Attended
  <2> QED
    BY <2>1, StatusSets DEF Terminal, CampaignInvariant, Disturbed, OwnerEndsRun
<1>7. ASSUME PollAndReport(w)
      PROVE  \E j \in Jobs : status[j] = "queued" /\ PollClaims(w, j)
  <2>1. ~PollIdle(w)
    BY CalmFacts DEF PollIdle, RecoverAbandoned
  <2> QED
    BY <1>7, <2>1, CalmFacts DEF PollAndReport, Poll, PollClaims, Claimable
<1> QED
  BY <1>2, <1>3, <1>4, <1>5, <1>6, <1>7 DEF WorkerStep, MainLoop, Execute, CalmStep

\* Only an enqueue, a claim and a recovery write the owner of a job.
LEMMA OwnerMoves ==
  ASSUME JobTypeOK, [JobsNext]_storeVars, NEW j \in Jobs,
         status[j] \notin {"none", "queued"}, j \notin Expired
  PROVE  claimedBy'[j] = claimedBy[j]
<1> USE DEF JobTypeOK
<1>1. ASSUME NEW i \in Jobs, NEW k \in Keys, NEW limit \in AttemptLimits, Enqueue(i, k, limit)
      PROVE  claimedBy'[j] = claimedBy[j]
  BY <1>1 DEF Enqueue
<1>2. CASE RecoverAbandoned
  BY <1>2 DEF RecoverAbandoned, RecoveredOwner
<1>3. ASSUME NEW w \in Workers, Poll(w) PROVE claimedBy'[j] = claimedBy[j]
  BY <1>3 DEF Poll, PollIdle, PollClaims, RecoverAbandoned, RecoveredOwner, Claimable,
     RecoveredStatus
<1>4. ASSUME NEW w \in Workers, MarkRunning(w) \/ Heartbeat(w) \/ CompleteAgain(w) \/ SessionEnds(w)
      PROVE  claimedBy' = claimedBy
  BY <1>4 DEF MarkRunning, Heartbeat, CompleteAgain, SessionEnds, Complete, EndSession, jobVars
<1>5. CASE Tick \/ UNCHANGED storeVars
  BY <1>5 DEF Tick, storeVars, jobVars
<1> QED BY <1>1, <1>2, <1>3, <1>4, <1>5 DEF JobsNext

LEMMA QuietInvariance ==
  ASSUME CampaignInvariant, hazards = {}, [Next]_vars, NEW v \in Workers
  PROVE  Quiet(v)'
<1>t. JobTypeOK /\ CampaignTypes /\ Quiet(v)
  BY CalmFacts DEF CampaignInvariant, JobInvariant, Undisturbed
<1>k. ASSUME step'[v] = step[v], aborted' = aborted, stage'[v] = stage[v], holds'[v] = holds[v]
      PROVE  Quiet(v)'
  <2>1. CASE stage[v] = "idle"
    BY <1>t, <1>k, <2>1 DEF Quiet
  <2>2. CASE stage[v] # "idle"
    <3>1. PICK j \in Jobs : j = holds[v]
      BY <2>2, CalmFacts
    <3>2. claimedBy[j] = v /\ status[j] \notin {"none", "queued"}
      BY <1>t, <2>2, <3>1, CalmFacts DEF Owns, JobTypeOK, Stage
    <3>3. claimedBy'[j] = v
      BY <1>t, <3>2, CalmFacts, StoreStep, OwnerMoves DEF CampaignInvariant
    <3> QED BY <1>t, <1>k, <3>1, <3>3, NullAssumption DEF Quiet, Owns
  <2> QED BY <2>1, <2>2
<1>1. CASE RequestStep
  BY <1>1, <1>k, <1>t, RequestFacts DEF RequestEffect, workerVars, sessionVars
<1>2. CASE AsideStep
  <2>1. ASSUME NEW w \in Workers PROVE ~AbortLease(w)
    <3>1. stage[w] # "idle" => Owns(w)
      BY CalmFacts
    <3> QED BY <3>1 DEF AbortLease, Beating
  <2>2. aborted' = aborted
    BY <1>2, <2>1 DEF AsideStep, Beat, CampaignExits, TimePasses, workerVars
  <2> QED BY <1>2, <1>k, <2>2, AsideFacts DEF AsideEffect, sessionVars
<1>3. ASSUME NEW w \in Workers, WorkerStep(w) PROVE Quiet(v)'
  <2>0. CalmStep(w) /\ WorkerEffect(w) /\ SessionEffect(w)
    BY <1>3, CalmWork, WorkerFacts, SessionMoves DEF CampaignInvariant
  <2>1. v \notin aborted'
    <3>1. aborted' \subseteq aborted
      BY <2>0
      DEF CalmStep, Boot, Reconciled, Load, Settle, Mark, Announce, Starting, Spawn, Running,
          Await, AssertSafe, Indexing, Final, Closing, CompleteJob, ReconcileRead, PollAndReport,
          LeaveSession, Forget
    <3> QED BY <1>t, <3>1 DEF Quiet
  <2>2. step'[v] \notin {"failing", "failed", "dead", "reconcileWrite"}
    <3>1. CASE w # v
      BY <1>t, <2>0, <3>1 DEF WorkerEffect, Quiet
    <3>2. CASE w = v
      BY <1>t, <2>0, <3>2
      DEF CalmStep, Boot, Reconciled, Load, Settle, Mark, Announce, Starting, Spawn, Running,
          Await, AssertSafe, Indexing, Final, Closing, CompleteJob, ReconcileRead, PollAndReport,
          LeaveSession, Goto, CampaignTypes, Quiet
    <3> QED BY <3>1, <3>2
  <2>3. stage'[v] # "idle" => Owns(v)'
    <3> SUFFICES ASSUME stage'[v] # "idle" PROVE Owns(v)'
      OBVIOUS
    <3>1. CASE holds'[v] = holds[v] /\ stage[v] # "idle"
      <4>1. PICK j \in Jobs : j = holds[v]
        BY <3>1, CalmFacts
      <4>2. claimedBy[j] = v /\ status[j] \notin {"none", "queued"}
        BY <1>t, <3>1, <4>1, CalmFacts DEF Owns, JobTypeOK, Stage
      <4>3. claimedBy'[j] = v
        BY <1>t, <4>2, CalmFacts, StoreStep, OwnerMoves DEF CampaignInvariant
      <4> QED BY <3>1, <4>1, <4>3, NullAssumption DEF Owns
    <3>2. CASE PollAndReport(v)
      <4>1. WorkerStep(v)
        BY <3>2 DEF WorkerStep, MainLoop
      <4>2. ~PollIdle(v)
        BY CalmFacts DEF PollIdle, RecoverAbandoned
      <4>3. PICK j \in Jobs : PollClaims(v, j)
        BY <3>2, <4>2 DEF PollAndReport, Poll
      <4> QED
        BY <1>t, <4>3, NullAssumption DEF PollClaims, Owns, JobTypeOK, RecoveredOwner
    <3>3. ~PollAndReport(v) => holds'[v] = holds[v] /\ stage[v] # "idle"
      <4>1. CASE w # v
        BY <2>0, <4>1 DEF WorkerEffect
      <4>2. CASE w = v /\ (Mark(v) \/ CompleteJob(v))
        <5>1. CompleteJob(v) => stage[v] = "running"
          BY DEF CompleteJob, CampaignInvariant, Disturbed, StepFits, Executing
        <5> QED BY <4>2, <5>1 DEF Mark, MarkRunning, CompleteJob, Complete
      <4>3. ~Failed(v)
        BY <1>t DEF Failed, Quiet
      <4> QED BY <2>0, <4>1, <4>2, <4>3 DEF SessionEffect
    <3> QED BY <3>1, <3>2, <3>3
  <2> QED BY <2>1, <2>2, <2>3 DEF Quiet
<1>4. CASE UNCHANGED vars
  BY <1>4, <1>k DEF vars, workerVars, storeVars, sessionVars
<1> QED BY <1>1, <1>2, <1>3, <1>4, NextCases

\* What a worker does to the jobs when nothing goes wrong around it.
LEMMA CalmJobs ==
  ASSUME CampaignInvariant, hazards = {}, NEW w \in Workers, WorkerStep(w), NEW j \in Jobs
  PROVE  \/ status'[j] = status[j] /\ lease'[j] = lease[j] /\ claimedBy'[j] = claimedBy[j]
         \/ /\ status'[j] \in {"claimed", "running"} /\ claimedBy'[j] = w /\ holds'[w] = j
            /\ lease'[j] = LeaseTicks
         \/ status'[j] \in {"completed", "failed"}
<1>t. JobTypeOK /\ CampaignTypes
  BY DEF CampaignInvariant, JobInvariant
<1> USE DEF JobTypeOK, storeVars, jobVars
<1>1. CalmStep(w)
  BY CalmWork
<1>2. CASE Boot(w) \/ Reconciled(w) \/ Load(w) \/ Announce(w) \/ Starting(w) \/ Spawn(w)
           \/ Running(w) \/ Await(w) \/ AssertSafe(w) \/ Indexing(w) \/ Final(w)
           \/ \E i \in Jobs : ReconcileRead(w, i)
  BY <1>2 DEF Boot, Reconciled, Load, Announce, Starting, Spawn, Running, Await, AssertSafe,
     Indexing, Final, ReconcileRead
<1>3. CASE Closing(w)
  BY <1>3 DEF Closing, LeaveSession, EndSession
<1>4. CASE Settle(w) \/ CompleteJob(w)
  <2>1. Outcome(verdict[w]) \in {"completed", "failed"}
    BY DEF Outcome
  <2> QED BY <1>t, <1>4, <2>1 DEF Settle, CompleteJob, Complete, Owns
<1>5. CASE Mark(w)
  BY <1>t, <1>5 DEF Mark, MarkRunning, Owns
<1>6. ASSUME NEW i \in Jobs, PollClaims(w, i)
      PROVE  IF i = j THEN /\ status'[j] = "claimed" /\ claimedBy'[j] = w /\ holds'[w] = j
                           /\ lease'[j] = LeaseTicks
                      ELSE status'[j] = status[j] /\ lease'[j] = lease[j]
                           /\ claimedBy'[j] = claimedBy[j]
  <2>1. RecoveredStatus[j] = status[j] /\ RecoveredOwner[j] = claimedBy[j]
        /\ RecoveredLease[j] = lease[j]
    BY CalmFacts
  <2> QED
    BY <1>t, <1>6, <2>1 DEF PollClaims, RecoveredStatus, RecoveredOwner, RecoveredLease
<1> QED BY <1>1, <1>2, <1>3, <1>4, <1>5, <1>6 DEF CalmStep

LEMMA AttendedInvariance ==
  ASSUME CampaignInvariant, hazards = {}, [Next]_vars, NEW j \in Jobs
  PROVE  Attended(j)'
<1>t. JobTypeOK /\ CampaignTypes /\ Attended(j)
  BY CalmFacts DEF CampaignInvariant, JobInvariant, Undisturbed
<1>o. status[j] \in {"claimed", "running"} => claimedBy[j] \in Workers
  BY <1>t DEF CampaignInvariant, JobInvariant, NoStuckSlot, JobTypeOK
<1>l. LeaseTicks > 0
  BY LeaseAssumption
<1>1. CASE RequestStep
  <2>1. ASSUME status'[j] \in {"claimed", "running"}
        PROVE  lease'[j] = lease[j] /\ claimedBy'[j] = claimedBy[j] /\ status'[j] = status[j]
    <3>1. ASSUME NEW i \in Jobs, Insert(i) PROVE lease'[j] = lease[j] /\ claimedBy'[j] = claimedBy[j]
      BY <1>t, <2>1, <3>1 DEF Insert, Enqueue, JobTypeOK
    <3>2. status'[j] = status[j]
      BY <1>t, <1>1, <2>1, RequestFacts DEF RequestEffect
    <3> QED
      BY <1>1, <3>1, <3>2
      DEF RequestStep, Request, CreateRun, PostFault, PostCrash, EnqueueByKey, EnqueueByActive,
          InsertRefused, FailStartup, storeVars, jobVars
  <2>2. status'[j] # "abandoned" /\ holds' = holds
    BY <1>t, <1>1, RequestFacts DEF RequestEffect, Attended, sessionVars
  <2> QED BY <1>t, <2>1, <2>2 DEF Attended
<1>2. CASE AsideStep
  <2>1. lease'[j] > 0 \/ status[j] \notin {"claimed", "running"}
    <3> SUFFICES ASSUME status[j] \in {"claimed", "running"} PROVE lease'[j] > 0
      OBVIOUS
    <3>1. /\ lease[j] > 0 /\ claimedBy[j] \in Workers /\ holds[claimedBy[j]] = j
          /\ lease[j] \in Int
      BY <1>t, <1>o, LeaseAssumption DEF Attended, JobTypeOK, NoLease
    <3>2. ASSUME NEW w \in Workers, Beat(w) PROVE lease'[j] > 0
      BY <1>t, <1>l, <3>1, <3>2 DEF Beat, Heartbeat, JobTypeOK
    <3>3. ASSUME NEW w \in Workers, AbortLease(w) \/ \E i \in Jobs : CampaignExits(w, i)
          PROVE  lease'[j] > 0
      BY <3>1, <3>3 DEF AbortLease, CampaignExits, storeVars, jobVars
    <3>4. CASE TimePasses
      <4>1. Owns(claimedBy[j])
        BY <3>1, NullAssumption DEF Owns
      <4>2. lease[j] # 1
        BY <3>1, <3>4, <4>1 DEF TimePasses
      <4>3. lease'[j] = lease[j] - 1
        BY <3>1, <3>4 DEF TimePasses, Tick
      <4> QED BY <3>1, <4>2, <4>3
    <3> QED BY <1>2, <3>2, <3>3, <3>4 DEF AsideStep
  <2> QED BY <1>t, <1>2, <2>1, AsideFacts DEF AsideEffect, Attended, sessionVars
<1>3. ASSUME NEW w \in Workers, WorkerStep(w) PROVE Attended(j)'
  <2>1. CASE status'[j] = status[j] /\ lease'[j] = lease[j] /\ claimedBy'[j] = claimedBy[j]
    <3> SUFFICES ASSUME status[j] \in {"claimed", "running"} PROVE holds'[claimedBy[j]] = j
      BY <1>t, <2>1 DEF Attended
    <3> DEFINE v == claimedBy[j]
    <3>1. v \in Workers /\ holds[v] = j
      BY <1>t, <1>o DEF Attended
    <3>2. Owns(v) /\ stage[v] \in {"claimed", "running"}
      BY <1>t, <3>1, NullAssumption
      DEF Owns, CampaignInvariant, JobInvariant, SessionsAgree, SessionAgrees
    <3>3. CASE w # v
      BY <1>3, <3>1, <3>3, WorkerFacts DEF WorkerEffect, CampaignInvariant
    <3>4. CASE w = v
      <4>1. CalmStep(v)
        BY <1>3, <3>4, CalmWork
      <4>2. ~Closing(v) /\ ~PollAndReport(v)
        BY <3>1, <3>2
        DEF Closing, PollAndReport, Poll, PollIdle, PollClaims, CampaignInvariant, Disturbed, StepFits
      <4>3. ~Settle(v) /\ ~CompleteJob(v)
        <5>1. Outcome(verdict[v]) \in {"completed", "failed"}
          BY DEF Outcome
        <5> QED
          BY <1>t, <2>1, <3>1, <5>1 DEF Settle, CompleteJob, Complete, JobTypeOK
      <4> QED
        BY <3>1, <4>1, <4>2, <4>3
        DEF CalmStep, Boot, Reconciled, Load, Mark, MarkRunning, Announce, Starting, Spawn, Running,
            Await, AssertSafe, Indexing, Final, ReconcileRead, storeVars, sessionVars
    <3> QED BY <3>3, <3>4
  <2>2. CASE /\ status'[j] \in {"claimed", "running"} /\ claimedBy'[j] = w /\ holds'[w] = j
             /\ lease'[j] = LeaseTicks
    BY <1>l, <2>2 DEF Attended
  <2>3. CASE status'[j] \in {"completed", "failed"}
    BY <2>3 DEF Attended
  <2> QED BY <1>3, <2>1, <2>2, <2>3, CalmJobs
<1>4. CASE UNCHANGED vars
  BY <1>t, <1>4 DEF vars, storeVars, jobVars, sessionVars, Attended
<1> QED BY <1>1, <1>2, <1>3, <1>4, NextCases

\* Whatever run a worker writes, its job was inserted.
LEMMA WrittenInserted ==
  ASSUME CampaignInvariant, NEW w \in Workers, WorkerStep(w), NEW j \in Jobs, status[j] = "none"
  PROVE  run'[j] = run[j] /\ status'[j] = "none"
<1>1. StatusEffect(w, j) /\ RunEffect(w, j)
  BY StatusFacts, RunFacts DEF CampaignInvariant
<1> QED
  BY <1>1, WriterFacts, StatusSets DEF StatusEffect, RunEffect, Active, Executing, Terminal

LEMMA UntouchedInvariance ==
  ASSUME CampaignInvariant, hazards = {}, [Next]_vars, NEW j \in Jobs
  PROVE  Untouched(j)'
<1>t. CampaignTypes /\ JobTypeOK /\ Untouched(j) /\ Requested(j)
  BY CalmFacts DEF CampaignInvariant, JobInvariant, Undisturbed, Disturbed
<1>1. CASE RequestStep
  <2> USE DEF Untouched, PostGoto, Write, storeVars, jobVars, runVars
  <2>1. ASSUME NEW i \in Jobs, CreateRun(i) PROVE Untouched(j)'
    BY <1>t, <2>1 DEF CreateRun, Requested, CampaignTypes
  <2>2. ASSUME NEW i \in Jobs, EnqueueByKey(i) \/ EnqueueByActive(i) \/ InsertRefused(i)
        PROVE  Untouched(j)'
    BY <1>t, <2>2 DEF EnqueueByKey, EnqueueByActive, InsertRefused, CampaignTypes
  <2>3. ASSUME NEW i \in Jobs, Insert(i) PROVE Untouched(j)'
    BY <1>t, <2>3 DEF Insert, Enqueue, CampaignTypes, JobTypeOK
  <2>4. ASSUME NEW i \in Jobs, FailStartup(i) PROVE Untouched(j)'
    BY <1>t, <2>4 DEF FailStartup, CampaignTypes
  <2>5. \A i \in Jobs : ~PostFault(i) /\ ~PostCrash(i)
    BY DEF PostFault, PostCrash
  <2> QED BY <1>1, <2>1, <2>2, <2>3, <2>4, <2>5 DEF RequestStep, Request
<1>2. CASE AsideStep
  BY <1>t, <1>2, AsideFacts DEF AsideEffect, Untouched, postVars, runVars
<1>3. ASSUME NEW w \in Workers, WorkerStep(w) PROVE Untouched(j)'
  <2>1. post' = post
    BY <1>3, WorkerFacts DEF WorkerEffect, postVars, CampaignInvariant
  <2> QED BY <1>t, <1>3, <2>1, WrittenInserted DEF Untouched
<1>4. CASE UNCHANGED vars
  BY <1>t, <1>4 DEF vars, postVars, runVars, storeVars, jobVars, Untouched
<1> QED BY <1>1, <1>2, <1>3, <1>4, NextCases

\* Nobody writes a finished run.
LEMMA EndedStep == CampaignInvariant /\ [Next]_vars => [EndedRunStep]_vars
<1> SUFFICES ASSUME CampaignInvariant, [Next]_vars, hazards = {}, NEW j \in Jobs, RunEnded(j)
             PROVE  run'[j] = run[j]
  BY DEF EndedRunStep
<1>1. CASE RequestStep
  <2>1. Untouched(j) /\ Requested(j)
    BY CalmFacts DEF Undisturbed, CampaignInvariant, Disturbed
  <2> QED
    BY <1>1, <2>1, RequestFacts
    DEF RequestEffect, Untouched, Requested, RunEnded, TerminalRun, CampaignInvariant, JobInvariant
<1>2. CASE AsideStep
  BY <1>2, AsideFacts DEF AsideEffect, runVars
<1>3. ASSUME NEW w \in Workers, WorkerStep(w) PROVE run'[j] = run[j]
  <2>1. RunEffect(w, j)
    BY <1>3, RunFacts DEF CampaignInvariant
  <2>2. Quiet(w) /\ Open(w)
    BY CalmFacts DEF Undisturbed
  <2> QED BY <2>1, <2>2 DEF RunEffect, Quiet, Open, Executing
<1>4. CASE UNCHANGED vars
  BY <1>4 DEF vars, runVars
<1> QED BY <1>1, <1>2, <1>3, <1>4, NextCases

\* Only its request and its worker end a run.
LEMMA StillOpen ==
  ASSUME CampaignInvariant, hazards = {}, [Next]_vars, NEW v \in Workers, ~WorkerStep(v),
         stage[v] # "idle", NEW j \in Jobs, j = holds[v], ~RunEnded(j)
  PROVE  ~RunEnded(j)'
<1>t. status[j] # "none"
  <2>1. stage[v] \in {"claimed", "running", "closing"}
    BY SessionFacts DEF CampaignInvariant, Stage
  <2> QED BY <2>1, CalmFacts
<1>1. CASE RequestStep
  <2>1. Untouched(j) /\ Requested(j)
    BY CalmFacts DEF Undisturbed, CampaignInvariant, Disturbed
  <2> QED
    BY <1>t, <1>1, <2>1, RequestFacts
    DEF RequestEffect, Untouched, Requested, RunEnded, TerminalRun, CampaignInvariant, JobInvariant
<1>2. CASE AsideStep
  BY <1>2, AsideFacts DEF AsideEffect, runVars, RunEnded
<1>3. ASSUME NEW w \in Workers, w # v, WorkerStep(w) PROVE ~RunEnded(j)'
  <2>1. RunEffect(w, j) /\ Quiet(w)
    BY <1>3, RunFacts, CalmFacts DEF CampaignInvariant, Undisturbed
  <2>2. stage[w] # "idle" => holds[w] # j
    BY <1>3, CalmFacts
  <2> QED BY <2>1, <2>2, WriterFacts DEF RunEffect, Quiet, RunEnded, Executing
<1>4. CASE UNCHANGED vars
  BY <1>4 DEF vars, runVars, RunEnded
<1> QED BY <1>1, <1>2, <1>3, <1>4, NextCases

LEMMA OpenInvariance ==
  ASSUME CampaignInvariant, hazards = {}, [Next]_vars, NEW v \in Workers
  PROVE  Open(v)'
<1>t. JobTypeOK /\ CampaignTypes /\ Open(v) /\ StepFits(v)
  BY CalmFacts DEF CampaignInvariant, JobInvariant, Undisturbed, Disturbed
<1>1. CASE WorkerStep(v)
  <2> USE DEF Goto, Forget, LeaveSession
  <2>c. CalmStep(v)
    BY <1>1, CalmWork
  <2>s. step \in [Workers -> Step]
    BY <1>t DEF CampaignTypes
  <2>1. CASE Boot(v) \/ Reconciled(v) \/ PollAndReport(v) \/ Settle(v) \/ Final(v)
             \/ Closing(v) \/ (CompleteJob(v) /\ step'[v] = "closing")
             \/ \E j \in Jobs : ReconcileRead(v, j) /\ RunEnded(j)
    <3>1. step'[v] \in {"reconcile", "poll", "load", "complete", "closing"}
      BY <2>1, <2>s
      DEF Boot, Reconciled, PollAndReport, Settle, Final, Closing, ReconcileRead
    <3> QED BY <3>1 DEF Open, Executing
  <2>2. CASE Load(v)
    BY <2>2, <2>s DEF Load, Open, RunEnded, Executing, runVars, storeVars, sessionVars
  <2>3. CASE Mark(v)
    BY <2>3, <1>t DEF Mark, MarkRunning, Open, RunEnded, Executing, runVars
  <2>4. CASE Announce(v) \/ Spawn(v) \/ Await(v) \/ AssertSafe(v)
    BY <2>4, <1>t
    DEF Announce, Spawn, Await, AssertSafe, Open, RunEnded, Executing, runVars, storeVars, sessionVars
  <2>5. CASE Starting(v) \/ Running(v) \/ Indexing(v)
    <3>1. step[v] \in Executing
      BY <2>5 DEF Starting, Running, Indexing, Executing
    <3>2. holds[v] \in Jobs
      BY <3>1, WriterFacts
    <3>3. run'[holds[v]] \in {"starting", "running", "indexing_artifacts"} /\ holds' = holds
      BY <2>5, <1>t, <3>2
      DEF Starting, Running, Indexing, Write, CampaignTypes, storeVars, sessionVars
    <3> QED BY <3>3 DEF Open, RunEnded, TerminalRun
  <2> QED BY <2>c, <2>1, <2>2, <2>3, <2>4, <2>5 DEF CalmStep
<1>2. CASE ~WorkerStep(v)
  <2>1. stage'[v] = stage[v] /\ holds'[v] = holds[v] /\ step'[v] = step[v]
    BY <1>2, PlaceKept
  <2> SUFFICES ASSUME step[v] \in {"mark", "marked"} \cup (Executing \ {"complete"})
               PROVE  ~RunEnded(holds[v])'
    BY <2>1 DEF Open
  <2>2. stage[v] # "idle"
    BY <1>t DEF StepFits
  <2>3. PICK j \in Jobs : j = holds[v]
    BY <2>2, CalmFacts
  <2>4. ~RunEnded(j)
    BY <1>t, <2>3 DEF Open
  <2>5. ~RunEnded(j)'
    BY <1>2, <2>2, <2>3, <2>4, StillOpen
  <2> QED BY <2>1, <2>3, <2>5 DEF RunEnded
<1> QED BY <1>1, <1>2

LEMMA WatchedInvariance ==
  ASSUME CampaignInvariant, hazards = {}, [Next]_vars, NEW v \in Workers, NEW j \in Jobs
  PROVE  Watched(v, j)'
<1> SUFFICES ASSUME <<v, j>> \in live' PROVE step'[v] \in {"running", "await"} /\ holds'[v] = j
  BY DEF Watched
<1>t. JobTypeOK /\ CampaignTypes /\ Watched(v, j)
  BY CalmFacts DEF CampaignInvariant, JobInvariant, Undisturbed
<1>1. CASE Spawn(v)
  <2>1. j = holds[v] \/ <<v, j>> \in live
    BY <1>1, SpawnFacts
  <2>2. holds' = holds /\ step'[v] = "running" /\ step[v] = "spawn"
    BY <1>1, <1>t DEF Spawn, Goto, CampaignTypes, storeVars, sessionVars
  <2> QED BY <1>t, <2>1, <2>2 DEF Watched
<1>2. CASE ~Spawn(v)
  <2>1. <<v, j>> \in live
    <3>1. CASE UNCHANGED processVars
      BY <3>1 DEF processVars
    <3>2. ASSUME NEW w \in Workers, Spawn(w) PROVE <<v, j>> \in live
      BY <1>2, <3>2, SpawnFacts
    <3>3. ASSUME NEW w \in Workers, NEW i \in Jobs, CampaignExits(w, i) PROVE <<v, j>> \in live
      BY <3>3, ExitFacts
    <3> QED BY <3>1, <3>2, <3>3, ProcessMoves
  <2>2. step[v] \in {"running", "await"} /\ holds[v] = j
    BY <1>t, <2>1 DEF Watched
  <2>3. CASE WorkerStep(v)
    <3>1. CalmStep(v)
      BY <2>3, CalmWork
    <3>2. ~Await(v)
      BY <2>1, <2>2 DEF Await
    <3>3. Running(v)
      BY <2>2, <3>1, <3>2, <1>2
      DEF CalmStep, Boot, Reconciled, Load, Settle, Mark, Announce, Starting, AssertSafe,
          Indexing, Final, Closing, CompleteJob, ReconcileRead, PollAndReport
    <3> QED
      BY <1>t, <2>2, <3>3 DEF Running, Goto, CampaignTypes, storeVars, sessionVars
  <2>4. CASE ~WorkerStep(v)
    BY <2>2, <2>4, PlaceKept
  <2> QED BY <2>3, <2>4
<1> QED BY <1>1, <1>2

LEMMA UndisturbedInvariance ==
  CampaignInvariant /\ hazards = {} /\ [Next]_vars => Undisturbed'
BY QuietInvariance, OpenInvariance, AttendedInvariance, UntouchedInvariance, WatchedInvariance
DEF Undisturbed

LEMMA HazardsFixed == CampaignInvariant /\ [Next]_vars => hazards' = hazards
<1> SUFFICES ASSUME CampaignInvariant, [Next]_vars PROVE hazards' = hazards
  OBVIOUS
<1>1. CASE RequestStep
  BY <1>1, RequestFacts DEF RequestEffect, CampaignInvariant, JobInvariant
<1>2. CASE AsideStep
  BY <1>2, AsideFacts DEF AsideEffect, postVars
<1>3. ASSUME NEW w \in Workers, WorkerStep(w) PROVE hazards' = hazards
  BY <1>3, WorkerFacts DEF WorkerEffect, postVars, CampaignInvariant
<1>4. CASE UNCHANGED vars
  BY <1>4 DEF vars, postVars
<1> QED BY <1>1, <1>2, <1>3, <1>4, NextCases

LEMMA CampaignInductive == CampaignInvariant /\ [Next]_vars => CampaignInvariant'
<1> SUFFICES ASSUME CampaignInvariant, [Next]_vars PROVE CampaignInvariant'
  OBVIOUS
<1>1. JobInvariant'
  BY StoreStep, JobInductive DEF CampaignInvariant
<1>2. CampaignTypes'
  BY TypesInvariance DEF CampaignInvariant
<1>3. Disturbed'
  BY DisturbedInvariance
<1>4. hazards' = {} => Undisturbed'
  BY HazardsFixed, UndisturbedInvariance
<1> QED BY <1>1, <1>2, <1>3, <1>4 DEF CampaignInvariant

LEMMA CampaignInitial == Init => CampaignInvariant
<1> SUFFICES ASSUME Init PROVE CampaignInvariant
  OBVIOUS
<1>1. JobInvariant
  BY JobInitial DEF Init
<1>2. CampaignTypes
  BY DEF Init, CampaignTypes, RunStatus, PostStep, Step
<1>3. Disturbed
  BY NullAssumption
  DEF Init, JobsInit, Disturbed, StepFits, Reconciling, Unfinished, Progress, Spawned, Requested,
      OwnerEndsRun, PassedRan, Executing
<1>4. Undisturbed
  BY DEF Init, JobsInit, Undisturbed, Quiet, Open, Attended, Untouched, Watched, Executing
<1> QED BY <1>1, <1>2, <1>3, <1>4 DEF CampaignInvariant

\* The inductive invariant of the campaigns: the two tables, the requests, the
\* workers and the process groups agree through every hazard, and more of it
\* holds in executions that meet none.
THEOREM CampaignSafety == Spec => []CampaignInvariant
BY CampaignInitial, CampaignInductive, PTL DEF Spec

\* No sequence of crashes, expired leases, retries and repeated requests spawns
\* the campaign of a run twice.
THEOREM SpawnedOnceHolds == Spec => []SpawnedOnce
<1>1. CampaignInvariant => SpawnedOnce
  BY DEF CampaignInvariant, Disturbed, Spawned, SpawnedOnce
<1> QED BY <1>1, CampaignSafety, PTL

\* A job its worker completed has a run in a terminal state.
THEOREM OwnerEndsRunHolds == Spec => []OwnerEndsRun
<1>1. CampaignInvariant => OwnerEndsRun
  BY DEF CampaignInvariant, Disturbed
<1> QED BY <1>1, CampaignSafety, PTL

\* A run that says passed has a campaign process that was started and passed.
THEOREM PassedRanHolds == Spec => []PassedRan
<1>1. CampaignInvariant => PassedRan
  BY DEF CampaignInvariant, Disturbed
<1> QED BY <1>1, CampaignSafety, PTL

\* Where nothing goes wrong around the code no two campaigns are alive at once:
\* a live one is watched by the worker that owns the one active job.
THEOREM NoOverlapHolds == Spec => []NoOverlap
<1>1. CampaignInvariant => NoOverlap
  <2> SUFFICES ASSUME CampaignInvariant, hazards = {}, NEW p \in live, NEW q \in live
               PROVE  p = q
    BY DEF NoOverlap
  <2>1. ASSUME NEW r \in live
        PROVE  \E w \in Workers, j \in Jobs : r = <<w, j>> /\ Active(j) /\ stage[w] # "idle" /\ holds[w] = j
    <3>1. PICK w \in Workers, j \in Jobs : r = <<w, j>>
      BY DEF CampaignInvariant, CampaignTypes
    <3>2. step[w] \in {"running", "await"} /\ holds[w] = j
      BY <2>1, <3>1, CalmFacts DEF Undisturbed, Watched
    <3>3. stage[w] = "running"
      BY <3>2, WriterFacts DEF Executing
    <3>4. status[j] = "running"
      BY <3>2, <3>3, CalmFacts
    <3> QED BY <3>1, <3>2, <3>3, <3>4, StatusSets DEF Active
  <2>2. PICK v \in Workers, i \in Jobs : p = <<v, i>> /\ Active(i) /\ stage[v] # "idle" /\ holds[v] = i
    BY <2>1
  <2>3. PICK w \in Workers, j \in Jobs : q = <<w, j>> /\ Active(j) /\ stage[w] # "idle" /\ holds[w] = j
    BY <2>1
  <2>4. i = j
    BY <2>2, <2>3 DEF CampaignInvariant, JobInvariant, OneActiveJob
  <2>5. v = w
    BY <2>2, <2>3, <2>4, CalmFacts
  <2> QED BY <2>2, <2>3, <2>4, <2>5
<1> QED BY <1>1, CampaignSafety, PTL

\* Where nothing goes wrong around the code no step writes a finished run.
THEOREM EndedRunIsFinalHolds == Spec => EndedRunIsFinal
BY EndedStep, CampaignSafety, PTL DEF Spec, EndedRunIsFinal

\* The workers' sessions follow the protocol of the job store, so what is proved
\* of the store holds of the composition.
THEOREM CampaignsImplementJobs == Spec => ImplementsExecutionJobs
<1>1. Init => JobsInit
  BY DEF Init
<1>2. CampaignInvariant /\ [Next]_vars => [JobsNext]_storeVars
  BY StoreStep DEF CampaignInvariant
<1> QED BY <1>1, <1>2, CampaignSafety, PTL DEF Spec, JobsSpec, ImplementsExecutionJobs
=============================================================================
