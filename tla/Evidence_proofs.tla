---------------------------- MODULE Evidence_proofs ----------------------------
(***************************************************************************)
(* Theorems about Evidence, for any items, occurrences and operators.      *)
(***************************************************************************)
EXTENDS Evidence, FiniteSetTheorems, TLAPS

USE EvidenceAssumption

\* A fresh bundle satisfies the invariant.
LEMMA InitEstablishes == Init => EvidenceInvariant
<1> SUFFICES ASSUME Init PROVE EvidenceInvariant
  OBVIOUS
<1> USE DEF Init, RecordsInit, RetentionInit, MigrationInit
<1>1. EvidenceTypeOK
  <2>1. mpc \in [Operators -> OperatorStates] /\ pc \in [Occurrences -> ExecutorStates]
    BY DEF ExecutorStates, Ended, OperatorStates
  <2>2. QED
    BY <2>1 DEF EvidenceTypeOK, Objects, Places, LedgerStates, OccurrenceStates
<1>2. Whole("supabase") /\ Readable /\ SourceKept
  BY DEF Readable, SourceKept, Whole
<1>3. OneRuns /\ NobodyHolds /\ FlightOwned
  BY DEF OneRuns, NobodyHolds, FlightOwned, Occurrences
<1>4. LedgerAgrees
  BY DEF LedgerAgrees, Owned, Expected, Switched
<1>5. QED
  BY <1>1, <1>2, <1>3, <1>4 DEF EvidenceInvariant

\* Holds and age change only what a snapshot or an intent in flight does not protect.
LEMMA RecordsPreserve ==
  EvidenceInvariant /\ RecordsNext /\ UNCHANGED <<executorVars, mpc>> /\ Snapshots => EvidenceInvariant'
<1> SUFFICES ASSUME EvidenceInvariant, RecordsNext, UNCHANGED <<executorVars, mpc>>, Snapshots
             PROVE  EvidenceInvariant'
  OBVIOUS
<1> USE DEF EvidenceInvariant, EvidenceTypeOK, Readable, SourceKept, OneRuns, NobodyHolds, FlightOwned,
    LedgerAgrees, Owned, Expected, Switched, MigrationSettled, Whole, Present, executorVars, Snapshots,
    Revision, objectVars, deletionVars, ledgerVars, occurrenceVars
<1>1. CASE ChangeHold
  BY <1>1, SMTT(60) DEF ChangeHold, GateOpen
<1>2. CASE GrowOld
  BY <1>2, SMTT(60) DEF GrowOld
<1>3. QED
  BY <1>1, <1>2 DEF RecordsNext

\* A skipped occurrence changes only what recovery settles for a stale one.
LEMMA SkipPreserves ==
  ASSUME EvidenceInvariant, NEW o \in Occurrences, ClaimOccurrence(o, TRUE), UNCHANGED mpc, Snapshots
  PROVE  EvidenceInvariant'
<1> USE DEF EvidenceInvariant, EvidenceTypeOK
<1>1. /\ lease' \in [Occurrences -> {"none", "fresh", "late", "expired"}]
      /\ occ' \in [Occurrences -> OccurrenceStates]
      /\ \A p \in Occurrences : lease'[p] # "none" => lease'[p] = lease[p] /\ occ'[p] = occ[p]
      /\ \A p \in Occurrences : lease[p] # "none" => lease'[p] = lease[p]
      /\ \A p \in Occurrences : p # o /\ occ[p] = "none" => occ'[p] = "none"
  <2>1. lease' = [p \in Occurrences |-> IF p \in Stale THEN "none" ELSE lease[p]]
    BY Zenon DEF ClaimOccurrence
  <2>2. occ' = [p \in Occurrences |-> IF p \in Stale THEN "FAILED"
                  ELSE IF p = o THEN "SKIPPED_ACTIVE_EXECUTION" ELSE occ[p]]
    BY Zenon DEF ClaimOccurrence
  <2>3. lease[o] = "none"
    BY DEF ClaimOccurrence, OneRuns
  <2>4. QED
    BY <2>1, <2>2, <2>3 DEF Stale, OccurrenceStates
<1>2. /\ pc' \in [Occurrences -> ExecutorStates] /\ pc'[o] = "ended"
      /\ \A p \in Occurrences : pc'[p] = pc[p] \/ (pc[p] = "idle" /\ pc'[p] = "ended")
  <2>1. pc' = [pc EXCEPT ![o] = "ended"] /\ pc[o] = "idle"
    BY Zenon DEF ClaimOccurrence, Go
  <2>2. QED
    BY <2>1 DEF ExecutorStates, Ended
<1>3. \/ UNCHANGED <<deletion, attempt>>
      \/ deletion = "deleting" /\ deletion' = "partial" /\ attempt' = {} /\ lease[holder] = "none"
  BY DEF ClaimOccurrence, RecoverStale, Stale
<1>4. UNCHANGED <<bundleVars, objectVars, holder, ledgerVars, flight, outlived>>
  BY Zenon DEF ClaimOccurrence
<1>5. QED
  BY <1>1, <1>2, <1>3, <1>4, SMTT(30) DEF Readable, SourceKept, OneRuns, NobodyHolds, FlightOwned,
    LedgerAgrees, Owned, Expected, Switched, MigrationSettled, Whole, Present, Snapshots,
    bundleVars, objectVars, ledgerVars

\* When a delete request returns its objects have left the flight, or it has
\* outlived its timeout.
LEMMA ReturnPreserves ==
  ASSUME EvidenceInvariant, NEW o \in Occurrences, DeleteReturns(o), UNCHANGED mpc, Snapshots
  PROVE  EvidenceInvariant'
<1> USE DEF EvidenceInvariant, EvidenceTypeOK
<1>1. /\ pc' \in [Occurrences -> ExecutorStates]
      /\ pc[o] = "removing" /\ pc'[o] \in {"remove", "verify"}
      /\ \A p \in Occurrences : p # o => pc'[p] = pc[p]
  BY DEF DeleteReturns, Go, ExecutorStates, Ended
<1>2. /\ flight' \in [Occurrences -> SUBSET Items]
      /\ \A p \in Occurrences : flight'[p] = flight[p] \/ flight'[p] = {}
      /\ flight'[o] = {} \/ outlived' = TRUE
      /\ outlived' = outlived \/ outlived' = TRUE
  BY DEF DeleteReturns
<1>3. outlived' \in BOOLEAN
  BY <1>2
<1>4. UNCHANGED recordVars
  BY Zenon DEF DeleteReturns
<1>5. QED
  BY <1>1, <1>2, <1>3, <1>4, SMTT(30) DEF Readable, SourceKept, OneRuns, NobodyHolds, FlightOwned,
    LedgerAgrees, Owned, Expected, Switched, MigrationSettled, Whole, Present, Snapshots, recordVars,
    bundleVars, objectVars, ledgerVars, deletionVars, occurrenceVars

\* Every step of an executor, and what time does to its lease.
LEMMA ExecutorPreserves ==
  ASSUME EvidenceInvariant, RetentionNext, UNCHANGED mpc, Snapshots
  PROVE  EvidenceInvariant'
<1> USE DEF EvidenceInvariant, EvidenceTypeOK, Readable, SourceKept, OneRuns, NobodyHolds, FlightOwned,
    LedgerAgrees, Owned, Expected, Switched, MigrationSettled, Whole, Present, executorVars, Snapshots,
    Revision, bundleVars, objectVars, deletionVars, ledgerVars, occurrenceVars, recordVars, Go, Asserted,
    Places, Objects, ExecutorStates, Ended, OccurrenceStates
<1> PICK o \in Occurrences : ExecutorStep(o) \/ Die(o) \/ Age(o) \/ \E i \in Items : RemoveObject(o, i)
  BY DEF RetentionNext
<1>1. CASE ClaimOccurrence(o, TRUE)
  BY <1>1, SkipPreserves
<1>2. CASE ClaimOccurrence(o, FALSE)
  BY <1>2, SMTT(30) DEF ClaimOccurrence, RecoverStale, Stale, IntentWritable, Occurrences
<1>3. CASE PlanDeletion(o)
  BY <1>3, SMTT(30) DEF PlanDeletion, Eligible
<1>4. CASE Reserve(o)
  BY <1>4, SMTT(30) DEF Reserve, Reservable, IntentWritable
<1>5. CASE SendDelete(o)
  BY <1>5, SMTT(30) DEF SendDelete, Left
<1>6. CASE DeleteReturns(o)
  BY <1>6, ReturnPreserves
<1>7. CASE VerifyAbsent(o)
  BY <1>7, SMTT(30) DEF VerifyAbsent
<1>8. CASE SettleSuccess(o)
  BY <1>8, SMTT(30) DEF SettleSuccess, IntentWritable, Count
<1>9. CASE SettleFailure(o)
  BY <1>9, SMTT(30) DEF SettleFailure, IntentWritable, Count
<1>10. CASE FinishOccurrence(o)
  BY <1>10, SMTT(30) DEF FinishOccurrence
<1>11. CASE Die(o)
  BY <1>11, SMTT(30) DEF Die
<1>12. CASE Age(o)
  BY <1>12, SMTT(30) DEF Age
<1>13. ASSUME NEW i \in Items, RemoveObject(o, i)
      PROVE  EvidenceInvariant'
  BY <1>13, SMTT(30) DEF RemoveObject
<1> QED
  BY <1>1, <1>2, <1>3, <1>4, <1>5, <1>6, <1>7, <1>8, <1>9, <1>10, <1>11, <1>12, <1>13 DEF ExecutorStep

\* A step that changes at most the lease of the migration and where an operator
\* is keeps the invariant, unless it lets an owner copy what is switched.
LEMMA LeasePreserves ==
  ASSUME EvidenceInvariant, Snapshots, UNCHANGED executorVars,
         UNCHANGED <<bundleVars, objectVars, deletionVars, ledger, occurrenceVars>>,
         owner' \in Operators \cup {NoOperator}, leased' \in BOOLEAN,
         mpc' \in [Operators -> OperatorStates],
         owner' # NoOperator => ledger # "none",
         \A m \in Operators :
           /\ mpc'[m] = mpc[m] \/ (mpc'[m] # "markVerified" /\ (mpc'[m] \in {"idle", "plan"} \/ ledger # "none"))
           /\ Owned(m)' /\ mpc'[m] \in {"copy", "put", "markVerified"}
                => ~Switched \/ (Owned(m) /\ mpc'[m] = mpc[m])
  PROVE  EvidenceInvariant'
<1>1. /\ EvidenceTypeOK' /\ Readable' /\ SourceKept' /\ OneRuns' /\ FlightOwned'
      /\ (status = "expired" <=> deletion = "deleted")'
      /\ (deletion = "deleted" => Present(place) = {})'
  BY SMTT(30) DEF EvidenceInvariant, EvidenceTypeOK, Readable, SourceKept, OneRuns, FlightOwned, Snapshots,
    Whole, Present, executorVars, bundleVars, objectVars, deletionVars, occurrenceVars
<1>2. NobodyHolds'
  BY SMTT(30) DEF EvidenceInvariant, NobodyHolds, Snapshots, Revision, EvidenceTypeOK, executorVars,
    bundleVars, deletionVars, occurrenceVars
<1>3. (place = Expected)' /\ (deletion # "none" => MigrationSettled)' /\ Switched' = Switched
  BY DEF EvidenceInvariant, LedgerAgrees, Expected, Switched, MigrationSettled, bundleVars, deletionVars
<1>4. \A m \in Operators : mpc'[m] \notin {"idle", "plan", "off"} => ledger' # "none"
  BY DEF EvidenceInvariant, LedgerAgrees
<1>5. \A m \in Operators : Owned(m)' /\ mpc'[m] \in {"copy", "put", "markVerified"} => ~Switched'
  BY <1>3 DEF EvidenceInvariant, LedgerAgrees
<1>6. /\ deletion' = "none" /\ ledger' = "DESTINATION_VERIFIED" => Whole("spaces")'
      /\ \A m \in Operators : deletion' = "none" /\ mpc'[m] = "markVerified" => Whole("spaces")'
  BY DEF EvidenceInvariant, LedgerAgrees, Whole, deletionVars, objectVars
<1>7. QED
  BY <1>1, <1>2, <1>3, <1>4, <1>5, <1>6 DEF EvidenceInvariant, LedgerAgrees

\* A claim is made of a ledger that exists, and copies only what is not switched.
LEMMA ClaimPreserves ==
  ASSUME EvidenceInvariant, NEW m \in Operators, ClaimMigration(m), UNCHANGED executorVars, Snapshots
  PROVE  EvidenceInvariant'
<1> USE DEF EvidenceInvariant, EvidenceTypeOK, LedgerAgrees
<1>1. ledger # "none" /\ mpc[m] \in {"claim", "claimBack"}
  BY DEF ClaimMigration
<1>2. /\ UNCHANGED <<bundleVars, objectVars, deletionVars, ledger, occurrenceVars>>
      /\ \/ owner' = m /\ leased' = TRUE
         \/ UNCHANGED <<owner, leased>> /\ mpc' = [mpc EXCEPT ![m] = "idle"]
      /\ \/ mpc' = [mpc EXCEPT ![m] = "idle"]
         \/ mpc' = [mpc EXCEPT ![m] = "verifyBack"]
         \/ mpc' = [mpc EXCEPT ![m] = "fail"]
         \/ mpc' = [mpc EXCEPT ![m] = "verifyAgain"]
         \/ mpc' = [mpc EXCEPT ![m] = "copy"] /\ ~Switched
  BY DEF ClaimMigration, MGo
<1>3. \A n \in Operators : n # m => mpc'[n] = mpc[n] /\ (Owned(n)' => Owned(n))
  BY <1>2 DEF Owned
<1>4. mpc' \in [Operators -> OperatorStates] /\ mpc'[m] \in {"idle", "verifyBack", "fail", "verifyAgain", "copy"}
  BY <1>2 DEF OperatorStates
<1>5. mpc'[m] = "copy" => ~Switched
  BY <1>2
<1>6. owner' \in Operators \cup {NoOperator} /\ leased' \in BOOLEAN
  BY <1>2
<1>7. QED
  BY <1>1, <1>2, <1>3, <1>4, <1>5, <1>6, LeasePreserves

\* An operator that ends its process lets its lease go.
LEMMA ReleasePreserves ==
  ASSUME EvidenceInvariant, NEW m \in Operators, Release(m), UNCHANGED executorVars, Snapshots
  PROVE  EvidenceInvariant'
<1> USE DEF EvidenceInvariant, EvidenceTypeOK, LedgerAgrees
<1>1. /\ UNCHANGED <<bundleVars, objectVars, deletionVars, ledger, occurrenceVars>>
      /\ \/ owner' = NoOperator /\ leased' = FALSE
         \/ UNCHANGED <<owner, leased>>
      /\ mpc' = [mpc EXCEPT ![m] = "idle"]
  BY DEF Release, MGo
<1>2. \A n \in Operators : n # m => mpc'[n] = mpc[n] /\ (Owned(n)' => Owned(n))
  BY <1>1 DEF Owned
<1>3. mpc' \in [Operators -> OperatorStates] /\ mpc'[m] = "idle"
  BY <1>1 DEF OperatorStates
<1>4. owner' \in Operators \cup {NoOperator} /\ leased' \in BOOLEAN
  BY <1>1
<1>5. QED
  BY <1>1, <1>2, <1>3, <1>4, LeasePreserves

\* Every step of an operator of the migration, and of its lease.
LEMMA OperatorPreserves ==
  ASSUME EvidenceInvariant, MigrationNext, UNCHANGED executorVars, Snapshots
  PROVE  EvidenceInvariant'
<1> USE DEF EvidenceInvariant, EvidenceTypeOK, Readable, SourceKept, OneRuns, NobodyHolds, FlightOwned,
    LedgerAgrees, Owned, Expected, Switched, MigrationSettled, Whole, Present, executorVars, Snapshots,
    Revision, bundleVars, objectVars, deletionVars, ledgerVars, occurrenceVars, recordVars, MGo,
    Places, Objects, LedgerStates, OperatorStates
<1>1. CASE MigrationLeaseExpires
  <2>1. \A m \in Operators : ~Owned(m)'
    BY <1>1, Zenon DEF MigrationLeaseExpires, Owned
  <2>2. QED
    BY <1>1, <2>1, LeasePreserves DEF MigrationLeaseExpires, EvidenceInvariant, EvidenceTypeOK, LedgerAgrees
<1>2. ASSUME NEW m \in Operators, ~MigrationLeaseExpires,
             \/ Inspect(m, TRUE) \/ Inspect(m, FALSE) \/ PlanMigration(m) \/ ClaimMigration(m)
             \/ BeginCopy(m) \/ VerifyCopies(m) \/ MarkVerified(m) \/ Switch(m) \/ AlreadySwitched(m)
             \/ StopAtCopy(m) \/ Preserve(m) \/ Rollback(m)
             \/ Falter(m) \/ RecordFailure(m) \/ Release(m)
             \/ \E i \in Items : PutObject(m, i)
      PROVE  EvidenceInvariant'
  <2>1. CASE Inspect(m, TRUE)
    BY <2>1, SMTT(30) DEF Inspect, Safe
  <2>2. CASE Inspect(m, FALSE)
    BY <2>2, SMTT(30) DEF Inspect, Safe
  <2>3. CASE PlanMigration(m)
    BY <2>3, SMTT(30) DEF PlanMigration, Safe
  <2>4. CASE ClaimMigration(m)
    BY <2>4, ClaimPreserves
  <2>5. CASE BeginCopy(m)
    BY <2>5, SMTT(30) DEF BeginCopy, Step, Safe
  <2>6. CASE VerifyCopies(m)
    BY <2>6, SMTT(30) DEF VerifyCopies
  <2>7. CASE MarkVerified(m)
    BY <2>7, SMTT(30) DEF MarkVerified, Step, Safe
  <2>8. CASE Switch(m)
    BY <2>8, SMTT(30) DEF Switch, Step, Safe
  <2>9. CASE AlreadySwitched(m)
    BY <2>9, SMTT(30) DEF AlreadySwitched, Safe
  <2>10. CASE StopAtCopy(m)
    BY <2>10, SMTT(30) DEF StopAtCopy
  <2>11. CASE Preserve(m)
    BY <2>11, SMTT(30) DEF Preserve, Step, Safe
  <2>12. CASE Rollback(m)
    BY <2>12, SMTT(30) DEF Rollback, Step, Safe
  <2>13. CASE Falter(m)
    BY <2>13, SMTT(30) DEF Falter
  <2>14. CASE RecordFailure(m)
    BY <2>14, SMTT(30) DEF RecordFailure
  <2>15. CASE Release(m)
    BY <2>15, ReleasePreserves
  <2>16. ASSUME NEW i \in Items, PutObject(m, i)
        PROVE  EvidenceInvariant'
    BY <2>16, SMTT(30) DEF PutObject
  <2> QED
    BY <1>2, <2>1, <2>2, <2>3, <2>4, <2>5, <2>6, <2>7, <2>8, <2>9, <2>10, <2>11, <2>12, <2>13, <2>14, <2>15, <2>16
<1> QED
  BY <1>1, <1>2 DEF MigrationNext

\* The inductive invariant of the evidence records, objects and processes.
THEOREM EvidenceSafety == Spec => []EvidenceInvariant
<1>1. EvidenceInvariant /\ [Next]_vars => EvidenceInvariant'
  <2> SUFFICES ASSUME EvidenceInvariant, [Next]_vars PROVE EvidenceInvariant'
    OBVIOUS
  <2>1. CASE UNCHANGED vars
    BY <2>1 DEF vars, recordVars, executorVars, EvidenceInvariant, EvidenceTypeOK, Readable, SourceKept,
      OneRuns, NobodyHolds, FlightOwned, LedgerAgrees, Owned, Expected, Switched, MigrationSettled, Whole,
      Present, bundleVars, objectVars, deletionVars, ledgerVars, occurrenceVars
  <2>2. CASE Next
    BY <2>2, RecordsPreserve, ExecutorPreserves, OperatorPreserves DEF Next
  <2>3. QED
    BY <2>1, <2>2
<1>2. QED
  BY <1>1, InitEstablishes, PTL DEF Spec

\* An indexed bundle is whole at the place its records name until its deletion begins.
THEOREM ReadableHolds == Spec => []Readable
<1>1. EvidenceInvariant => Readable
  BY DEF EvidenceInvariant
<1>2. QED
  BY <1>1, EvidenceSafety, PTL

\* The source of a migration is never lost.
THEOREM SourceKeptHolds == Spec => []SourceKept
<1>1. EvidenceInvariant => SourceKept
  BY DEF EvidenceInvariant
<1>2. QED
  BY <1>1, EvidenceSafety, PTL

\* What changes an object: only a removal takes one away.
LEMMA RemovalIsCovered == EvidenceInvariant /\ [Next]_vars =>
  [(source' # source \/ (\E i \in Items : copy[i] = "intact" /\ copy'[i] # "intact")) /\ ~outlived =>
       /\ deletion = "deleting" /\ lease[holder] \in {"fresh", "late"}
       /\ aged /\ ~hold /\ MigrationSettled]_vars
<1> SUFFICES ASSUME EvidenceInvariant, Next, ~outlived,
                    source' # source \/ (\E i \in Items : copy[i] = "intact" /\ copy'[i] # "intact")
             PROVE  /\ deletion = "deleting" /\ lease[holder] \in {"fresh", "late"}
                    /\ aged /\ ~hold /\ MigrationSettled
  BY DEF vars
<1>1. PICK o \in Occurrences : \E i \in Items : RemoveObject(o, i)
  <2>1. ~(UNCHANGED objectVars)
    BY DEF objectVars
  <2>2. \A m \in Operators, i \in Items : ~PutObject(m, i)
    BY SMTT(30) DEF EvidenceInvariant, EvidenceTypeOK, PutObject
  <2>3. ~RecordsNext /\ ~MigrationNext
    BY <2>1, <2>2, SMTT(30) DEF RecordsNext, ChangeHold, GrowOld, MigrationNext, MigrationLeaseExpires, Inspect,
      PlanMigration, ClaimMigration, BeginCopy, MarkVerified, Switch, Preserve, Rollback, Step, VerifyCopies,
      AlreadySwitched, StopAtCopy, Falter, RecordFailure, Release, recordVars
  <2>4. PICK o \in Occurrences : ExecutorStep(o) \/ Die(o) \/ Age(o) \/ \E i \in Items : RemoveObject(o, i)
    BY <2>3 DEF Next, RetentionNext
  <2>5. ~ExecutorStep(o) /\ ~Die(o) /\ ~Age(o)
    BY <2>1, SMTT(30) DEF ExecutorStep, ClaimOccurrence, PlanDeletion, Reserve, SendDelete, DeleteReturns,
      VerifyAbsent, SettleSuccess, SettleFailure, FinishOccurrence, Die, Age, recordVars
  <2>6. QED
    BY <2>4, <2>5
<1>2. flight[o] # {}
  BY <1>1 DEF RemoveObject
<1>3. QED
  BY <1>2 DEF EvidenceInvariant, FlightOwned, NobodyHolds, LedgerAgrees

\* An object goes only under the intent of a live lease, aged, without a hold and
\* with no migration open, unless a request outlived its timeout.
THEOREM RemovalCoveredHolds == Spec => RemovalCovered
  BY EvidenceSafety, RemovalIsCovered, PTL DEF Spec, RemovalCovered

\* What a step does to the bundle: nothing, it begins or leaves a deletion, moves
\* the records, settles, changes the other place, or removes an object.
LEMMA StepOnBundle ==
  ASSUME EvidenceInvariant, Next
  PROVE  \/ /\ UNCHANGED <<status, place, source, copy>>
            /\ \/ UNCHANGED deletion
               \/ status = "indexed" /\ deletion' = "deleting"
               \/ deletion = "deleting" /\ deletion' = "partial"
         \/ UNCHANGED <<status, deletion, source, copy>> /\ deletion = "none"
         \/ /\ status' = "expired" /\ deletion = "deleting" /\ deletion' = "deleted"
            /\ UNCHANGED <<place, source, copy>>
         \/ UNCHANGED <<status, place, source, deletion>> /\ place = "supabase"
         \/ UNCHANGED <<status, place, deletion>> /\ deletion # "none" /\ (Whole(place)' => Whole(place))
<1> USE DEF EvidenceInvariant, EvidenceTypeOK
<1>1. CASE RecordsNext
  BY <1>1, SMTT(30) DEF RecordsNext, ChangeHold, GrowOld, objectVars, deletionVars
<1>2. CASE RetentionNext
  BY <1>2, SMTT(30) DEF RetentionNext, ExecutorStep, ClaimOccurrence, RecoverStale, PlanDeletion, Reserve, Reservable,
    SendDelete, DeleteReturns, VerifyAbsent, SettleSuccess, SettleFailure, FinishOccurrence, Die, Age,
    RemoveObject, FlightOwned, Whole, recordVars, bundleVars, objectVars, deletionVars
<1>3. CASE MigrationNext
  <2>1. CASE \E m \in Operators, i \in Items : PutObject(m, i)
    BY <2>1 DEF PutObject, LedgerAgrees, Expected, bundleVars, deletionVars
  <2>2. CASE ~\E m \in Operators, i \in Items : PutObject(m, i)
    BY <1>3, <2>2, SMTT(30) DEF MigrationNext, MigrationLeaseExpires, Inspect,
      PlanMigration, ClaimMigration, BeginCopy, MarkVerified, Switch, Preserve, Rollback, Step, Safe, VerifyCopies,
      AlreadySwitched, StopAtCopy, Falter, RecordFailure, Release, recordVars, bundleVars, objectVars, deletionVars
  <2>3. QED
    BY <2>1, <2>2
<1>4. QED
  BY <1>1, <1>2, <1>3 DEF Next

BundleState == CASE status = "expired" -> "expired" [] deletion = "none" -> "kept" [] OTHER -> "going"

\* The records of a bundle and its objects implement EvidenceBundle.
THEOREM EvidenceImplementsBundle == Spec => ImplementsEvidenceBundle
<1>1. Init => Bundle!Init
  <2> SUFFICES ASSUME Init PROVE Bundle!Init
    OBVIOUS
  <2>1. status = "indexed" /\ deletion = "none" /\ place = "supabase" /\ Whole(place)
    BY DEF Init, RecordsInit, Whole
  <2>2. QED
    BY <2>1 DEF Bundle!Init, Places
<1>2. EvidenceInvariant /\ EvidenceInvariant' /\ [Next]_vars => [Bundle!Next]_Bundle!vars
  <2> SUFFICES ASSUME EvidenceInvariant, EvidenceInvariant', Next
               PROVE  Bundle!Next \/ UNCHANGED <<BundleState, place, Whole(place)>>
    BY DEF vars, recordVars, bundleVars, objectVars, deletionVars, Bundle!vars, BundleState, Whole
  <2> USE DEF BundleState
  <2>a. /\ status \in {"indexed", "expired"} /\ place \in Places /\ place' \in Places
        /\ deletion = "none" => status = "indexed" /\ Whole(place)
        /\ deletion' = "none" => Whole(place)'
        /\ Whole(place) \in BOOLEAN /\ Whole(place)' \in BOOLEAN
        /\ status = "expired" <=> deletion = "deleted"
        /\ deletion = "deleted" => ~Whole(place)
        /\ deletion' = "deleted" => ~Whole(place)'
    BY DEF EvidenceInvariant, EvidenceTypeOK, Readable, Present, Whole
  <2>1. CASE /\ UNCHANGED <<status, place, source, copy>>
             /\ \/ UNCHANGED deletion
                \/ status = "indexed" /\ deletion' = "deleting"
                \/ deletion = "deleting" /\ deletion' = "partial"
    <3>1. UNCHANGED <<place, Whole(place)>>
      BY <2>1 DEF Whole
    <3>2. BundleState' = BundleState \/ (BundleState = "kept" /\ BundleState' = "going")
      BY <2>1, <2>a
    <3>3. QED
      BY <3>1, <3>2 DEF Bundle!Next, Bundle!Begin
  <2>2. CASE UNCHANGED <<status, deletion, source, copy>> /\ deletion = "none"
    <3>1. BundleState = "kept" /\ BundleState' = "kept"
      BY <2>2, <2>a
    <3>2. Whole(place) = TRUE /\ Whole(place)' = TRUE
      BY <2>2, <2>a
    <3>3. QED
      BY <2>a, <3>1, <3>2 DEF Bundle!Next, Bundle!Move
  <2>3. CASE /\ status' = "expired" /\ deletion = "deleting" /\ deletion' = "deleted"
             /\ UNCHANGED <<place, source, copy>>
    <3>1. UNCHANGED <<place, Whole(place)>> /\ ~Whole(place)
      BY <2>3, <2>a DEF Whole
    <3>2. BundleState = "going" /\ BundleState' = "expired"
      BY <2>3, <2>a
    <3>3. QED
      BY <3>1, <3>2 DEF Bundle!Next, Bundle!Expire
  <2>4. CASE UNCHANGED <<status, place, source, deletion>> /\ place = "supabase"
    BY <2>4 DEF Whole
  <2>5. CASE UNCHANGED <<status, place, deletion>> /\ deletion # "none" /\ (Whole(place)' => Whole(place))
    BY <2>5, <2>a DEF Bundle!Next, Bundle!Remove
  <2>6. QED
    BY <2>1, <2>2, <2>3, <2>4, <2>5, StepOnBundle
<1>3. QED
  BY <1>1, <1>2, EvidenceSafety, PTL DEF Spec, ImplementsEvidenceBundle, Bundle!Spec

-----------------------------------------------------------------------------
(* What the occurrences count.                                             *)

\* Nothing is counted before a deletion has begun, and what an attempt is
\* charged with nobody has counted yet.
ReclaimInvariant ==
  /\ counted \in [Occurrences -> Nat]
  /\ deletion = "none" => \A o \in Occurrences : counted[o] = 0
  /\ \E share \in [Occurrences -> SUBSET Items] :
       Shares(share) /\ \A o \in Occurrences : share[o] \cap attempt = {}

\* Occurrence h counts the objects gone, which leave the attempt.
Charge(h, gone) ==
  /\ deletion' # "none" /\ attempt' = {} /\ UNCHANGED <<place, source, copy>>
  /\ counted' = [counted EXCEPT ![h] = @ + Cardinality(gone)]

LEMMA FiniteItems ==
  ASSUME NEW S \in SUBSET Items
  PROVE  IsFiniteSet(S) /\ Cardinality(S) \in Nat
BY FS_Subset, FS_CardinalityType

\* While nothing has been counted every share is empty.
LEMMA NothingShared ==
  ASSUME \A o \in Occurrences : counted[o] = 0, counted \in [Occurrences -> Nat]
  PROVE  \E share \in [Occurrences -> SUBSET Items] :
           Shares(share) /\ \A o \in Occurrences : share[o] \cap attempt = {}
<1> DEFINE none == [o \in Occurrences |-> {}]
<1>1. none \in [Occurrences -> SUBSET Items] OBVIOUS
<1>2. Cardinality({}) = 0 BY FS_EmptySet
<1>3. Shares(none) /\ \A o \in Occurrences : none[o] \cap attempt = {}
  BY <1>2 DEF Shares
<1> QED BY <1>1, <1>3

\* The share of an occurrence grows by what it counts.
LEMMA ShareGrows ==
  ASSUME EvidenceInvariant, ReclaimInvariant, NEW h \in Occurrences,
         NEW gone \in SUBSET (attempt \ Present(place)), Charge(h, gone)
  PROVE  ReclaimInvariant'
<1>1. PICK share \in [Occurrences -> SUBSET Items] :
        Shares(share) /\ \A o \in Occurrences : share[o] \cap attempt = {}
  BY DEF ReclaimInvariant
<1> DEFINE more == [share EXCEPT ![h] = @ \cup gone]
<1>2. gone \subseteq Items /\ Present(place)' = Present(place)
  BY DEF EvidenceInvariant, EvidenceTypeOK, Charge, Present
<1>3. more \in [Occurrences -> SUBSET Items] BY <1>2
<1>4. Cardinality(gone) \in Nat BY <1>2, FiniteItems
<1>5. counted' \in [Occurrences -> Nat] BY <1>4 DEF ReclaimInvariant, Charge
<1>6. Cardinality(share[h] \cup gone) = Cardinality(share[h]) + Cardinality(gone)
  <2>1. share[h] \cap gone = {} BY <1>1
  <2>2. Cardinality(share[h] \cap gone) = 0 BY <2>1, FS_EmptySet
  <2>3. IsFiniteSet(share[h]) /\ IsFiniteSet(gone) /\ Cardinality(share[h]) \in Nat
    BY <1>2, FiniteItems
  <2>4. Cardinality(share[h] \cup gone)
          = Cardinality(share[h]) + Cardinality(gone) - Cardinality(share[h] \cap gone)
    BY <2>3, FS_Union
  <2> QED BY <1>4, <2>2, <2>3, <2>4
<1>7. \A o \in Occurrences : Cardinality(more[o]) = counted'[o]
  BY <1>1, <1>6 DEF Shares, ReclaimInvariant, Charge
<1>8. \A o \in Occurrences : more[o] \subseteq Items \ Present(place)'
  BY <1>1, <1>2 DEF Shares
<1>9. \A o, p \in Occurrences : o # p => more[o] \cap more[p] = {}
  BY <1>1 DEF Shares
<1>10. Shares(more)' BY <1>7, <1>8, <1>9 DEF Shares
<1>11. \A o \in Occurrences : more[o] \cap attempt' = {} BY DEF Charge
<1> QED BY <1>3, <1>5, <1>10, <1>11 DEF ReclaimInvariant, Charge

\* Shares stay when nothing is counted, and the objects gone stay gone.
LEMMA SharesStay ==
  ASSUME ReclaimInvariant, UNCHANGED counted, deletion' # "none", Present(place)' \subseteq Present(place),
         attempt' \subseteq attempt \cup Present(place)
  PROVE  ReclaimInvariant'
<1>1. PICK share \in [Occurrences -> SUBSET Items] :
        Shares(share) /\ \A o \in Occurrences : share[o] \cap attempt = {}
  BY DEF ReclaimInvariant
<1>2. Shares(share)' BY <1>1 DEF Shares
<1>3. \A o \in Occurrences : share[o] \cap attempt' = {} BY <1>1 DEF Shares
<1> QED BY <1>1, <1>2, <1>3 DEF ReclaimInvariant

\* What a step does to the books.
LEMMA StepOnBooks ==
  ASSUME EvidenceInvariant, [Next]_vars
  PROVE  \/ \E h \in Occurrences : \E gone \in SUBSET (attempt \ Present(place)) : Charge(h, gone)
         \/ UNCHANGED counted /\ deletion = "none"
         \/ /\ UNCHANGED counted /\ deletion' # "none" /\ Present(place)' \subseteq Present(place)
            /\ attempt' \subseteq attempt \cup Present(place)
<1> USE DEF EvidenceInvariant, EvidenceTypeOK
<1>1. CASE UNCHANGED vars
  BY <1>1 DEF vars, recordVars, bundleVars, objectVars, deletionVars, occurrenceVars, Present
<1>2. CASE RecordsNext
  BY <1>2 DEF RecordsNext, ChangeHold, GrowOld, objectVars, deletionVars, occurrenceVars, Present
<1>3. ASSUME NEW o \in Occurrences, ClaimOccurrence(o, TRUE) \/ ClaimOccurrence(o, FALSE)
      PROVE  \/ \E h \in Occurrences : \E gone \in SUBSET (attempt \ Present(place)) : Charge(h, gone)
             \/ UNCHANGED <<deletion, attempt, counted, place, source, copy>>
  <2>1. RecoverStale /\ UNCHANGED <<bundleVars, objectVars>> BY <1>3 DEF ClaimOccurrence
  <2>2. CASE deletion = "deleting" /\ holder \in Stale
    <3>1. /\ deletion' = "partial" /\ attempt' = {} /\ holder \in Occurrences
          /\ counted' = [counted EXCEPT ![holder] = @ + RecoveredCount]
      BY <2>1, <2>2 DEF RecoverStale, Count, Stale
    <3>2. CASE place = "supabase"
      BY <2>1, <3>1, <3>2 DEF Charge, RecoveredCount, bundleVars, objectVars
    <3>3. CASE place # "supabase"
      <4>1. Cardinality({}) = 0 BY FS_EmptySet
      <4>2. Charge(holder, {}) BY <2>1, <3>1, <3>3, <4>1 DEF Charge, RecoveredCount, bundleVars, objectVars
      <4>3. {} \in SUBSET (attempt \ Present(place)) OBVIOUS
      <4> QED BY <3>1, <4>2, <4>3
    <3> QED BY <3>2, <3>3
  <2>3. CASE ~(deletion = "deleting" /\ holder \in Stale)
    BY <2>1, <2>3 DEF RecoverStale, bundleVars, objectVars
  <2> QED BY <2>2, <2>3
<1>4. ASSUME NEW o \in Occurrences, Reserve(o)
      PROVE  /\ UNCHANGED <<counted, place, source, copy>>
             /\ deletion' # "none" \/ deletion = "none"
             /\ attempt' \in {attempt, Present(place)}
  BY <1>4 DEF Reserve, deletionVars, bundleVars, objectVars, occurrenceVars
<1>5. ASSUME NEW o \in Occurrences, SettleSuccess(o)
      PROVE  \/ \E h \in Occurrences : \E gone \in SUBSET (attempt \ Present(place)) : Charge(h, gone)
             \/ UNCHANGED <<deletion, attempt, counted, place, source, copy>>
  <2>1. UNCHANGED <<place, source, copy>> BY <1>5 DEF SettleSuccess, objectVars
  <2>2. CASE deletion' = "deleted" /\ attempt' = {} /\ Present(place) = {} /\ Count(o, Cardinality(attempt))
    <3>1. attempt \in SUBSET (attempt \ Present(place)) BY <2>2
    <3>2. Charge(o, attempt) BY <2>1, <2>2 DEF Charge, Count
    <3> QED BY <3>1, <3>2
  <2>3. CASE UNCHANGED <<deletion, attempt, counted>> BY <2>1, <2>3
  <2> QED BY <1>5, <2>2, <2>3 DEF SettleSuccess
<1>6. ASSUME NEW o \in Occurrences, SettleFailure(o)
      PROVE  \/ \E h \in Occurrences : \E gone \in SUBSET (attempt \ Present(place)) : Charge(h, gone)
             \/ UNCHANGED <<deletion, attempt, counted, place, source, copy>>
  <2>1. UNCHANGED <<place, source, copy>> BY <1>6 DEF SettleFailure, bundleVars, objectVars
  <2>2. CASE UNCHANGED <<deletion, attempt, counted>> BY <2>1, <2>2
  <2>3. CASE /\ deletion' = "partial" /\ attempt' = {}
             /\ \E gone \in IF place = "supabase" THEN {attempt \ Present(place)}
                            ELSE SUBSET (attempt \ Present(place)) : Count(o, Cardinality(gone))
    BY <2>1, <2>3 DEF Charge, Count
  <2> QED BY <1>6, <2>2, <2>3 DEF SettleFailure
<1>7. ASSUME NEW o \in Occurrences,
             \/ PlanDeletion(o) \/ SendDelete(o) \/ DeleteReturns(o) \/ VerifyAbsent(o)
             \/ FinishOccurrence(o) \/ Die(o) \/ Age(o)
      PROVE  UNCHANGED <<deletion, attempt, counted, place, source, copy>>
  BY <1>7, SMTT(30) DEF PlanDeletion, SendDelete, DeleteReturns, VerifyAbsent, FinishOccurrence, Die, Age,
    recordVars, bundleVars, objectVars, deletionVars, occurrenceVars
<1>8. ASSUME NEW o \in Occurrences, NEW i \in Items, RemoveObject(o, i)
      PROVE  UNCHANGED <<deletion, attempt, counted>> /\ Present(place)' \subseteq Present(place)
  BY <1>8 DEF RemoveObject, deletionVars, bundleVars, occurrenceVars, Present
<1>9. ASSUME NEW m \in Operators, NEW i \in Items, PutObject(m, i)
      PROVE  UNCHANGED <<deletion, attempt, counted>> /\ Present(place)' = Present(place)
  BY <1>9 DEF PutObject, LedgerAgrees, Expected, deletionVars, bundleVars, occurrenceVars, Present
<1>10. CASE MigrationNext /\ ~\E m \in Operators, i \in Items : PutObject(m, i)
  <2>1. UNCHANGED <<deletion, attempt, counted, source, copy>> /\ (deletion = "none" \/ place' = place)
    BY <1>10, SMTT(30) DEF MigrationNext, MigrationLeaseExpires, Inspect, PlanMigration, ClaimMigration,
      BeginCopy, MarkVerified, Switch, Preserve, Rollback, Step, Safe, VerifyCopies, AlreadySwitched,
      StopAtCopy, Falter, RecordFailure, Release, recordVars, bundleVars, objectVars, deletionVars, occurrenceVars
  <2> QED BY <2>1 DEF Present
<1>11. CASE RetentionNext
  <2> PICK o \in Occurrences : ExecutorStep(o) \/ Die(o) \/ Age(o) \/ \E i \in Items : RemoveObject(o, i)
    BY <1>11 DEF RetentionNext
  <2>1. CASE UNCHANGED <<deletion, attempt, counted, place, source, copy>> BY <2>1 DEF Present
  <2>2. CASE Reserve(o) BY <2>2, <1>4 DEF Present
  <2>3. CASE \E i \in Items : RemoveObject(o, i) BY <2>3, <1>8
  <2> QED BY <2>1, <2>2, <2>3, <1>3, <1>5, <1>6, <1>7 DEF ExecutorStep
<1> QED BY <1>1, <1>2, <1>9, <1>10, <1>11 DEF Next

\* Every object is reclaimed on the books at most once, over all occurrences, and
\* only when it is gone, whoever recovers whose attempt (retention_settle_bundle,
\* retention_recover_stale).
THEOREM ReclaimedOnceHolds == Spec => []ReclaimedOnce
<1>1. Init => ReclaimInvariant
  <2> SUFFICES ASSUME Init PROVE ReclaimInvariant OBVIOUS
  <2>1. counted \in [Occurrences -> Nat] /\ \A o \in Occurrences : counted[o] = 0
    BY DEF Init, RecordsInit
  <2> QED BY <2>1, NothingShared DEF ReclaimInvariant
<1>2. EvidenceInvariant /\ ReclaimInvariant /\ [Next]_vars => ReclaimInvariant'
  <2> SUFFICES ASSUME EvidenceInvariant, ReclaimInvariant, [Next]_vars PROVE ReclaimInvariant' OBVIOUS
  <2>1. CASE \E h \in Occurrences : \E gone \in SUBSET (attempt \ Present(place)) : Charge(h, gone)
    BY <2>1, ShareGrows
  <2>2. CASE UNCHANGED counted /\ deletion = "none"
    <3>1. \A o \in Occurrences : counted'[o] = 0 BY <2>2 DEF ReclaimInvariant
    <3>2. counted' \in [Occurrences -> Nat] BY <2>2 DEF ReclaimInvariant
    <3> DEFINE none == [o \in Occurrences |-> {}]
    <3>3. none \in [Occurrences -> SUBSET Items] OBVIOUS
    <3>4. Shares(none)' BY <3>1, FS_EmptySet DEF Shares
    <3>5. \A o \in Occurrences : none[o] \cap attempt' = {} OBVIOUS
    <3> QED BY <3>1, <3>2, <3>3, <3>4, <3>5 DEF ReclaimInvariant
  <2>3. CASE /\ UNCHANGED counted /\ deletion' # "none" /\ Present(place)' \subseteq Present(place)
             /\ attempt' \subseteq attempt \cup Present(place)
    BY <2>3, SharesStay
  <2> QED BY <2>1, <2>2, <2>3, StepOnBooks
<1>3. ReclaimInvariant => ReclaimedOnce
  BY DEF ReclaimInvariant, ReclaimedOnce
<1> QED BY <1>1, <1>2, <1>3, EvidenceSafety, PTL DEF Spec

=============================================================================
