---------------------------- MODULE EvidenceRecords ----------------------------
(***************************************************************************)
(* The records and the objects of one published evidence bundle, and the   *)
(* database triggers that every writer of them passes.  The retention      *)
(* executor (EvidenceRetention) and the provider migration                 *)
(* (EvidenceMigration) both work on them; Evidence composes the two.       *)
(* A transaction takes advisory lock 9042102 first, so it is one step.     *)
(***************************************************************************)
EXTENDS Integers, FiniteSets

CONSTANTS Items,           \* the items of the bundle, one object each
          LastOccurrence,  \* retention occurrences are 1..LastOccurrence
          Operators, NoOperator  \* migration processes

ASSUME EvidenceAssumption ==
  /\ IsFiniteSet(Items) /\ Items # {}
  /\ LastOccurrence \in Nat
  /\ NoOperator \notin Operators

Occurrences == 1..LastOccurrence
Objects == {"absent", "intact", "foreign"}
Places == {"supabase", "spaces"}
LedgerStates == {"none", "PLANNED", "COPYING", "DESTINATION_VERIFIED", "METADATA_SWITCHED",
                 "SOURCE_PRESERVED", "FAILED", "ROLLBACK_REQUIRED", "ROLLED_BACK"}

VARIABLES
  status,    \* evidence_bundles.status: indexed, expired
  place,     \* storage_backend of the bundle and of its items
  source,    \* the objects in the bucket of Supabase
  copy,      \* the objects in the bucket of Spaces
  hold,      \* an active hold or an open cleanup obligation covers the bundle
  aged,      \* the routine window of the bundle has passed
  deletion,  \* retention_deletions.status; "none" before there is a row
  attempt,   \* its attempt_objects
  holder,    \* its occurrence_id, 0 before there is a row
  ledger,    \* evidence_storage_migrations.state; "none" before it is planned
  owner,     \* its owner
  leased,    \* whether lease_until lies in the future
  occ,       \* retention_occurrences.status of each occurrence
  lease,     \* what is left of its job's lease: fresh (more than 45 s), late,
             \* expired (for at most 60 s), none
  counted    \* objects_deleted of each occurrence

bundleVars == <<status, place, hold, aged>>
objectVars == <<source, copy>>
deletionVars == <<deletion, attempt, holder>>
ledgerVars == <<ledger, owner, leased>>
occurrenceVars == <<occ, lease, counted>>
recordVars == <<bundleVars, objectVars, deletionVars, ledgerVars, occurrenceVars>>

\* No deletion of the bundle is in flight as the safety gate sees it: an intent
\* ends with its settlement, or 60 s after the lease of its owner.
GateOpen ==
  \A o \in Occurrences : deletion = "deleting" /\ holder = o => lease[o] = "none"

\* The migration no longer reserves the bundle against a write of its intent.
MigrationSettled == ledger \in {"none", "SOURCE_PRESERVED", "ROLLED_BACK"}
IntentWritable == ledger = "none" \/ (MigrationSettled /\ ~leased)

\* The switch was committed, and whether the records name the destination now.
Switched == ledger \in {"METADATA_SWITCHED", "SOURCE_PRESERVED", "ROLLBACK_REQUIRED", "ROLLED_BACK"}

Present(p) == {i \in Items : (IF p = "supabase" THEN source ELSE copy)[i] # "absent"}
Whole(p) == \A i \in Items : (IF p = "supabase" THEN source ELSE copy)[i] = "intact"

\* The manifest revision: what a snapshot is compared with when it is used.
Revision == <<status, place, hold, deletion, attempt, holder, ledgerVars, source>>

RecordsInit ==
  /\ status = "indexed" /\ place = "supabase" /\ hold = FALSE /\ aged = FALSE
  /\ source = [i \in Items |-> "intact"]
  /\ copy \in [Items -> {"absent", "foreign"}]
  /\ deletion = "none" /\ attempt = {} /\ holder = 0
  /\ ledger = "none" /\ owner = NoOperator /\ leased = FALSE
  /\ occ = [o \in Occurrences |-> "none"]
  /\ lease = [o \in Occurrences |-> "none"]
  /\ counted = [o \in Occurrences |-> 0]

\* Mutant of ChangeHold: the hold does not wait for a deletion in flight.
ChangeHoldUngated ==
  /\ hold' = ~hold
  /\ UNCHANGED <<status, place, aged, objectVars, deletionVars, ledgerVars, occurrenceVars>>

\* Somebody places or releases a hold, or opens or ends a cleanup obligation.
ChangeHold ==
  /\ GateOpen
  /\ hold' = ~hold
  /\ UNCHANGED <<status, place, aged, objectVars, deletionVars, ledgerVars, occurrenceVars>>

GrowOld ==
  /\ ~aged
  /\ aged' = TRUE
  /\ UNCHANGED <<status, place, hold, objectVars, deletionVars, ledgerVars, occurrenceVars>>

RecordsNext == ChangeHold \/ GrowOld
=============================================================================
