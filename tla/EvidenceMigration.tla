--------------------------- MODULE EvidenceMigration ---------------------------
(***************************************************************************)
(* migrateEvidence and evidence_migration_step: a bundle is copied from    *)
(* Supabase to Spaces, both copies are verified, the records are switched, *)
(* the copies are verified again and the source is declared preserved; or  *)
(* a committed switch is rolled back.  Operators are processes started by  *)
(* hand, resumed after any failure; each may outlive its lease or lose the *)
(* answer of any call.  One that dies is one whose later calls all fail; a *)
(* resumed process has a new owner id, so it never owns the lease it left. *)
(***************************************************************************)
EXTENDS EvidenceRecords

VARIABLE mpc   \* where each operator is

OperatorStates == {"off", "idle", "plan", "claim", "claimBack", "copy", "put", "markVerified", "switch",
                   "verifyAgain", "preserve", "verifyBack", "rollback", "fail", "release"}

MigrationInit == mpc = [m \in Operators |-> "idle"]

MGo(m, next) == mpc' = [mpc EXCEPT ![m] = next]
Owned(m) == owner = m /\ leased

\* Where the records point, by the ledger.
Expected == IF Switched /\ ledger # "ROLLED_BACK" THEN "spaces" ELSE "supabase"

\* Mutant of Safe: the protections are not asked.
SafeUnprotected == status = "indexed" /\ place = Expected

\* evidence_migration_assert_safe, and the snapshot compared with the ledger's.
Safe == status = "indexed" /\ ~hold /\ ~aged /\ deletion = "none" /\ place = Expected

\* The ledger and the protections are read before anything is written.
Inspect(m, back) ==
  /\ mpc[m] = "idle"
  /\ Safe
  /\ back => Switched
  /\ MGo(m, IF ledger = "none" THEN "plan" ELSE IF back THEN "claimBack" ELSE "claim")
  /\ UNCHANGED recordVars

\* Planning twice is planning once.
PlanMigration(m) ==
  /\ mpc[m] = "plan"
  /\ \/ /\ ledger = "none" /\ Safe
        /\ ledger' = "PLANNED"
        /\ MGo(m, "claim") \/ MGo(m, "idle")
     \/ ledger # "none" /\ MGo(m, "claim") /\ UNCHANGED ledger
     \/ MGo(m, "idle") /\ UNCHANGED ledger
  /\ UNCHANGED <<bundleVars, objectVars, deletionVars, owner, leased, occurrenceVars>>

ClaimMigration(m) ==
  /\ mpc[m] \in {"claim", "claimBack"}
  /\ \/ /\ ~leased
        /\ owner' = m /\ leased' = TRUE
        /\ \/ MGo(m, CASE mpc[m] = "claimBack" -> "verifyBack"
                       [] ledger = "ROLLED_BACK" -> "fail"
                       [] Switched -> "verifyAgain"
                       [] OTHER -> "copy")
           \/ MGo(m, "idle")
     \/ MGo(m, "idle") /\ UNCHANGED <<owner, leased>>
  /\ UNCHANGED <<bundleVars, objectVars, deletionVars, ledger, occurrenceVars>>

\* One step of the ledger, checked by the database; its answer may be lost.
Step(m, from, to, allowed, nextLedger, nextPlace) ==
  /\ mpc[m] = from
  /\ Owned(m) /\ Safe /\ allowed
  /\ ledger' = nextLedger /\ place' = nextPlace
  /\ MGo(m, to) \/ MGo(m, "fail")
  /\ UNCHANGED <<status, hold, aged, objectVars, deletionVars, owner, leased, occurrenceVars>>

BeginCopy(m) == Step(m, "copy", "put", ~Switched, "COPYING", place)
MarkVerified(m) == Step(m, "markVerified", "switch", ~Switched, "DESTINATION_VERIFIED", place)
Switch(m) == Step(m, "switch", "verifyAgain", ledger = "DESTINATION_VERIFIED", "METADATA_SWITCHED", "spaces")
Preserve(m) == Step(m, "preserve", "release", Switched /\ ledger # "ROLLED_BACK", "SOURCE_PRESERVED", place)
Rollback(m) == Step(m, "rollback", "release", Switched, "ROLLED_BACK", "supabase")

\* The switch another operator has made is taken as its own.
AlreadySwitched(m) ==
  /\ mpc[m] = "switch"
  /\ Owned(m) /\ Safe /\ ledger \in {"METADATA_SWITCHED", "SOURCE_PRESERVED"}
  /\ MGo(m, "verifyAgain")
  /\ UNCHANGED recordVars

\* A put follows a heartbeat and times out within the lease that this renewed.
\* It is conditional, and what is there afterwards is read back.
PutObject(m, i) ==
  /\ mpc[m] = "put" /\ Owned(m)
  /\ copy[i] = "absent" /\ source[i] = "intact"
  /\ copy' = [copy EXCEPT ![i] = "intact"]
  /\ UNCHANGED <<mpc, bundleVars, source, deletionVars, ledgerVars, occurrenceVars>>

\* Mutant of VerifyCopies: what was put is taken for granted.
VerifyCopiesBlindly(m) ==
  /\ \/ mpc[m] = "put" /\ MGo(m, "markVerified")
     \/ mpc[m] = "verifyAgain" /\ MGo(m, "preserve")
     \/ mpc[m] = "verifyBack" /\ MGo(m, "rollback")
  /\ Owned(m) /\ Whole("supabase")
  /\ UNCHANGED recordVars

\* Every object is read back at both places; a checkpoint needs the lease.
VerifyCopies(m) ==
  /\ \/ mpc[m] = "put" /\ MGo(m, "markVerified")
     \/ mpc[m] = "verifyAgain" /\ MGo(m, "preserve")
     \/ mpc[m] = "verifyBack" /\ MGo(m, "rollback")
  /\ Owned(m) /\ Whole("supabase") /\ Whole("spaces")
  /\ UNCHANGED recordVars

\* With --copy-only the operator stops at the verified copy.
StopAtCopy(m) ==
  /\ mpc[m] = "switch"
  /\ MGo(m, "release")
  /\ UNCHANGED recordVars

\* A call fails, a check fails, a proof is too old, the time budget is spent.
Falter(m) ==
  /\ mpc[m] \in {"copy", "put", "markVerified", "switch", "verifyAgain", "preserve", "verifyBack", "rollback"}
  /\ MGo(m, "fail")
  /\ UNCHANGED recordVars

\* A committed switch is never undone because something failed after it.
RecordFailure(m) ==
  /\ mpc[m] = "fail"
  /\ MGo(m, "release")
  /\ \/ /\ Owned(m) /\ ledger \notin {"SOURCE_PRESERVED", "ROLLED_BACK"}
        /\ ledger' = IF Switched THEN "ROLLBACK_REQUIRED" ELSE "FAILED"
     \/ UNCHANGED ledger
  /\ UNCHANGED <<bundleVars, objectVars, deletionVars, owner, leased, occurrenceVars>>

Release(m) ==
  /\ mpc[m] = "release"
  /\ MGo(m, "idle")
  /\ \/ Owned(m) /\ owner' = NoOperator /\ leased' = FALSE
     \/ UNCHANGED <<owner, leased>>
  /\ UNCHANGED <<bundleVars, objectVars, deletionVars, ledger, occurrenceVars>>

MigrationLeaseExpires ==
  /\ leased
  /\ leased' = FALSE
  /\ UNCHANGED <<bundleVars, objectVars, deletionVars, ledger, owner, occurrenceVars, mpc>>

MigrationNext ==
  \/ MigrationLeaseExpires
  \/ \E m \in Operators :
       \/ Inspect(m, TRUE) \/ Inspect(m, FALSE) \/ PlanMigration(m) \/ ClaimMigration(m)
       \/ BeginCopy(m) \/ VerifyCopies(m) \/ MarkVerified(m) \/ Switch(m) \/ AlreadySwitched(m)
       \/ StopAtCopy(m) \/ Preserve(m) \/ Rollback(m)
       \/ Falter(m) \/ RecordFailure(m) \/ Release(m)
       \/ \E i \in Items : PutObject(m, i)
=============================================================================
