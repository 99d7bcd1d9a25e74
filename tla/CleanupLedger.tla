--------------------------- MODULE CleanupLedger ---------------------------
(***************************************************************************)
(* What a campaign leaves on the staging system and who has to remove it.  *)
(* A governed request passes the cleanup gate before its run is queued;    *)
(* the worker publishes what the campaign created, first in the run, then  *)
(* in the cleanup ledger; an administrator confirms deletions.  The gate   *)
(* of the next request reads runs and ledger.                              *)
(*                                                                         *)
(* Every request has one run, named like it.  Store calls are atomic, but  *)
(* updateRun reads the row of a run and writes all of it back.             *)
(***************************************************************************)
EXTENDS Naturals, FiniteSets

CONSTANTS Run,        \* runs; also the POST requests that would create them
          Seed,       \* the objects <<run, thing>> of the configured ledger records,
                      \* whose runs are not in the run store
          Operator,   \* administrators' confirmation requests
          Capsule, Media,  \* names of the objects a campaign can create
          Pictured,   \* the runs of a media or video campaign
          Outcome,    \* [staged, captured, marks]: what a campaign can leave behind
          Limit       \* maxUnresolvedObjects

ASSUME CleanupAssumption ==
  /\ Limit \in Nat
  /\ IsFiniteSet(Run) /\ IsFiniteSet(Seed) /\ IsFiniteSet(Capsule \cup Media)
  /\ \A o \in Seed : o = <<o[1], o[2]>> /\ o[1] \notin Run /\ o[2] \in Capsule \cup Media
  /\ "no run" \notin Run /\ "nothing" \notin Capsule \cup Media
  /\ \A w \in Outcome : w.captured \subseteq w.staged /\ w.staged \subseteq Capsule \cup Media

Thing == Capsule \cup Media
Object == (Run \X Thing) \cup Seed
NoRun == "no run"
NoThing == "nothing"
Unresolved == {"pending", "cleanup_unavailable"}
\* A run record, as far as cleanup is concerned: status, the manifest's status
\* and its createdCapsuleIds and createdMediaIds.
NoRow == [status |-> "none", owed |-> "none", ids |-> {}]

VARIABLES
  policy,    \* of the server: subset of {"manual", "deferred"}
  hazards,   \* what may go wrong in this behaviour
  slot,      \* the run of the active execution job
  row,       \* campaign_runs
  ledger,    \* status of each cleanup_ledger record
  audited,   \* the objects with a cleanup_verified audit event
  left,      \* the outcome of each run's campaign
  granted,   \* executionContext.cleanupPolicy of each run
  wpc, wrow, \* the worker of each run, and the row its updateRun has read
  rpc, rrow, \* the recovery of each run
  qpc, seenLedger, seenRows,        \* the requests and what their gate has read
  overtaken,                        \* history: those with a campaign during them
  opc, orun, oids, todo, item, orow \* the confirmations

policyVars == <<policy, hazards>>
storeVars == <<slot, row, ledger, audited>>
workerVars == <<left, wpc, wrow, rpc, rrow>>
requestVars == <<granted, qpc, seenLedger, seenRows, overtaken>>
operatorVars == <<opc, orun, oids, todo, item, orow>>
vars == <<policyVars, storeVars, workerVars, requestVars, operatorVars>>

Nothing == [staged |-> {}, captured |-> {}, marks |-> {}]
NoLedger == [o \in {} |-> "none"]
NoRows == [r \in {} |-> NoRow]

Init ==
  /\ policy \in SUBSET {"manual", "deferred"}
  /\ hazards \in SUBSET {"stall", "fail", "reconfigure"}
  /\ slot = NoRun
  /\ row = [r \in Run |-> NoRow]
  /\ ledger = [o \in Object |-> "none"]
  /\ audited = {}
  /\ left \in [Run -> {Nothing}] /\ granted = [r \in Run |-> {}]
  /\ wpc = [r \in Run |-> "none"] /\ wrow = row
  /\ rpc = [r \in Run |-> "none"] /\ rrow = row
  /\ qpc \in [Run -> {"idle", "refused"}]  \* refused: not made
  /\ seenLedger = [r \in Run |-> NoLedger] /\ seenRows = [r \in Run |-> NoRows]
  /\ overtaken = {}
  /\ opc \in [Operator -> {"idle", "off"}] /\ orun = [a \in Operator |-> NoRun]
  /\ oids = [a \in Operator |-> {}] /\ todo = [a \in Operator |-> {}]
  /\ item = [a \in Operator |-> NoThing] /\ orow = [a \in Operator |-> NoRow]

-----------------------------------------------------------------------------
(* The manifest that a run's evidence supports.                            *)

MediaExpected(r) == IF r \in Pictured THEN 1 ELSE 0

Unexpected(r) ==
  LET ids == left[r].captured IN
    \/ Cardinality(ids \cap Capsule) > 1
    \/ Cardinality(ids \cap Media) > MediaExpected(r)
    \/ Cardinality(ids) > 1 + MediaExpected(r)

IdentityUnknown(r) ==
  \/ left[r].captured = {}
  \/ "clicked" \in left[r].marks /\ left[r].captured \cap Capsule = {}

Accounted(r) ==
  /\ left[r].captured # {}
  /\ "manual" \in granted[r] => ~IdentityUnknown(r)
  /\ "attributed" \in left[r].marks
  /\ ~Unexpected(r)

\* The status of the manifest and of the ledger records made from it.
Owes(r) == IF Accounted(r) /\ granted[r] # {} THEN "cleanup_unavailable" ELSE "pending"

-----------------------------------------------------------------------------
(* The cleanup gate.                                                       *)

\* The records the gate sees: those of the ledger, and the configured ones
\* that are not in it yet.
Snapshot(l) == [o \in Object |-> IF l[o] = "none" /\ o \in Seed THEN "cleanup_unavailable" ELSE l[o]]

\* The manifest of run r is an issue: objects unknown, not in the ledger or
\* still under investigation, unless all of them are recorded as removed.
RunIssue(l, rows, r) ==
  /\ rows[r].owed \in Unresolved
  /\ ~(rows[r].ids # {} /\ \A t \in rows[r].ids : l[<<r, t>>] = "completed")
  /\ \/ rows[r].ids = {}
     \/ rows[r].owed = "pending"
     \/ \E t \in rows[r].ids : l[<<r, t>>] = "none"

Open(l) == {o \in Object : Snapshot(l)[o] \in Unresolved}

\* Issues that block in every mode: nobody owns the object, or it is not one
\* the campaign should have created.
Foreign(l) == {o \in Open(l) : o[1] \in Run /\ (Unexpected(o[1]) \/ "attributed" \notin left[o[1]].marks)}

\* Issues that are advisory in manual mode.  (Age and daily limit, which only
\* refuse more, and the QA account flags, taken as set, are left out.)
Backlog(l, rows) ==
  \/ \E r \in Run : RunIssue(l, rows, r)
  \/ \E o \in Open(l) : l[o] = "pending" \/ (o[1] \in Run /\ ~Accounted(o[1]))
  \/ Open(l) # {} /\ "deferred" \notin policy
  \/ Cardinality(Open(l)) >= Limit

Passes(l, rows) == Foreign(l) = {} /\ ("manual" \in policy \/ ~Backlog(l, rows))

-----------------------------------------------------------------------------
(* A request: the active job, the gate's reads in either order, the run,   *)
(* the job.                                                                *)

CheckActive(r) ==
  /\ qpc[r] = "idle" /\ row[r].status = "none"
  /\ qpc' = [qpc EXCEPT ![r] = IF slot = NoRun THEN "reading" ELSE "refused"]
  /\ UNCHANGED <<policyVars, storeVars, workerVars, operatorVars, granted, seenLedger, seenRows, overtaken>>

ReadLedger(r) ==
  /\ qpc[r] = "reading" /\ seenLedger[r] = NoLedger
  /\ seenLedger' = [seenLedger EXCEPT ![r] = ledger]
  /\ UNCHANGED <<policyVars, storeVars, workerVars, operatorVars, granted, qpc, seenRows, overtaken>>

ReadRuns(r) ==
  /\ qpc[r] = "reading" /\ seenRows[r] = NoRows
  /\ seenRows' = [seenRows EXCEPT ![r] = row]
  /\ UNCHANGED <<policyVars, storeVars, workerVars, operatorVars, granted, qpc, seenLedger, overtaken>>

Judge(r) ==
  /\ qpc[r] = "reading" /\ seenLedger[r] # NoLedger /\ seenRows[r] # NoRows
  /\ IF Passes(seenLedger[r], seenRows[r])
     THEN qpc' = [qpc EXCEPT ![r] = "admitted"] /\ granted' = [granted EXCEPT ![r] = policy]
     ELSE qpc' = [qpc EXCEPT ![r] = "refused"] /\ UNCHANGED granted
  /\ seenLedger' = [seenLedger EXCEPT ![r] = NoLedger]
  /\ seenRows' = [seenRows EXCEPT ![r] = NoRows]
  /\ UNCHANGED <<policyVars, storeVars, workerVars, operatorVars, overtaken>>

\* Mutant of CreateRun: a run owes nothing before its campaign has ended.
CreateRunUnowed(r) ==
  /\ qpc[r] = "admitted"
  /\ qpc' = [qpc EXCEPT ![r] = "created"]
  /\ row' = [row EXCEPT ![r] = [status |-> "active", owed |-> "none", ids |-> {}]]
  /\ UNCHANGED <<policyVars, slot, ledger, audited, workerVars, operatorVars, granted, seenLedger, seenRows, overtaken>>

\* createRun: the obligation exists before the job does.
CreateRun(r) ==
  /\ qpc[r] = "admitted"
  /\ qpc' = [qpc EXCEPT ![r] = "created"]
  /\ row' = [row EXCEPT ![r] = [status |-> "active", owed |-> "pending", ids |-> {}]]
  /\ UNCHANGED <<policyVars, slot, ledger, audited, workerVars, operatorVars, granted, seenLedger, seenRows, overtaken>>

\* enqueue takes the single active slot, or the run fails at startup.
Enqueue(r) ==
  /\ qpc[r] = "created"
  /\ \/ /\ slot = NoRun
        /\ slot' = r /\ wpc' = [wpc EXCEPT ![r] = "campaign"] /\ UNCHANGED row
        /\ qpc' = [qpc EXCEPT ![r] = "queued"]
     \/ /\ slot # NoRun
        /\ row' = [row EXCEPT ![r].status = "ended"] /\ UNCHANGED <<slot, wpc>>
        /\ qpc' = [qpc EXCEPT ![r] = "refused"]
  /\ UNCHANGED <<policyVars, ledger, audited, left, wrow, rpc, rrow, operatorVars, granted, seenLedger, seenRows, overtaken>>

\* The requests between their check of the active job and their own job.
Underway == {r \in Run : qpc[r] \in {"reading", "admitted", "created"}}

-----------------------------------------------------------------------------
(* The worker, from the campaign to the end of the job.                    *)

Worker(r, from, to) == wpc[r] = from /\ wpc' = [wpc EXCEPT ![r] = to]

\* The campaign runs and leaves w.  A process tree that stays alive ends the
\* run without any publication.
Campaign(r) ==
  /\ \E w \in Outcome : left' = [left EXCEPT ![r] = w]
  /\ \/ Worker(r, "campaign", "owned") \/ Worker(r, "campaign", "ending")
  /\ overtaken' = overtaken \cup Underway
  /\ UNCHANGED <<policyVars, storeVars, wrow, rpc, rrow, granted, qpc, seenLedger, seenRows, operatorVars>>

\* assertOwned: a worker whose job was taken away stops.
AssertOwned(r) ==
  /\ wpc[r] \in {"owned", "ending"}
  /\ wpc' = [wpc EXCEPT ![r] =
       IF slot # r THEN "gone" ELSE IF wpc[r] = "owned" THEN "indexing" ELSE "final"]
  /\ UNCHANGED <<policyVars, storeVars, left, wrow, rpc, rrow, requestVars, operatorVars>>

\* updateRun of the worker, first half: before it publishes the cleanup and
\* before it ends the run.  (Setting indexing_artifacts changes nothing here.)
ReadRow(r) ==
  /\ \/ Worker(r, "indexing", "publish") \/ Worker(r, "final", "end")
  /\ wrow' = [wrow EXCEPT ![r] = row[r]]
  /\ UNCHANGED <<policyVars, storeVars, left, rpc, rrow, requestVars, operatorVars>>

\* updateRun({ cleanup }) with the manifest just written.
PublishCleanup(r) ==
  /\ Worker(r, "publish", "ledger")
  /\ row' = [row EXCEPT ![r] = [wrow[r] EXCEPT !.owed = Owes(r), !.ids = left[r].captured]]
  /\ UNCHANGED <<policyVars, slot, ledger, audited, left, wrow, rpc, rrow, requestVars, operatorVars>>

\* One upsert of persistCleanupLedgerForRun, which leaves recorded objects
\* alone; after the last one the worker goes on.
PersistLedger(r) ==
  /\ wpc[r] = "ledger"
  /\ LET missing == {t \in left[r].captured : ledger[<<r, t>>] = "none"} IN
       \/ \E t \in missing : ledger' = [ledger EXCEPT ![<<r, t>>] = Owes(r)] /\ UNCHANGED wpc
       \/ missing = {} /\ Worker(r, "ledger", "ending") /\ UNCHANGED ledger
  /\ UNCHANGED <<policyVars, slot, row, audited, left, wrow, rpc, rrow, requestVars, operatorVars>>

\* updateRun with the final status, written over whatever the row has become.
EndRun(r) ==
  /\ Worker(r, "end", "complete")
  /\ row' = [row EXCEPT ![r] = [wrow[r] EXCEPT !.status = "ended"]]
  /\ UNCHANGED <<policyVars, slot, ledger, audited, left, wrow, rpc, rrow, requestVars, operatorVars>>

CompleteJob(r) ==
  /\ Worker(r, "complete", "gone")
  /\ slot' = IF slot = r THEN NoRun ELSE slot
  /\ UNCHANGED <<policyVars, row, ledger, audited, left, wrow, rpc, rrow, requestVars, operatorVars>>

\* A store call of the publication fails: executeRun ends the run as failed.
PublicationFails(r) ==
  /\ "fail" \in hazards
  /\ wpc[r] \in {"indexing", "publish", "ledger"}
  /\ wpc' = [wpc EXCEPT ![r] = "final"]
  /\ UNCHANGED <<policyVars, storeVars, left, wrow, rpc, rrow, requestVars, operatorVars>>

\* The lease of a stalled or dead worker expires and recovery frees the slot;
\* a mutation has a single attempt.  A stalled worker goes on later.
Recover(r) ==
  /\ "stall" \in hazards
  /\ slot = r /\ rpc[r] = "none" /\ wpc[r] # "gone"
  /\ slot' = NoRun
  /\ rpc' = [rpc EXCEPT ![r] = "due"]
  /\ UNCHANGED <<policyVars, row, ledger, audited, left, wpc, wrow, rrow, requestVars, operatorVars>>

\* reconcileTerminalExecutionJobRun: the row is read, and written as failed.
ReconcileRead(r) ==
  /\ rpc[r] = "due"
  /\ rpc' = [rpc EXCEPT ![r] = IF row[r].status = "ended" THEN "done" ELSE "read"]
  /\ rrow' = [rrow EXCEPT ![r] = row[r]]
  /\ UNCHANGED <<policyVars, storeVars, left, wpc, wrow, requestVars, operatorVars>>

ReconcileWrite(r) ==
  /\ rpc[r] = "read"
  /\ rpc' = [rpc EXCEPT ![r] = "done"]
  /\ row' = [row EXCEPT ![r] = [rrow[r] EXCEPT !.status = "ended"]]
  /\ UNCHANGED <<policyVars, slot, ledger, audited, left, wpc, wrow, rrow, requestVars, operatorVars>>

\* Mutant of InitializeLedger: the configured records are written as they are.
InitializeLedgerOver ==
  /\ ledger' = [o \in Object |-> IF o \in Seed THEN "cleanup_unavailable" ELSE ledger[o]]
  /\ UNCHANGED <<policyVars, slot, row, audited, workerVars, requestVars, operatorVars>>

\* A worker starts: configured records are added, those present are kept.
InitializeLedger ==
  /\ ledger' = Snapshot(ledger)
  /\ UNCHANGED <<policyVars, slot, row, audited, workerVars, requestVars, operatorVars>>

\* The server is restarted with another cleanup policy.
Reconfigure ==
  /\ "reconfigure" \in hazards
  /\ policy' \in SUBSET {"manual", "deferred"} \ {policy}
  /\ UNCHANGED <<hazards, storeVars, workerVars, requestVars, operatorVars>>

-----------------------------------------------------------------------------
(* Confirmations: of all objects of a run, or of one ledger record.        *)

Back(a) ==
  /\ opc' = [opc EXCEPT ![a] = "idle"] /\ orun' = [orun EXCEPT ![a] = NoRun]
  /\ oids' = [oids EXCEPT ![a] = {}] /\ todo' = [todo EXCEPT ![a] = {}]
  /\ item' = [item EXCEPT ![a] = NoThing] /\ orow' = [orow EXCEPT ![a] = NoRow]

\* POST /api/runs/:id/cleanup reads the run; an active one is refused.
OpenRun(a, r) ==
  /\ opc[a] = "idle"
  /\ row[r].owed \in Unresolved /\ row[r].status = "ended"
  /\ opc' = [opc EXCEPT ![a] = "listing"] /\ orun' = [orun EXCEPT ![a] = r]
  /\ oids' = [oids EXCEPT ![a] = row[r].ids]
  /\ UNCHANGED <<policyVars, storeVars, workerVars, requestVars, todo, item, orow>>

\* Mutant of ListRecords: the objects the run names are not compared.
ListRecordsUnchecked(a) ==
  /\ opc[a] = "listing"
  /\ LET records == {t \in Thing : ledger[<<orun[a], t>>] # "none"} IN
       IF records = {} THEN Back(a)
       ELSE /\ opc' = [opc EXCEPT ![a] = "each"] /\ todo' = [todo EXCEPT ![a] = records]
            /\ UNCHANGED <<orun, oids, item, orow>>
  /\ UNCHANGED <<policyVars, storeVars, workerVars, requestVars>>

\* Its records are listed: all objects the run names must be among them.
ListRecords(a) ==
  /\ opc[a] = "listing"
  /\ LET records == {t \in Thing : ledger[<<orun[a], t>>] # "none"} IN
       IF oids[a] = {} \/ records = {} \/ ~(oids[a] \subseteq records) THEN Back(a)
       ELSE /\ opc' = [opc EXCEPT ![a] = "each"] /\ todo' = [todo EXCEPT ![a] = records]
            /\ UNCHANGED <<orun, oids, item, orow>>
  /\ UNCHANGED <<policyVars, storeVars, workerVars, requestVars>>

\* POST /api/cleanup-ledger names one record.
OpenRecord(a, o) ==
  /\ opc[a] = "idle" /\ ledger[o] # "none"
  /\ opc' = [opc EXCEPT ![a] = "each"] /\ orun' = [orun EXCEPT ![a] = o[1]]
  /\ todo' = [todo EXCEPT ![a] = {o[2]}]
  /\ UNCHANGED <<policyVars, storeVars, workerVars, requestVars, oids, item, orow>>

\* confirmManualCleanupRecord: the record and its run are read; a removed one
\* is done, an active run ends the confirmation.
ReadRecord(a) ==
  /\ opc[a] = "each"
  /\ \E t \in todo[a] :
       CASE orun[a] \in Run /\ row[orun[a]].status # "ended" -> Back(a)
         [] OTHER ->
              /\ IF ledger[<<orun[a], t>>] = "completed"
                 THEN todo' = [todo EXCEPT ![a] = @ \ {t}] /\ UNCHANGED <<opc, item>>
                 ELSE /\ opc' = [opc EXCEPT ![a] = "audit"] /\ item' = [item EXCEPT ![a] = t]
                      /\ UNCHANGED todo
              /\ UNCHANGED <<orun, oids, orow>>
  /\ UNCHANGED <<policyVars, storeVars, workerVars, requestVars>>

\* The audit event is awaited before the record changes.
Audit(a) ==
  /\ opc[a] = "audit"
  /\ audited' = audited \cup {<<orun[a], item[a]>>}
  /\ opc' = [opc EXCEPT ![a] = "resolve"]
  /\ UNCHANGED <<policyVars, slot, row, ledger, workerVars, requestVars, orun, oids, todo, item, orow>>

Resolve(a) ==
  /\ opc[a] = "resolve"
  /\ ledger' = [ledger EXCEPT ![<<orun[a], item[a]>>] = "completed"]
  /\ opc' = [opc EXCEPT ![a] = "each"] /\ todo' = [todo EXCEPT ![a] = @ \ {item[a]}]
  /\ item' = [item EXCEPT ![a] = NoThing]
  /\ UNCHANGED <<policyVars, slot, row, audited, workerVars, requestVars, orun, oids, orow>>

\* All done: a single record ends here, a run is read again by updateRun.
AllResolved(a) ==
  /\ opc[a] = "each" /\ todo[a] = {}
  /\ IF oids[a] = {} THEN Back(a)
     ELSE /\ opc' = [opc EXCEPT ![a] = "confirm"]
          /\ orow' = [orow EXCEPT ![a] = row[orun[a]]]
          /\ UNCHANGED <<orun, oids, todo, item>>
  /\ UNCHANGED <<policyVars, storeVars, workerVars, requestVars>>

\* The run's cleanup, as read at the start, becomes manually confirmed.
ConfirmRun(a) ==
  /\ opc[a] = "confirm"
  /\ row' = [row EXCEPT ![orun[a]] = [orow[a] EXCEPT !.owed = "manually_confirmed", !.ids = oids[a]]]
  /\ Back(a)
  /\ UNCHANGED <<policyVars, slot, ledger, audited, workerVars, requestVars>>

\* A store call fails: the confirmation ends where it is.
ConfirmationFails(a) ==
  /\ "fail" \in hazards /\ opc[a] \notin {"idle", "off"}
  /\ Back(a)
  /\ UNCHANGED <<policyVars, storeVars, workerVars, requestVars>>

RequestStep(r) == CheckActive(r) \/ ReadLedger(r) \/ ReadRuns(r) \/ Judge(r) \/ CreateRun(r) \/ Enqueue(r)

WorkerStep(r) ==
  \/ Campaign(r) \/ AssertOwned(r) \/ ReadRow(r) \/ PublishCleanup(r) \/ PersistLedger(r)
  \/ EndRun(r) \/ CompleteJob(r) \/ PublicationFails(r)
  \/ Recover(r) \/ ReconcileRead(r) \/ ReconcileWrite(r)

OperatorStep(a) ==
  \/ \E r \in Run : OpenRun(a, r)
  \/ \E o \in Object : OpenRecord(a, o)
  \/ ListRecords(a) \/ ReadRecord(a) \/ Audit(a) \/ Resolve(a) \/ AllResolved(a) \/ ConfirmRun(a)
  \/ ConfirmationFails(a)

Next ==
  \/ \E r \in Run : RequestStep(r) \/ WorkerStep(r)
  \/ \E a \in Operator : OperatorStep(a)
  \/ InitializeLedger
  \/ Reconfigure

Spec == Init /\ [][Next]_vars

-----------------------------------------------------------------------------
\* Every object that a campaign's evidence names, and every configured one,
\* stays with the gate until an administrator has attested its deletion: it is
\* counted as unresolved or its run is an issue.  Neither crashes of the worker
\* between run and ledger, nor stale rows written back by a stalled worker, by
\* recovery or by a confirmation lose one (cleanup-ledger.ts, runner.ts,
\* run-store.ts).
ObligationKept ==
  \A o \in Object \ audited :
    \/ o \in Open(ledger)
    \/ o \notin Seed /\ (o[2] \in left[o[1]].captured => RunIssue(ledger, row, o[1]))

\* A campaign starts, in enforced mode, only while the unresolved objects are
\* below the limit and every object an earlier campaign's evidence names is in
\* the ledger: what the gate read separately and before the run was queued
\* still holds then, whoever publishes, attests or starts meanwhile
\* (live-campaigns.ts).  It does not hold of a request that another campaign
\* has overtaken: nothing looks at the ledger again.
StartsAccounted ==
  [][\A r \in Run \ overtaken : slot' = r /\ slot # r /\ "manual" \notin granted[r] =>
       /\ Cardinality(Open(ledger)) < Limit
       /\ \A p \in Run : \A t \in left[p].captured : ledger[<<p, t>>] # "none"]_vars

\* Resolutions last and are earned: a completed record is never reopened (a
\* starting worker writes the configured records again), it is completed only
\* with an audit event, and a run is confirmed only with all objects of its
\* evidence completed (manual-cleanup.ts, cleanup/route.ts).
ResolutionEarned ==
  [][/\ \A o \in Object : ledger[o] = "completed" => ledger'[o] = "completed"
     /\ \A o \in Object : ledger'[o] = "completed" => o \in audited'
     /\ \A r \in Run : row'[r].owed = "manually_confirmed" =>
          \A t \in left[r].captured : ledger[<<r, t>>] = "completed"]_vars

=============================================================================
