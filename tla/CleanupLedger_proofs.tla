------------------------ MODULE CleanupLedger_proofs ------------------------
(***************************************************************************)
(* Proofs about CleanupLedger, for any runs, objects, administrators and   *)
(* outcomes of campaigns.  The invariant follows every copy of a run's row *)
(* that may still be written back: a copy never says less than the ledger. *)
(***************************************************************************)
EXTENDS CleanupLedger, FiniteSetTheorems, TLAPS

RowType == [status : {"none", "active", "ended"},
            owed : {"none", "manually_confirmed", "pending", "cleanup_unavailable"},
            ids : SUBSET Thing]

Captured(r) == left[r].captured

\* A row of run r that may be the stored one, while the campaign's evidence
\* names the things in c and l is the ledger.
Honest(x, r, c, l) ==
  \/ x.owed \in Unresolved /\ x.ids \in {{}, c}
  \/ /\ x.owed = "manually_confirmed" /\ x.ids = c /\ c # {}
     /\ \A t \in c : l[<<r, t>>] = "completed"
  \/ x.owed = "none" /\ x.ids = {} /\ c = {}

\* A row of a run whose campaign has not ended.
Fresh(x) == x.owed \in Unresolved /\ x.ids = {}

Types ==
  /\ row \in [Run -> RowType] /\ wrow \in [Run -> RowType] /\ rrow \in [Run -> RowType]
  /\ orow \in [Operator -> RowType]
  /\ ledger \in [Object -> {"none", "completed", "pending", "cleanup_unavailable"}]
  /\ \A r \in Run : Captured(r) \subseteq Thing
  /\ DOMAIN left = Run
  /\ DOMAIN wpc = Run /\ DOMAIN rpc = Run /\ DOMAIN qpc = Run
  /\ DOMAIN opc = Operator /\ DOMAIN orun = Operator /\ DOMAIN item = Operator
  /\ oids \in [Operator -> SUBSET Thing] /\ todo \in [Operator -> SUBSET Thing]

Early == {"idle", "reading", "admitted", "created"}
Unstarted == {"none", "campaign"}

RunOK(r) ==
  /\ Honest(row[r], r, Captured(r), ledger)
  /\ wpc[r] \in {"publish", "end"} => Honest(wrow[r], r, Captured(r), ledger)
  /\ rpc[r] = "read" => Honest(rrow[r], r, Captured(r), ledger)
  /\ slot = r => wpc[r] # "none"
  /\ qpc[r] \in Early => wpc[r] = "none"
  /\ wpc[r] = "none" => /\ rpc[r] = "none" /\ row[r].ids = {}
                        /\ row[r].owed # "manually_confirmed" /\ Captured(r) = {}
  /\ qpc[r] = "created" => Fresh(row[r])
  /\ wpc[r] = "campaign" => Fresh(row[r])
  /\ wpc[r] = "campaign" /\ rpc[r] = "read" => Fresh(rrow[r])

Confirming == {"each", "audit", "resolve", "confirm"}

OperatorOK(a) ==
  /\ opc[a] \in {"idle", "off"} => oids[a] = {}
  /\ oids[a] # {} => /\ orun[a] \in Run /\ oids[a] = Captured(orun[a])
                     /\ wpc[orun[a]] \notin Unstarted
  /\ opc[a] = "listing" => orun[a] \in Run
  /\ opc[a] \in Confirming =>
       /\ \A t \in todo[a] : <<orun[a], t>> \in Object
       /\ \A t \in oids[a] : t \in todo[a] \/ ledger[<<orun[a], t>>] = "completed"
  /\ opc[a] \in {"audit", "resolve"} => <<orun[a], item[a]>> \in Object
  /\ opc[a] = "resolve" => <<orun[a], item[a]>> \in audited
  /\ opc[a] = "confirm" => oids[a] # {} /\ todo[a] = {}

Attested == \A o \in Object : ledger[o] = "completed" => o \in audited

CleanupInvariant ==
  /\ Types
  /\ Attested
  /\ \A r \in Run : RunOK(r)
  /\ \A a \in Operator : OperatorOK(a)

-----------------------------------------------------------------------------
\* No step of the system reopens a completed record.
Lasting == \A o \in Object : ledger[o] = "completed" => ledger'[o] = "completed"

\* An honest row stays honest while records are only completed.
LEMMA HonestStays ==
  ASSUME NEW x, NEW r \in Run, NEW c \in SUBSET Thing, NEW l, NEW m,
         \A o \in Object : l[o] = "completed" => m[o] = "completed",
         Honest(x, r, c, l)
  PROVE  Honest(x, r, c, m)
<1>1. \A t \in c : <<r, t>> \in Object
  BY DEF Object
<1> QED BY <1>1 DEF Honest, Unresolved

\* A run on which nothing but the ledger changed keeps its invariant.
LEMMA RunFrame ==
  ASSUME NEW r \in Run, CleanupInvariant, Lasting,
         row'[r] = row[r], wrow'[r] = wrow[r], rrow'[r] = rrow[r], left'[r] = left[r],
         wpc'[r] = wpc[r], rpc'[r] = rpc[r],
         slot' = r => slot = r,
         qpc'[r] \in Early => qpc[r] \in Early,
         qpc'[r] = "created" => qpc[r] = "created"
  PROVE  RunOK(r)'
<1>1. RunOK(r) /\ Captured(r) \in SUBSET Thing BY DEF CleanupInvariant, Types
<1>2. Captured(r)' = Captured(r) BY DEF Captured
<1>3. Honest(row[r], r, Captured(r), ledger')
  BY <1>1, HonestStays DEF RunOK, Lasting
<1>4. wpc[r] \in {"publish", "end"} => Honest(wrow[r], r, Captured(r), ledger')
  BY <1>1, HonestStays DEF RunOK, Lasting
<1>5. rpc[r] = "read" => Honest(rrow[r], r, Captured(r), ledger')
  BY <1>1, HonestStays DEF RunOK, Lasting
<1> QED BY <1>1, <1>2, <1>3, <1>4, <1>5 DEF RunOK, Early, Fresh

\* A confirmation that takes no step keeps its invariant, whatever the
\* requests, the workers and the other confirmations do.
LEMMA OperatorFrame ==
  ASSUME NEW a \in Operator, CleanupInvariant, Lasting, audited \subseteq audited',
         opc'[a] = opc[a], orun'[a] = orun[a], oids'[a] = oids[a],
         todo'[a] = todo[a], item'[a] = item[a],
         \A r \in Run : wpc[r] \notin Unstarted => wpc'[r] \notin Unstarted /\ left'[r] = left[r]
  PROVE  OperatorOK(a)'
<1>1. OperatorOK(a) /\ oids[a] \subseteq Thing BY DEF CleanupInvariant, Types
<1>2. oids[a] # {} => Captured(orun[a])' = Captured(orun[a]) BY <1>1 DEF OperatorOK, Captured
<1>3. \A t \in oids[a] : <<orun[a], t>> \in Object BY <1>1 DEF OperatorOK, Object
<1> QED BY <1>1, <1>2, <1>3 DEF OperatorOK, Lasting, Captured

-----------------------------------------------------------------------------
\* Records are never reopened, and completed only when attested: every step.
LEMMA LedgerSteps ==
  ASSUME CleanupInvariant, [Next]_vars
  PROVE  Lasting /\ audited \subseteq audited' /\ Attested'
<1> USE DEF CleanupInvariant, Types, Attested, Lasting
<1>1. CASE UNCHANGED <<ledger, audited>>
  BY <1>1
<1>2. ASSUME NEW r \in Run, PersistLedger(r) PROVE Lasting /\ audited \subseteq audited' /\ Attested'
  BY <1>2, Zenon DEF PersistLedger, Owes
<1>3. CASE InitializeLedger
  BY <1>3 DEF InitializeLedger, Snapshot
<1>4. ASSUME NEW a \in Operator, Audit(a) PROVE Lasting /\ audited \subseteq audited' /\ Attested'
  BY <1>4 DEF Audit
<1>5. ASSUME NEW a \in Operator, Resolve(a) PROVE Lasting /\ audited \subseteq audited' /\ Attested'
  <2>1. <<orun[a], item[a]>> \in audited BY <1>5 DEF Resolve, OperatorOK
  <2> QED BY <1>5, <2>1 DEF Resolve
<1>6. CASE Reconfigure
  BY <1>6, <1>1 DEF Reconfigure, storeVars
<1>7. ASSUME NEW r \in Run, RequestStep(r) PROVE UNCHANGED <<ledger, audited>>
  BY <1>7 DEF RequestStep, CheckActive, ReadLedger, ReadRuns, Judge, CreateRun, Enqueue, storeVars
<1>8. ASSUME NEW r \in Run, WorkerStep(r) PROVE UNCHANGED <<ledger, audited>> \/ PersistLedger(r)
  BY <1>8 DEF WorkerStep, Campaign, AssertOwned, ReadRow, PublishCleanup, EndRun, CompleteJob,
    PublicationFails, Recover, ReconcileRead, ReconcileWrite, storeVars
<1>9. ASSUME NEW a \in Operator, OperatorStep(a)
      PROVE  UNCHANGED <<ledger, audited>> \/ Audit(a) \/ Resolve(a)
  BY <1>9 DEF OperatorStep, OpenRun, OpenRecord, ListRecords, ReadRecord, AllResolved, ConfirmRun,
    ConfirmationFails, storeVars
<1>10. CASE UNCHANGED vars
  BY <1>10, <1>1 DEF vars, storeVars
<1> QED BY <1>1, <1>2, <1>3, <1>4, <1>5, <1>6, <1>7, <1>8, <1>9, <1>10 DEF Next

-----------------------------------------------------------------------------
\* Requests.
LEMMA RequestStepOK ==
  ASSUME CleanupInvariant, NEW r \in Run, RequestStep(r), Lasting
  PROVE  Types' /\ (\A p \in Run : RunOK(p)') /\ (\A a \in Operator : OperatorOK(a)')
<1> USE DEF storeVars, workerVars, operatorVars, policyVars
<1>1. RunOK(r) BY DEF CleanupInvariant
<1>2. Types'
  <2>1. CASE CheckActive(r) \/ ReadLedger(r) \/ ReadRuns(r) \/ Judge(r)
    BY <2>1 DEF CheckActive, ReadLedger, ReadRuns, Judge, CleanupInvariant, Types, Captured
  <2>2. CASE CreateRun(r)
    BY <2>2 DEF CreateRun, CleanupInvariant, Types, Captured, RowType
  <2>3. CASE Enqueue(r)
    <3>1. row' \in [Run -> RowType] /\ DOMAIN wpc' = Run
      <4>1. row[r] \in RowType BY DEF CleanupInvariant, Types
      <4>2. [row[r] EXCEPT !.status = "ended"] \in RowType BY <4>1 DEF RowType
      <4>3. row' = row \/ row' = [row EXCEPT ![r] = [row[r] EXCEPT !.status = "ended"]]
        BY <2>3 DEF Enqueue
      <4> QED BY <4>2, <4>3, <2>3 DEF Enqueue, CleanupInvariant, Types
    <3> QED BY <2>3, <3>1 DEF Enqueue, CleanupInvariant, Types, Captured
  <2> QED BY <2>1, <2>2, <2>3 DEF RequestStep
<1>3. \A a \in Operator : OperatorOK(a)'
  <2>1. UNCHANGED operatorVars /\ UNCHANGED <<audited, left>>
    BY DEF RequestStep, CheckActive, ReadLedger, ReadRuns, Judge, CreateRun, Enqueue
  <2>2. \A p \in Run : wpc[p] \notin Unstarted => wpc'[p] = wpc[p]
    BY <1>1 DEF RequestStep, CheckActive, ReadLedger, ReadRuns, Judge, CreateRun, Enqueue,
      RunOK, Early, Unstarted, CleanupInvariant, Types
  <2> QED BY <2>1, <2>2, OperatorFrame
<1>4. ASSUME NEW p \in Run, p # r PROVE RunOK(p)'
  <2>1. /\ row'[p] = row[p] /\ wpc'[p] = wpc[p] /\ qpc'[p] = qpc[p] /\ (slot' = p => slot = p)
        /\ UNCHANGED <<wrow, rrow, left, rpc>>
    BY <1>4 DEF RequestStep, CheckActive, ReadLedger, ReadRuns, Judge, CreateRun, Enqueue,
      CleanupInvariant, Types
  <2> QED BY <2>1, RunFrame
<1>5. RunOK(r)'
  <2>1. CASE CheckActive(r) \/ ReadLedger(r) \/ ReadRuns(r) \/ Judge(r)
    <3>1. UNCHANGED <<row, wrow, rrow, left, wpc, rpc, slot>> /\ qpc[r] \in Early /\ qpc'[r] # "created"
      BY <2>1 DEF CheckActive, ReadLedger, ReadRuns, Judge, CleanupInvariant, Types, Early
    <3> QED BY <3>1, RunFrame
  <2>2. CASE CreateRun(r)
    <3>1. /\ row'[r].owed = "pending" /\ row'[r].ids = {} /\ qpc[r] = "admitted"
          /\ UNCHANGED <<wrow, rrow, left, wpc, rpc, slot>>
      BY <2>2 DEF CreateRun, CleanupInvariant, Types
    <3> QED BY <1>1, <3>1 DEF RunOK, Honest, Fresh, Early, Unresolved, Captured
  <2>3. CASE Enqueue(r)
    <3>1. /\ qpc[r] = "created" /\ qpc'[r] \notin Early /\ UNCHANGED <<wrow, rrow, left, rpc>>
          /\ \/ slot' = r /\ wpc'[r] = "campaign" /\ row' = row
             \/ /\ slot' = slot /\ wpc' = wpc
                /\ row' = [row EXCEPT ![r] = [row[r] EXCEPT !.status = "ended"]]
      BY <2>3 DEF Enqueue, CleanupInvariant, Types, Early
    <3>2. row'[r].owed = row[r].owed /\ row'[r].ids = row[r].ids
      BY <3>1 DEF CleanupInvariant, Types, RowType
    <3> QED BY <1>1, <3>1, <3>2 DEF RunOK, Honest, Fresh, Early, Unresolved, Captured
  <2> QED BY <2>1, <2>2, <2>3 DEF RequestStep
<1> QED BY <1>2, <1>3, <1>4, <1>5

-----------------------------------------------------------------------------
\* A row with its status or its cleanup replaced is a row.
LEMMA RowUpdate ==
  ASSUME NEW x \in RowType, NEW c \in SUBSET Thing,
         NEW o \in {"manually_confirmed", "pending", "cleanup_unavailable"}
  PROVE  [x EXCEPT !.status = "ended"] \in RowType /\ [x EXCEPT !.owed = o, !.ids = c] \in RowType
BY DEF RowType

\* What a worker's step and a recovery leave alone.
LEMMA WorkerFrame ==
  ASSUME CleanupInvariant, NEW r \in Run, WorkerStep(r)
  PROVE  /\ UNCHANGED <<operatorVars, granted, qpc, seenLedger, seenRows>>
         /\ slot' = slot \/ slot' = NoRun
         /\ \A p \in Run : p # r =>
              /\ row'[p] = row[p] /\ wrow'[p] = wrow[p] /\ rrow'[p] = rrow[p]
              /\ left'[p] = left[p] /\ wpc'[p] = wpc[p] /\ rpc'[p] = rpc[p]
         /\ wpc[r] \notin Unstarted => wpc'[r] \notin Unstarted /\ left'[r] = left[r]
<1> USE DEF storeVars, requestVars, CleanupInvariant, Types, Unstarted, Worker
<1>1. CASE Campaign(r)
  BY <1>1 DEF Campaign
<1>2. CASE AssertOwned(r) \/ ReadRow(r) \/ PersistLedger(r) \/ CompleteJob(r) \/ PublicationFails(r)
  BY <1>2 DEF AssertOwned, ReadRow, PersistLedger, CompleteJob, PublicationFails
<1>3. CASE PublishCleanup(r) \/ EndRun(r)
  BY <1>3 DEF PublishCleanup, EndRun
<1>4. CASE Recover(r) \/ ReconcileRead(r) \/ ReconcileWrite(r)
  BY <1>4 DEF Recover, ReconcileRead, ReconcileWrite
<1> QED BY <1>1, <1>2, <1>3, <1>4 DEF WorkerStep

\* The run of a worker or a recovery that takes a step.
LEMMA WorkerRunOK ==
  ASSUME CleanupInvariant, NEW r \in Run, WorkerStep(r), Lasting
  PROVE  RunOK(r)'
<1>1. /\ RunOK(r) /\ row[r] \in RowType /\ wrow[r] \in RowType /\ rrow[r] \in RowType
      /\ Captured(r) \in SUBSET Thing
  BY DEF CleanupInvariant, Types
<1>2. NoRun # r
  BY CleanupAssumption DEF NoRun
<1>3. CASE Campaign(r)
  <2>1. /\ wpc[r] = "campaign" /\ wpc'[r] \in {"owned", "ending"}
        /\ UNCHANGED <<slot, row, ledger, wrow, rpc, rrow, qpc>>
    BY <1>3 DEF Campaign, Worker, storeVars, requestVars, CleanupInvariant, Types
  <2> QED BY <1>1, <2>1 DEF RunOK, Honest, Fresh, Early, Captured
<1>4. CASE AssertOwned(r) \/ PublicationFails(r)
  <2>1. /\ wpc[r] \in {"owned", "ending", "indexing", "publish", "ledger"}
        /\ wpc'[r] \in {"gone", "indexing", "final"}
        /\ UNCHANGED <<slot, row, ledger, left, wrow, rpc, rrow, qpc>>
    BY <1>4 DEF AssertOwned, PublicationFails, storeVars, requestVars, CleanupInvariant, Types
  <2> QED BY <1>1, <2>1 DEF RunOK, Captured, Early
<1>5. CASE ReadRow(r)
  <2>1. /\ wpc[r] \in {"indexing", "final"} /\ wpc'[r] \in {"publish", "end"} /\ wrow'[r] = row[r]
        /\ UNCHANGED <<slot, row, ledger, left, rpc, rrow, qpc>>
    BY <1>5 DEF ReadRow, Worker, storeVars, requestVars, CleanupInvariant, Types
  <2> QED BY <1>1, <2>1 DEF RunOK, Captured, Early
<1>6. CASE PublishCleanup(r)
  <2>1. Owes(r) \in {"pending", "cleanup_unavailable"} BY DEF Owes
  <2>2. /\ wpc[r] = "publish" /\ wpc'[r] = "ledger"
        /\ row'[r] = [wrow[r] EXCEPT !.owed = Owes(r), !.ids = Captured(r)]
        /\ UNCHANGED <<slot, ledger, left, wrow, rpc, rrow, qpc>>
    BY <1>6 DEF PublishCleanup, Worker, requestVars, CleanupInvariant, Types, Captured
  <2>3. row'[r].owed \in Unresolved /\ row'[r].ids = Captured(r)
    BY <1>1, <2>1, <2>2 DEF RowType, Unresolved
  <2> QED BY <1>1, <2>2, <2>3 DEF RunOK, Honest, Captured, Early
<1>7. CASE PersistLedger(r)
  <2>1. /\ wpc[r] = "ledger" /\ wpc'[r] \in {"ledger", "ending"}
        /\ UNCHANGED <<slot, row, left, wrow, rpc, rrow, qpc>>
    BY <1>7 DEF PersistLedger, Worker, requestVars, CleanupInvariant, Types
  <2>2. Honest(row[r], r, Captured(r), ledger') /\ (rpc[r] = "read" => Honest(rrow[r], r, Captured(r), ledger'))
    BY <1>1, HonestStays DEF RunOK, Lasting
  <2> QED BY <1>1, <2>1, <2>2 DEF RunOK, Captured, Early
<1>8. CASE EndRun(r)
  <2>1. /\ wpc[r] = "end" /\ wpc'[r] = "complete" /\ row'[r] = [wrow[r] EXCEPT !.status = "ended"]
        /\ UNCHANGED <<slot, ledger, left, wrow, rpc, rrow, qpc>>
    BY <1>8 DEF EndRun, Worker, requestVars, CleanupInvariant, Types
  <2>2. row'[r].owed = wrow[r].owed /\ row'[r].ids = wrow[r].ids
    BY <1>1, <2>1 DEF RowType
  <2> QED BY <1>1, <2>1, <2>2 DEF RunOK, Honest, Captured, Early
<1>9. CASE CompleteJob(r)
  <2>1. /\ wpc[r] = "complete" /\ wpc'[r] = "gone"
        /\ UNCHANGED <<row, ledger, left, wrow, rpc, rrow, qpc>>
    BY <1>9 DEF CompleteJob, Worker, requestVars, CleanupInvariant, Types
  <2> QED BY <1>1, <2>1 DEF RunOK, Captured, Early
<1>10. CASE Recover(r)
  <2>1. /\ slot = r /\ slot' # r /\ rpc'[r] = "due"
        /\ UNCHANGED <<row, ledger, left, wpc, wrow, rrow, qpc>>
    BY <1>2, <1>10 DEF Recover, requestVars, CleanupInvariant, Types
  <2> QED BY <1>1, <2>1 DEF RunOK, Captured, Early
<1>11. CASE ReconcileRead(r)
  <2>1. /\ rpc[r] = "due" /\ rrow'[r] = row[r]
        /\ UNCHANGED <<slot, row, ledger, left, wpc, wrow, qpc>>
    BY <1>11 DEF ReconcileRead, storeVars, requestVars, CleanupInvariant, Types
  <2> QED BY <1>1, <2>1 DEF RunOK, Captured, Early, Fresh
<1>12. CASE ReconcileWrite(r)
  <2>1. /\ rpc[r] = "read" /\ rpc'[r] = "done" /\ row'[r] = [rrow[r] EXCEPT !.status = "ended"]
        /\ UNCHANGED <<slot, ledger, left, wpc, wrow, qpc>>
    BY <1>12 DEF ReconcileWrite, requestVars, CleanupInvariant, Types
  <2>2. row'[r].owed = rrow[r].owed /\ row'[r].ids = rrow[r].ids
    BY <1>1, <2>1 DEF RowType
  <2> QED BY <1>1, <2>1, <2>2 DEF RunOK, Honest, Captured, Early, Fresh
<1> QED BY <1>3, <1>4, <1>5, <1>6, <1>7, <1>8, <1>9, <1>10, <1>11, <1>12 DEF WorkerStep

\* The types after a step of a worker or a recovery.
LEMMA WorkerTypes ==
  ASSUME CleanupInvariant, NEW r \in Run, WorkerStep(r)
  PROVE  Types'
<1> USE DEF storeVars, operatorVars, requestVars, Worker
<1>1. /\ Types /\ row[r] \in RowType /\ wrow[r] \in RowType /\ rrow[r] \in RowType
      /\ Captured(r) \in SUBSET Thing
  BY DEF CleanupInvariant, Types
<1>2. CASE Campaign(r)
  <2>1. \A w \in Outcome : w.captured \subseteq Thing BY CleanupAssumption DEF Thing
  <2>2. PICK w \in Outcome : left' = [left EXCEPT ![r] = w] BY <1>2 DEF Campaign
  <2>3. \A p \in Run : Captured(p)' \subseteq Thing BY <1>1, <2>1, <2>2 DEF Types, Captured
  <2>4. UNCHANGED <<row, wrow, rrow, orow, ledger, rpc, qpc, opc, orun, oids, todo, item>>
        /\ DOMAIN wpc' = Run /\ DOMAIN left' = Run
    BY <1>1, <1>2 DEF Campaign, Types
  <2> QED BY <1>1, <2>3, <2>4 DEF Types
<1>3. CASE AssertOwned(r) \/ ReadRow(r) \/ CompleteJob(r) \/ PublicationFails(r) \/ Recover(r)
          \/ ReconcileRead(r)
  BY <1>1, <1>3 DEF Types, AssertOwned, ReadRow, CompleteJob, PublicationFails, Recover,
    ReconcileRead, Captured
<1>4. CASE PersistLedger(r)
  <2>1. Owes(r) \in {"pending", "cleanup_unavailable"} BY DEF Owes
  <2> QED BY <1>1, <1>4, <2>1 DEF Types, PersistLedger, Captured
<1>5. CASE PublishCleanup(r) \/ EndRun(r) \/ ReconcileWrite(r)
  <2>1. Owes(r) \in {"pending", "cleanup_unavailable"} BY DEF Owes
  <2>2. PICK x \in RowType : row' = [row EXCEPT ![r] = x]
    BY <1>1, <1>5, <2>1, RowUpdate DEF PublishCleanup, EndRun, ReconcileWrite, Captured
  <2>3. UNCHANGED <<wrow, rrow, orow, left, ledger, qpc, opc, orun, oids, todo, item>>
        /\ DOMAIN wpc' = Run /\ DOMAIN rpc' = Run
    BY <1>1, <1>5 DEF PublishCleanup, EndRun, ReconcileWrite, Types
  <2> QED BY <1>1, <2>2, <2>3 DEF Types, Captured
<1> QED BY <1>2, <1>3, <1>4, <1>5 DEF WorkerStep

\* Workers and recovery.
LEMMA WorkerStepOK ==
  ASSUME CleanupInvariant, NEW r \in Run, WorkerStep(r), Lasting, audited \subseteq audited'
  PROVE  Types' /\ (\A p \in Run : RunOK(p)') /\ (\A a \in Operator : OperatorOK(a)')
<1>1. \A a \in Operator : OperatorOK(a)'
  BY WorkerFrame, OperatorFrame DEF operatorVars
<1>2. ASSUME NEW p \in Run, p # r PROVE RunOK(p)'
  <2>1. slot' = p => slot = p BY WorkerFrame, CleanupAssumption DEF NoRun
  <2> QED BY <1>2, <2>1, WorkerFrame, RunFrame DEF requestVars
<1> QED BY <1>1, <1>2, WorkerRunOK, WorkerTypes

-----------------------------------------------------------------------------
\* Confirmations: all steps but the last leave the runs alone.
LEMMA OperatorRuns ==
  ASSUME CleanupInvariant, NEW a \in Operator, OperatorStep(a), Lasting
  PROVE  \A r \in Run : RunOK(r)'
<1>1. ASSUME NEW r \in Run, UNCHANGED <<row, workerVars, requestVars, slot>> PROVE RunOK(r)'
  BY <1>1, RunFrame DEF workerVars, requestVars
<1>2. CASE ConfirmRun(a)
  <2>1. /\ OperatorOK(a) /\ orow[a] \in RowType /\ opc[a] = "confirm"
        /\ row' = [row EXCEPT ![orun[a]] = [orow[a] EXCEPT !.owed = "manually_confirmed", !.ids = oids[a]]]
        /\ UNCHANGED <<slot, ledger, workerVars, requestVars>>
    BY <1>2 DEF ConfirmRun, CleanupInvariant, Types
  <2>2. /\ orun[a] \in Run /\ oids[a] # {} /\ oids[a] = Captured(orun[a])
        /\ wpc[orun[a]] \notin Unstarted
        /\ \A t \in oids[a] : ledger[<<orun[a], t>>] = "completed"
    BY <2>1 DEF OperatorOK, Confirming
  <2>3. row'[orun[a]].owed = "manually_confirmed" /\ row'[orun[a]].ids = oids[a]
    BY <2>1, <2>2 DEF CleanupInvariant, Types, RowType
  <2>4. ASSUME NEW r \in Run PROVE RunOK(r)'
    <3>1. CASE r # orun[a]
      <4>1. row'[r] = row[r] BY <2>1, <3>1 DEF CleanupInvariant, Types
      <4> QED BY <2>1, <4>1, RunFrame DEF workerVars, requestVars
    <3>2. CASE r = orun[a]
      <4>1. RunOK(r) BY DEF CleanupInvariant
      <4> QED BY <2>1, <2>2, <2>3, <3>2, <4>1
            DEF RunOK, Honest, Captured, workerVars, requestVars, Unstarted, Early
    <3> QED BY <3>1, <3>2
  <2> QED BY <2>4
<1>3. CASE ~ConfirmRun(a)
  <2>1. UNCHANGED <<row, workerVars, requestVars, slot>>
    BY <1>3 DEF OperatorStep, OpenRun, OpenRecord, ListRecords, ReadRecord, Audit, Resolve,
      AllResolved, ConfirmationFails, storeVars
  <2> QED BY <1>1, <2>1
<1> QED BY <1>2, <1>3

\* The other confirmations go on as they were.
LEMMA OtherOperators ==
  ASSUME CleanupInvariant, NEW a \in Operator, OperatorStep(a), Lasting, audited \subseteq audited',
         NEW b \in Operator, b # a
  PROVE  OperatorOK(b)'
<1>1. /\ opc'[b] = opc[b] /\ orun'[b] = orun[b] /\ oids'[b] = oids[b]
      /\ todo'[b] = todo[b] /\ item'[b] = item[b] /\ UNCHANGED <<wpc, left>>
  BY DEF OperatorStep, OpenRun, OpenRecord, ListRecords, ReadRecord, Audit, Resolve, AllResolved,
    ConfirmRun, ConfirmationFails, Back, workerVars, CleanupInvariant, Types
<1> QED BY <1>1, OperatorFrame

\* The confirmation that takes a step.
LEMMA OperatorSelf ==
  ASSUME CleanupInvariant, NEW a \in Operator, OperatorStep(a), Lasting
  PROVE  OperatorOK(a)'
<1> USE DEF storeVars, workerVars, Confirming, Unstarted
<1>1. /\ OperatorOK(a) /\ DOMAIN opc = Operator /\ DOMAIN orun = Operator /\ DOMAIN item = Operator
      /\ oids \in [Operator -> SUBSET Thing] /\ todo \in [Operator -> SUBSET Thing]
  BY DEF CleanupInvariant, Types
<1>2. CASE Back(a)
  BY <1>1, <1>2 DEF Back, OperatorOK
<1>3. ASSUME NEW r \in Run, OpenRun(a, r) PROVE OperatorOK(a)'
  <2>1. /\ opc'[a] = "listing" /\ orun'[a] = r /\ oids'[a] = row[r].ids
        /\ UNCHANGED <<wpc, left>>
    BY <1>1, <1>3 DEF OpenRun
  <2>2. RunOK(r) BY DEF CleanupInvariant
  <2>3. oids'[a] # {} => oids'[a] = Captured(r) /\ wpc[r] \notin Unstarted
    BY <2>1, <2>2 DEF RunOK, Honest, Fresh
  <2> QED BY <2>1, <2>3 DEF OperatorOK, Captured
<1>4. ASSUME NEW o \in Object, OpenRecord(a, o) PROVE OperatorOK(a)'
  <2>1. o = <<o[1], o[2]>>
    <3>1. CASE o \in Run \X Thing BY <3>1
    <3>2. CASE o \in Seed BY <3>2, CleanupAssumption
    <3> QED BY <3>1, <3>2 DEF Object
  <2>2. oids[a] = {} BY <1>1, <1>4 DEF OpenRecord, OperatorOK
  <2>3. /\ opc'[a] = "each" /\ orun'[a] = o[1] /\ todo'[a] = {o[2]} /\ oids'[a] = {}
    BY <1>1, <1>4, <2>2 DEF OpenRecord
  <2> QED BY <2>1, <2>3 DEF OperatorOK
<1>5. CASE ListRecords(a) /\ ~Back(a)
  <2>1. /\ opc[a] = "listing" /\ opc'[a] = "each" /\ UNCHANGED <<orun, oids, wpc, left, ledger>>
        /\ todo'[a] = {t \in Thing : ledger[<<orun[a], t>>] # "none"}
        /\ oids[a] \subseteq todo'[a]
    BY <1>1, <1>5 DEF ListRecords
  <2> QED BY <1>1, <2>1 DEF OperatorOK, Captured, Object
<1>6. CASE ReadRecord(a) /\ ~Back(a)
  <2>1. PICK t \in todo[a] :
          /\ opc[a] = "each" /\ UNCHANGED <<orun, oids, wpc, left, ledger, audited>>
          /\ \/ /\ ledger[<<orun[a], t>>] = "completed" /\ todo'[a] = todo[a] \ {t}
                /\ UNCHANGED <<opc, item>>
             \/ opc'[a] = "audit" /\ item'[a] = t /\ UNCHANGED todo
    BY <1>1, <1>6 DEF ReadRecord
  <2> QED BY <1>1, <2>1 DEF OperatorOK, Captured
<1>7. CASE Audit(a)
  <2>1. /\ opc[a] = "audit" /\ opc'[a] = "resolve" /\ <<orun[a], item[a]>> \in audited'
        /\ UNCHANGED <<orun, oids, todo, item, wpc, left, ledger>>
    BY <1>1, <1>7 DEF Audit
  <2> QED BY <1>1, <2>1 DEF OperatorOK, Captured
<1>8. CASE Resolve(a)
  <2>1. /\ opc[a] = "resolve" /\ opc'[a] = "each" /\ todo'[a] = todo[a] \ {item[a]}
        /\ ledger' = [ledger EXCEPT ![<<orun[a], item[a]>>] = "completed"]
        /\ UNCHANGED <<orun, oids, wpc, left>>
    BY <1>1, <1>8 DEF Resolve
  <2>2. <<orun[a], item[a]>> \in Object BY <1>1, <2>1 DEF OperatorOK
  <2>3. \A t \in oids[a] : <<orun[a], t>> \in Object BY <1>1 DEF OperatorOK, Object
  <2>4. ledger'[<<orun[a], item[a]>>] = "completed"
        /\ \A t \in oids[a] : ledger[<<orun[a], t>>] = "completed" => ledger'[<<orun[a], t>>] = "completed"
    BY <2>1, <2>2, <2>3 DEF Lasting, CleanupInvariant, Types
  <2> QED BY <1>1, <2>1, <2>4 DEF OperatorOK, Captured
<1>9. CASE AllResolved(a) /\ ~Back(a)
  <2>1. /\ opc[a] = "each" /\ opc'[a] = "confirm" /\ todo[a] = {} /\ oids[a] # {}
        /\ UNCHANGED <<orun, oids, todo, item, wpc, left, ledger>>
    BY <1>1, <1>9 DEF AllResolved
  <2> QED BY <1>1, <2>1 DEF OperatorOK, Captured
<1> QED BY <1>2, <1>3, <1>4, <1>5, <1>6, <1>7, <1>8, <1>9 DEF OperatorStep, ConfirmRun, ConfirmationFails

\* The types after a step of a confirmation.
LEMMA OperatorTypes ==
  ASSUME CleanupInvariant, NEW a \in Operator, OperatorStep(a)
  PROVE  Types'
<1> USE DEF storeVars, workerVars, requestVars
<1>1. Types /\ oids[a] \in SUBSET Thing /\ todo[a] \in SUBSET Thing /\ orow[a] \in RowType
  BY DEF CleanupInvariant, Types
<1>2. [status |-> "none", owed |-> "none", ids |-> {}] \in RowType BY DEF RowType
<1>3. CASE Back(a) /\ UNCHANGED <<row, ledger, workerVars, requestVars>>
  BY <1>1, <1>2, <1>3 DEF Back, Types, Captured, NoRow
<1>4. CASE ConfirmRun(a)
  <2>1. [orow[a] EXCEPT !.owed = "manually_confirmed", !.ids = oids[a]] \in RowType
    BY <1>1, RowUpdate
  <2>2. row' \in [Run -> RowType]
    BY <1>1, <1>4, <2>1 DEF ConfirmRun, Types
  <2>3. orow' \in [Operator -> RowType] BY <1>1, <1>2, <1>4 DEF ConfirmRun, Back, Types, NoRow
  <2>4. UNCHANGED <<ledger, workerVars, requestVars>> BY <1>4 DEF ConfirmRun
  <2>5. /\ DOMAIN opc' = Operator /\ DOMAIN orun' = Operator /\ DOMAIN item' = Operator
        /\ oids' \in [Operator -> SUBSET Thing] /\ todo' \in [Operator -> SUBSET Thing]
    BY <1>1, <1>4 DEF ConfirmRun, Back, Types
  <2> QED BY <1>1, <2>2, <2>3, <2>4, <2>5 DEF Types, Captured
<1>5. ASSUME NEW r \in Run, OpenRun(a, r) PROVE Types'
  <2>1. row[r].ids \in SUBSET Thing BY <1>1 DEF Types, RowType
  <2> QED BY <1>1, <1>5, <2>1 DEF OpenRun, Types, Captured
<1>6. ASSUME NEW o \in Object, OpenRecord(a, o) PROVE Types'
  <2>1. o[2] \in Thing BY CleanupAssumption DEF Object, Thing
  <2> QED BY <1>1, <1>6, <2>1 DEF OpenRecord, Types, Captured
<1>7. CASE ListRecords(a) /\ ~Back(a)
  BY <1>1, <1>7 DEF ListRecords, Types, Captured
<1>8. CASE ReadRecord(a) /\ ~Back(a)
  BY <1>1, <1>8 DEF ReadRecord, Types, Captured
<1>9. CASE Audit(a) \/ Resolve(a)
  BY <1>1, <1>9 DEF Audit, Resolve, Types, Captured
<1>10. CASE AllResolved(a) /\ ~Back(a)
  <2>1. oids[a] # {} => row[orun[a]] \in RowType BY <1>1 DEF Types, CleanupInvariant, OperatorOK
  <2>2. /\ orow' = [orow EXCEPT ![a] = row[orun[a]]] /\ oids[a] # {}
        /\ UNCHANGED <<row, ledger, workerVars, requestVars, orun, oids, todo, item>>
        /\ DOMAIN opc' = Operator
    BY <1>1, <1>10 DEF AllResolved, Types
  <2> QED BY <1>1, <2>1, <2>2 DEF Types, Captured
<1>11. ASSUME ListRecords(a) \/ ReadRecord(a) \/ AllResolved(a) \/ ConfirmationFails(a), Back(a) PROVE Types'
  <2>1. UNCHANGED <<row, ledger, workerVars, requestVars>>
    BY <1>11 DEF ListRecords, ReadRecord, AllResolved, ConfirmationFails
  <2> QED BY <1>3, <1>11, <2>1
<1> QED BY <1>4, <1>5, <1>6, <1>7, <1>8, <1>9, <1>10, <1>11 DEF OperatorStep, ConfirmationFails

-----------------------------------------------------------------------------
\* The invariant holds in every reachable state: rows of runs never say more
\* than the ledger, whoever writes them back (run-store.ts, execution-recovery.ts).
THEOREM CleanupSafety == Spec => []CleanupInvariant
<1>1. Init => CleanupInvariant
  <2> SUFFICES ASSUME Init PROVE CleanupInvariant OBVIOUS
  <2>1. [status |-> "none", owed |-> "none", ids |-> {}] \in RowType BY DEF RowType
  <2>2. \A r \in Run : Captured(r) = {} BY DEF Init, Nothing, Captured
  <2>3. Types BY <2>1, <2>2 DEF Init, Types, NoRow, Object
  <2>4. \A r \in Run : RunOK(r)
    BY <2>2, CleanupAssumption DEF Init, RunOK, Honest, Fresh, NoRow, Early, NoRun
  <2>5. \A a \in Operator : OperatorOK(a) BY DEF Init, OperatorOK, Confirming
  <2>6. Attested BY DEF Init, Attested
  <2> QED BY <2>3, <2>4, <2>5, <2>6 DEF CleanupInvariant
<1>2. CleanupInvariant /\ [Next]_vars => CleanupInvariant'
  <2> SUFFICES ASSUME CleanupInvariant, [Next]_vars PROVE CleanupInvariant' OBVIOUS
  <2>1. Lasting /\ audited \subseteq audited' /\ Attested' BY LedgerSteps
  <2>2. ASSUME NEW r \in Run, RequestStep(r) \/ WorkerStep(r) PROVE CleanupInvariant'
    BY <2>1, <2>2, RequestStepOK, WorkerStepOK DEF CleanupInvariant
  <2>3. ASSUME NEW a \in Operator, OperatorStep(a) PROVE CleanupInvariant'
    <3>1. \A b \in Operator : OperatorOK(b)' BY <2>1, <2>3, OperatorSelf, OtherOperators
    <3> QED BY <2>1, <2>3, <3>1, OperatorRuns, OperatorTypes DEF CleanupInvariant
  <2>4. CASE InitializeLedger \/ Reconfigure \/ UNCHANGED vars
    <3>1. UNCHANGED <<row, workerVars, requestVars, operatorVars, slot>>
      BY <2>4 DEF InitializeLedger, Reconfigure, vars, storeVars
    <3>2. \A r \in Run : RunOK(r)' BY <2>1, <3>1, RunFrame DEF workerVars, requestVars
    <3>3. \A a \in Operator : OperatorOK(a)' BY <2>1, <3>1, OperatorFrame DEF workerVars, operatorVars
    <3>4. ledger' \in [Object -> {"none", "completed", "pending", "cleanup_unavailable"}]
      BY <2>4 DEF InitializeLedger, Reconfigure, Snapshot, vars, storeVars, CleanupInvariant, Types
    <3>5. Types'
      BY <3>1, <3>4 DEF CleanupInvariant, Types, Captured, workerVars, requestVars, operatorVars
    <3> QED BY <2>1, <3>2, <3>3, <3>5 DEF CleanupInvariant
  <2> QED BY <2>2, <2>3, <2>4 DEF Next
<1> QED BY <1>1, <1>2, PTL DEF Spec

\* No object that evidence or configuration names is lost to the gate before an
\* administrator has attested its deletion (cleanup-ledger.ts).
THEOREM ObligationKeptHolds == Spec => []ObligationKept
<1>1. CleanupInvariant => ObligationKept
  <2> SUFFICES ASSUME CleanupInvariant, NEW o \in Object \ audited, o \notin Open(ledger)
               PROVE  o \notin Seed /\ (o[2] \in Captured(o[1]) => RunIssue(ledger, row, o[1]))
    BY DEF ObligationKept, Captured
  <2>1. ledger[o] \in {"none", "pending", "cleanup_unavailable"}
    BY DEF CleanupInvariant, Types, Attested
  <2>2. ledger[o] = "none" /\ o \notin Seed
    BY <2>1 DEF Open, Snapshot, Unresolved
  <2>3. o[1] \in Run /\ o = <<o[1], o[2]>> BY <2>2 DEF Object
  <2>4. ASSUME o[2] \in Captured(o[1]) PROVE RunIssue(ledger, row, o[1])
    <3>1. Honest(row[o[1]], o[1], Captured(o[1]), ledger)
      BY <2>3 DEF CleanupInvariant, RunOK
    <3>2. ledger[<<o[1], o[2]>>] = "none" BY <2>2, <2>3
    <3> QED BY <2>4, <3>1, <3>2 DEF Honest, RunIssue
  <2> QED BY <2>2, <2>4
<1> QED BY <1>1, CleanupSafety, PTL

\* Resolutions last, have their audit event, and a run is confirmed only with
\* every object of its evidence completed (manual-cleanup.ts, cleanup/route.ts).
THEOREM ResolutionEarnedHolds == Spec => ResolutionEarned
<1>1. CleanupInvariant /\ CleanupInvariant' /\ [Next]_vars =>
        [/\ \A o \in Object : ledger[o] = "completed" => ledger'[o] = "completed"
         /\ \A o \in Object : ledger'[o] = "completed" => o \in audited'
         /\ \A r \in Run : row'[r].owed = "manually_confirmed" =>
              \A t \in left[r].captured : ledger[<<r, t>>] = "completed"]_vars
  <2> SUFFICES ASSUME CleanupInvariant, CleanupInvariant', [Next]_vars
               PROVE  /\ Lasting
                      /\ \A o \in Object : ledger'[o] = "completed" => o \in audited'
                      /\ \A r \in Run : row'[r].owed = "manually_confirmed" =>
                           \A t \in left[r].captured : ledger[<<r, t>>] = "completed"
    BY DEF Lasting
  <2>1. Lasting /\ Attested' BY LedgerSteps
  <2>2. ASSUME NEW r \in Run, row'[r].owed = "manually_confirmed", NEW t \in Captured(r)
        PROVE  ledger[<<r, t>>] = "completed"
    <3>1. Honest(row[r], r, Captured(r), ledger) /\ RunOK(r) BY DEF CleanupInvariant, RunOK
    <3>2. CASE row'[r].owed = row[r].owed BY <2>2, <3>1, <3>2 DEF Honest, Unresolved
    <3>3. CASE UNCHANGED ledger
      <4>1. Honest(row'[r], r, Captured(r)', ledger) BY <3>3 DEF CleanupInvariant, RunOK
      <4>2. ledger[<<r, t>>] = "completed" \/ Captured(r)' # Captured(r)
        BY <2>2, <4>1 DEF Honest, Unresolved
      <4>3. ASSUME Captured(r)' # Captured(r) PROVE row' = row
        BY <4>3 DEF Next, RequestStep, CheckActive, ReadLedger, ReadRuns, Judge, CreateRun, Enqueue,
          WorkerStep, Campaign, AssertOwned, ReadRow, PublishCleanup, PersistLedger, EndRun,
          CompleteJob, PublicationFails, Recover, ReconcileRead, ReconcileWrite, OperatorStep,
          OpenRun, OpenRecord, ListRecords, ReadRecord, Audit, Resolve, AllResolved, ConfirmRun,
          ConfirmationFails, InitializeLedger, Reconfigure, vars, workerVars, storeVars, Captured
      <4> QED BY <3>2, <4>2, <4>3
    <3>4. CASE ~UNCHANGED ledger
      <4>1. row' = row
        BY <3>4 DEF Next, RequestStep, CheckActive, ReadLedger, ReadRuns, Judge, CreateRun, Enqueue,
          WorkerStep, Campaign, AssertOwned, ReadRow, PublishCleanup, PersistLedger, EndRun,
          CompleteJob, PublicationFails, Recover, ReconcileRead, ReconcileWrite, OperatorStep,
          OpenRun, OpenRecord, ListRecords, ReadRecord, Audit, Resolve, AllResolved, ConfirmRun,
          ConfirmationFails, InitializeLedger, Reconfigure, vars, workerVars, storeVars
      <4> QED BY <3>2, <4>1
    <3> QED BY <3>3, <3>4
  <2> QED BY <2>1, <2>2 DEF Attested, Captured
<1> QED BY <1>1, CleanupSafety, PTL DEF Spec, ResolutionEarned

-----------------------------------------------------------------------------
(* What a request has read, and what it was admitted with, until its run   *)
(* is queued, unless a campaign has overtaken it: stalled workers,         *)
(* administrators and starting workers may do what they like.              *)

\* l is the ledger m as it was before records were completed, configured ones
\* were added and objects of campaigns that have ended were recorded.
Earlier(l, m) ==
  \A o \in Object :
    \/ m[o] \in {l[o], Snapshot(l)[o], "completed"}
    \/ l[o] = "none" /\ o \in Run \X Thing /\ o[2] \in Captured(o[1])

\* Every object that the evidence of a campaign names is in the ledger.
Recorded == \A p \in Run : \A t \in Captured(p) : ledger[<<p, t>>] # "none"

RequestOK(r) ==
  /\ qpc[r] = "idle" => seenLedger[r] = NoLedger /\ seenRows[r] = NoRows
  /\ qpc[r] = "reading" /\ seenLedger[r] # NoLedger => Earlier(seenLedger[r], ledger)
  /\ qpc[r] = "reading" /\ seenRows[r] # NoRows =>
       \A p \in Run : Honest(seenRows[r][p], p, Captured(p), ledger)
  /\ qpc[r] \in {"admitted", "created"} /\ "manual" \notin granted[r] =>
       Cardinality(Open(ledger)) < Limit /\ Recorded

RequestInvariant ==
  /\ DOMAIN seenLedger = Run /\ DOMAIN seenRows = Run /\ DOMAIN granted = Run
  /\ \A r \in Run \ overtaken : RequestOK(r)

\* What a step does to one record.
LEMMA LedgerChange ==
  ASSUME CleanupInvariant, [Next]_vars, NEW o \in Object
  PROVE  \/ ledger'[o] \in {ledger[o], "completed"}
         \/ ledger[o] = "none" /\ o \in Seed /\ ledger'[o] = "cleanup_unavailable"
         \/ ledger[o] = "none" /\ o \in Run \X Thing /\ o[2] \in Captured(o[1])
<1> USE DEF CleanupInvariant, Types
<1>1. CASE UNCHANGED ledger
  BY <1>1
<1>2. ASSUME NEW r \in Run, PersistLedger(r), ledger' # ledger, ledger'[o] # ledger[o]
      PROVE  ledger[o] = "none" /\ o \in Run \X Thing /\ o[2] \in Captured(o[1])
  <2>1. PICK t \in Captured(r) : ledger[<<r, t>>] = "none" /\ ledger' = [ledger EXCEPT ![<<r, t>>] = Owes(r)]
    BY <1>2 DEF PersistLedger, Captured
  <2>2. o = <<r, t>> BY <1>2, <2>1
  <2> QED BY <2>1, <2>2
<1>3. CASE InitializeLedger
  BY <1>3 DEF InitializeLedger, Snapshot
<1>4. ASSUME NEW a \in Operator, Resolve(a) PROVE ledger'[o] \in {ledger[o], "completed"}
  BY <1>4 DEF Resolve
<1>5. CASE Reconfigure \/ UNCHANGED vars
  BY <1>5, <1>1 DEF Reconfigure, vars, storeVars
<1>6. ASSUME NEW r \in Run, RequestStep(r) PROVE UNCHANGED ledger
  BY <1>6 DEF RequestStep, CheckActive, ReadLedger, ReadRuns, Judge, CreateRun, Enqueue, storeVars
<1>7. ASSUME NEW r \in Run, WorkerStep(r) PROVE UNCHANGED ledger \/ PersistLedger(r)
  BY <1>7 DEF WorkerStep, Campaign, AssertOwned, ReadRow, PublishCleanup, EndRun, CompleteJob,
    PublicationFails, Recover, ReconcileRead, ReconcileWrite, storeVars
<1>8. ASSUME NEW a \in Operator, OperatorStep(a) PROVE UNCHANGED ledger \/ Resolve(a)
  BY <1>8 DEF OperatorStep, OpenRun, OpenRecord, ListRecords, ReadRecord, Audit, AllResolved,
    ConfirmRun, ConfirmationFails, storeVars
<1> QED BY <1>1, <1>2, <1>3, <1>4, <1>5, <1>6, <1>7, <1>8 DEF Next

\* A campaign overtakes every request that is underway.
LEMMA CampaignsOvertake ==
  ASSUME [Next]_vars, NEW r \in Run, r \notin overtaken'
  PROVE  /\ r \notin overtaken
         /\ r \in Underway => left' = left
<1> USE DEF Next, RequestStep, CheckActive, ReadLedger, ReadRuns, Judge, CreateRun, Enqueue,
    WorkerStep, AssertOwned, ReadRow, PublishCleanup, PersistLedger, EndRun,
    CompleteJob, PublicationFails, Recover, ReconcileRead, ReconcileWrite, OperatorStep,
    OpenRun, OpenRecord, ListRecords, ReadRecord, Audit, Resolve, AllResolved, ConfirmRun,
    ConfirmationFails, InitializeLedger, Reconfigure, vars, workerVars, requestVars
<1>1. CASE \E p \in Run : Campaign(p)
  BY <1>1 DEF Campaign
<1>2. CASE ~\E p \in Run : Campaign(p)
  BY <1>2
<1> QED BY <1>1, <1>2

LEMMA ObjectsFinite == IsFiniteSet(Object)
<1>1. IsFiniteSet(Run \X Thing) BY CleanupAssumption, FS_Product DEF Thing
<1> QED BY <1>1, CleanupAssumption, FS_Union DEF Object

LEMMA LimitNat == Limit \in Nat
BY CleanupAssumption

\* Fewer open objects keep the gate's count below the limit.
LEMMA FewerOpen ==
  ASSUME NEW l, NEW m, Open(m) \subseteq Open(l), ~(Cardinality(Open(l)) >= Limit)
  PROVE  Cardinality(Open(m)) < Limit
<1>1. IsFiniteSet(Open(l)) /\ IsFiniteSet(Open(m))
  <2>1. Open(l) \in SUBSET Object /\ Open(m) \in SUBSET Object BY DEF Open
  <2> QED BY <2>1, ObjectsFinite, FS_Subset
<1>2. Cardinality(Open(l)) \in Nat /\ Cardinality(Open(m)) \in Nat
  BY <1>1, FS_CardinalityType
<1>3. Cardinality(Open(m)) <= Cardinality(Open(l)) BY <1>1, FS_Subset
<1> QED BY <1>2, <1>3, LimitNat

\* A configured record is of no run.
LEMMA SeedsApart == ASSUME NEW o \in Seed PROVE o \notin Run \X Thing
BY CleanupAssumption

\* What a request has read stays earlier, whatever else takes a step.
LEMMA EarlierStays ==
  ASSUME CleanupInvariant, [Next]_vars, left' = left, NEW l, Earlier(l, ledger)
  PROVE  Earlier(l, ledger')
<1> SUFFICES ASSUME NEW o \in Object
             PROVE  \/ ledger'[o] \in {l[o], Snapshot(l)[o], "completed"}
                    \/ l[o] = "none" /\ o \in Run \X Thing /\ o[2] \in Captured(o[1])
  BY DEF Earlier
<1>1. \/ ledger[o] \in {l[o], Snapshot(l)[o], "completed"}
      \/ l[o] = "none" /\ o \in Run \X Thing /\ o[2] \in Captured(o[1])
  BY DEF Earlier
<1>2. Snapshot(l)[o] = IF l[o] = "none" /\ o \in Seed THEN "cleanup_unavailable" ELSE l[o]
  BY DEF Snapshot
<1>3. ledger[o] = "completed" => ledger'[o] = "completed"
  BY LedgerSteps DEF Lasting
<1> QED BY <1>1, <1>2, <1>3, LedgerChange, SeedsApart

\* What a request was admitted with stays true, too.
LEMMA AdmittedStays ==
  ASSUME CleanupInvariant, [Next]_vars, left' = left, Cardinality(Open(ledger)) < Limit, Recorded
  PROVE  Cardinality(Open(ledger')) < Limit /\ Recorded'
<1>1. ASSUME NEW o \in Object
      PROVE  \/ ledger'[o] \in {ledger[o], "completed"}
             \/ ledger[o] = "none" /\ o \in Seed /\ ledger'[o] = "cleanup_unavailable"
  BY LedgerChange DEF Recorded
<1>2. Open(ledger') \subseteq Open(ledger)
  <2> SUFFICES ASSUME NEW o \in Object, Snapshot(ledger')[o] \in Unresolved
               PROVE  Snapshot(ledger)[o] \in Unresolved
    BY DEF Open
  <2> QED BY <1>1 DEF Snapshot, Unresolved
<1>3. ~(Cardinality(Open(ledger)) >= Limit)
  <2>1. Open(ledger) \in SUBSET Object BY DEF Open
  <2>2. Cardinality(Open(ledger)) \in Nat BY <2>1, ObjectsFinite, FS_Subset, FS_CardinalityType
  <2> QED BY <2>2, LimitNat
<1>4. Cardinality(Open(ledger')) < Limit BY <1>2, <1>3, FewerOpen
<1>5. ASSUME NEW p \in Run, NEW t \in Captured(p) PROVE ledger'[<<p, t>>] # "none"
  <2>1. <<p, t>> \in Object BY DEF CleanupInvariant, Types, Object
  <2> QED BY <1>1, <2>1 DEF Recorded
<1> QED BY <1>4, <1>5 DEF Recorded, Captured

\* A gate that finds no backlog in what it has read, at two times, finds the
\* ledger as it is below the limit and every object recorded.
LEMMA GateTells ==
  ASSUME CleanupInvariant, NEW l, NEW rows, Earlier(l, ledger),
         \A p \in Run : Honest(rows[p], p, Captured(p), ledger),
         Passes(l, rows), "manual" \notin policy
  PROVE  Cardinality(Open(ledger)) < Limit /\ Recorded
<1>1. (\A p \in Run : ~RunIssue(l, rows, p)) /\ ~(Cardinality(Open(l)) >= Limit)
  BY DEF Passes, Backlog
<1>2. ASSUME NEW p \in Run, NEW t \in Captured(p)
      PROVE  ledger[<<p, t>>] = "completed" \/ l[<<p, t>>] # "none"
  BY <1>1, <1>2 DEF Honest, RunIssue
<1>3. ASSUME NEW o \in Object, ledger[o] # "completed"
      PROVE  ledger[o] \in {l[o], Snapshot(l)[o]}
  <2>1. CASE l[o] = "none" /\ o \in Run \X Thing /\ o[2] \in Captured(o[1])
    BY <1>2, <1>3, <2>1
  <2> QED BY <1>3, <2>1 DEF Earlier
<1>4. Open(ledger) \subseteq Open(l)
  <2> SUFFICES ASSUME NEW o \in Object, Snapshot(ledger)[o] \in Unresolved
               PROVE  Snapshot(l)[o] \in Unresolved
    BY DEF Open
  <2> QED BY <1>3 DEF Snapshot, Unresolved
<1>5. Recorded
  <2> SUFFICES ASSUME NEW p \in Run, NEW t \in Captured(p) PROVE ledger[<<p, t>>] # "none"
    BY DEF Recorded
  <2>1. <<p, t>> \in Object BY DEF CleanupInvariant, Types, Object
  <2> QED BY <1>2, <1>3, <2>1 DEF Snapshot
<1> QED BY <1>1, <1>4, <1>5, FewerOpen

\* A request that takes no step.
LEMMA RequestFrame ==
  ASSUME CleanupInvariant, [Next]_vars, NEW r \in Run, r \notin overtaken', RequestOK(r),
         qpc'[r] = qpc[r], seenLedger'[r] = seenLedger[r], seenRows'[r] = seenRows[r],
         granted'[r] = granted[r]
  PROVE  RequestOK(r)'
<1>1. CASE r \notin Underway
  BY <1>1 DEF RequestOK, Underway
<1>2. CASE r \in Underway
  <2>1. left' = left BY <1>2, CampaignsOvertake
  <2>2. Earlier(seenLedger[r], ledger) => Earlier(seenLedger[r], ledger)'
    <3>1. Earlier(seenLedger[r], ledger) => Earlier(seenLedger[r], ledger')
      BY <2>1, EarlierStays
    <3> QED BY <2>1, <3>1 DEF Earlier, Captured, Snapshot
  <2>3. ASSUME NEW p \in Run, Honest(seenRows[r][p], p, Captured(p), ledger)
        PROVE  Honest(seenRows'[r][p], p, Captured(p)', ledger')
    <3>1. Captured(p) \in SUBSET Thing BY DEF CleanupInvariant, Types
    <3>2. Honest(seenRows[r][p], p, Captured(p), ledger')
      BY <2>3, <3>1, HonestStays, LedgerSteps DEF Lasting
    <3> QED BY <2>1, <3>2 DEF Captured
  <2>4. Cardinality(Open(ledger)) < Limit /\ Recorded => Cardinality(Open(ledger')) < Limit /\ Recorded'
    BY <2>1, AdmittedStays
  <2>5. Cardinality(Open(ledger)) < Limit /\ Recorded =>
          (Cardinality(Open(ledger)) < Limit /\ Recorded)'
    BY <2>4 DEF Open, Snapshot
  <2> QED BY <2>2, <2>3, <2>5 DEF RequestOK
<1> QED BY <1>1, <1>2

\* A request that takes a step.
LEMMA RequestSelf ==
  ASSUME CleanupInvariant, RequestInvariant, NEW r \in Run \ overtaken, RequestStep(r)
  PROVE  RequestOK(r)'
<1> USE DEF storeVars, workerVars
<1>1. /\ RequestOK(r) /\ DOMAIN qpc = Run /\ DOMAIN seenLedger = Run /\ DOMAIN seenRows = Run
      /\ DOMAIN granted = Run
  BY DEF RequestInvariant, CleanupInvariant, Types
<1>2. CASE CheckActive(r)
  <2>1. /\ qpc[r] = "idle" /\ qpc'[r] \in {"reading", "refused"}
        /\ seenLedger' = seenLedger /\ seenRows' = seenRows
    BY <1>1, <1>2 DEF CheckActive
  <2> QED BY <1>1, <2>1 DEF RequestOK
<1>3. CASE ReadLedger(r)
  <2>1. /\ qpc[r] = "reading" /\ qpc' = qpc /\ seenLedger'[r] = ledger /\ seenRows' = seenRows
        /\ UNCHANGED <<ledger, left>>
    BY <1>1, <1>3 DEF ReadLedger
  <2>2. Earlier(seenLedger[r], ledger)' BY <2>1 DEF Earlier
  <2> QED BY <1>1, <2>1, <2>2 DEF RequestOK, Captured
<1>4. CASE ReadRuns(r)
  <2>1. /\ qpc[r] = "reading" /\ qpc' = qpc /\ seenRows'[r] = row /\ seenLedger' = seenLedger
        /\ UNCHANGED <<ledger, left>>
    BY <1>1, <1>4 DEF ReadRuns
  <2>2. \A p \in Run : Honest(row[p], p, Captured(p), ledger) BY DEF CleanupInvariant, RunOK
  <2> QED BY <1>1, <2>1, <2>2 DEF RequestOK, Captured, Earlier, Snapshot
<1>5. CASE Judge(r)
  <2>1. /\ qpc[r] = "reading" /\ seenLedger[r] # NoLedger /\ seenRows[r] # NoRows
        /\ UNCHANGED <<ledger, left>>
        /\ \/ Passes(seenLedger[r], seenRows[r]) /\ qpc'[r] = "admitted" /\ granted'[r] = policy
           \/ qpc'[r] = "refused"
    BY <1>1, <1>5 DEF Judge
  <2>2. CASE qpc'[r] = "refused" BY <2>2 DEF RequestOK
  <2>3. CASE qpc'[r] = "admitted" /\ granted'[r] = policy /\ Passes(seenLedger[r], seenRows[r])
    <3>1. "manual" \notin policy => Cardinality(Open(ledger)) < Limit /\ Recorded
      BY <1>1, <2>1, <2>3, GateTells DEF RequestOK
    <3> QED BY <2>1, <2>3, <3>1 DEF RequestOK, Recorded, Captured, Open, Snapshot
  <2> QED BY <2>1, <2>2, <2>3
<1>6. CASE CreateRun(r) \/ Enqueue(r)
  <2>1. /\ qpc[r] \in {"admitted", "created"} /\ qpc'[r] \in {"created", "queued", "refused"}
        /\ UNCHANGED <<ledger, left, granted>>
    BY <1>1, <1>6 DEF CreateRun, Enqueue
  <2> QED BY <1>1, <2>1 DEF RequestOK, Recorded, Captured, Open, Snapshot
<1> QED BY <1>2, <1>3, <1>4, <1>5, <1>6 DEF RequestStep

\* What requests have read and were admitted with, in every reachable state: the
\* two reads of the gate lie apart, and the decision before the run is queued
\* (live-campaigns.ts).
THEOREM RequestSafety == Spec => []RequestInvariant
<1>1. Init => RequestInvariant
  BY DEF Init, RequestInvariant, RequestOK
<1>2. CleanupInvariant /\ RequestInvariant /\ [Next]_vars => RequestInvariant'
  <2> SUFFICES ASSUME CleanupInvariant, RequestInvariant, [Next]_vars PROVE RequestInvariant' OBVIOUS
  <2>1. DOMAIN seenLedger' = Run /\ DOMAIN seenRows' = Run /\ DOMAIN granted' = Run
    BY DEF RequestInvariant, Next, RequestStep, CheckActive, ReadLedger, ReadRuns, Judge, CreateRun,
      Enqueue, WorkerStep, Campaign, AssertOwned, ReadRow, PublishCleanup, PersistLedger, EndRun,
      CompleteJob, PublicationFails, Recover, ReconcileRead, ReconcileWrite, OperatorStep,
      OpenRun, OpenRecord, ListRecords, ReadRecord, Audit, Resolve, AllResolved, ConfirmRun,
      ConfirmationFails, InitializeLedger, Reconfigure, vars, requestVars
  <2>2. ASSUME NEW r \in Run, RequestStep(r), NEW p \in Run \ overtaken' PROVE RequestOK(p)'
    <3>0. p \notin overtaken BY <2>2, CampaignsOvertake
    <3>1. CASE p = r BY <2>2, <3>0, <3>1, RequestSelf
    <3>2. CASE p # r
      <4>1. /\ qpc'[p] = qpc[p] /\ seenLedger'[p] = seenLedger[p] /\ seenRows'[p] = seenRows[p]
            /\ granted'[p] = granted[p]
        BY <2>2, <3>2 DEF RequestInvariant, CleanupInvariant, Types, RequestStep, CheckActive,
          ReadLedger, ReadRuns, Judge, CreateRun, Enqueue
      <4> QED BY <2>2, <3>0, <4>1, RequestFrame DEF RequestInvariant
    <3> QED BY <3>1, <3>2
  <2>3. ASSUME UNCHANGED <<granted, qpc, seenLedger, seenRows>>, NEW p \in Run \ overtaken'
        PROVE  RequestOK(p)'
    <3>1. p \notin overtaken BY <2>3, CampaignsOvertake
    <3> QED BY <2>3, <3>1, RequestFrame DEF RequestInvariant
  <2>4. ASSUME NEW r \in Run, WorkerStep(r) PROVE UNCHANGED <<granted, qpc, seenLedger, seenRows>>
    BY <2>4, WorkerFrame
  <2>5. ASSUME NEW a \in Operator, OperatorStep(a) PROVE UNCHANGED <<granted, qpc, seenLedger, seenRows>>
    BY <2>5 DEF requestVars, OperatorStep, OpenRun, OpenRecord, ListRecords, ReadRecord, Audit, Resolve,
      AllResolved, ConfirmRun, ConfirmationFails
  <2>6. CASE InitializeLedger \/ Reconfigure \/ UNCHANGED vars
    BY <2>3, <2>6, <2>1 DEF InitializeLedger, Reconfigure, vars, requestVars, RequestInvariant
  <2> QED BY <2>1, <2>2, <2>3, <2>4, <2>5, <2>6 DEF Next, RequestInvariant
<1> QED BY <1>1, <1>2, CleanupSafety, PTL DEF Spec

\* A campaign starts, in enforced mode, with fewer unresolved objects than the
\* limit and every object of earlier evidence in the ledger, although the gate
\* decided before, on two reads at different times (live-campaigns.ts).
THEOREM StartsAccountedHolds == Spec => StartsAccounted
<1>1. RequestInvariant /\ [Next]_vars =>
        [\A r \in Run \ overtaken : slot' = r /\ slot # r /\ "manual" \notin granted[r] =>
           /\ Cardinality(Open(ledger)) < Limit
           /\ \A p \in Run : \A t \in left[p].captured : ledger[<<p, t>>] # "none"]_vars
  <2> SUFFICES ASSUME RequestInvariant, [Next]_vars,
                      NEW r \in Run \ overtaken, slot' = r, slot # r, "manual" \notin granted[r]
               PROVE  /\ Cardinality(Open(ledger)) < Limit
                      /\ \A p \in Run : \A t \in left[p].captured : ledger[<<p, t>>] # "none"
    OBVIOUS
  <2>1. r # NoRun BY CleanupAssumption DEF NoRun
  <2>2. Enqueue(r)
    <3>1. ASSUME NEW p \in Run, RequestStep(p) PROVE Enqueue(r)
      BY <3>1 DEF RequestStep, CheckActive, ReadLedger, ReadRuns, Judge, CreateRun, Enqueue, storeVars
    <3>2. ASSUME NEW p \in Run, WorkerStep(p) PROVE slot' \in {slot, NoRun}
      BY <3>2 DEF WorkerStep, Campaign, AssertOwned, ReadRow, PublishCleanup, PersistLedger, EndRun,
        CompleteJob, PublicationFails, Recover, ReconcileRead, ReconcileWrite, storeVars
    <3>3. ASSUME NEW a \in Operator, OperatorStep(a) PROVE slot' = slot
      BY <3>3 DEF OperatorStep, OpenRun, OpenRecord, ListRecords, ReadRecord, Audit, Resolve,
        AllResolved, ConfirmRun, ConfirmationFails, storeVars
    <3>4. CASE InitializeLedger \/ Reconfigure \/ UNCHANGED vars
      BY <3>4 DEF InitializeLedger, Reconfigure, vars, storeVars
    <3> QED BY <2>1, <3>1, <3>2, <3>3, <3>4 DEF Next
  <2>3. qpc[r] = "created" BY <2>2 DEF Enqueue
  <2> QED BY <2>3 DEF RequestInvariant, RequestOK, Recorded, Captured
<1> QED BY <1>1, RequestSafety, PTL DEF Spec, StartsAccounted

=============================================================================
