-------------------------- MODULE Scheduler_proofs --------------------------
(***************************************************************************)
(* Proofs about the scheduler trigger, for any number of schedulers,       *)
(* occurrences and runs, and with every hazard: crashes, failing calls,    *)
(* lost replies and claims that outlive their lease.                       *)
(***************************************************************************)
EXTENDS Scheduler, TLAPS

-----------------------------------------------------------------------------
(* Type correctness; a row is written only by a scheduler that handles it. *)

Typed == TypeOK /\ HandlesOccurrence /\ AnswerKnown

LEMMA Numbers ==
  /\ LastOccurrence \in Nat /\ Lease \in Nat /\ MaxEdits \in Nat /\ ManualRuns \in Nat
  /\ 0 \in 0..LastOccurrence /\ 0 \in 0..Lease /\ 0 \in 0..MaxEdits
  /\ Occurrences \subseteq 0..LastOccurrence /\ 0 \notin Occurrences
  /\ \A n \in 0..LastOccurrence : n # 0 => n \in Occurrences
BY SchedulerAssumption DEF Occurrences

LEMMA Sets ==
  /\ Handling = {"reload", "reject", "list", "lookup", "create", "fail", "mark",
                 "byKey", "byActive", "insert"}
  /\ Reading = {"claim", "add", "takeover", "reread"}
  /\ Pc = {"off", "idle", "record"} \cup Handling \cup Reading
  /\ Settled = {"queued", "skipped"}
  /\ Status = {"none", "claimed", "failed", "queued", "skipped"}
  /\ Result = {"none", "deferred", "failed", "queued", "skipped"}
BY DEF Pc, Handling, Reading, Enqueuing, Settled, Status, Result

LEMMA TypeInvariance ==
  ASSUME Typed, [Next]_vars
  PROVE  Typed'
<1> USE DEF Typed, TypeOK, HandlesOccurrence, AnswerKnown, worldVars, rowVars, runVars, evalVars, callVars, Goto
<1>n. NoRun \in Runs \cup {NoRun}
  OBVIOUS
<1>1. ASSUME NEW s \in Schedulers, Start(s) \/ Record(s) PROVE Typed'
  BY <1>1, Numbers, Sets DEF Start, Record
<1>c. ASSUME NEW s \in Schedulers, Stop(s) \/ OwnershipLost(s) \/ RecordFault(s) \/ Crash(s)
      PROVE  Typed'
  <2>1. Clear(s) /\ pc' = [pc EXCEPT ![s] = "off"] /\ UNCHANGED <<worldVars, rowVars, runVars, owner>>
    BY <1>c DEF Stop, OwnershipLost, RecordFault, Crash
  <2> QED BY <2>1, Numbers, Sets DEF Clear
<1>2. ASSUME NEW s \in Schedulers, Evaluate(s) PROVE Typed'
  BY <1>2, Numbers, Sets DEF Evaluate, EvaluateWith
<1>3. ASSUME NEW s \in Schedulers, ReadClaim(s) \/ Reread(s) PROVE Typed'
  BY <1>3, Numbers, Sets DEF ReadClaim, Reread, Learn
<1>4. ASSUME NEW s \in Schedulers, AddClaim(s) \/ TakeOver(s) PROVE Typed'
  BY <1>4, Numbers, Sets DEF AddClaim, TakeOver, TakeRow, WriteRow
<1>5. ASSUME NEW s \in Schedulers, Reload(s) PROVE Typed'
  BY <1>5, Sets DEF Reload
<1>6. ASSUME NEW s \in Schedulers, Reject(s) PROVE Typed'
  BY <1>6, Numbers, Sets DEF Reject, WriteRow
<1>7. ASSUME NEW s \in Schedulers, ListRuns(s) PROVE Typed'
  BY <1>7, <1>n, Sets DEF ListRuns, Conclude, Answer
<1>8. ASSUME NEW s \in Schedulers, Lookup(s) PROVE Typed'
  BY <1>8, Sets DEF Lookup, Conclude, Answer
<1>9. ASSUME NEW s \in Schedulers, CreateRun(s) PROVE Typed'
  BY <1>9, Sets DEF CreateRun, Free
<1>10. ASSUME NEW s \in Schedulers, EnqueueByKey(s) \/ EnqueueByActive(s) PROVE Typed'
  BY <1>10, <1>n, Sets DEF EnqueueByKey, EnqueueByActive, Refused, Conclude, Answer
<1>11. ASSUME NEW s \in Schedulers, Insert(s) PROVE Typed'
  BY <1>11, <1>n, Sets DEF Insert, AddJob, Refused, Conclude, Answer
<1>12. ASSUME NEW s \in Schedulers, FailStartup(s) PROVE Typed'
  <2>0. pc[s] = "fail"
    BY <1>12 DEF FailStartup
  <2>1. result[s] = "deferred" \/ result[s] = "failed"
    BY <2>0
  <2>2. run' \in [Runs -> {"none", "open", "ended"}]
    BY <1>12 DEF FailStartup
  <2>3. CASE result[s] = "deferred"
    BY <1>12, <2>2, <2>3, <1>n, Sets DEF FailStartup, Conclude, Answer
  <2>4. CASE result[s] = "failed"
    BY <1>12, <2>2, <2>4, <1>n, Sets DEF FailStartup, Conclude, Answer
  <2> QED BY <2>1, <2>3, <2>4
<1>13. ASSUME NEW s \in Schedulers, Mark(s) PROVE Typed'
  <2>0. pc[s] = "mark"
    BY <1>13 DEF Mark
  <2>1. result[s] \in {"failed", "queued", "skipped"} /\ at[s] \in 0..LastOccurrence
    BY <2>0
  <2>2. /\ status' \in [Occurrences -> Status] /\ age' \in [Occurrences -> 0..Lease]
        /\ runId' \in [Occurrences -> Runs \cup {NoRun}] /\ current' \subseteq Schedulers
        /\ terminal' \in [Schedulers -> 0..LastOccurrence]
    BY <1>13, <2>1, Numbers, Sets DEF Mark, WriteRow
  <2>3. pc' \in [Schedulers -> Pc] /\ \A t \in Schedulers : pc'[t] # pc[t] => pc'[t] = "record"
    BY <1>13, Sets DEF Mark
  <2> QED BY <1>13, <2>2, <2>3, Sets DEF Mark
<1>14. ASSUME NEW s \in Schedulers, Fault(s) \/ EnqueueFault(s) PROVE Typed'
  BY <1>14, <1>n, Sets DEF Fault, EnqueueFault, Answer, Refused, Enqueuing, Conclude
<1>15. ASSUME NEW s \in Schedulers, CreateReplyLost(s) \/ InsertReplyLost(s) PROVE Typed'
  BY <1>15, <1>n, Sets DEF CreateReplyLost, InsertReplyLost, AddJob, Refused, Free, Conclude, Answer
<1>16. ASSUME FallDue \/ Edit \/ ManualRun PROVE Typed'
  BY <1>16, Numbers DEF FallDue, Edit, ManualRun, Free
<1>17. ASSUME NEW o \in Occurrences, Age(o) PROVE Typed'
  BY <1>17, Numbers DEF Age
<1>18. ASSUME NEW r \in Runs, EndRun(r) \/ CompleteJob(r) PROVE Typed'
  BY <1>18 DEF EndRun, CompleteJob
<1>19. CASE UNCHANGED vars
  BY <1>19 DEF vars
<1> QED
  BY <1>1, <1>c, <1>2, <1>3, <1>4, <1>5, <1>6, <1>7, <1>8, <1>9, <1>10, <1>11, <1>12, <1>13,
     <1>14, <1>15, <1>16, <1>17, <1>18, <1>19 DEF Next, Work, Disturbance

-----------------------------------------------------------------------------
(* The jobs: keys stay unique, and a job of an occurrence never goes away. *)

JobsKept ==
  \A r \in Runs : job[r] # "none" /\ key[r] # 0 => job'[r] # "none" /\ key'[r] = key[r]

LEMMA JobsInvariance ==
  ASSUME EnqueueInvariant, [Next]_vars
  PROVE  KeysOfJobs' /\ OneJobPerOccurrence' /\ JobsKept
<1> USE DEF EnqueueInvariant, KeysOfJobs, OneJobPerOccurrence, JobsKept
<1>1. ASSUME NEW s \in Schedulers, Insert(s) \/ InsertReplyLost(s)
      PROVE  KeysOfJobs' /\ OneJobPerOccurrence' /\ JobsKept
  <2>1. mine[s] \in Runs /\ job[mine[s]] = "none" /\ key[mine[s]] = 0
    BY <1>1 DEF Insert, InsertReplyLost, OwnRun, Owning, Enqueuing
  <2>2. CASE UNCHANGED <<job, key>>
    BY <2>2
  <2>3. CASE ~HasJob(at[s]) /\ AddJob(s)
    BY <2>1, <2>3 DEF HasJob, AddJob, TypeOK
  <2> QED BY <1>1, <2>2, <2>3 DEF Insert, InsertReplyLost
<1>2. ASSUME ManualRun
      PROVE  KeysOfJobs' /\ OneJobPerOccurrence' /\ JobsKept
  BY <1>2 DEF ManualRun, Free, TypeOK
<1>3. ASSUME NEW r \in Runs, CompleteJob(r)
      PROVE  KeysOfJobs' /\ OneJobPerOccurrence' /\ JobsKept
  BY <1>3 DEF CompleteJob, TypeOK
<1>4. CASE UNCHANGED <<job, key>>
  BY <1>4
<1>5. Next =>
        \/ UNCHANGED <<job, key>> \/ ManualRun \/ \E r \in Runs : CompleteJob(r)
        \/ \E s \in Schedulers : Insert(s) \/ InsertReplyLost(s)
  BY DEF Next, Work, Disturbance, Start, Stop, Evaluate, EvaluateWith, Record, OwnershipLost,
         ReadClaim, AddClaim, TakeOver, Reread, Reload, Reject, ListRuns, Lookup, CreateRun,
         EnqueueByKey, EnqueueByActive, FailStartup, Mark, Fault, EnqueueFault, RecordFault,
         CreateReplyLost, Crash, FallDue, Age, Edit, EndRun, runVars
<1> QED BY <1>1, <1>2, <1>3, <1>4, <1>5 DEF vars, runVars

-----------------------------------------------------------------------------
(* The runs: whoever enqueues a run is the only one to do so. *)

LEMMA Quiet ==
  ASSUME NEW s \in Schedulers, Typed, OwnRun, DistinctRuns,
         UNCHANGED runVars,
         \A t \in Schedulers : t # s => pc'[t] = pc[t] /\ mine'[t] = mine[t],
         \/ pc'[s] \notin Owning
         \/ pc[s] \in Enqueuing /\ pc'[s] \in Owning /\ mine'[s] = mine[s]
  PROVE  OwnRun' /\ DistinctRuns'
<1>1. "fail" \notin Enqueuing /\ Owning = Enqueuing \cup {"fail"}
  BY DEF Enqueuing, Owning
<1>2. OwnRun'
  BY <1>1 DEF OwnRun, runVars
<1>3. DistinctRuns'
  BY <1>1 DEF DistinctRuns
<1> QED BY <1>2, <1>3

LEMMA Concluding ==
  ASSUME NEW s \in Schedulers, TypeOK, NEW res, NEW r, Conclude(s, res, r)
  PROVE  /\ pc'[s] \in {"mark", "record"}
         /\ \A t \in Schedulers : t # s => pc'[t] = pc[t] /\ mine'[t] = mine[t] /\ result'[t] = result[t]
         /\ pc'[s] = "mark" /\ result'[s] = "queued" => res = "queued"
BY DEF Conclude, Answer, Goto, TypeOK

LEMMA Refusing ==
  ASSUME NEW s \in Schedulers, TypeOK, NEW res, Refused(s, res)
  PROVE  /\ pc'[s] = "fail" /\ mine' = mine
         /\ \A t \in Schedulers : t # s => pc'[t] = pc[t] /\ result'[t] = result[t]
BY DEF Refused, Goto, TypeOK

LEMMA OwnershipInvariance ==
  ASSUME EnqueueInvariant, [Next]_vars
  PROVE  OwnRun' /\ DistinctRuns'
<1>t. Typed /\ TypeOK /\ OwnRun /\ DistinctRuns /\ KeysOfJobs
  BY DEF EnqueueInvariant, Typed
<1>e. /\ Enqueuing = {"byKey", "byActive", "insert"}
      /\ Owning = {"byKey", "byActive", "insert", "fail"}
  BY DEF Owning, Enqueuing
<1>1. ASSUME NEW s \in Schedulers,
             \/ Start(s) \/ Record(s) \/ Evaluate(s) \/ ReadClaim(s) \/ AddClaim(s) \/ TakeOver(s)
             \/ Reread(s) \/ Reload(s) \/ Reject(s) \/ Mark(s) \/ Fault(s)
             \/ Stop(s) \/ OwnershipLost(s) \/ RecordFault(s) \/ Crash(s)
      PROVE  OwnRun' /\ DistinctRuns'
  <2>1. /\ UNCHANGED runVars
        /\ \A t \in Schedulers : t # s => pc'[t] = pc[t] /\ mine'[t] = mine[t]
        /\ pc'[s] \notin Owning
    BY <1>t, <1>e, <1>1 DEF TypeOK, Start, Record, Evaluate, EvaluateWith, ReadClaim, AddClaim,
       TakeOver, TakeRow, Reread, Learn, Reload, Reject, Mark, Fault, Stop, OwnershipLost,
       RecordFault, Crash, Clear, Answer, Goto, callVars
  <2> QED BY <1>t, <2>1, Quiet
<1>2. ASSUME NEW s \in Schedulers,
             \/ ListRuns(s) \/ Lookup(s) \/ EnqueueByKey(s) \/ EnqueueByActive(s) \/ EnqueueFault(s)
      PROVE  OwnRun' /\ DistinctRuns'
  <2>1. UNCHANGED runVars
    BY <1>2 DEF ListRuns, Lookup, EnqueueByKey, EnqueueByActive, EnqueueFault
  <2>2. \/ \E res, r : Conclude(s, res, r)
        \/ \E res : pc[s] \in Enqueuing /\ Refused(s, res)
        \/ UNCHANGED callVars /\ pc' = [pc EXCEPT ![s] = "lookup"]
        \/ UNCHANGED callVars /\ pc' = [pc EXCEPT ![s] = "create"]
        \/ UNCHANGED callVars /\ pc[s] = "byKey" /\ pc' = [pc EXCEPT ![s] = "byActive"]
        \/ UNCHANGED callVars /\ pc[s] = "byActive" /\ pc' = [pc EXCEPT ![s] = "insert"]
    BY <1>2, <1>e DEF ListRuns, Lookup, EnqueueByKey, EnqueueByActive, EnqueueFault, Goto
  <2>3. /\ \A t \in Schedulers : t # s => pc'[t] = pc[t] /\ mine'[t] = mine[t]
        /\ \/ pc'[s] \notin Owning
           \/ pc[s] \in Enqueuing /\ pc'[s] \in Owning /\ mine'[s] = mine[s]
    <3>1. CASE \E res, r : Conclude(s, res, r)
      BY <1>t, <1>e, <3>1, Concluding
    <3>2. CASE \E res : pc[s] \in Enqueuing /\ Refused(s, res)
      BY <1>t, <1>e, <3>2, Refusing
    <3> QED BY <1>t, <1>e, <2>2, <3>1, <3>2 DEF TypeOK, callVars
  <2> QED BY <1>t, <2>1, <2>3, Quiet
<1>3. ASSUME NEW s \in Schedulers, CreateRun(s)
      PROVE  OwnRun' /\ DistinctRuns'
  BY <1>t, <1>e, <1>3 DEF CreateRun, Goto, Free, OwnRun, DistinctRuns, TypeOK
<1>4. ASSUME NEW s \in Schedulers, CreateReplyLost(s)
      PROVE  OwnRun' /\ DistinctRuns'
  <2>1. /\ \A t \in Schedulers : t # s => pc'[t] = pc[t] /\ mine'[t] = mine[t]
        /\ pc'[s] \notin Owning
    BY <1>t, <1>e, <1>4, Concluding DEF CreateReplyLost
  <2> QED BY <1>t, <1>4, <2>1 DEF CreateReplyLost, OwnRun, DistinctRuns, TypeOK, Free
<1>5. ASSUME NEW s \in Schedulers, Insert(s) \/ InsertReplyLost(s)
      PROVE  OwnRun' /\ DistinctRuns'
  <2>0. pc[s] = "insert" /\ mine[s] \in Runs /\ run' = run /\ run[mine[s]] # "none" /\ job[mine[s]] = "none"
    BY <1>t, <1>e, <1>5 DEF Insert, InsertReplyLost, OwnRun
  <2>1. at[s] # 0
    BY <1>t, <2>0, 0 \notin Occurrences DEF Typed, HandlesOccurrence, Handling, Enqueuing, Occurrences
  <2>2. CASE Refused(s, "failed") /\ (UNCHANGED <<job, key>> \/ AddJob(s))
    <3>1. /\ \A t \in Schedulers : t # s => pc'[t] = pc[t]
          /\ mine' = mine /\ pc'[s] = "fail"
      BY <1>t, <2>2, Refusing
    <3>2. DistinctRuns'
      BY <1>t, <1>e, <2>0, <3>1 DEF DistinctRuns
    <3>3. OwnRun'
      BY <1>t, <1>e, <2>0, <2>1, <2>2, <3>1 DEF OwnRun, DistinctRuns, AddJob, TypeOK
    <3> QED BY <3>2, <3>3
  <2>3. CASE AddJob(s) /\ Conclude(s, "queued", mine[s])
    <3>1. /\ \A t \in Schedulers : t # s => pc'[t] = pc[t] /\ mine'[t] = mine[t]
          /\ pc'[s] \notin Owning
      BY <1>t, <1>e, <2>3, Concluding
    <3>2. DistinctRuns'
      BY <1>t, <3>1 DEF DistinctRuns
    <3>3. OwnRun'
      BY <1>t, <1>e, <2>0, <2>3, <3>1 DEF OwnRun, DistinctRuns, AddJob, TypeOK
    <3> QED BY <3>2, <3>3
  <2> QED BY <1>5, <2>2, <2>3 DEF Insert, InsertReplyLost
<1>6. ASSUME NEW s \in Schedulers, FailStartup(s)
      PROVE  OwnRun' /\ DistinctRuns'
  <2>0. pc[s] = "fail" /\ mine[s] \in Runs
    BY <1>t, <1>e, <1>6 DEF FailStartup, OwnRun
  <2>1. /\ \A t \in Schedulers : t # s => pc'[t] = pc[t] /\ mine'[t] = mine[t]
        /\ pc'[s] \notin Owning
    BY <1>t, <1>e, <1>6, Concluding DEF FailStartup
  <2>2. DistinctRuns'
    BY <1>t, <2>1 DEF DistinctRuns
  <2>3. OwnRun'
    BY <1>t, <1>e, <1>6, <2>0, <2>1 DEF FailStartup, OwnRun, DistinctRuns, TypeOK
  <2> QED BY <2>2, <2>3
<1>7. ASSUME FallDue \/ Edit \/ ManualRun \/ (\E o \in Occurrences : Age(o))
             \/ (\E r \in Runs : EndRun(r) \/ CompleteJob(r)) \/ UNCHANGED vars
      PROVE  OwnRun' /\ DistinctRuns'
  <2>1. pc' = pc /\ mine' = mine
    BY <1>7 DEF FallDue, Edit, ManualRun, Age, EndRun, CompleteJob, vars, callVars
  <2>2. \A r \in Runs : /\ run[r] # "none" /\ (job[r] = "none" \/ key[r] # 0) => run'[r] # "none"
                        /\ key'[r] = key[r]
                        /\ run[r] # "none" /\ job[r] = "none" => job'[r] = "none"
    BY <1>t, <1>7 DEF FallDue, Edit, ManualRun, Free, Age, EndRun, CompleteJob, vars, runVars, TypeOK
  <2> QED BY <1>t, <2>1, <2>2 DEF OwnRun, DistinctRuns
<1> QED BY <1>1, <1>2, <1>3, <1>4, <1>5, <1>6, <1>7 DEF Next, Work, Disturbance

-----------------------------------------------------------------------------
(* The ledger: whoever is about to write "queued" has seen the job. *)

LEMMA JobsRemain ==
  ASSUME JobsKept, NEW o \in Occurrences, HasJob(o)
  PROVE  HasJob(o)'
<1>1. o # 0
  BY Numbers
<1> QED BY <1>1 DEF HasJob, JobsKept

\* The scheduler s moved: what the others were about to write still holds.
LEMMA OthersMark ==
  ASSUME NEW s \in Schedulers, Typed, MarkHasJob, JobsKept,
         \A t \in Schedulers : t # s => pc'[t] = pc[t] /\ result'[t] = result[t] /\ at'[t] = at[t],
         pc'[s] = "mark" /\ result'[s] = "queued" => HasJob(at[s])'
  PROVE  MarkHasJob'
<1>1. \A t \in Schedulers : pc[t] = "mark" => at[t] \in Occurrences
  BY DEF Typed, HandlesOccurrence, Handling
<1>2. ASSUME NEW t \in Schedulers, t # s, pc'[t] = "mark", result'[t] = "queued"
      PROVE  HasJob(at[t])'
  <2>1. HasJob(at[t]) /\ at[t] \in Occurrences /\ at'[t] = at[t]
    BY <1>1, <1>2 DEF MarkHasJob
  <2>2. PICK r \in Runs : job[r] # "none" /\ key[r] = at[t]
    BY <2>1 DEF HasJob
  <2>3. job'[r] # "none" /\ key'[r] = at[t]
    BY <2>1, <2>2, Numbers DEF JobsKept
  <2> QED BY <2>1, <2>3 DEF HasJob
<1> QED BY <1>2 DEF MarkHasJob

LEMMA MarkInvariance ==
  ASSUME EnqueueInvariant, [Next]_vars, JobsKept
  PROVE  MarkHasJob'
<1>t. Typed /\ TypeOK /\ MarkHasJob
  BY DEF EnqueueInvariant, Typed
<1>1. ASSUME NEW s \in Schedulers,
             \/ Start(s) \/ Record(s) \/ Evaluate(s) \/ ReadClaim(s) \/ AddClaim(s) \/ TakeOver(s)
             \/ Reread(s) \/ Reload(s) \/ Reject(s) \/ Mark(s) \/ Fault(s) \/ CreateRun(s)
             \/ Stop(s) \/ OwnershipLost(s) \/ RecordFault(s) \/ Crash(s)
      PROVE  MarkHasJob'
  <2>1. /\ \A t \in Schedulers : t # s => pc'[t] = pc[t] /\ result'[t] = result[t] /\ at'[t] = at[t]
        /\ pc'[s] # "mark"
    BY <1>t, <1>1 DEF TypeOK, Start, Record, Evaluate, EvaluateWith, ReadClaim, AddClaim,
       TakeOver, TakeRow, Reread, Learn, Reload, Reject, Mark, Fault, CreateRun, Stop, OwnershipLost,
       RecordFault, Crash, Clear, Answer, Goto, callVars, evalVars
  <2> QED BY <1>t, <2>1, OthersMark
<1>2. ASSUME NEW s \in Schedulers,
             \/ ListRuns(s) \/ Lookup(s) \/ EnqueueByKey(s) \/ EnqueueByActive(s) \/ EnqueueFault(s)
             \/ Insert(s) \/ FailStartup(s) \/ InsertReplyLost(s) \/ CreateReplyLost(s)
      PROVE  MarkHasJob'
  <2>1. at' = at
    BY <1>2 DEF ListRuns, Lookup, EnqueueByKey, EnqueueByActive, EnqueueFault, Insert,
       FailStartup, InsertReplyLost, CreateReplyLost, evalVars
  <2>2. \/ \E res, r : Conclude(s, res, r) /\ (res = "queued" => HasJob(at[s])')
        \/ \E res : Refused(s, res)
        \/ UNCHANGED callVars /\ \E l : l # "mark" /\ pc' = [pc EXCEPT ![s] = l]
    <3>1. CASE ListRuns(s) \/ EnqueueFault(s) \/ CreateReplyLost(s) \/ InsertReplyLost(s)
      BY <3>1 DEF ListRuns, EnqueueFault, CreateReplyLost, InsertReplyLost, Goto
    <3>2. CASE Lookup(s)
      BY <2>1, <3>2 DEF Lookup, Goto, HasJob, runVars
    <3>3. CASE EnqueueByKey(s) \/ EnqueueByActive(s)
      BY <2>1, <3>3 DEF EnqueueByKey, EnqueueByActive, Goto, HasJob, runVars
    <3>4. CASE Insert(s)
      <4>1. mine[s] \in Runs
        BY <3>4 DEF Insert, EnqueueInvariant, OwnRun, Owning, Enqueuing
      <4>2. AddJob(s) => HasJob(at[s])'
        BY <1>t, <2>1, <4>1 DEF AddJob, HasJob, TypeOK
      <4> QED BY <3>4, <4>2 DEF Insert
    <3>5. CASE FailStartup(s)
      BY <1>t, <3>5 DEF FailStartup, Typed, AnswerKnown
    <3> QED BY <1>2, <3>1, <3>2, <3>3, <3>4, <3>5
  <2>3. /\ \A t \in Schedulers : t # s => pc'[t] = pc[t] /\ result'[t] = result[t]
        /\ pc'[s] = "mark" /\ result'[s] = "queued" => HasJob(at[s])'
    <3>1. CASE \E res, r : Conclude(s, res, r) /\ (res = "queued" => HasJob(at[s])')
      BY <1>t, <3>1, Concluding
    <3>2. CASE \E res : Refused(s, res)
      BY <1>t, <3>2, Refusing
    <3>3. CASE UNCHANGED callVars /\ \E l : l # "mark" /\ pc' = [pc EXCEPT ![s] = l]
      BY <1>t, <3>3 DEF callVars, TypeOK
    <3> QED BY <2>2, <3>1, <3>2, <3>3
  <2> QED BY <1>t, <2>1, <2>3, OthersMark
<1>3. ASSUME FallDue \/ Edit \/ ManualRun \/ (\E o \in Occurrences : Age(o))
             \/ (\E r \in Runs : EndRun(r) \/ CompleteJob(r)) \/ UNCHANGED vars
      PROVE  MarkHasJob'
  <2>1. pc' = pc /\ result' = result /\ at' = at
    BY <1>3 DEF FallDue, Edit, ManualRun, Age, EndRun, CompleteJob, vars, callVars, evalVars
  <2>2. ASSUME NEW s \in Schedulers, pc'[s] = "mark", result'[s] = "queued"
        PROVE  HasJob(at[s])'
    <3>1. HasJob(at[s]) /\ at[s] \in Occurrences
      BY <1>t, <2>1, <2>2 DEF MarkHasJob, Typed, HandlesOccurrence, Handling
    <3>2. PICK r \in Runs : job[r] # "none" /\ key[r] = at[s]
      BY <3>1 DEF HasJob
    <3> QED BY <2>1, <3>1, <3>2, Numbers DEF JobsKept, HasJob
  <2> QED BY <2>2 DEF MarkHasJob
<1> QED BY <1>1, <1>2, <1>3 DEF Next, Work, Disturbance

LEMMA QueuedInvariance ==
  ASSUME EnqueueInvariant, [Next]_vars, JobsKept
  PROVE  QueuedHasJob'
<1>t. Typed /\ TypeOK /\ MarkHasJob /\ QueuedHasJob
  BY DEF EnqueueInvariant, Typed
<1>1. ASSUME NEW o \in Occurrences, status'[o] = "queued"
      PROVE  HasJob(o)
  <2>1. CASE status[o] = "queued"
    BY <1>t, <2>1 DEF QueuedHasJob
  <2>2. CASE status[o] # "queued"
    <3>1. status' # status
      BY <1>1, <2>2
    <3>2. PICK s \in Schedulers : AddClaim(s) \/ TakeOver(s) \/ Reject(s) \/ Mark(s)
      BY <3>1 DEF Next, Work, Disturbance, Start, Stop, Evaluate, EvaluateWith, Record, OwnershipLost,
         ReadClaim, Reread, Reload, ListRuns, Lookup, CreateRun,
         EnqueueByKey, EnqueueByActive, Insert, FailStartup, Fault, EnqueueFault, RecordFault,
         CreateReplyLost, InsertReplyLost, Crash, FallDue, Age, Edit, ManualRun, EndRun, CompleteJob,
         rowVars, vars
    <3>3. Mark(s) /\ at[s] = o /\ result[s] = "queued"
      BY <1>t, <1>1, <2>2, <3>1, <3>2
      DEF AddClaim, TakeOver, TakeRow, Reject, Mark, WriteRow, TypeOK, rowVars
    <3> QED BY <1>t, <3>3 DEF Mark, MarkHasJob
  <2> QED BY <2>1, <2>2
<1>2. ASSUME NEW o \in Occurrences, status'[o] = "queued"
      PROVE  HasJob(o)'
  BY <1>1, <1>2, JobsRemain
<1> QED BY <1>2 DEF QueuedHasJob

-----------------------------------------------------------------------------
(* The invariant and what follows from it. *)

LEMMA EnqueueInitially == Init => EnqueueInvariant
<1> SUFFICES ASSUME Init PROVE EnqueueInvariant
  OBVIOUS
<1>1. TypeOK
  BY Numbers, Sets DEF Init, TypeOK
<1>2. \A s \in Schedulers : pc[s] = "off"
  BY DEF Init
<1>3. HandlesOccurrence /\ AnswerKnown /\ OwnRun /\ DistinctRuns /\ MarkHasJob
  BY <1>2 DEF HandlesOccurrence, AnswerKnown, OwnRun, DistinctRuns, MarkHasJob, Handling, Reading,
     Owning, Enqueuing
<1>4. KeysOfJobs /\ OneJobPerOccurrence /\ QueuedHasJob
  BY DEF Init, KeysOfJobs, OneJobPerOccurrence, QueuedHasJob
<1> QED BY <1>1, <1>3, <1>4 DEF EnqueueInvariant

LEMMA EnqueueInductive == EnqueueInvariant /\ [Next]_vars => EnqueueInvariant'
<1> SUFFICES ASSUME EnqueueInvariant, [Next]_vars PROVE EnqueueInvariant'
  OBVIOUS
<1>1. Typed'
  BY TypeInvariance DEF EnqueueInvariant, Typed
<1> QED
  BY <1>1, JobsInvariance, OwnershipInvariance, MarkInvariance, QueuedInvariance
  DEF EnqueueInvariant, Typed

\* The whole inductive invariant of the scheduler trigger: rows, answers, the run
\* in each scheduler's hands, unique keys, honest outcomes.
THEOREM EnqueueSafety == Spec => []EnqueueInvariant
BY EnqueueInitially, EnqueueInductive, PTL DEF Spec

\* However many schedulers evaluate, crash, stall or lose replies, an occurrence
\* of the schedule has at most one execution job.
THEOREM OccurrenceRunsOnce == Spec => []OneJobPerOccurrence
<1>1. EnqueueInvariant => OneJobPerOccurrence
  BY DEF EnqueueInvariant
<1> QED BY <1>1, EnqueueSafety, PTL

\* The ledger of occurrences never claims a job that was not inserted.
THEOREM LedgerIsHonest == Spec => []QueuedHasJob
<1>1. EnqueueInvariant => QueuedHasJob
  BY DEF EnqueueInvariant
<1> QED BY <1>1, EnqueueSafety, PTL
-----------------------------------------------------------------------------
(* The definition: an evaluation never knows of an edit that is to come, so  *)
(* who passed the reload has the stored definition or was overtaken by one.  *)

Passed(s) == pc[s] \in {"list", "lookup", "create", "byKey", "byActive", "insert"}

SeenBounded == \A s \in Schedulers : seen[s] <= edits

\* Most steps pass nobody by and leave definitions as they are.
Keeping ==
  /\ UNCHANGED <<config, edits, cached, seen>>
  /\ \A s \in Schedulers : Passed(s)' => Passed(s)

LEMMA KeepingSteps ==
  ASSUME TypeOK, NEW s \in Schedulers,
         \/ Start(s) \/ ReadClaim(s) \/ AddClaim(s) \/ TakeOver(s) \/ Reread(s)
         \/ Reject(s) \/ ListRuns(s) \/ Lookup(s) \/ CreateRun(s)
         \/ EnqueueByKey(s) \/ EnqueueByActive(s) \/ Insert(s) \/ FailStartup(s)
         \/ Mark(s) \/ Fault(s) \/ EnqueueFault(s) \/ CreateReplyLost(s)
         \/ InsertReplyLost(s)
  PROVE  Keeping
<1> USE DEF TypeOK, Goto, Passed, worldVars, evalVars
<1>1. UNCHANGED <<config, edits, cached, seen>>
  BY DEF Start, ReadClaim, AddClaim, TakeOver, Reread, Reject, ListRuns, Lookup,
     CreateRun, EnqueueByKey, EnqueueByActive, Insert, FailStartup, Mark, Fault,
     EnqueueFault, CreateReplyLost, InsertReplyLost
<1>2. CASE Start(s) \/ ReadClaim(s) \/ AddClaim(s) \/ TakeOver(s) \/ Reread(s)
           \/ Reject(s) \/ CreateRun(s) \/ Mark(s) \/ Fault(s)
  BY <1>1, <1>2 DEF Start, ReadClaim, AddClaim, TakeOver, TakeRow, Reread, Learn,
     Reject, CreateRun, Mark, Fault, Keeping
<1>3. CASE ListRuns(s) \/ Lookup(s) \/ EnqueueByKey(s) \/ EnqueueByActive(s)
  BY <1>1, <1>3 DEF ListRuns, Lookup, EnqueueByKey, EnqueueByActive, Refused,
     Conclude, Keeping
<1>4. CASE Insert(s) \/ FailStartup(s) \/ EnqueueFault(s) \/ CreateReplyLost(s)
           \/ InsertReplyLost(s)
  BY <1>1, <1>4 DEF Insert, FailStartup, EnqueueFault, CreateReplyLost,
     InsertReplyLost, Refused, Conclude, Keeping
<1> QED BY <1>2, <1>3, <1>4

LEMMA DefinitionInductive ==
  ASSUME TypeOK, SeenBounded, NoStaleEnqueue, [Next]_vars
  PROVE  SeenBounded' /\ NoStaleEnqueue'
<1> USE DEF SeenBounded, NoStaleEnqueue, Enqueuing
<1>1. CASE Keeping
  BY <1>1 DEF Keeping, Passed
<1>2. \A t \in Schedulers : edits \in Nat /\ seen[t] \in Nat
  BY Numbers DEF TypeOK
<1>3. ASSUME NEW s \in Schedulers, Evaluate(s)
      PROVE  SeenBounded' /\ NoStaleEnqueue'
  BY <1>2, <1>3 DEF Evaluate, EvaluateWith, TypeOK, Goto, worldVars
<1>4. ASSUME NEW s \in Schedulers,
             Stop(s) \/ OwnershipLost(s) \/ RecordFault(s) \/ Crash(s)
      PROVE  SeenBounded' /\ NoStaleEnqueue'
  <2>1. Clear(s) /\ pc' = [pc EXCEPT ![s] = "off"] /\ UNCHANGED worldVars
    BY <1>4 DEF Stop, OwnershipLost, RecordFault, Crash, Goto
  <2> QED BY <1>2, <2>1 DEF Clear, TypeOK, worldVars
<1>5. ASSUME NEW s \in Schedulers, Record(s)
      PROVE  SeenBounded' /\ NoStaleEnqueue'
  BY <1>2, <1>5 DEF Record, TypeOK, Goto, worldVars
<1>6. ASSUME NEW s \in Schedulers, Reload(s)
      PROVE  SeenBounded' /\ NoStaleEnqueue'
  BY <1>6 DEF Reload, TypeOK, Goto, worldVars, evalVars
<1>7. CASE Edit
  BY <1>2, <1>7 DEF Edit, evalVars
<1>8. ASSUME \/ FallDue \/ ManualRun \/ UNCHANGED vars
             \/ \E o \in Occurrences : Age(o)
             \/ \E r \in Runs : EndRun(r) \/ CompleteJob(r)
      PROVE  Keeping
  BY <1>8 DEF FallDue, ManualRun, Age, EndRun, CompleteJob, Keeping, Passed,
     worldVars, evalVars, vars
<1> QED
  BY <1>1, <1>3, <1>4, <1>5, <1>6, <1>7, <1>8, KeepingSteps
  DEF Next, Work, Disturbance

\* A definition that was disabled or changed before the reload starts no run
\* (scheduler.ts:96), whatever is cached and however often it is edited.
THEOREM NoStaleEnqueueHolds == Spec => []NoStaleEnqueue
<1>1. Init => SeenBounded /\ NoStaleEnqueue
  BY Numbers DEF Init, SeenBounded, NoStaleEnqueue, Enqueuing
<1>2. EnqueueInvariant => TypeOK
  BY DEF EnqueueInvariant
<1>3. EnqueueInvariant /\ (SeenBounded /\ NoStaleEnqueue) /\ [Next]_vars
        => (SeenBounded /\ NoStaleEnqueue)'
  BY <1>2, DefinitionInductive
<1> QED BY <1>1, <1>3, EnqueueSafety, PTL DEF Spec
=============================================================================
