--------------------------- MODULE EvidenceRetention ---------------------------
(***************************************************************************)
(* executeRetention and the retention functions of the database, for one   *)
(* bundle: an occurrence is claimed, plans against a fresh snapshot,       *)
(* reserves the bundle, removes its objects, verifies that they are absent *)
(* and settles.  The process may die, lose its lease, or lose the answer   *)
(* of any call; a later claim recovers what it left.  Occurrences are      *)
(* numbered as they are claimed; each has the one process that claimed it. *)
(***************************************************************************)
EXTENDS EvidenceRecords

VARIABLES
  pc,        \* where the executor of each occurrence is
  current,   \* those that planned with a snapshot that is still accurate
  flight,    \* objects a delete request of it may still remove
  outlived   \* a delete request outlived its timeout, or the lease it was sent under

executorVars == <<pc, flight, outlived>>

Ended == {"ended", "dead"}
ExecutorStates == Ended \cup {"idle", "plan", "reserve", "remove", "removing", "verify", "settle",
                              "settleFailed", "settleAgain", "finish", "fail"}
OccurrenceStates == {"none", "RUNNING", "SKIPPED_ACTIVE_EXECUTION", "HEALTHY", "PARTIAL_FAILURE", "FAILED"}

RetentionInit ==
  /\ pc = [o \in Occurrences |-> "idle"]
  /\ current = {}
  /\ flight = [o \in Occurrences |-> {}]
  /\ outlived = FALSE

Go(o, next) == pc' = [pc EXCEPT ![o] = next]
Count(o, n) == counted' = [counted EXCEPT ![o] = @ + n]

\* retention_assert_owner: anything but a fresh lease is ownership lost.
Asserted(o) == occ[o] = "RUNNING" /\ lease[o] = "fresh"

\* Occurrences whose owner has been gone for long enough.
Stale == {o \in Occurrences : occ[o] = "RUNNING" /\ lease[o] = "none"}

\* What recovery may count: Supabase is asked again, Spaces has no fresh proof.
RecoveredCount == IF place = "supabase" THEN Cardinality(attempt \ Present(place)) ELSE 0

RecoverStale ==
  IF deletion = "deleting" /\ holder \in Stale
  THEN /\ IntentWritable
       /\ deletion' = "partial" /\ attempt' = {}
       /\ Count(holder, RecoveredCount)
  ELSE UNCHANGED <<deletion, attempt, counted>>

\* Recovery, then the occurrence: it runs unless another execution is active.
ClaimOccurrence(o, busy) ==
  /\ pc[o] = "idle"
  /\ \A p \in Occurrences : p < o => occ[p] # "none"
  /\ RecoverStale
  /\ busy \/ \A p \in Occurrences \ Stale : occ[p] # "RUNNING"
  /\ occ' = [p \in Occurrences |->
        IF p \in Stale THEN "FAILED"
        ELSE IF p = o THEN (IF busy THEN "SKIPPED_ACTIVE_EXECUTION" ELSE "RUNNING")
        ELSE occ[p]]
  /\ lease' = [p \in Occurrences |->
        IF p \in Stale THEN "none" ELSE IF p = o /\ ~busy THEN "fresh" ELSE lease[p]]
  /\ Go(o, IF busy THEN "ended" ELSE "plan")
  /\ UNCHANGED <<bundleVars, objectVars, holder, ledgerVars, flight, outlived>>

\* evaluateRetention: only a durable intent explains an absent object.
Eligible ==
  /\ status = "indexed" /\ aged /\ ~hold
  /\ MigrationSettled
  /\ IF deletion = "none" THEN Whole(place)
     ELSE \A i \in Present(place) : (IF place = "supabase" THEN source ELSE copy)[i] = "intact"

PlanDeletion(o) ==
  /\ pc[o] = "plan"
  /\ \/ Asserted(o) /\ Eligible /\ Go(o, "reserve")
     \/ Asserted(o) /\ ~Eligible /\ Go(o, "finish")
     \/ Go(o, "fail")
  /\ UNCHANGED <<recordVars, flight, outlived>>

Reservable(o) ==
  /\ Asserted(o)
  /\ o \in current
  /\ status = "indexed"
  /\ deletion = "none" => Whole(place)
  /\ deletion # "none" => deletion # "deleted" /\ holder # o
  /\ IntentWritable

\* Mutant of Reserve: the attempt is charged with every object of the bundle.
ReserveEveryItem(o) ==
  /\ pc[o] = "reserve"
  /\ \/ /\ Reservable(o)
        /\ deletion' = "deleting" /\ attempt' = Items /\ holder' = o
        /\ Go(o, "remove") \/ Go(o, "fail")
     \/ /\ Go(o, "finish") \/ Go(o, "fail")
        /\ UNCHANGED deletionVars
  /\ UNCHANGED <<bundleVars, objectVars, ledgerVars, occurrenceVars, flight, outlived>>

\* The reservation is committed whether or not its answer arrives.
Reserve(o) ==
  /\ pc[o] = "reserve"
  /\ \/ /\ Reservable(o)
        /\ deletion' = "deleting" /\ attempt' = Present(place) /\ holder' = o
        /\ Go(o, "remove") \/ Go(o, "fail")
     \/ /\ Go(o, "finish") \/ Go(o, "fail")
        /\ UNCHANGED deletionVars
  /\ UNCHANGED <<bundleVars, objectVars, ledgerVars, occurrenceVars, flight, outlived>>

Left == attempt \cap Present(place)

\* Supabase takes the keys in one request, Spaces one object per request.
SendDelete(o) ==
  /\ pc[o] = "remove"
  /\ \/ /\ Asserted(o) /\ Left # {}
        /\ \E keys \in IF place = "supabase" THEN {Left} ELSE {{i} : i \in Left} :
             flight' = [flight EXCEPT ![o] = keys]
        /\ Go(o, "removing")
     \/ (Asserted(o) => Left = {}) /\ Go(o, "verify") /\ UNCHANGED flight
  /\ UNCHANGED <<recordVars, outlived>>

\* Mutant of RemoveObject: the keys are always sent to Supabase.
RemoveObjectAtSource(o, i) ==
  /\ i \in flight[o]
  /\ flight' = [flight EXCEPT ![o] = @ \ {i}]
  /\ source' = [source EXCEPT ![i] = "absent"]
  /\ UNCHANGED <<copy, bundleVars, deletionVars, ledgerVars, occurrenceVars, pc, outlived>>

\* The storage provider executes a delete request, object by object.
RemoveObject(o, i) ==
  /\ i \in flight[o]
  /\ flight' = [flight EXCEPT ![o] = @ \ {i}]
  /\ IF place = "supabase"
     THEN source' = [source EXCEPT ![i] = "absent"] /\ UNCHANGED copy
     ELSE copy' = [copy EXCEPT ![i] = "absent"] /\ UNCHANGED source
  /\ UNCHANGED <<bundleVars, deletionVars, ledgerVars, occurrenceVars, pc, outlived>>

\* The request is answered, refused, or given up while it may still take effect.
DeleteReturns(o) ==
  /\ pc[o] = "removing"
  /\ \/ flight[o] = {} /\ Go(o, "remove") /\ UNCHANGED <<flight, outlived>>
     \/ flight' = [flight EXCEPT ![o] = {}] /\ Go(o, "verify") /\ UNCHANGED outlived
     \/ flight[o] # {} /\ outlived' = TRUE /\ Go(o, "verify") /\ UNCHANGED flight
  /\ UNCHANGED recordVars

VerifyAbsent(o) ==
  /\ pc[o] = "verify"
  /\ \/ Asserted(o) /\ Present(place) = {} /\ Go(o, "settle")
     \/ Go(o, "settleFailed")
  /\ UNCHANGED <<recordVars, flight, outlived>>

SettleSuccess(o) ==
  /\ pc[o] = "settle"
  /\ \/ /\ Asserted(o) /\ IntentWritable
        /\ holder = o /\ deletion = "deleting" /\ Present(place) = {}
        /\ status' = "expired"
        /\ deletion' = "deleted" /\ attempt' = {}
        /\ Count(o, Cardinality(attempt))
        /\ Go(o, "finish") \/ Go(o, "fail") \/ Go(o, "settleFailed")
     \/ /\ Go(o, "settleFailed")
        /\ UNCHANGED <<status, deletion, attempt, counted>>
  /\ UNCHANGED <<place, hold, aged, objectVars, holder, ledgerVars, occ, lease,
                 flight, outlived>>

\* A failed attempt keeps the intent for another occurrence.  It counts what is
\* proved absent, of which Spaces may have proved a part.  When the call fails
\* it is made once more and then given up.
SettleFailure(o) ==
  /\ pc[o] \in {"settleFailed", "settleAgain"}
  /\ \/ /\ Asserted(o) /\ IntentWritable /\ holder = o /\ deletion = "deleting"
        /\ deletion' = "partial" /\ attempt' = {}
        /\ \E gone \in IF place = "supabase" THEN {attempt \ Present(place)}
                       ELSE SUBSET (attempt \ Present(place)) : Count(o, Cardinality(gone))
     \/ UNCHANGED <<deletion, attempt, counted>>
  /\ IF pc[o] = "settleAgain" THEN Go(o, "fail")
     ELSE \/ Asserted(o) /\ deletion' # "deleting" /\ (Go(o, "finish") \/ Go(o, "fail"))
          \/ Go(o, "settleAgain")
  /\ UNCHANGED <<bundleVars, objectVars, holder, ledgerVars, occ, lease, flight, outlived>>

\* Mutant of FinishOccurrence: an occurrence that failed is not closed.
FinishOccurrenceHealthy(o) ==
  /\ pc[o] \in {"finish", "fail"}
  /\ IF pc[o] = "finish" /\ Asserted(o) /\ ~(holder = o /\ deletion = "deleting")
     THEN /\ occ' = [occ EXCEPT ![o] = IF holder = o /\ deletion = "partial" THEN "PARTIAL_FAILURE" ELSE "HEALTHY"]
          /\ lease' = [lease EXCEPT ![o] = "none"]
     ELSE UNCHANGED <<occ, lease>>
  /\ Go(o, "ended")
  /\ UNCHANGED <<bundleVars, objectVars, deletionVars, ledgerVars, counted, flight, outlived>>

\* retention_finish_occurrence refuses an owner that lost its lease or left an
\* intent unsettled; the occurrence is then left to recovery.
FinishOccurrence(o) ==
  /\ pc[o] \in {"finish", "fail"}
  /\ \/ /\ Asserted(o)
        /\ ~(holder = o /\ deletion = "deleting")
        /\ occ' = [occ EXCEPT ![o] =
              IF holder = o /\ deletion = "partial" THEN "PARTIAL_FAILURE"
              ELSE IF pc[o] = "fail" THEN "FAILED" ELSE "HEALTHY"]
        /\ lease' = [lease EXCEPT ![o] = "none"]
     \/ /\ ~Asserted(o) \/ (holder = o /\ deletion = "deleting")
        /\ UNCHANGED <<occ, lease>>
  /\ Go(o, "ended")
  /\ UNCHANGED <<bundleVars, objectVars, deletionVars, ledgerVars, counted, flight, outlived>>

Die(o) ==
  /\ pc[o] \notin Ended \cup {"idle"}
  /\ Go(o, "dead")
  /\ \/ UNCHANGED flight
     \/ flight' = [flight EXCEPT ![o] = {}]
  /\ UNCHANGED <<recordVars, outlived>>

\* Time passes for a lease that no heartbeat renews.  The last step is a minute
\* gone by, or a worker's poll that abandons the job before.  A delete request times out
\* after 20 s: unless it outlives that, it ends within the 45 s it was sent with.
Age(o) ==
  /\ lease[o] \in {"fresh", "late", "expired"}
  /\ lease' = [lease EXCEPT ![o] =
        CASE @ = "fresh" -> "late" [] @ = "late" -> "expired" [] OTHER -> "none"]
  /\ outlived' = (outlived \/ (lease[o] = "late" /\ flight[o] # {}))
  /\ UNCHANGED <<bundleVars, objectVars, deletionVars, ledgerVars, occ, counted, pc, flight>>

\* A snapshot is read when the plan is made and goes stale with any change.
Snapshots ==
  current' = IF Revision' = Revision
             THEN {o \in Occurrences : pc'[o] = "reserve" /\ (o \in current \/ pc[o] = "plan")}
             ELSE {}

ExecutorStep(o) ==
  \/ ClaimOccurrence(o, TRUE) \/ ClaimOccurrence(o, FALSE)
  \/ PlanDeletion(o) \/ Reserve(o) \/ SendDelete(o) \/ DeleteReturns(o)
  \/ VerifyAbsent(o) \/ SettleSuccess(o) \/ SettleFailure(o) \/ FinishOccurrence(o)

RetentionNext ==
  \E o \in Occurrences :
    \/ ExecutorStep(o) \/ Die(o) \/ Age(o)
    \/ \E i \in Items : RemoveObject(o, i)
=============================================================================
