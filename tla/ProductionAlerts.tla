--------------------------- MODULE ProductionAlerts ---------------------------
(***************************************************************************)
(* E-mail alerts about the production login monitor: the outbox rows, the  *)
(* incident, the dispatchers of the worker processes and the e-mail        *)
(* provider with its idempotency keys.                                     *)
(*                                                                         *)
(* The unit of time is the retry poll of five minutes.  Whatever takes     *)
(* seconds (a call, a lease of 60 s) lies between two ticks; a dispatcher  *)
(* may be slower than its lease, but not than a tick, before it sends.  A  *)
(* request answered too late, or delayed on its way, is one whose          *)
(* dispatcher is slow; one never answered is followed by Abort.            *)
(***************************************************************************)
EXTENDS Integers, FiniteSets

CONSTANTS LastRun,      \* the runs are 1..LastRun, in the order of completed_at
          Scheduled,    \* the runs requested by the scheduler
          Dispatchers,  \* the worker processes that deliver
          MaxAttempts,  \* attempts of one notification
          Budget,       \* ticks after its first attempt in which it may be claimed
          KeyLife       \* ticks for which the provider remembers a key

ASSUME AlertsAssumption ==
  /\ LastRun \in Nat /\ Scheduled \subseteq 1..LastRun
  /\ MaxAttempts \in Nat \ {0} /\ Budget \in Nat /\ KeyLife \in Nat
  /\ Budget < KeyLife

Runs == 1..LastRun
\* <<"observed", r>> asks for the evaluation of run r, <<"failed", r>> reports
\* its failure, <<"recovered", i>> the end of the incident that run i opened.
Rows == {"observed", "failed", "recovered"} \X Runs
None == <<"none", 0>>
Waiting == {"pending", "failed"}

VARIABLES
  result,    \* what productionAuthAlertDecision says of a run; "none" until it ends
  incident,  \* the run that opened the latest incident, 0 before the first
  open,      \* incident_open
  alerted,   \* a failure of the incident was delivered
  last,      \* last_run_id
  about,     \* incidentId in the payload of the failure of each run
  created,   \* created_at: the rows are numbered as they are created
  status,    \* notification_outbox.status; "none" before there is a row
  attempts,  \* attempt_count, which also tells delivery tokens apart
  leased,    \* delivery_lease_until lies in the future
  wait,      \* ticks until next_attempt_at
  age,       \* ticks since first_attempt_at
  pc, job, token,  \* each dispatcher: what it does (off: not configured), for
                   \* which row and claim
  mails,     \* the e-mails sent for each row
  key        \* ticks for which the provider still knows the key of each row

incidentVars == <<incident, open, alerted, last>>
outboxVars == <<about, created, status, attempts, leased, wait, age>>
dispatcherVars == <<pc, job, token>>
providerVars == <<mails, key>>
vars == <<result, incidentVars, outboxVars, dispatcherVars, providerVars>>

Init ==
  /\ result = [r \in Runs |-> "none"]
  /\ incident = 0 /\ open = FALSE /\ alerted = FALSE /\ last = 0
  /\ about = [r \in Runs |-> 0] /\ created = [n \in Rows |-> 0]
  /\ status = [n \in Rows |-> "none"]
  /\ attempts = [n \in Rows |-> 0]
  /\ leased = [n \in Rows |-> FALSE]
  /\ wait = [n \in Rows |-> 0] /\ age = [n \in Rows |-> 0]
  /\ pc \in [Dispatchers -> {"idle", "off"}]
  /\ job = [d \in Dispatchers |-> None] /\ token = [d \in Dispatchers |-> 0]
  /\ mails = [n \in Rows |-> 0] /\ key = [n \in Rows |-> 0]

\* The row new is created unless it is None or its deduplication key is taken,
\* and the rows of changed become v.
Outbox(new, changed, v) ==
  /\ status' = [n \in Rows |->
       IF n \in changed THEN v ELSE IF n = new /\ status[n] = "none" THEN "pending" ELSE status[n]]
  /\ created' = IF new \in Rows /\ status[new] = "none"
                THEN [created EXCEPT ![new] = Cardinality({n \in Rows : created[n] # 0}) + 1] ELSE created

\* A run of the monitor ends; the trigger queues its observation with it.
Complete(r) ==
  /\ result[r] = "none"
  /\ result' \in {[result EXCEPT ![r] = v] : v \in {"passed", "failed"}}
  /\ Outbox(<<"observed", r>>, {}, "dead_letter")
  /\ UNCHANGED <<incidentVars, about, attempts, leased, wait, age, dispatcherVars, providerVars>>

\* The state already accounts for this run or a later one.
Stale(r) == r <= last

RecordFailed(r) ==
  LET i == IF open THEN incident ELSE r
      report == ~open \/ r \in Scheduled
  IN /\ incident' = i /\ open' = TRUE
     /\ alerted' = (open /\ alerted)
     /\ about' = IF report THEN [about EXCEPT ![r] = i] ELSE about
     /\ Outbox(IF report THEN <<"failed", r>> ELSE None, {}, "dead_letter")

\* Failures that were never attempted are dropped with the incident.
RecordPassed ==
  /\ open' = FALSE
  /\ Outbox(IF open /\ alerted THEN <<"recovered", incident>> ELSE None,
            {n \in Rows : /\ open /\ n[1] = "failed" /\ about[n[2]] = incident
                          /\ status[n] \in Waiting /\ attempts[n] = 0},
            "dead_letter")
  /\ UNCHANGED <<incident, alerted, about>>

\* record_production_auth_result.
Record(r) ==
  IF Stale(r)
  THEN UNCHANGED <<incidentVars, about, created, status>>
  ELSE /\ last' = r
       /\ IF result[r] = "failed" THEN RecordFailed(r) ELSE RecordPassed

\* Mutant of Exhausted: only the attempts are limited.
ExhaustedByCount(n) ==
  status[n] \in Waiting \cup {"processing"} /\ ~leased[n] /\ attempts[n] >= MaxAttempts

Exhausted(n) ==
  /\ status[n] \in Waiting \cup {"processing"} /\ ~leased[n]
  /\ attempts[n] >= MaxAttempts \/ age[n] > Budget

Claimable(n) ==
  \/ status[n] \in Waiting /\ wait[n] = 0
  \/ status[n] = "processing" /\ ~leased[n]
Busy == \E n \in Rows : status[n] = "processing" /\ leased[n]

\* Mutant of Hand: an attempt is counted when it ends, so not if it is taken over.
HandUncounted(d, n) ==
  /\ attempts' = IF status[n] = "processing" THEN attempts ELSE [attempts EXCEPT ![n] = @ + 1]
  /\ leased' = [leased EXCEPT ![n] = TRUE]
  /\ pc' = [pc EXCEPT ![d] = IF n[1] = "observed" THEN "evaluate" ELSE "send"]
  /\ job' = [job EXCEPT ![d] = n]
  /\ token' = [token EXCEPT ![d] = attempts'[n]]

Hand(d, n) ==
  /\ attempts' = [attempts EXCEPT ![n] = @ + 1]
  /\ leased' = [leased EXCEPT ![n] = TRUE]
  /\ pc' = [pc EXCEPT ![d] = IF n[1] = "observed" THEN "evaluate" ELSE "send"]
  /\ job' = [job EXCEPT ![d] = n]
  /\ token' = [token EXCEPT ![d] = attempts'[n]]

\* claim_brevo_notification: what may not be tried again is dead-lettered, and
\* the oldest row that is due is leased, unless another lease holds.
Claim(d) ==
  LET dead == {n \in Rows : Exhausted(n)}
      due == {n \in Rows \ dead : Claimable(n)}
      After(n) == [m \in Rows |->
        IF m \in dead THEN "dead_letter" ELSE IF m = n THEN "processing" ELSE status[m]]
  IN /\ pc[d] = "idle"
     /\ \/ /\ (Busy \/ due = {}) /\ dead # {}
           /\ status' = After(None)
           /\ UNCHANGED <<attempts, leased, dispatcherVars>>
        \/ \E n \in due :
             /\ ~Busy /\ \A m \in due : created[n] <= created[m]
             /\ status' = After(n)
             /\ Hand(d, n)
     /\ UNCHANGED <<result, incidentVars, about, created, wait, age, providerVars>>

\* dispatchNotificationBatch evaluates the run of an observation.
Evaluate(d) ==
  /\ pc[d] = "evaluate"
  /\ Record(job[d][2])
  /\ pc' = [pc EXCEPT ![d] = "delivered"]
  /\ UNCHANGED <<result, attempts, leased, wait, age, job, token, providerVars>>

\* deliver: the e-mail is refused or does not arrive, it is accepted, or the key
\* is known, and the answer comes or is lost.
Send(d) ==
  /\ pc[d] = "send"
  /\ \/ /\ \E v \in {"failed", "dead_letter"} : pc' = [pc EXCEPT ![d] = v]
        /\ UNCHANGED providerVars
     \/ /\ \E v \in {"delivered", "failed"} : pc' = [pc EXCEPT ![d] = v]
        /\ IF key[job[d]] > 0 THEN UNCHANGED providerVars
           ELSE /\ mails' = [mails EXCEPT ![job[d]] = @ + 1]
                /\ key' = [key EXCEPT ![job[d]] = KeyLife]
  /\ UNCHANGED <<result, incidentVars, outboxVars, job, token>>

Owned(d) == status[job[d]] = "processing" /\ attempts[job[d]] = token[d]

\* Mutant of Confirms: the delivery of any failure alerts the latest incident.
ConfirmsAny(n) == n[1] = "failed"

\* The delivery of n alerts the latest incident.
Confirms(n) == n[1] = "failed" /\ about[n[2]] = incident

\* Mutant of Following: a recovery that came before the delivery is not reported.
FollowingNothing == None

\* What the alert of an incident that is already over is followed by.
Following == IF open THEN None ELSE <<"recovered", incident>>

\* The batch is over, or its next claim.
Idle(d) ==
  /\ pc' = [pc EXCEPT ![d] = "idle"]
  /\ job' = [job EXCEPT ![d] = None] /\ token' = [token EXCEPT ![d] = 0]

\* finish_brevo_notification, refused when the claim is lost.
Finish(d) ==
  LET n == job[d]
      confirms == pc[d] = "delivered" /\ Confirms(n)
  IN /\ pc[d] \in {"delivered", "failed", "dead_letter"}
     /\ Idle(d)
     /\ IF ~Owned(d) THEN UNCHANGED <<alerted, created, status, leased, wait>>
        ELSE /\ alerted' = (alerted \/ confirms)
             /\ Outbox(IF confirms THEN Following ELSE None, {n},
                       IF pc[d] = "failed" /\ attempts[n] >= MaxAttempts THEN "dead_letter" ELSE pc[d])
             /\ leased' = [leased EXCEPT ![n] = FALSE]
             /\ wait' = [wait EXCEPT ![n] = attempts[n]]
     /\ UNCHANGED <<result, incident, open, last, about, attempts, age, providerVars>>

\* A call throws or times out and ends the batch, or the process dies.
Abort(d) ==
  /\ pc[d] \notin {"off", "idle"}
  /\ Idle(d)
  /\ UNCHANGED <<result, incidentVars, outboxVars, providerVars>>

LeaseEnds(n) ==
  /\ leased[n]
  /\ leased' = [leased EXCEPT ![n] = FALSE]
  /\ UNCHANGED <<result, incidentVars, about, created, status, attempts, wait, age, dispatcherVars, providerVars>>

Ended(n) == status[n] \in {"delivered", "dead_letter"}
Less(f) == [n \in Rows |-> IF f[n] > 0 /\ ~Ended(n) THEN f[n] - 1 ELSE 0]

\* Five minutes pass.  The clocks of a row that has ended are no longer read; an
\* age beyond the budget is cut off.
Tick ==
  /\ \A d \in Dispatchers : pc[d] # "send"
  /\ \A n \in Rows : ~leased[n]
  /\ wait' = Less(wait) /\ key' = Less(key)
  /\ age' = [n \in Rows |->
       IF Ended(n) THEN 0 ELSE IF attempts[n] > 0 /\ age[n] <= Budget THEN age[n] + 1 ELSE age[n]]
  /\ UNCHANGED <<result, incidentVars, about, created, status, attempts, leased, dispatcherVars, mails>>

TimePasses == Tick \/ \E n \in Rows : LeaseEnds(n)
Deliver(d) == Claim(d) \/ Evaluate(d) \/ Send(d) \/ Finish(d)

Progress == TimePasses \/ \E d \in Dispatchers : Deliver(d)

Next ==
  \/ \E r \in Runs : Complete(r)
  \/ \E d \in Dispatchers : Abort(d)
  \/ Progress

\* Time passes and the workers that poll complete their calls, or at least one
\* of these happens; runs need not end, and any call may fail.
Fairness == WF_vars(Progress)

Spec == Init /\ [][Next]_vars /\ Fairness
-----------------------------------------------------------------------------
TypeOK ==
  /\ result \in [Runs -> {"none", "passed", "failed"}]
  /\ incident \in 0..LastRun /\ last \in 0..LastRun
  /\ open \in BOOLEAN /\ alerted \in BOOLEAN
  /\ about \in [Runs -> 0..LastRun] /\ created \in [Rows -> Nat]
  /\ status \in [Rows -> {"none", "pending", "processing", "delivered", "failed", "dead_letter"}]
  /\ attempts \in [Rows -> 0..MaxAttempts]
  /\ leased \in [Rows -> BOOLEAN]
  /\ wait \in [Rows -> 0..MaxAttempts] /\ age \in [Rows -> 0..Budget + 1]
  /\ pc \in [Dispatchers -> {"off", "idle", "evaluate", "send", "delivered", "failed", "dead_letter"}]
  /\ job \in [Dispatchers -> Rows \cup {None}] /\ token \in [Dispatchers -> 0..MaxAttempts]
  /\ mails \in [Rows -> 0..MaxAttempts] /\ key \in [Rows -> 0..KeyLife]

\* No notification is e-mailed twice, whatever answers are lost and however many
\* dispatchers hold it: its attempts end before the provider forgets its key.
OneEmail == \A n \in Rows : mails[n] <= 1

\* A recovery is reported only of an incident that is over and of which a
\* failure report reached the provider first.
RecoveryEarned ==
  \A i \in Runs : status[<<"recovered", i>>] # "none" =>
    /\ i = incident => ~open
    /\ \E r \in Runs : about[r] = i /\ status[<<"failed", r>>] = "delivered" /\ mails[<<"failed", r>>] > 0

\* Whichever comes first, the delivery of the alert or the recovery: an incident
\* that was alerted and is over has its recovery reported.
RecoveryReported == ~open /\ alerted => status[<<"recovered", incident>>] # "none"

\* A failure that was never attempted is no longer sent once its incident is over.
ObsoleteDropped ==
  \A r \in Runs :
    status[<<"failed", r>>] \in Waiting /\ attempts[<<"failed", r>>] = 0 => open /\ about[r] = incident

\* The rows against the incident: a run reports only what was evaluated, and an
\* alerted incident has a delivered alert.
RowsAgree ==
  /\ incident <= last /\ (open \/ alerted => incident # 0)
  /\ \A r \in Runs : status[<<"failed", r>>] # "none" => r <= last /\ about[r] \in 1..last
  /\ \A i \in Runs : status[<<"recovered", i>>] # "none" => i <= last
  /\ \A n \in Rows : leased[n] => status[n] = "processing"
  /\ \A n \in Rows : status[n] = "processing" => attempts[n] > 0
  /\ alerted => \E r \in Runs :
       about[r] = incident /\ status[<<"failed", r>>] = "delivered" /\ mails[<<"failed", r>>] > 0

\* A row that may still be claimed, or is being sent, has its key remembered.
KeysAgree ==
  /\ \A n \in Rows : (mails[n] > 0 => attempts[n] > 0) /\ (key[n] > 0 => mails[n] > 0)
  /\ \A n \in Rows :
       mails[n] > 0 /\ ~Ended(n) /\ age[n] <= Budget => key[n] + age[n] >= KeyLife
  /\ \A d \in Dispatchers : pc[d] = "send" =>
       attempts[job[d]] > 0 /\ (mails[job[d]] > 0 => key[job[d]] > 0)

\* What each dispatcher works on, and what it has achieved.
DispatchersAgree ==
  \A d \in Dispatchers :
    /\ pc[d] \notin {"off", "idle"} => job[d] \in Rows
    /\ pc[d] = "evaluate" => job[d][1] = "observed"
    /\ pc[d] = "delivered" => job[d][1] = "observed" \/ mails[job[d]] > 0

\* The inductive invariant.
AlertInvariant ==
  /\ TypeOK /\ OneEmail /\ RecoveryEarned /\ RecoveryReported /\ ObsoleteDropped
  /\ RowsAgree /\ KeysAgree /\ DispatchersAgree

\* Every notification is delivered or given up, if some worker delivers at all.
EveryNotificationEnds ==
  (\E d \in Dispatchers : pc[d] # "off") ~> (\A n \in Rows : status[n] = "none" \/ Ended(n))
=============================================================================
