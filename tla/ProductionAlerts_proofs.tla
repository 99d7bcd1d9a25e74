------------------------ MODULE ProductionAlerts_proofs ------------------------
(***************************************************************************)
(* Proofs about ProductionAlerts, for any runs, dispatchers and limits:    *)
(* AlertInvariant is inductive, and with it no notification is e-mailed    *)
(* twice and a recovery is reported only, and always, for an alerted       *)
(* incident that is over.                                                  *)
(***************************************************************************)
EXTENDS ProductionAlerts, FiniteSetTheorems, TLAPS

\* The rows of a run.
LEMMA RowsOf ==
  \A r \in Runs : <<"observed", r>> \in Rows /\ <<"failed", r>> \in Rows /\ <<"recovered", r>> \in Rows
  BY DEF Rows

\* A row is a pair of a kind and a run, which None is not.
LEMMA RowShape ==
  /\ \A n \in Rows : n[1] \in {"observed", "failed", "recovered"} /\ n[2] \in Runs /\ n = <<n[1], n[2]>>
  /\ None \notin Rows
  BY DEF Rows, None

\* There are finitely many rows, so they can be numbered.
LEMMA RowsFinite == IsFiniteSet(Rows)
<1>1. IsFiniteSet(Runs) BY FS_Interval, AlertsAssumption DEF Runs
<1>2. IsFiniteSet({"observed", "failed", "recovered"})
  <2>1. IsFiniteSet({} \cup {"observed"}) BY FS_EmptySet, FS_AddElement
  <2>2. IsFiniteSet(({} \cup {"observed"}) \cup {"failed"}) BY <2>1, FS_AddElement
  <2>3. IsFiniteSet((({} \cup {"observed"}) \cup {"failed"}) \cup {"recovered"}) BY <2>2, FS_AddElement
  <2>4. (({} \cup {"observed"}) \cup {"failed"}) \cup {"recovered"} = {"observed", "failed", "recovered"}
    OBVIOUS
  <2> QED BY <2>3, <2>4
<1> QED BY <1>1, <1>2, FS_Product DEF Rows

\* What an insertion into the outbox does: at most the row new appears, pending,
\* and the rows of changed take the value v.
LEMMA OutboxShape ==
  ASSUME TypeOK, NEW new, NEW changed, changed \subseteq Rows,
         NEW v \in {"dead_letter", "delivered", "failed"}, Outbox(new, changed, v)
  PROVE  /\ status' \in [Rows -> {"none", "pending", "processing", "delivered", "failed", "dead_letter"}]
         /\ created' \in [Rows -> Nat]
         /\ \A n \in Rows : status'[n] = IF n \in changed THEN v
                            ELSE IF n = new /\ status[n] = "none" THEN "pending" ELSE status[n]
<1>1. Cardinality({n \in Rows : created[n] # 0}) \in Nat
  BY RowsFinite, FS_Subset, FS_CardinalityType
<1> QED BY <1>1 DEF TypeOK, Outbox

\* The initial states satisfy the invariant.
LEMMA InitEstablishes == Init => AlertInvariant
<1> SUFFICES ASSUME Init PROVE AlertInvariant OBVIOUS
<1>1. 0 \in 0..LastRun /\ 0 \in 0..MaxAttempts /\ 0 \in 0..Budget + 1 /\ 0 \in 0..KeyLife /\ 0 \in Nat
  BY AlertsAssumption
<1>2. TypeOK BY <1>1 DEF Init, TypeOK
<1>3. /\ \A n \in Rows : /\ status[n] = "none" /\ attempts[n] = 0 /\ leased[n] = FALSE
                        /\ mails[n] = 0 /\ key[n] = 0
      /\ incident = 0 /\ last = 0 /\ open = FALSE /\ alerted = FALSE
  BY DEF Init
<1>4. OneEmail BY <1>3 DEF OneEmail
<1>5. RecoveryEarned BY <1>3, RowsOf DEF RecoveryEarned
<1>6. RecoveryReported BY <1>3 DEF RecoveryReported
<1>7. ObsoleteDropped BY <1>3, RowsOf DEF ObsoleteDropped, Waiting
<1>8. RowsAgree
  <2>1. incident <= last /\ (open \/ alerted => incident # 0) BY <1>3
  <2>2. \A r \in Runs : status[<<"failed", r>>] = "none" /\ status[<<"recovered", r>>] = "none"
    BY <1>3, RowsOf
  <2> QED BY <1>3, <2>1, <2>2 DEF RowsAgree
<1>9. \A d \in Dispatchers : pc[d] \in {"idle", "off"} BY DEF Init
<1>10. KeysAgree /\ DispatchersAgree BY <1>3, <1>9 DEF KeysAgree, DispatchersAgree
<1> QED BY <1>2, <1>4, <1>5, <1>6, <1>7, <1>8, <1>10 DEF AlertInvariant

\* The end of a run adds its observation and disturbs nothing else.
LEMMA CompletePreserves ==
  ASSUME AlertInvariant, NEW r \in Runs, Complete(r) PROVE AlertInvariant'
<1> USE DEF AlertInvariant
<1> DEFINE new == <<"observed", r>>
<1>1. /\ UNCHANGED <<incidentVars, about, attempts, leased, wait, age, dispatcherVars, providerVars>>
      /\ Outbox(new, {}, "dead_letter")
      /\ result' \in [Runs -> {"none", "passed", "failed"}]
  BY DEF Complete, TypeOK
<1>2. /\ status' \in [Rows -> {"none", "pending", "processing", "delivered", "failed", "dead_letter"}]
      /\ created' \in [Rows -> Nat]
      /\ \A n \in Rows : status'[n] = IF n = new /\ status[n] = "none" THEN "pending" ELSE status[n]
  BY <1>1, OutboxShape
<1>3. TypeOK' BY <1>1, <1>2 DEF TypeOK, incidentVars, dispatcherVars, providerVars
<1>4. \A s \in Runs : status'[<<"failed", s>>] = status[<<"failed", s>>]
                   /\ status'[<<"recovered", s>>] = status[<<"recovered", s>>]
  BY <1>2, RowsOf
<1>5. OneEmail' BY <1>1 DEF OneEmail, providerVars
<1>10. RecoveryEarned'
  <2> SUFFICES ASSUME NEW i \in Runs, status'[<<"recovered", i>>] # "none"
      PROVE /\ i = incident => ~open
            /\ \E q \in Runs :
                 about[q] = i /\ status'[<<"failed", q>>] = "delivered" /\ mails[<<"failed", q>>] > 0
    BY <1>1 DEF RecoveryEarned, incidentVars, providerVars
  <2> QED BY <1>4 DEF RecoveryEarned
<1>11. ObsoleteDropped' BY <1>1, <1>4 DEF ObsoleteDropped, incidentVars
<1>9. RecoveryReported'
  <2>1. alerted => incident \in Runs BY AlertsAssumption DEF RowsAgree, TypeOK, Runs
  <2> QED BY <2>1, <1>1, <1>4 DEF RecoveryReported, incidentVars
<1>6. RowsAgree' BY <1>1, <1>2, <1>4 DEF RowsAgree, incidentVars, providerVars
<1>7. KeysAgree' BY <1>1, <1>2 DEF KeysAgree, providerVars, dispatcherVars, Ended
<1>8. DispatchersAgree' BY <1>1 DEF DispatchersAgree, providerVars, dispatcherVars
<1> QED BY <1>3, <1>5, <1>6, <1>7, <1>8, <1>9, <1>10, <1>11

\* What the steps of the delivery that leave incident and rows alone preserve:
\* a dispatcher that stops, and a lease that ends.
LEMMA QuietPreserves ==
  ASSUME AlertInvariant, (\E d \in Dispatchers : Abort(d)) \/ (\E n \in Rows : LeaseEnds(n))
  PROVE  AlertInvariant'
<1> USE DEF AlertInvariant
<1>1. /\ UNCHANGED <<result, incidentVars, about, created, status, attempts, wait, age, providerVars>>
      /\ leased' \in [Rows -> BOOLEAN]
      /\ \A n \in Rows : leased'[n] => leased[n]
      /\ pc' \in [Dispatchers -> {"off", "idle", "evaluate", "send", "delivered", "failed", "dead_letter"}]
      /\ job' \in [Dispatchers -> Rows \cup {None}] /\ token' \in [Dispatchers -> 0..MaxAttempts]
      /\ \A d \in Dispatchers : pc'[d] = "idle" \/ (pc'[d] = pc[d] /\ job'[d] = job[d])
  <2>1. CASE \E d \in Dispatchers : Abort(d)
    BY <2>1, AlertsAssumption DEF Abort, Idle, TypeOK, outboxVars
  <2>2. CASE \E n \in Rows : LeaseEnds(n)
    BY <2>2 DEF LeaseEnds, TypeOK, dispatcherVars
  <2> QED BY <2>1, <2>2
<1>2. TypeOK' BY <1>1 DEF TypeOK, incidentVars, providerVars
<1>3. (OneEmail /\ RecoveryEarned /\ RecoveryReported /\ ObsoleteDropped)'
  BY <1>1 DEF OneEmail, RecoveryEarned, RecoveryReported, ObsoleteDropped, incidentVars, providerVars
<1>4. RowsAgree' BY <1>1 DEF RowsAgree, incidentVars, providerVars
<1>5. KeysAgree'
  <2>1. \A d \in Dispatchers : pc'[d] = "send" => pc[d] = "send" /\ job'[d] = job[d] BY <1>1
  <2> QED BY <1>1, <2>1 DEF KeysAgree, providerVars, Ended
<1>6. DispatchersAgree' BY <1>1 DEF DispatchersAgree, providerVars
<1> QED BY <1>2, <1>3, <1>4, <1>5, <1>6

\* Time passes: a key grows old together with its row.
LEMMA TickPreserves == ASSUME AlertInvariant, Tick PROVE AlertInvariant'
<1> USE DEF AlertInvariant
<1>1. UNCHANGED <<result, incidentVars, about, created, status, attempts, leased, dispatcherVars, mails>>
  BY DEF Tick
<1>2. \A n \in Rows :
        /\ wait'[n] = (IF wait[n] > 0 /\ ~Ended(n) THEN wait[n] - 1 ELSE 0)
        /\ key'[n] = (IF key[n] > 0 /\ ~Ended(n) THEN key[n] - 1 ELSE 0)
        /\ age'[n] = (IF Ended(n) THEN 0
                      ELSE IF attempts[n] > 0 /\ age[n] <= Budget THEN age[n] + 1 ELSE age[n])
  BY DEF Tick, Less
<1>3. wait' \in [Rows -> 0..MaxAttempts] /\ age' \in [Rows -> 0..Budget + 1] /\ key' \in [Rows -> 0..KeyLife]
  BY <1>2, AlertsAssumption DEF Tick, Less, TypeOK
<1>4. TypeOK' BY <1>1, <1>3 DEF TypeOK, incidentVars, dispatcherVars
<1>5. (OneEmail /\ RecoveryEarned /\ RecoveryReported /\ ObsoleteDropped)'
  BY <1>1 DEF OneEmail, RecoveryEarned, RecoveryReported, ObsoleteDropped, incidentVars
<1>6. RowsAgree' BY <1>1 DEF RowsAgree, incidentVars
<1>7. KeysAgree'
  <2>1. \A n \in Rows : mails'[n] > 0 => attempts'[n] > 0
    BY <1>1 DEF KeysAgree
  <2>2. \A n \in Rows : key'[n] > 0 => mails'[n] > 0
    BY <1>1, <1>2 DEF KeysAgree, TypeOK
  <2>3. ASSUME NEW n \in Rows, mails'[n] > 0, ~Ended(n)', age'[n] <= Budget
        PROVE  key'[n] + age'[n] >= KeyLife
    <3>1. mails[n] > 0 /\ ~Ended(n) /\ attempts[n] > 0
      BY <1>1, <2>3 DEF Ended, KeysAgree
    <3>2. age[n] \in Nat /\ key[n] \in Nat /\ Budget \in Nat /\ KeyLife \in Nat /\ Budget < KeyLife
      BY AlertsAssumption DEF TypeOK
    <3>3. age[n] <= Budget /\ age'[n] = age[n] + 1
      BY <3>1, <3>2, <1>2, <2>3
    <3>4. key[n] + age[n] >= KeyLife
      BY <3>1, <3>3 DEF KeysAgree
    <3>5. key'[n] = key[n] - 1
      BY <3>1, <3>2, <3>3, <3>4, <1>2
    <3> QED BY <3>2, <3>3, <3>4, <3>5
  <2>4. \A d \in Dispatchers : pc'[d] # "send" BY <1>1 DEF Tick, dispatcherVars
  <2> QED BY <2>1, <2>2, <2>3, <2>4 DEF KeysAgree
<1>8. DispatchersAgree' BY <1>1 DEF DispatchersAgree, dispatcherVars
<1> QED BY <1>4, <1>5, <1>6, <1>7, <1>8

\* A send: an e-mail goes out only where none went before, and its key is fresh.
LEMMA SendPreserves ==
  ASSUME AlertInvariant, NEW d \in Dispatchers, Send(d) PROVE AlertInvariant'
<1> USE DEF AlertInvariant
<1> DEFINE n == job[d]
<1>1. /\ pc[d] = "send" /\ n \in Rows
      /\ attempts[n] > 0 /\ (mails[n] > 0 => key[n] > 0) /\ mails[n] \in 0..1 /\ key[n] \in Nat
  BY AlertsAssumption DEF Send, DispatchersAgree, KeysAgree, OneEmail, TypeOK
<1>2. /\ UNCHANGED <<result, incidentVars, outboxVars, job, token>>
      /\ \E v \in {"delivered", "failed", "dead_letter"} :
           /\ pc' = [pc EXCEPT ![d] = v]
           /\ \/ v # "delivered" /\ UNCHANGED providerVars
              \/ key[n] > 0 /\ UNCHANGED providerVars
              \/ /\ key[n] = 0
                 /\ mails' = [mails EXCEPT ![n] = @ + 1] /\ key' = [key EXCEPT ![n] = KeyLife]
  BY <1>1 DEF Send
<1>3. /\ mails' \in [Rows -> 0..MaxAttempts] /\ key' \in [Rows -> 0..KeyLife]
      /\ \A m \in Rows : mails'[m] <= 1 /\ mails'[m] >= mails[m]
      /\ \A m \in Rows : (mails'[m] = mails[m] /\ key'[m] = key[m]) \/ (m = n /\ mails'[m] = 1 /\ key'[m] = KeyLife)
  <2>1. CASE UNCHANGED providerVars
    BY <2>1 DEF providerVars, TypeOK, OneEmail
  <2>2. CASE /\ key[n] = 0
             /\ mails' = [mails EXCEPT ![n] = @ + 1] /\ key' = [key EXCEPT ![n] = KeyLife]
    <3>1. mails[n] = 0 BY <1>1, <2>2
    <3> QED BY <1>1, <2>2, <3>1, AlertsAssumption DEF TypeOK, OneEmail
  <2> QED BY <1>2, <2>1, <2>2
<1>4. TypeOK'
  <2>1. pc' \in [Dispatchers -> {"off", "idle", "evaluate", "send", "delivered", "failed", "dead_letter"}]
    BY <1>2 DEF TypeOK
  <2> QED BY <1>2, <1>3, <2>1 DEF TypeOK, incidentVars, outboxVars
<1>5. OneEmail' BY <1>3 DEF OneEmail
<1>6. RecoveryEarned'
  <2> SUFFICES ASSUME NEW i \in Runs, status[<<"recovered", i>>] # "none"
      PROVE /\ i = incident => ~open
            /\ \E q \in Runs :
                 about[q] = i /\ status[<<"failed", q>>] = "delivered" /\ mails'[<<"failed", q>>] > 0
    BY <1>2 DEF RecoveryEarned, incidentVars, outboxVars
  <2>1. PICK q \in Runs : about[q] = i /\ status[<<"failed", q>>] = "delivered" /\ mails[<<"failed", q>>] > 0
    BY DEF RecoveryEarned
  <2>2. mails'[<<"failed", q>>] > 0
    <3>1. <<"failed", q>> \in Rows BY RowsOf
    <3>2. mails[<<"failed", q>>] \in Int /\ mails'[<<"failed", q>>] \in Int BY <3>1, <1>3 DEF TypeOK
    <3> QED BY <2>1, <3>1, <3>2, <1>3
  <2> QED BY <2>1, <2>2 DEF RecoveryEarned
<1>7. RecoveryReported' BY <1>2 DEF RecoveryReported, incidentVars, outboxVars
<1>8. ObsoleteDropped' BY <1>2 DEF ObsoleteDropped, incidentVars, outboxVars
<1>9. RowsAgree'
  <2>1. ASSUME alerted PROVE \E r \in Runs :
       about[r] = incident /\ status[<<"failed", r>>] = "delivered" /\ mails'[<<"failed", r>>] > 0
    <3>1. PICK r \in Runs : about[r] = incident /\ status[<<"failed", r>>] = "delivered" /\ mails[<<"failed", r>>] > 0
      BY <2>1 DEF RowsAgree
    <3>2. mails'[<<"failed", r>>] > 0
      <4>1. <<"failed", r>> \in Rows BY RowsOf
      <4>2. mails[<<"failed", r>>] \in Int /\ mails'[<<"failed", r>>] \in Int BY <4>1, <1>3 DEF TypeOK
      <4> QED BY <3>1, <4>1, <4>2, <1>3
    <3> QED BY <3>1, <3>2
  <2> QED BY <1>2, <2>1 DEF RowsAgree, incidentVars, outboxVars
<1>10. KeysAgree'
  <2>1. \A m \in Rows : (mails'[m] > 0 => attempts[m] > 0) /\ (key'[m] > 0 => mails'[m] > 0)
    BY <1>1, <1>3 DEF KeysAgree
  <2>2. ASSUME NEW m \in Rows, mails'[m] > 0, ~Ended(m), age[m] <= Budget
        PROVE  key'[m] + age[m] >= KeyLife
    <3>1. age[m] \in Nat /\ KeyLife \in Nat BY AlertsAssumption DEF TypeOK
    <3> QED BY <2>2, <3>1, <1>3 DEF KeysAgree
  <2>3. ASSUME NEW e \in Dispatchers, pc'[e] = "send"
        PROVE  attempts[job[e]] > 0 /\ (mails'[job[e]] > 0 => key'[job[e]] > 0)
    <3>1. pc[e] = "send" /\ job[e] \in Rows
      BY <2>3, <1>2 DEF TypeOK, DispatchersAgree
    <3>2. KeyLife > 0 BY AlertsAssumption
    <3> QED BY <3>1, <3>2, <1>3 DEF KeysAgree
  <2> QED BY <1>2, <2>1, <2>2, <2>3 DEF KeysAgree, outboxVars, Ended
<1>11. DispatchersAgree'
  <2>1. mails'[n] > 0 \/ pc'[d] # "delivered"
    BY <1>1, <1>2, <1>3 DEF KeysAgree, TypeOK
  <2>2. \A e \in Dispatchers : e # d => pc'[e] = pc[e] BY <1>2 DEF TypeOK
  <2>3. ASSUME NEW e \in Dispatchers
        PROVE /\ pc'[e] \notin {"off", "idle"} => job[e] \in Rows
              /\ pc'[e] = "evaluate" => job[e][1] = "observed"
              /\ pc'[e] = "delivered" => job[e][1] = "observed" \/ mails'[job[e]] > 0
    <3>1. CASE e = d BY <3>1, <2>1, <1>1, <1>2 DEF TypeOK
    <3>2. CASE e # d BY <3>2, <2>2, <1>3 DEF DispatchersAgree, TypeOK
    <3> QED BY <3>1, <3>2
  <2> QED BY <1>2, <2>3 DEF DispatchersAgree
<1> QED BY <1>4, <1>5, <1>6, <1>7, <1>8, <1>9, <1>10, <1>11

\* A claim gives up what is exhausted and hands out one row that is not ended,
\* not exhausted and so young that its key is still remembered.
LEMMA ClaimPreserves ==
  ASSUME AlertInvariant, NEW d \in Dispatchers, Claim(d) PROVE AlertInvariant'
<1> USE DEF AlertInvariant
<1> DEFINE dead == {n \in Rows : Exhausted(n)}
           After(n) == [m \in Rows |->
             IF m \in dead THEN "dead_letter" ELSE IF m = n THEN "processing" ELSE status[m]]
<1>1. UNCHANGED <<result, incidentVars, about, created, wait, age, providerVars>> /\ pc[d] = "idle"
  BY DEF Claim
<1>2. \/ status' = After(None) /\ UNCHANGED <<attempts, leased, dispatcherVars>>
      \/ \E n \in Rows : /\ n \notin dead /\ Claimable(n)
                         /\ status' = After(n) /\ Hand(d, n)
  BY DEF Claim
<1>3. /\ status' \in [Rows -> {"none", "pending", "processing", "delivered", "failed", "dead_letter"}]
      /\ attempts' \in [Rows -> 0..MaxAttempts] /\ leased' \in [Rows -> BOOLEAN]
      /\ pc' \in [Dispatchers -> {"off", "idle", "evaluate", "send", "delivered", "failed", "dead_letter"}]
      /\ job' \in [Dispatchers -> Rows \cup {None}] /\ token' \in [Dispatchers -> 0..MaxAttempts]
      /\ \A m \in Rows :
           /\ attempts'[m] >= attempts[m]
           /\ (status[m] = "none" <=> status'[m] = "none")
           /\ (Ended(m) => status'[m] = status[m])
           /\ (leased'[m] => status'[m] = "processing")
           /\ (status'[m] = "processing" => attempts'[m] > 0)
           /\ (status'[m] \in Waiting => status[m] = status'[m] /\ attempts'[m] = attempts[m])
           /\ (status'[m] \notin {"delivered", "dead_letter"} => ~Ended(m))
      /\ \A e \in Dispatchers :
           \/ pc'[e] = pc[e] /\ job'[e] = job[e]
           \/ /\ e = d /\ job'[d] \in Rows /\ ~Ended(job'[d]) /\ job'[d] \notin dead
              /\ attempts'[job'[d]] > 0
              /\ pc'[d] = IF job'[d][1] = "observed" THEN "evaluate" ELSE "send"
              /\ age[job'[d]] <= Budget
  <2>0. \A m \in Rows : m # None BY RowShape
  <2>1. CASE status' = After(None) /\ UNCHANGED <<attempts, leased, dispatcherVars>>
    <3>1. \A m \in Rows : status'[m] = IF m \in dead THEN "dead_letter" ELSE status[m]
      BY <2>0, <2>1
    <3>2. \A m \in dead : status[m] \in {"pending", "failed", "processing"} /\ ~leased[m]
      BY DEF Exhausted, Waiting
    <3>3. \A m \in Rows : (leased[m] => status[m] = "processing") /\ (status[m] = "processing" => attempts[m] > 0)
      BY DEF RowsAgree
    <3>4. \A m \in Rows : attempts[m] \in Int BY DEF TypeOK
    <3>5. status' \in [Rows -> {"none", "pending", "processing", "delivered", "failed", "dead_letter"}]
      BY <2>1 DEF TypeOK
    <3> QED BY <2>1, <3>1, <3>2, <3>3, <3>4, <3>5 DEF TypeOK, dispatcherVars, Waiting, Ended
  <2>2. CASE \E n \in Rows : n \notin dead /\ Claimable(n) /\ status' = After(n) /\ Hand(d, n)
    <3>1. PICK n \in Rows : n \notin dead /\ Claimable(n) /\ status' = After(n) /\ Hand(d, n)
      BY <2>2
    <3>2. \A m \in Rows : status'[m] = IF m \in dead THEN "dead_letter" ELSE IF m = n THEN "processing" ELSE status[m]
      BY <3>1
    <3>3. \A m \in dead : status[m] \in {"pending", "failed", "processing"} /\ ~leased[m]
      BY DEF Exhausted, Waiting
    <3>4. \A m \in Rows : (leased[m] => status[m] = "processing") /\ (status[m] = "processing" => attempts[m] > 0)
      BY DEF RowsAgree
    <3>5. status[n] \in {"pending", "failed", "processing"} /\ ~leased[n]
      BY <3>1, <3>4 DEF Claimable, Waiting
    <3>6. attempts[n] \in 0..MaxAttempts /\ MaxAttempts \in Nat /\ age[n] \in Int /\ Budget \in Int
      BY AlertsAssumption DEF TypeOK
    <3>7. attempts[n] < MaxAttempts /\ age[n] <= Budget
      BY <3>1, <3>5, <3>6 DEF Exhausted, Waiting
    <3>8. /\ attempts' = [attempts EXCEPT ![n] = @ + 1] /\ leased' = [leased EXCEPT ![n] = TRUE]
          /\ pc' = [pc EXCEPT ![d] = IF n[1] = "observed" THEN "evaluate" ELSE "send"]
          /\ job' = [job EXCEPT ![d] = n] /\ token' = [token EXCEPT ![d] = attempts'[n]]
      BY <3>1 DEF Hand
    <3>9. /\ attempts' \in [Rows -> 0..MaxAttempts] /\ leased' \in [Rows -> BOOLEAN]
          /\ attempts'[n] > 0 /\ \A m \in Rows : attempts'[m] >= attempts[m] /\ (m # n => attempts'[m] = attempts[m])
          /\ \A m \in Rows : m # n => leased'[m] = leased[m]
      BY <3>6, <3>7, <3>8 DEF TypeOK
    <3>10. /\ pc' \in [Dispatchers -> {"off", "idle", "evaluate", "send", "delivered", "failed", "dead_letter"}]
           /\ job' \in [Dispatchers -> Rows \cup {None}] /\ token' \in [Dispatchers -> 0..MaxAttempts]
           /\ job'[d] = n /\ pc'[d] = IF n[1] = "observed" THEN "evaluate" ELSE "send"
           /\ \A e \in Dispatchers : e # d => pc'[e] = pc[e] /\ job'[e] = job[e]
      BY <3>8, <3>9 DEF TypeOK
    <3>11. status' \in [Rows -> {"none", "pending", "processing", "delivered", "failed", "dead_letter"}]
      BY <3>1 DEF TypeOK
    <3>12. ASSUME NEW m \in Rows
           PROVE  /\ (status[m] = "none" <=> status'[m] = "none")
                  /\ (Ended(m) => status'[m] = status[m])
                  /\ (leased'[m] => status'[m] = "processing")
                  /\ (status'[m] = "processing" => attempts'[m] > 0)
                  /\ (status'[m] \in Waiting => status[m] = status'[m] /\ attempts'[m] = attempts[m])
                  /\ (status'[m] \notin {"delivered", "dead_letter"} => ~Ended(m))
      <4>1. CASE m = n BY <4>1, <3>1, <3>2, <3>5, <3>9 DEF Ended, Waiting
      <4>2. CASE m # n BY <4>2, <3>2, <3>3, <3>4, <3>9 DEF Ended, Waiting
      <4> QED BY <4>1, <4>2
    <3>13. n \notin dead /\ ~Ended(n) BY <3>1, <3>5 DEF Ended
    <3> QED BY <3>7, <3>9, <3>10, <3>11, <3>12, <3>13
  <2> QED BY <1>2, <2>1, <2>2
<1>4. TypeOK' BY <1>1, <1>3 DEF TypeOK, incidentVars, providerVars
<1>5. OneEmail' BY <1>1 DEF OneEmail, providerVars
<1>6. \A r \in Runs :
        /\ status[<<"failed", r>>] = "none" <=> status'[<<"failed", r>>] = "none"
        /\ status[<<"recovered", r>>] = "none" <=> status'[<<"recovered", r>>] = "none"
        /\ status[<<"failed", r>>] = "delivered" => status'[<<"failed", r>>] = "delivered"
        /\ status'[<<"failed", r>>] \in Waiting =>
             status[<<"failed", r>>] \in Waiting /\ attempts'[<<"failed", r>>] = attempts[<<"failed", r>>]
  BY <1>3, RowsOf DEF Ended
<1>7. RecoveryEarned'
  <2> SUFFICES ASSUME NEW i \in Runs, status[<<"recovered", i>>] # "none"
      PROVE /\ i = incident => ~open
            /\ \E q \in Runs :
                 about[q] = i /\ status'[<<"failed", q>>] = "delivered" /\ mails[<<"failed", q>>] > 0
    BY <1>1, <1>6 DEF RecoveryEarned, incidentVars, providerVars
  <2> QED BY <1>6 DEF RecoveryEarned
<1>8. RecoveryReported'
  <2>1. alerted => incident \in Runs BY AlertsAssumption DEF RowsAgree, TypeOK, Runs
  <2> QED BY <2>1, <1>1, <1>6 DEF RecoveryReported, incidentVars
<1>9. ObsoleteDropped' BY <1>1, <1>6 DEF ObsoleteDropped, incidentVars
<1>10. RowsAgree'
  <2>1. ASSUME alerted PROVE \E r \in Runs :
       about[r] = incident /\ status'[<<"failed", r>>] = "delivered" /\ mails[<<"failed", r>>] > 0
    BY <2>1, <1>6 DEF RowsAgree
  <2> QED BY <1>1, <1>3, <1>6, <2>1 DEF RowsAgree, incidentVars, providerVars
<1>11. KeysAgree'
  <2>1. \A m \in Rows : (mails[m] > 0 => attempts'[m] > 0) /\ (key[m] > 0 => mails[m] > 0)
    BY <1>3 DEF KeysAgree, TypeOK
  <2>2. \A m \in Rows :
       mails[m] > 0 /\ status'[m] \notin {"delivered", "dead_letter"} /\ age[m] <= Budget => key[m] + age[m] >= KeyLife
    BY <1>3 DEF KeysAgree
  <2>3. ASSUME NEW e \in Dispatchers, pc'[e] = "send"
        PROVE  attempts'[job'[e]] > 0 /\ (mails[job'[e]] > 0 => key[job'[e]] > 0)
    <3>1. CASE pc'[e] = pc[e] /\ job'[e] = job[e]
      <4>1. job[e] \in Rows BY <3>1, <2>3 DEF DispatchersAgree
      <4>2. attempts[job[e]] > 0 /\ (mails[job[e]] > 0 => key[job[e]] > 0)
        BY <3>1, <2>3 DEF KeysAgree
      <4>3. attempts'[job[e]] >= attempts[job[e]] /\ attempts[job[e]] \in Int /\ attempts'[job[e]] \in Int
        BY <4>1, <1>3 DEF TypeOK
      <4> QED BY <3>1, <4>2, <4>3
    <3>2. CASE e = d /\ job'[d] \in Rows /\ ~Ended(job'[d]) /\ attempts'[job'[d]] > 0 /\ age[job'[d]] <= Budget
      <4>1. mails[job'[d]] > 0 => key[job'[d]] + age[job'[d]] >= KeyLife
        BY <3>2 DEF KeysAgree
      <4>2. /\ key[job'[d]] \in Int /\ age[job'[d]] \in Int
            /\ KeyLife \in Int /\ Budget \in Int /\ Budget < KeyLife
        BY <3>2, AlertsAssumption DEF TypeOK
      <4> QED BY <3>2, <4>1, <4>2
    <3> QED BY <3>1, <3>2, <1>3
  <2> QED BY <1>1, <2>1, <2>2, <2>3 DEF KeysAgree, Ended, providerVars
<1>12. DispatchersAgree' BY <1>1, <1>3 DEF DispatchersAgree, providerVars
<1> QED BY <1>4, <1>5, <1>7, <1>8, <1>9, <1>10, <1>11, <1>12

\* An evaluation that is not stale, of a failed run.
LEMMA FailurePreserves ==
  ASSUME AlertInvariant, NEW r \in Runs, r > last, last' = r, RecordFailed(r),
         UNCHANGED <<attempts, leased, mails>>
  PROVE  /\ incident' \in 0..LastRun /\ open' \in BOOLEAN /\ alerted' \in BOOLEAN
         /\ about' \in [Runs -> 0..LastRun] /\ created' \in [Rows -> Nat]
         /\ status' \in [Rows -> {"none", "pending", "processing", "delivered", "failed", "dead_letter"}]
         /\ \A m \in Rows : status'[m] = status[m] \/ ~Ended(m)
         /\ RecoveryEarned' /\ RecoveryReported' /\ ObsoleteDropped' /\ RowsAgree'
<1> USE DEF AlertInvariant
<1> DEFINE i == IF open THEN incident ELSE r
           new == IF ~open \/ r \in Scheduled THEN <<"failed", r>> ELSE None
<1>1. /\ incident' = i /\ open' = TRUE /\ alerted' = (open /\ alerted)
      /\ about' = IF ~open \/ r \in Scheduled THEN [about EXCEPT ![r] = i] ELSE about
      /\ Outbox(new, {}, "dead_letter")
  BY DEF RecordFailed
<1>2. last \in 0..LastRun /\ incident \in 0..LastRun /\ r \in 1..LastRun /\ LastRun \in Nat /\ incident <= last
      /\ (open => incident # 0)
  BY AlertsAssumption DEF TypeOK, Runs, RowsAgree
<1>3. i \in 1..r /\ i \in 0..LastRun BY <1>2
<1>4. about' \in [Runs -> 0..LastRun] /\ \A q \in Runs : q # r => about'[q] = about[q]
  BY <1>1, <1>3 DEF TypeOK
<1>5. /\ status' \in [Rows -> {"none", "pending", "processing", "delivered", "failed", "dead_letter"}]
      /\ created' \in [Rows -> Nat]
      /\ \A n \in Rows : status'[n] = IF n = new /\ status[n] = "none" THEN "pending" ELSE status[n]
  BY <1>1, OutboxShape
<1>6. status[<<"failed", r>>] = "none" BY <1>2 DEF RowsAgree
<1>7. \A q \in Runs : /\ status'[<<"recovered", q>>] = status[<<"recovered", q>>]
                      /\ q # r => status'[<<"failed", q>>] = status[<<"failed", q>>]
  BY <1>5, RowsOf DEF None
<1>8. status'[<<"failed", r>>] # "none" => about'[r] = i
  BY <1>1, <1>4, <1>5, <1>6, RowsOf DEF None, TypeOK
<1>9. RecoveryEarned'
  <2> SUFFICES ASSUME NEW j \in Runs, status'[<<"recovered", j>>] # "none"
      PROVE /\ j # i
            /\ \E q \in Runs :
                 about'[q] = j /\ status'[<<"failed", q>>] = "delivered" /\ mails[<<"failed", q>>] > 0
    BY <1>1 DEF RecoveryEarned
  <2>1. status[<<"recovered", j>>] # "none" BY <1>7
  <2>2. j <= last /\ (j = incident => ~open) BY <2>1 DEF RowsAgree, RecoveryEarned
  <2>3. j # i BY <2>2, <1>2 DEF Runs
  <2>4. PICK q \in Runs : about[q] = j /\ status[<<"failed", q>>] = "delivered" /\ mails[<<"failed", q>>] > 0
    BY <2>1 DEF RecoveryEarned
  <2>5. q # r BY <2>4, <1>6
  <2> QED BY <2>3, <2>4, <2>5, <1>4, <1>7
<1>10. RecoveryReported' BY <1>1 DEF RecoveryReported
<1>11. ObsoleteDropped'
  <2> SUFFICES ASSUME NEW q \in Runs, status'[<<"failed", q>>] \in Waiting, attempts[<<"failed", q>>] = 0
      PROVE about'[q] = i
    BY <1>1 DEF ObsoleteDropped
  <2>1. CASE q = r BY <2>1, <1>8 DEF Waiting
  <2>2. CASE q # r
    <3>1. open /\ about[q] = incident BY <2>2, <1>7 DEF ObsoleteDropped
    <3> QED BY <3>1, <2>2, <1>4
  <2> QED BY <2>1, <2>2
<1>12. RowsAgree'
  <2>1. incident' <= last' /\ (open' \/ alerted' => incident' # 0) BY <1>1, <1>3
  <2>2. ASSUME NEW q \in Runs, status'[<<"failed", q>>] # "none" PROVE q <= last' /\ about'[q] \in 1..last'
    <3>1. CASE q = r BY <3>1, <2>2, <1>3, <1>8, <1>2
    <3>2. CASE q # r
      <4>1. q <= last /\ about[q] \in 1..last BY <3>2, <2>2, <1>7 DEF RowsAgree
      <4> QED BY <4>1, <3>2, <1>2, <1>4
    <3> QED BY <3>1, <3>2
  <2>3. ASSUME NEW q \in Runs, status'[<<"recovered", q>>] # "none" PROVE q <= last'
    <3>1. q <= last BY <2>3, <1>7 DEF RowsAgree
    <3> QED BY <3>1, <1>2 DEF Runs
  <2>4. \A n \in Rows : leased'[n] => status'[n] = "processing"
    <3>1. \A n \in Rows : leased[n] => status[n] = "processing" BY DEF RowsAgree
    <3> QED BY <3>1, <1>5
  <2>5. \A n \in Rows : status'[n] = "processing" => attempts'[n] > 0
    <3>1. \A n \in Rows : status[n] = "processing" => attempts[n] > 0 BY DEF RowsAgree
    <3> QED BY <3>1, <1>5
  <2>6. ASSUME alerted' PROVE \E q \in Runs :
       about'[q] = incident' /\ status'[<<"failed", q>>] = "delivered" /\ mails'[<<"failed", q>>] > 0
    <3>1. open /\ alerted BY <2>6, <1>1
    <3>2. PICK q \in Runs : about[q] = incident /\ status[<<"failed", q>>] = "delivered" /\ mails[<<"failed", q>>] > 0
      BY <3>1 DEF RowsAgree
    <3>3. q # r BY <3>2, <1>6
    <3> QED BY <3>1, <3>2, <3>3, <1>1, <1>4, <1>7
  <2> QED BY <2>1, <2>2, <2>3, <2>4, <2>5, <2>6 DEF RowsAgree
<1>13. \A m \in Rows : status'[m] = status[m] \/ ~Ended(m) BY <1>5 DEF Ended
<1> QED BY <1>1, <1>3, <1>4, <1>5, <1>9, <1>10, <1>11, <1>12, <1>13 DEF TypeOK

\* An evaluation that is not stale, of a passed run.
LEMMA SuccessPreserves ==
  ASSUME AlertInvariant, NEW r \in Runs, r > last, last' = r, RecordPassed,
         UNCHANGED <<attempts, leased, mails>>
  PROVE  /\ incident' \in 0..LastRun /\ open' \in BOOLEAN /\ alerted' \in BOOLEAN
         /\ about' \in [Runs -> 0..LastRun] /\ created' \in [Rows -> Nat]
         /\ status' \in [Rows -> {"none", "pending", "processing", "delivered", "failed", "dead_letter"}]
         /\ \A m \in Rows : status'[m] = status[m] \/ ~Ended(m)
         /\ RecoveryEarned' /\ RecoveryReported' /\ ObsoleteDropped' /\ RowsAgree'
<1> USE DEF AlertInvariant
<1> DEFINE new == IF open /\ alerted THEN <<"recovered", incident>> ELSE None
           dropped == {n \in Rows : /\ open /\ n[1] = "failed" /\ about[n[2]] = incident
                                    /\ status[n] \in Waiting /\ attempts[n] = 0}
<1>1. open' = FALSE /\ UNCHANGED <<incident, alerted, about>> /\ Outbox(new, dropped, "dead_letter")
  BY DEF RecordPassed
<1>2. last \in 0..LastRun /\ incident \in 0..LastRun /\ r \in 1..LastRun /\ LastRun \in Nat /\ incident <= last
  BY AlertsAssumption DEF TypeOK, Runs, RowsAgree
<1>3. /\ status' \in [Rows -> {"none", "pending", "processing", "delivered", "failed", "dead_letter"}]
      /\ created' \in [Rows -> Nat]
      /\ \A n \in Rows : status'[n] = IF n \in dropped THEN "dead_letter"
                           ELSE IF n = new /\ status[n] = "none" THEN "pending" ELSE status[n]
  BY <1>1, OutboxShape
<1>4. alerted => incident \in Runs BY <1>2 DEF RowsAgree, Runs
<1>5. \A q \in Runs : status'[<<"recovered", q>>] =
        IF open /\ alerted /\ q = incident /\ status[<<"recovered", q>>] = "none" THEN "pending"
        ELSE status[<<"recovered", q>>]
  BY <1>3, RowsOf DEF None
<1>6. \A q \in Runs : status'[<<"failed", q>>] =
        IF <<"failed", q>> \in dropped THEN "dead_letter" ELSE status[<<"failed", q>>]
  BY <1>3, RowsOf DEF None
<1>7. \A n \in dropped : status[n] \in {"pending", "failed"} BY DEF Waiting
<1>8. \A q \in Runs : status[<<"failed", q>>] = "delivered" => status'[<<"failed", q>>] = "delivered"
  BY <1>6, <1>7
<1>9. RecoveryEarned'
  <2> SUFFICES ASSUME NEW j \in Runs, status'[<<"recovered", j>>] # "none"
      PROVE \E q \in Runs :
              about[q] = j /\ status'[<<"failed", q>>] = "delivered" /\ mails[<<"failed", q>>] > 0
    BY <1>1 DEF RecoveryEarned
  <2>1. CASE status[<<"recovered", j>>] # "none" BY <2>1, <1>8 DEF RecoveryEarned
  <2>2. CASE alerted /\ j = incident BY <2>2, <1>8 DEF RowsAgree
  <2> QED BY <2>1, <2>2, <1>5
<1>10. RecoveryReported'
  <2> SUFFICES ASSUME alerted PROVE status'[<<"recovered", incident>>] # "none"
    BY <1>1 DEF RecoveryReported
  <2> QED BY <1>4, <1>5 DEF RecoveryReported
<1>11. ObsoleteDropped'
  <2> SUFFICES ASSUME NEW q \in Runs, status'[<<"failed", q>>] \in Waiting, attempts[<<"failed", q>>] = 0
      PROVE FALSE
    BY DEF ObsoleteDropped
  <2>1. status[<<"failed", q>>] \in Waiting /\ <<"failed", q>> \notin dropped BY <1>6 DEF Waiting
  <2>2. open /\ about[q] = incident BY <2>1 DEF ObsoleteDropped
  <2> QED BY <2>1, <2>2, RowsOf
<1>12. RowsAgree'
  <2>1. incident' <= last' /\ (open' \/ alerted' => incident' # 0) BY <1>1, <1>2 DEF RowsAgree
  <2>2. ASSUME NEW q \in Runs, status'[<<"failed", q>>] # "none" PROVE q <= last' /\ about'[q] \in 1..last'
    <3>1. q <= last /\ about[q] \in 1..last BY <2>2, <1>6, <1>7 DEF RowsAgree
    <3> QED BY <3>1, <1>1, <1>2
  <2>3. ASSUME NEW q \in Runs, status'[<<"recovered", q>>] # "none" PROVE q <= last'
    <3>1. q <= last BY <2>3, <1>2, <1>5 DEF RowsAgree
    <3> QED BY <3>1, <1>2 DEF Runs
  <2>4. \A n \in Rows : leased'[n] => status'[n] = "processing"
    <3>1. \A n \in Rows : leased[n] => status[n] = "processing" BY DEF RowsAgree
    <3> QED BY <3>1, <1>3, <1>7
  <2>5. \A n \in Rows : status'[n] = "processing" => attempts'[n] > 0
    <3>1. \A n \in Rows : status[n] = "processing" => attempts[n] > 0 BY DEF RowsAgree
    <3> QED BY <3>1, <1>3
  <2>6. ASSUME alerted' PROVE \E q \in Runs :
       about'[q] = incident' /\ status'[<<"failed", q>>] = "delivered" /\ mails'[<<"failed", q>>] > 0
    BY <2>6, <1>1, <1>8 DEF RowsAgree
  <2> QED BY <2>1, <2>2, <2>3, <2>4, <2>5, <2>6 DEF RowsAgree
<1>13. \A m \in Rows : status'[m] = status[m] \/ ~Ended(m) BY <1>3, <1>7 DEF Ended
<1> QED BY <1>1, <1>2, <1>3, <1>9, <1>10, <1>11, <1>12, <1>13 DEF TypeOK

\* The evaluation of an observation.
LEMMA EvaluatePreserves ==
  ASSUME AlertInvariant, NEW d \in Dispatchers, Evaluate(d) PROVE AlertInvariant'
<1> USE DEF AlertInvariant
<1> DEFINE r == job[d][2]
<1>1. /\ pc[d] = "evaluate" /\ Record(r) /\ pc' = [pc EXCEPT ![d] = "delivered"]
      /\ UNCHANGED <<result, attempts, leased, wait, age, job, token, providerVars>>
  BY DEF Evaluate
<1>2. job[d] \in Rows /\ job[d][1] = "observed" BY <1>1 DEF DispatchersAgree
<1>3. r \in Runs BY <1>2, RowShape
<1>4. /\ incident' \in 0..LastRun /\ last' \in 0..LastRun /\ open' \in BOOLEAN /\ alerted' \in BOOLEAN
      /\ about' \in [Runs -> 0..LastRun] /\ created' \in [Rows -> Nat]
      /\ status' \in [Rows -> {"none", "pending", "processing", "delivered", "failed", "dead_letter"}]
      /\ \A m \in Rows : status'[m] = status[m] \/ ~Ended(m)
      /\ RecoveryEarned' /\ RecoveryReported' /\ ObsoleteDropped' /\ RowsAgree'
  <2>1. CASE UNCHANGED <<incidentVars, about, created, status>>
    <3>1. RecoveryEarned' BY <2>1, <1>1 DEF RecoveryEarned, incidentVars, providerVars
    <3>2. RecoveryReported' BY <2>1 DEF RecoveryReported, incidentVars
    <3>3. ObsoleteDropped' BY <2>1, <1>1 DEF ObsoleteDropped, incidentVars
    <3>4. RowsAgree' BY <2>1, <1>1 DEF RowsAgree, incidentVars, providerVars
    <3> QED BY <2>1, <3>1, <3>2, <3>3, <3>4 DEF TypeOK, incidentVars
  <2>2. CASE r > last /\ last' = r /\ (RecordFailed(r) \/ RecordPassed)
    <3>1. last' \in 0..LastRun BY <2>2, <1>3, AlertsAssumption DEF Runs
    <3>2. CASE RecordFailed(r) BY <3>1, <3>2, <2>2, <1>1, <1>3, FailurePreserves DEF providerVars
    <3>3. CASE RecordPassed BY <3>1, <3>3, <2>2, <1>1, <1>3, SuccessPreserves DEF providerVars
    <3> QED BY <2>2, <3>2, <3>3
  <2>3. r \in Int /\ last \in Int BY <1>3, AlertsAssumption DEF Runs, TypeOK
  <2> QED BY <1>1, <2>1, <2>2, <2>3 DEF Record, Stale
<1>5. pc' \in [Dispatchers -> {"off", "idle", "evaluate", "send", "delivered", "failed", "dead_letter"}]
  BY <1>1 DEF TypeOK
<1>6. TypeOK' BY <1>1, <1>4, <1>5 DEF TypeOK, providerVars
<1>7. OneEmail' BY <1>1 DEF OneEmail, providerVars
<1>8. KeysAgree'
  <2>1. \A e \in Dispatchers : pc'[e] = "send" => pc[e] = "send" BY <1>1 DEF TypeOK
  <2>2. \A m \in Rows : ~Ended(m)' => ~Ended(m) BY <1>4 DEF Ended
  <2> QED BY <1>1, <2>1, <2>2 DEF KeysAgree, providerVars
<1>9. DispatchersAgree'
  <2>1. \A e \in Dispatchers : pc'[e] = pc[e] \/ (e = d /\ pc'[e] = "delivered") BY <1>1 DEF TypeOK
  <2> QED BY <1>1, <1>2, <2>1 DEF DispatchersAgree, providerVars
<1> QED BY <1>4, <1>6, <1>7, <1>8, <1>9

\* The end of an attempt.
LEMMA FinishPreserves ==
  ASSUME AlertInvariant, NEW d \in Dispatchers, Finish(d) PROVE AlertInvariant'
<1> USE DEF AlertInvariant
<1> DEFINE n == job[d]
           confirms == pc[d] = "delivered" /\ Confirms(n)
           new == IF confirms THEN Following ELSE None
           v == IF pc[d] = "failed" /\ attempts[n] >= MaxAttempts THEN "dead_letter" ELSE pc[d]
<1>1. /\ pc[d] \in {"delivered", "failed", "dead_letter"} /\ n \in Rows
      /\ UNCHANGED <<result, incident, open, last, about, attempts, age, providerVars>>
      /\ pc' = [pc EXCEPT ![d] = "idle"] /\ job' = [job EXCEPT ![d] = None] /\ token' = [token EXCEPT ![d] = 0]
  BY DEF Finish, Idle, DispatchersAgree
<1>2. \/ UNCHANGED <<alerted, created, status, leased, wait>>
      \/ /\ status[n] = "processing" /\ alerted' = (alerted \/ confirms) /\ Outbox(new, {n}, v)
         /\ leased' = [leased EXCEPT ![n] = FALSE] /\ wait' = [wait EXCEPT ![n] = attempts[n]]
  BY DEF Finish, Owned
<1>3. /\ pc' \in [Dispatchers -> {"off", "idle", "evaluate", "send", "delivered", "failed", "dead_letter"}]
      /\ job' \in [Dispatchers -> Rows \cup {None}] /\ token' \in [Dispatchers -> 0..MaxAttempts]
      /\ \A e \in Dispatchers : pc'[e] = "idle" \/ (pc'[e] = pc[e] /\ job'[e] = job[e])
  BY <1>1, AlertsAssumption DEF TypeOK
<1>4. DispatchersAgree' BY <1>1, <1>3 DEF DispatchersAgree, providerVars
<1>5. OneEmail' BY <1>1 DEF OneEmail, providerVars
<1>6. CASE UNCHANGED <<alerted, created, status, leased, wait>>
  <2>1. TypeOK' BY <1>1, <1>3, <1>6 DEF TypeOK, providerVars
  <2>2. RecoveryEarned' BY <1>1, <1>6 DEF RecoveryEarned, providerVars
  <2>3. RecoveryReported' BY <1>1, <1>6 DEF RecoveryReported
  <2>4. ObsoleteDropped' BY <1>1, <1>6 DEF ObsoleteDropped
  <2>5. RowsAgree' BY <1>1, <1>6 DEF RowsAgree, providerVars
  <2>6. KeysAgree'
    <3>1. \A e \in Dispatchers : pc'[e] = "send" => pc[e] = "send" /\ job'[e] = job[e] BY <1>3
    <3> QED BY <1>1, <1>6, <3>1 DEF KeysAgree, providerVars, Ended
  <2> QED BY <2>1, <2>2, <2>3, <2>4, <2>5, <2>6, <1>4, <1>5
<1>7. CASE /\ status[n] = "processing" /\ alerted' = (alerted \/ confirms) /\ Outbox(new, {n}, v)
           /\ leased' = [leased EXCEPT ![n] = FALSE] /\ wait' = [wait EXCEPT ![n] = attempts[n]]
  <2>1. v \in {"dead_letter", "delivered", "failed"} /\ (v = "delivered" <=> pc[d] = "delivered") BY <1>1
  <2>2. /\ status' \in [Rows -> {"none", "pending", "processing", "delivered", "failed", "dead_letter"}]
        /\ created' \in [Rows -> Nat]
        /\ \A m \in Rows : status'[m] = IF m \in {n} THEN v
                             ELSE IF m = new /\ status[m] = "none" THEN "pending" ELSE status[m]
    BY <1>1, <1>7, <2>1, OutboxShape
  <2>3. /\ alerted' \in BOOLEAN /\ leased' \in [Rows -> BOOLEAN] /\ wait' \in [Rows -> 0..MaxAttempts]
        /\ \A m \in Rows : leased'[m] = IF m = n THEN FALSE ELSE leased[m]
    BY <1>1, <1>7 DEF TypeOK
  <2>4. TypeOK' BY <1>1, <1>3, <2>2, <2>3 DEF TypeOK, providerVars
  <2>5. new = None \/ (confirms /\ ~open /\ new = <<"recovered", incident>>) BY DEF Following
  <2>6. confirms => /\ n[1] = "failed" /\ about[n[2]] = incident /\ n = <<"failed", n[2]>> /\ n[2] \in Runs
                    /\ mails[n] > 0 /\ incident \in 1..last
    <3>1. ASSUME confirms PROVE n[1] = "failed" /\ about[n[2]] = incident /\ pc[d] = "delivered" BY <3>1 DEF Confirms
    <3>2. ASSUME confirms PROVE n = <<"failed", n[2]>> /\ n[2] \in Runs BY <3>1, <3>2, <1>1, RowShape
    <3>3. ASSUME confirms PROVE mails[n] > 0 BY <3>1, <3>3 DEF DispatchersAgree
    <3>4. ASSUME confirms PROVE about[n[2]] \in 1..last BY <3>2, <3>4, <1>7 DEF RowsAgree
    <3> QED BY <3>1, <3>2, <3>3, <3>4
  <2>7. \A q \in Runs :
          /\ status[<<"recovered", q>>] # "none" => status'[<<"recovered", q>>] # "none"
          /\ status'[<<"recovered", q>>] # "none" =>
               status[<<"recovered", q>>] # "none" \/ (confirms /\ ~open /\ q = incident)
          /\ status[<<"failed", q>>] = "delivered" => status'[<<"failed", q>>] = "delivered"
          /\ status'[<<"failed", q>>] # "none" => status[<<"failed", q>>] # "none"
    <3> SUFFICES ASSUME NEW q \in Runs
        PROVE /\ status[<<"recovered", q>>] # "none" => status'[<<"recovered", q>>] # "none"
              /\ status'[<<"recovered", q>>] # "none" =>
                   status[<<"recovered", q>>] # "none" \/ (confirms /\ ~open /\ q = incident)
              /\ status[<<"failed", q>>] = "delivered" => status'[<<"failed", q>>] = "delivered"
              /\ status'[<<"failed", q>>] # "none" => status[<<"failed", q>>] # "none"
      OBVIOUS
    <3>1. <<"recovered", q>> \in Rows /\ <<"failed", q>> \in Rows BY RowsOf
    <3>2. <<"failed", q>> # new BY <2>5 DEF None
    <3>3. <<"recovered", q>> = new => confirms /\ ~open /\ q = incident BY <2>5 DEF None
    <3>4. v # "none" BY <2>1
    <3>5. status'[<<"failed", q>>] = IF <<"failed", q>> = n THEN v ELSE status[<<"failed", q>>]
      BY <3>1, <3>2, <2>2
    <3>6. status'[<<"recovered", q>>] = IF <<"recovered", q>> = n THEN v
            ELSE IF <<"recovered", q>> = new /\ status[<<"recovered", q>>] = "none" THEN "pending"
            ELSE status[<<"recovered", q>>]
      BY <3>1, <2>2
    <3>7. status[<<"failed", q>>] = "delivered" => <<"failed", q>> # n BY <1>7
    <3>8. <<"failed", q>> = n => status[<<"failed", q>>] = "processing" BY <1>7
    <3>9. <<"recovered", q>> = n => status[<<"recovered", q>>] = "processing" BY <1>7
    <3> QED BY <3>3, <3>4, <3>5, <3>6, <3>7, <3>8, <3>9
  <2>8. confirms => \E q \in Runs :
          about[q] = incident /\ status'[<<"failed", q>>] = "delivered" /\ mails[<<"failed", q>>] > 0
    BY <2>1, <2>2, <2>6, <1>1
  <2>9. RecoveryEarned'
    <3> SUFFICES ASSUME NEW j \in Runs, status'[<<"recovered", j>>] # "none"
        PROVE /\ j = incident => ~open
              /\ \E q \in Runs :
                   about[q] = j /\ status'[<<"failed", q>>] = "delivered" /\ mails[<<"failed", q>>] > 0
      BY <1>1 DEF RecoveryEarned, providerVars
    <3>1. CASE status[<<"recovered", j>>] # "none" BY <3>1, <2>7 DEF RecoveryEarned
    <3>2. CASE confirms /\ ~open /\ j = incident BY <3>2, <2>8
    <3> QED BY <3>1, <3>2, <2>7
  <2>10. RecoveryReported'
    <3> SUFFICES ASSUME ~open, alerted \/ confirms PROVE status'[<<"recovered", incident>>] # "none"
      BY <1>1, <1>7 DEF RecoveryReported
    <3>1. CASE confirms
      <4>1. incident \in Runs BY <3>1, <2>6, AlertsAssumption DEF Runs, TypeOK
      <4>2. new = <<"recovered", incident>> BY <3>1 DEF Following
      <4>3. <<"recovered", incident>> \in Rows BY <4>1, RowsOf
      <4> QED BY <4>2, <4>3, <2>1, <2>2
    <3>2. CASE alerted
      <4>1. incident \in Runs BY <3>2, AlertsAssumption DEF Runs, TypeOK, RowsAgree
      <4> QED BY <3>2, <4>1, <2>7 DEF RecoveryReported
    <3> QED BY <3>1, <3>2
  <2>11. ObsoleteDropped'
    <3> SUFFICES ASSUME NEW q \in Runs, status'[<<"failed", q>>] \in Waiting, attempts[<<"failed", q>>] = 0
        PROVE open /\ about[q] = incident
      BY <1>1 DEF ObsoleteDropped
    <3>1. attempts[n] > 0 BY <1>1, <1>7 DEF RowsAgree
    <3>2. <<"failed", q>> \in Rows /\ <<"failed", q>> # n
      <4>1. attempts[<<"failed", q>>] # attempts[n] BY <3>1
      <4> QED BY <4>1, RowsOf
    <3>3. <<"failed", q>> # new BY <2>5 DEF None
    <3>4. status[<<"failed", q>>] \in Waiting BY <3>2, <3>3, <2>2
    <3> QED BY <3>4 DEF ObsoleteDropped
  <2>12. RowsAgree'
    <3>1. incident' <= last' /\ (open' \/ alerted' => incident' # 0)
      <4>1. alerted' => alerted \/ confirms BY <1>7
      <4>2. confirms => incident # 0 BY <2>6 DEF TypeOK
      <4> QED BY <4>1, <4>2, <1>1 DEF RowsAgree
    <3>2. \A q \in Runs : status'[<<"failed", q>>] # "none" => q <= last /\ about[q] \in 1..last
      BY <2>7 DEF RowsAgree
    <3>3. ASSUME NEW q \in Runs, status'[<<"recovered", q>>] # "none" PROVE q <= last
      BY <3>3, <2>7 DEF RowsAgree
    <3>4. \A m \in Rows : leased'[m] => status'[m] = "processing"
      <4>1. \A m \in Rows : leased[m] => status[m] = "processing" BY DEF RowsAgree
      <4> QED BY <4>1, <2>2, <2>3
    <3>5. \A m \in Rows : status'[m] = "processing" => attempts[m] > 0
      <4>1. \A m \in Rows : status[m] = "processing" => attempts[m] > 0 BY DEF RowsAgree
      <4> QED BY <4>1, <2>1, <2>2
    <3>6. ASSUME alerted' PROVE \E q \in Runs :
         about[q] = incident /\ status'[<<"failed", q>>] = "delivered" /\ mails[<<"failed", q>>] > 0
      <4>1. CASE confirms BY <4>1, <2>8
      <4>2. CASE alerted BY <4>2, <2>7 DEF RowsAgree
      <4> QED BY <3>6, <1>7, <4>1, <4>2
    <3> QED BY <1>1, <3>1, <3>2, <3>3, <3>4, <3>5, <3>6 DEF RowsAgree, providerVars
  <2>13. KeysAgree'
    <3>1. \A e \in Dispatchers : pc'[e] = "send" => pc[e] = "send" /\ job'[e] = job[e] BY <1>3
    <3>2. \A m \in Rows : ~Ended(m)' => ~Ended(m) BY <1>7, <2>2 DEF Ended
    <3> QED BY <1>1, <3>1, <3>2 DEF KeysAgree, providerVars
  <2> QED BY <2>4, <2>9, <2>10, <2>11, <2>12, <2>13, <1>4, <1>5
<1> QED BY <1>2, <1>6, <1>7

\* The invariant holds in every reachable state.
THEOREM AlertSafety == Spec => []AlertInvariant
<1>1. ASSUME AlertInvariant, [Next]_vars PROVE AlertInvariant'
  <2>1. CASE UNCHANGED vars
    <3>1. UNCHANGED <<result, incidentVars, about, created, status, attempts, wait, age, providerVars>>
          /\ UNCHANGED <<leased, pc, job, token>>
      BY <2>1 DEF vars, outboxVars, dispatcherVars
    <3>2. TypeOK' BY <1>1, <3>1 DEF AlertInvariant, TypeOK, incidentVars, providerVars
    <3>3. (OneEmail /\ RecoveryEarned /\ RecoveryReported /\ ObsoleteDropped)'
      BY <1>1, <3>1 DEF AlertInvariant, OneEmail, RecoveryEarned, RecoveryReported, ObsoleteDropped,
         incidentVars, providerVars
    <3>4. RowsAgree' BY <1>1, <3>1 DEF AlertInvariant, RowsAgree, incidentVars, providerVars
    <3>5. KeysAgree' BY <1>1, <3>1 DEF AlertInvariant, KeysAgree, providerVars, Ended
    <3>6. DispatchersAgree' BY <1>1, <3>1 DEF AlertInvariant, DispatchersAgree, providerVars
    <3> QED BY <3>2, <3>3, <3>4, <3>5, <3>6 DEF AlertInvariant
  <2>2. CASE \E r \in Runs : Complete(r) BY <1>1, <2>2, CompletePreserves
  <2>3. CASE \E d \in Dispatchers : Abort(d) BY <1>1, <2>3, QuietPreserves
  <2>4. CASE \E n \in Rows : LeaseEnds(n) BY <1>1, <2>4, QuietPreserves
  <2>5. CASE Tick BY <1>1, <2>5, TickPreserves
  <2>6. CASE \E d \in Dispatchers : Deliver(d)
    BY <1>1, <2>6, ClaimPreserves, EvaluatePreserves, SendPreserves, FinishPreserves DEF Deliver
  <2> QED BY <1>1, <2>1, <2>2, <2>3, <2>4, <2>5, <2>6 DEF Next, Progress, TimePasses
<1> QED BY <1>1, InitEstablishes, PTL DEF Spec

\* No notification is e-mailed twice.
THEOREM OneEmailHolds == Spec => []OneEmail
  BY AlertSafety, PTL DEF AlertInvariant

\* A recovery is reported only after an alert of its incident was delivered.
THEOREM RecoveryEarnedHolds == Spec => []RecoveryEarned
  BY AlertSafety, PTL DEF AlertInvariant

\* The recovery of an alerted incident is reported, whichever came first.
THEOREM RecoveryReportedHolds == Spec => []RecoveryReported
  BY AlertSafety, PTL DEF AlertInvariant
=============================================================================
