------------------------- MODULE MCProductionAlerts -------------------------
(***************************************************************************)
(* An instance of ProductionAlerts for TLC, in four parts.  One worker     *)
(* delivers: a run ends after a failed one that is still to be evaluated;  *)
(* a run is recorded after a later, failed one; and the recovery of an     *)
(* incident is evaluated while the alert of an earlier one, tried with an  *)
(* unknown outcome, still waits.  Two workers deliver an alert while the   *)
(* recovery is to be evaluated.                                            *)
(***************************************************************************)
EXTENDS ProductionAlerts

Zero == [n \in Rows |-> 0]

UpTo(rows, n) == Cardinality({m \in rows : m[2] <= n[2]})

\* The runs of results have ended, and all but those of unseen were evaluated.
\* i is the latest incident, its alert is not sent yet; the alerts of the
\* incidents of tried were attempted once.
Reached(results, unseen, i, tried) ==
  LET observed == {n \in Rows : n[1] = "observed" /\ results[n[2]] # "none"}
      evaluated == {n \in observed : n[2] \notin unseen}
      failed == {n \in Rows : n[1] = "failed" /\ n[2] \in tried \cup {i}}
      retried == {n \in failed : n[2] \in tried}
  IN /\ result = results
     /\ last = Cardinality(evaluated)
     /\ incident = i /\ alerted = FALSE /\ open = (i # 0)
     /\ about = [r \in Runs |-> IF r \in tried \cup {i} THEN r ELSE 0]
     /\ created = [n \in Rows |->
          IF n \in observed THEN UpTo(observed, n)
          ELSE IF n \in failed THEN Cardinality(observed) + UpTo(failed, n) ELSE 0]
     /\ status = [n \in Rows |->
          CASE n \in evaluated -> "delivered" [] n \in retried -> "failed"
            [] n \in observed \cup failed -> "pending" [] OTHER -> "none"]
     /\ attempts = [n \in Rows |-> IF n \in evaluated \cup retried THEN 1 ELSE 0]
     /\ wait = [n \in Rows |-> IF n \in retried THEN 1 ELSE 0]
     /\ age = Zero /\ leased = [n \in Rows |-> FALSE]
     /\ job = [d \in Dispatchers |-> None] /\ token = [d \in Dispatchers |-> 0]
     /\ mails \in {Zero, wait} /\ key = [n \in Rows |-> KeyLife * mails[n]]

OneDelivers ==
  LET one == CHOOSE d \in Dispatchers : TRUE
  IN pc = [d \in Dispatchers |-> IF d = one THEN "idle" ELSE "off"]
BothDeliver == pc = [d \in Dispatchers |-> "idle"]

MCInit ==
  \/ Reached(<<"passed", "passed", "failed", "none">>, {3}, 0, {}) /\ OneDelivers
  \/ Reached(<<"passed", "passed", "none", "failed">>, {4}, 0, {}) /\ OneDelivers
  \/ Reached(<<"failed", "passed", "failed", "passed">>, {4}, 3, {1}) /\ OneDelivers
  \/ Reached(<<"passed", "passed", "failed", "passed">>, {4}, 3, {}) /\ BothDeliver

MCSpec == MCInit /\ [][Next]_vars /\ Fairness
=============================================================================
