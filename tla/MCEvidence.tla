------------------------------ MODULE MCEvidence ------------------------------
(***************************************************************************)
(* An instance of Evidence for TLC, in four parts: two operators migrate   *)
(* before any occurrence; one operator migrates while one occurrence runs  *)
(* and the bundle ages; two occurrences run on an aged bundle, migrated,   *)
(* or never migrated; one runs while a finished migration is resumed to be *)
(* rolled back.                                                            *)
(***************************************************************************)
EXTENDS Evidence, TLC

Skipped(past) ==
  /\ occ = [o \in Occurrences |-> IF o \in past THEN "SKIPPED_ACTIVE_EXECUTION" ELSE "none"]
  /\ pc = [o \in Occurrences |-> IF o \in past THEN "ended" ELSE "idle"]

\* Only the named operators are started.
Started(ops) == mpc = [m \in Operators |-> IF m \in ops THEN "idle" ELSE "off"]

Unmigrated == ledger = "none" /\ place = "supabase"
Copied(state) ==
  /\ copy = [i \in Items |-> "intact"]
  /\ ledger = state /\ place = Expected
One == CHOOSE m \in Operators : TRUE
Uncopied == copy = [i \in Items |-> "absent"]

MCInit ==
  /\ status = "indexed" /\ hold = FALSE
  /\ source = [i \in Items |-> "intact"]
  /\ deletion = "none" /\ attempt = {} /\ holder = 0
  /\ owner = NoOperator /\ leased = FALSE
  /\ lease = [o \in Occurrences |-> "none"]
  /\ counted = [o \in Occurrences |-> 0]
  /\ current = {}
  /\ outlived = FALSE
  /\ flight = [o \in Occurrences |-> {}]
  /\ \/ /\ Unmigrated /\ aged = FALSE /\ copy \in [Items -> {"absent", "foreign"}]
        /\ Skipped(Occurrences) /\ Started(Operators)
     \/ /\ Unmigrated /\ aged = FALSE /\ Uncopied
        /\ Skipped({1}) /\ Started({One})
     \/ /\ (Unmigrated /\ Uncopied) \/ Copied("SOURCE_PRESERVED")
        /\ aged = TRUE
        /\ Skipped({}) /\ Started({})
     \/ /\ Copied("SOURCE_PRESERVED") \/ Copied("ROLLED_BACK")
        /\ aged = TRUE
        /\ Skipped({1})
        /\ mpc = [m \in Operators |-> IF m = One THEN "claimBack" ELSE "off"]

MCSpec == MCInit /\ [][Next]_vars /\ Fairness
=============================================================================
