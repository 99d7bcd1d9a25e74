------------------------------- MODULE Evidence -------------------------------
(***************************************************************************)
(* The life of a published evidence bundle: retention and migration work   *)
(* on the same records and objects, under the triggers of EvidenceRecords. *)
(***************************************************************************)
EXTENDS EvidenceRetention, EvidenceMigration

vars == <<recordVars, executorVars, current, mpc>>

Init == RecordsInit /\ RetentionInit /\ MigrationInit

Next ==
  /\ \/ RecordsNext /\ UNCHANGED <<executorVars, mpc>>
     \/ RetentionNext /\ UNCHANGED mpc
     \/ MigrationNext /\ UNCHANGED executorVars
  /\ Snapshots

\* An executor runs unless it dies.  What time and operators do is left open.
Fairness == \A o \in Occurrences : WF_vars(ExecutorStep(o) /\ UNCHANGED mpc /\ Snapshots)

Spec == Init /\ [][Next]_vars /\ Fairness
-----------------------------------------------------------------------------
EvidenceTypeOK ==
  /\ status \in {"indexed", "expired"} /\ place \in Places
  /\ hold \in BOOLEAN /\ aged \in BOOLEAN
  /\ source \in [Items -> Objects] /\ copy \in [Items -> Objects]
  /\ deletion \in {"none", "deleting", "partial", "deleted"}
  /\ attempt \subseteq Items /\ holder \in Occurrences \cup {0}
  /\ ledger \in LedgerStates /\ owner \in Operators \cup {NoOperator} /\ leased \in BOOLEAN
  /\ lease \in [Occurrences -> {"none", "fresh", "late", "expired"}]
  /\ occ \in [Occurrences -> OccurrenceStates]
  /\ pc \in [Occurrences -> ExecutorStates] /\ mpc \in [Operators -> OperatorStates]
  /\ flight \in [Occurrences -> SUBSET Items] /\ outlived \in BOOLEAN
  /\ current \subseteq Occurrences

\* An indexed bundle is whole at the place its records name, through every
\* failed, resumed, doubled or rolled back migration, until its deletion begins:
\* only a durable intent explains an absent object (retention.ts:78).
Readable == deletion = "none" => status = "indexed" /\ Whole(place)

\* The source outlives the migration: while it may still be needed, and for
\* good once it is declared preserved, no object of it is missing.
SourceKept == ledger \notin {"none", "ROLLED_BACK"} => Whole("supabase")

\* The objects an occurrence counted can be told apart: each is gone, and in the
\* share of one occurrence only.
Shares(share) ==
  /\ \A o \in Occurrences : share[o] \subseteq Items \ Present(place)
  /\ \A o \in Occurrences : Cardinality(share[o]) = counted[o]
  /\ \A o, p \in Occurrences : o # p => share[o] \cap share[p] = {}

\* Every object is reclaimed on the books at most once, over all occurrences,
\* and only when it is gone (retention_settle_bundle, retention_recover_stale).
ReclaimedOnce == \E share \in [Occurrences -> SUBSET Items] : Shares(share)

\* An object goes only under an intent in flight, of an owner whose lease still
\* holds, with the window passed, no hold and no unfinished migration.
RemovalCovered ==
  [][(source' # source \/ (\E i \in Items : copy[i] = "intact" /\ copy'[i] # "intact")) /\ ~outlived =>
       /\ deletion = "deleting" /\ lease[holder] \in {"fresh", "late"}
       /\ aged /\ ~hold /\ MigrationSettled]_vars

\* At most one occurrence runs with a lease; only a claimed one holds an intent.
OneRuns ==
  /\ \A o \in Occurrences : lease[o] # "none" => occ[o] = "RUNNING"
  /\ \A o, p \in Occurrences : lease[o] # "none" /\ lease[p] # "none" => o = p
  /\ \A o \in Occurrences : pc[o] = "idle" => occ[o] = "none" /\ holder # o

\* Who plans with an accurate snapshot, and whoever holds the intent of a lease
\* that the gate respects, has the window passed and no hold.
NobodyHolds ==
  /\ \A o \in current : pc[o] = "reserve" /\ aged /\ ~hold
  /\ \A o \in Occurrences :
       deletion = "deleting" /\ holder = o /\ lease[o] # "none" => aged /\ ~hold

\* Requests in flight belong to the intent of a live lease, unless they outlived it.
FlightOwned ==
  /\ \A o \in Occurrences : pc[o] \in {"remove", "removing"} =>
       deletion # "none" /\ (lease[o] # "none" => deletion = "deleting" /\ holder = o)
  /\ \A o \in Occurrences : flight[o] # {} => deletion # "none"
  /\ \A o \in Occurrences : flight[o] # {} /\ ~outlived =>
       /\ pc[o] \in {"removing", "dead"} /\ lease[o] \in {"fresh", "late"}
       /\ deletion = "deleting" /\ holder = o

\* The ledger against the records, the objects and the operators.
LedgerAgrees ==
  /\ place = Expected
  /\ deletion # "none" => MigrationSettled
  /\ owner # NoOperator => ledger # "none"
  /\ \A m \in Operators : mpc[m] \notin {"idle", "plan", "off"} => ledger # "none"
  /\ \A m \in Operators : Owned(m) /\ mpc[m] \in {"copy", "put", "markVerified"} => ~Switched
  /\ deletion = "none" /\ ledger = "DESTINATION_VERIFIED" => Whole("spaces")
  /\ \A m \in Operators : deletion = "none" /\ mpc[m] = "markVerified" => Whole("spaces")

\* The inductive invariant: an expired bundle is one whose deletion is settled,
\* and no object of it is left; the rest is Readable, SourceKept and what they need.
EvidenceInvariant ==
  /\ EvidenceTypeOK /\ Readable /\ SourceKept
  /\ OneRuns /\ NobodyHolds /\ FlightOwned /\ LedgerAgrees
  /\ status = "expired" <=> deletion = "deleted"
  /\ deletion = "deleted" => Present(place) = {}

Bundle == INSTANCE EvidenceBundle WITH
  state <- CASE status = "expired" -> "expired" [] deletion = "none" -> "kept" [] OTHER -> "going",
  whole <- Whole(place)

\* Records and objects together implement the bundle of EvidenceBundle.
ImplementsEvidenceBundle == Bundle!Spec

\* An occurrence closes itself, unless its executor dies, its lease runs down, or
\* an intent stays unsettled, which only recovery may close.
OccurrenceCloses ==
  \A o \in Occurrences :
    (occ[o] = "RUNNING") ~>
      \/ occ[o] # "RUNNING"
      \/ pc[o] = "dead" \/ lease[o] # "fresh"
      \/ deletion = "deleting" /\ holder = o /\ pc[o] = "ended"
=============================================================================
