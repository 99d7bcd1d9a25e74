---------------------------- MODULE CampaignSlot ----------------------------
(***************************************************************************)
(* What the execution queue promises to the rest of the platform: there is *)
(* one campaign slot.  A job is admitted only into an empty slot, its      *)
(* campaign starts at most once, and a job that left the slot never comes  *)
(* back.  ExecutionJobs implements this specification.                     *)
(***************************************************************************)
CONSTANT Jobs

VARIABLES
  occupant,   \* the jobs in the slot: empty, or one job
  started,    \* jobs whose campaign was declared running
  finished    \* jobs that left the slot

vars == <<occupant, started, finished>>

Init ==
  /\ occupant = {}
  /\ started = {}
  /\ finished = {}

Admit(j) ==
  /\ occupant = {}
  /\ j \notin finished
  /\ occupant' = {j}
  /\ UNCHANGED <<started, finished>>

Start(j) ==
  /\ j \in occupant
  /\ j \notin started
  /\ started' = started \cup {j}
  /\ UNCHANGED <<occupant, finished>>

Finish(j) ==
  /\ j \in occupant
  /\ occupant' = {}
  /\ finished' = finished \cup {j}
  /\ UNCHANGED started

Next == \E j \in Jobs : Admit(j) \/ Start(j) \/ Finish(j)

Spec == Init /\ [][Next]_vars
=============================================================================
