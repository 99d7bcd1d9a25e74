---------------------------- MODULE MCScheduler ----------------------------
(* Instances of Scheduler for TLC. *)
EXTENDS Scheduler, TLC

CalmOrDisturbed == {{}, {"crash", "fault"}, {"crash", "fault", "stall"}}
CrashesOnly == {{"crash"}}

\* Edits, manual runs and the runPolicy matter to a single evaluation; what goes
\* wrong around it is explored without them.
MCInit ==
  /\ Init
  /\ hazards # {} =>
       /\ policy = "one_active_run" /\ config # Off
       /\ edits = MaxEdits /\ manual = ManualRuns

MCSpec == MCInit /\ [][Next]_vars /\ Fairness
=============================================================================
