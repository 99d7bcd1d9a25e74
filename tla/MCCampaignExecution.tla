------------------------- MODULE MCCampaignExecution -------------------------
(***************************************************************************)
(* An instance of CampaignExecution for TLC: two requests race and follow  *)
(* one another without hazards; one run goes through all hazards at once.  *)
(***************************************************************************)
EXTENDS CampaignExecution

AllHazards == {"crash", "fault", "stall", "survivor"}

\* Values of HazardSets.
CalmOrDisturbed == {{}, AllHazards}

Made == {j \in Jobs : post[j] = "new"}

MCInit ==
  /\ Init
  /\ wanted["j1"] = "k1"
  /\ \/ hazards = {} /\ Made = Jobs
     \/ hazards # {} /\ Made = {"j1"} /\ wanted["j2"] = "k2"

MCFairSpec == MCInit /\ [][Next]_vars /\ Fairness
=============================================================================
