-------------------------- MODULE MCCleanupLedger --------------------------
(***************************************************************************)
(* An instance of CleanupLedger for TLC.  Two requests, "a" with media,    *)
(* race for the slot and follow one another while one configured record    *)
(* counts towards the limit; administrators confirm beside them; workers   *)
(* stall, store calls fail, the policy changes: each with one part of the  *)
(* initial states, because all of it together is too much.                 *)
(***************************************************************************)
EXTENDS CleanupLedger

Seeds == {<<"s", "c1">>}

Left(staged, captured, marks) == [staged |-> staged, captured |-> captured, marks |-> marks]
Found(things) == Left(things, things, {"attributed", "clicked"})

\* Nothing; what the campaign should create; an image without its capsule; a
\* capsule of nobody; a capsule too many.
Outcomes ==
  {Nothing, Found({"c1"}), Found({"c1", "m"}), Left({"c1", "m"}, {"m"}, {"attributed", "clicked"}),
   Left({"c1"}, {"c1"}, {"clicked"}), Found({"c1", "c2"})}

Made == {r \in Run : qpc[r] = "idle"}
On == {a \in Operator : opc[a] = "idle"}

MCInit ==
  /\ Init
  /\ \/ Made = Run /\ On = {} /\ hazards = {"reconfigure"} /\ policy = {}
     \/ Made = Run /\ On = {} /\ hazards \in {{"fail"}, {"stall"}} /\ policy = {"deferred"}
     \/ Made = Run /\ On = {"o"} /\ hazards = {} /\ policy = {"deferred"}
     \/ Made = {"a"} /\ On = {"o"} /\ hazards = {"stall", "fail"} /\ policy = {"deferred"}
     \/ Made = {"a"} /\ On = {"o", "p"} /\ hazards = {"fail"} /\ policy = {"deferred"}

MCSpec == MCInit /\ [][Next]_vars

=============================================================================
