---------------------------- MODULE EvidenceBundle ----------------------------
(***************************************************************************)
(* What the evidence store promises of one published bundle: it is kept,   *)
(* whole, at one place, which may change while it is kept; once its        *)
(* deletion has begun it stays where it is and is only ever expired; and   *)
(* an expired bundle is never published again.  Evidence implements this   *)
(* specification.                                                          *)
(***************************************************************************)
CONSTANT Places

VARIABLES
  state,   \* kept, going, expired
  place,   \* the place its records name
  whole    \* every object is there and intact at that place

vars == <<state, place, whole>>

Init ==
  /\ state = "kept"
  /\ place \in Places
  /\ whole = TRUE

Move(p) ==
  /\ state = "kept"
  /\ place' = p
  /\ UNCHANGED <<state, whole>>

Begin ==
  /\ state = "kept"
  /\ state' = "going"
  /\ UNCHANGED <<place, whole>>

Remove ==
  /\ state = "going"
  /\ whole' = FALSE
  /\ UNCHANGED <<state, place>>

Expire ==
  /\ state = "going" /\ ~whole
  /\ state' = "expired"
  /\ UNCHANGED <<place, whole>>

Next == (\E p \in Places : Move(p)) \/ Begin \/ Remove \/ Expire

Spec == Init /\ [][Next]_vars
=============================================================================
