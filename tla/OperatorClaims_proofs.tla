----------------------- MODULE OperatorClaims_proofs ------------------------
(***************************************************************************)
(* What an operator may conclude: from the verdict and the manifest of a   *)
(* live campaign, however its creation spec ends and whatever the product  *)
(* leaks (LiveCampaign), and from the run detail pane, for any number of   *)
(* runs and requests in flight and any order of the answers                *)
(* (OperatorConsole).                                                      *)
(***************************************************************************)
EXTENDS LiveCampaign, OperatorConsole, SequenceTheorems, TLAPS

-----------------------------------------------------------------------------
(* LiveCampaign.                                                           *)

(* What the result file says.                                              *)
LEMMA ResultFile ==
  ASSUME WriteArtifact
  PROVE  /\ file'.made = TRUE /\ file'.id \in BOOLEAN
         /\ file'.done = done /\ file'.picture = picture
         /\ known => file'.id
         /\ kind # "reveal-later" /\ ~file'.id /\ "share" \in done =>
              file'.identity = "failed_cleanup_identity"
<1>1. PICK e \in LastEvidence, fatal \in BOOLEAN :
        file' = [made |-> TRUE, id |-> Named(e), success |-> Succeeded(e),
                 fatal |-> fatal, done |-> done, picture |-> picture,
                 identity |->
                   IF kind = "reveal-later" THEN "none"
                   ELSE ClassifyInssaCleanupIdentity(Named(e),
                          "share" \in done,
                          Succeeded(e) \/ answered \cap
                            {"reveal-continue", "post-create"} # {})]
  BY Zenon DEF WriteArtifact
<1>2. /\ file'.made = TRUE /\ file'.id = Named(e)
      /\ file'.done = done /\ file'.picture = picture
      /\ file'.identity =
                   IF kind = "reveal-later" THEN "none"
                   ELSE ClassifyInssaCleanupIdentity(Named(e),
                          "share" \in done,
                          Succeeded(e) \/ answered \cap
                            {"reveal-continue", "post-create"} # {})
  BY <1>1, Zenon
<1>3. Named(e) \in BOOLEAN /\ (known => Named(e))
  BY DEF Named
<1>4. kind # "reveal-later" /\ ~Named(e) /\ "share" \in done =>
        file'.identity = "failed_cleanup_identity"
  BY <1>2 DEF ClassifyInssaCleanupIdentity
<1> QED
  BY <1>2, <1>3, <1>4

LEMMA LiveTypesStep ==
  ASSUME LiveTypes, [Next]_vars
  PROVE  LiveTypes'
<1> USE DEF LiveTypes, vars, campaign, product, network, test, scripts
<1>1. CASE UNCHANGED vars
  BY <1>1
<1>2. CASE SaveDraft \/ Store \/ Reply \/ RevealTimePasses
  BY <1>2 DEF SaveDraft, Store, Reply, RevealTimePasses
<1>3. CASE \/ Compose \/ Bury \/ ChooseSettings \/ Continue \/ SelectContact
           \/ AwaitEvidence \/ Identify \/ Capture \/ NoErrors
  <2>1. CASE Compose
    BY <2>1 DEF Compose, Step
  <2>5. CASE Bury \/ ChooseSettings
    BY <2>5 DEF Bury, ChooseSettings, Step
  <2>2. CASE Continue \/ SelectContact
    BY <2>2 DEF Continue, SelectContact, Step
  <2>3. CASE AwaitEvidence \/ Identify
    BY <2>3 DEF AwaitEvidence, Identify, Step
  <2>4. CASE Capture \/ NoErrors
    BY <2>4 DEF Capture, NoErrors, Step
  <2> QED
    BY <1>3, <2>1, <2>2, <2>3, <2>4, <2>5
<1>4. CASE Throw \/ Killed \/ \E returns \in BOOLEAN : FinalAction(returns)
  BY <1>4 DEF Throw, Killed, FinalAction
<1>5. CASE WriteArtifact
  <2>1. file'.made = TRUE /\ file'.id \in BOOLEAN /\ file'.picture = picture
    BY <1>5, ResultFile
  <2>2. UNCHANGED <<campaign, product>>
    BY <1>5 DEF WriteArtifact
  <2> QED
    BY <2>1, <2>2
<1>6. CASE CreationOver \/ Discovery \/ PublicShare \/ ReadSchedule
           \/ WaitForReveal \/ Verdict \/ \E route \in Routes : Probe(route)
  BY <1>6 DEF CreationOver, Discovery, PublicShare, ReadSchedule,
     WaitForReveal, Verdict, Probe, ScriptStep
<1>7. CASE Resume \/ WriteManifest
  BY <1>7 DEF Resume, WriteManifest
<1> QED
  BY <1>1, <1>2, <1>3, <1>4, <1>5, <1>6, <1>7 DEF Next, Done

LEMMA InTurnStep ==
  ASSUME LiveTypes, InTurn, [Next]_vars
  PROVE  InTurn'
<1> USE DEF InTurn, vars, campaign, product, network, test, scripts
<1>1. CASE UNCHANGED vars
  BY <1>1
<1>2. CASE SaveDraft \/ Store \/ Reply \/ RevealTimePasses
  BY <1>2 DEF SaveDraft, Store, Reply, RevealTimePasses
<1>3. CASE \/ Compose \/ Bury \/ ChooseSettings \/ Continue \/ SelectContact
           \/ AwaitEvidence \/ Identify \/ Capture \/ NoErrors
  <2>1. CASE Compose
    BY <2>1 DEF Compose, Step
  <2>5. CASE Bury \/ ChooseSettings
    BY <2>5 DEF Bury, ChooseSettings, Step
  <2>2. CASE Continue \/ SelectContact
    BY <2>2 DEF Continue, SelectContact, Step
  <2>3. CASE AwaitEvidence \/ Identify
    BY <2>3 DEF AwaitEvidence, Identify, Step
  <2>4. CASE Capture \/ NoErrors
    BY <2>4 DEF Capture, NoErrors, Step
  <2> QED
    BY <1>3, <2>1, <2>2, <2>3, <2>4, <2>5
<1>4. CASE Throw \/ Killed \/ \E returns \in BOOLEAN : FinalAction(returns)
  BY <1>4 DEF Throw, Killed, FinalAction, Steps, Running
<1>5. CASE WriteArtifact
  BY <1>5 DEF WriteArtifact
<1>6. CASE CreationOver \/ Discovery \/ PublicShare
  BY <1>6 DEF CreationOver, Discovery, PublicShare, ScriptStep, Ends, GoesOn
<1>7. CASE ReadSchedule \/ WaitForReveal \/ Verdict
           \/ \E route \in Routes : Probe(route)
  BY <1>7 DEF ReadSchedule, WaitForReveal, Verdict, Probe, ScriptStep, Ends,
     GoesOn
<1>8. CASE Resume
  BY <1>8 DEF Resume
<1>9. CASE WriteManifest
  BY <1>9 DEF WriteManifest
<1> QED
  BY <1>1, <1>2, <1>3, <1>4, <1>5, <1>6, <1>7, <1>8, <1>9 DEF Next, Done

LEMMA SpecKnowsStep ==
  ASSUME LiveTypes, InTurn, SpecKnows, [Next]_vars
  PROVE  SpecKnows'
<1> USE DEF SpecKnows, vars, campaign, product, network, test, scripts
<1>1. CASE UNCHANGED vars
  BY <1>1
<1>2. CASE SaveDraft \/ Store \/ Reply \/ RevealTimePasses
  BY <1>2 DEF SaveDraft, Store, Reply, RevealTimePasses
<1>3. CASE \/ Compose \/ Bury \/ ChooseSettings \/ Continue \/ SelectContact
  BY <1>3 DEF Compose, Bury, ChooseSettings, Continue, SelectContact, Step,
     KeepFindings
<1>4. CASE AwaitEvidence \/ Identify \/ Capture \/ NoErrors
  BY <1>4 DEF AwaitEvidence, Identify, Capture, NoErrors, Step, KeepFindings
<1>5. CASE Throw
  BY <1>5 DEF Throw, Steps
<1>6. CASE Killed
  BY <1>6 DEF Killed, Running, Steps
<1>7. CASE \E returns \in BOOLEAN : FinalAction(returns)
  BY <1>7 DEF FinalAction, KeepFindings
<1>8. CASE WriteArtifact
  BY <1>8, ResultFile DEF WriteArtifact
<1>9. CASE CreationOver \/ Discovery \/ PublicShare \/ ReadSchedule
           \/ WaitForReveal \/ Verdict \/ \E route \in Routes : Probe(route)
  BY <1>9 DEF CreationOver, Discovery, PublicShare, ReadSchedule,
     WaitForReveal, Verdict, Probe, ScriptStep
<1>10. CASE Resume \/ WriteManifest
  BY <1>10 DEF Resume, WriteManifest
<1> QED
  BY <1>1, <1>2, <1>3, <1>4, <1>5, <1>6, <1>7, <1>8, <1>9, <1>10 DEF Next, Done

LEMMA ShareHasLinkStep ==
  ASSUME LiveTypes, InTurn, ShareHasLink, [Next]_vars
  PROVE  ShareHasLink'
<1> USE DEF ShareHasLink, InTurn, vars, campaign, product, network, test,
    scripts
<1>1. CASE UNCHANGED vars
  BY <1>1
<1>2. CASE SaveDraft \/ Store \/ Reply \/ RevealTimePasses
  BY <1>2 DEF SaveDraft, Store, Reply, RevealTimePasses
<1>3. CASE \/ Compose \/ Bury \/ ChooseSettings \/ Continue \/ SelectContact
           \/ AwaitEvidence \/ Identify \/ Capture \/ NoErrors
  <2>1. CASE Compose
    BY <2>1 DEF Compose, Step
  <2>5. CASE Bury \/ ChooseSettings
    BY <2>5 DEF Bury, ChooseSettings, Step
  <2>2. CASE Continue \/ SelectContact
    BY <2>2 DEF Continue, SelectContact, Step
  <2>3. CASE AwaitEvidence \/ Identify
    BY <2>3 DEF AwaitEvidence, Identify, Step
  <2>4. CASE Capture \/ NoErrors
    BY <2>4 DEF Capture, NoErrors, Step
  <2> QED
    BY <1>3, <2>1, <2>2, <2>3, <2>4, <2>5
<1>4. CASE Throw \/ Killed \/ \E returns \in BOOLEAN : FinalAction(returns)
  BY <1>4 DEF Throw, Killed, FinalAction, Steps, Running
<1>5. CASE WriteArtifact
  BY <1>5 DEF WriteArtifact
<1>6. CASE CreationOver \/ Discovery \/ PublicShare
  BY <1>6 DEF CreationOver, Discovery, PublicShare, ScriptStep, Ends, GoesOn,
     OwnerSees
<1>7. CASE ReadSchedule \/ WaitForReveal \/ Verdict
           \/ \E route \in Routes : Probe(route)
  BY <1>7 DEF ReadSchedule, WaitForReveal, Verdict, Probe, ScriptStep, Ends,
     GoesOn
<1>8. CASE Resume \/ WriteManifest
  BY <1>8 DEF Resume, WriteManifest
<1> QED
  BY <1>1, <1>2, <1>3, <1>4, <1>5, <1>6, <1>7, <1>8 DEF Next, Done

LEMMA ProbesTellStep ==
  ASSUME LiveTypes, InTurn, SpecKnows, ProbesTell, [Next]_vars
  PROVE  ProbesTell'
<1> USE DEF ProbesTell, InTurn, Held, vars, campaign, product, network, test,
    scripts
<1>1. CASE UNCHANGED vars
  BY <1>1
<1>2. CASE SaveDraft \/ Store \/ Reply \/ RevealTimePasses
  BY <1>2 DEF SaveDraft, Store, Reply, RevealTimePasses, Running, Steps
<1>3. CASE \/ Compose \/ Bury \/ ChooseSettings \/ Continue \/ SelectContact
           \/ AwaitEvidence \/ Identify \/ Capture \/ NoErrors
  <2>1. CASE Compose
    BY <2>1 DEF Compose, Step
  <2>5. CASE Bury \/ ChooseSettings
    BY <2>5 DEF Bury, ChooseSettings, Step
  <2>2. CASE Continue \/ SelectContact
    BY <2>2 DEF Continue, SelectContact, Step
  <2>3. CASE AwaitEvidence \/ Identify
    BY <2>3 DEF AwaitEvidence, Identify, Step
  <2>4. CASE Capture \/ NoErrors
    BY <2>4 DEF Capture, NoErrors, Step
  <2> QED
    BY <1>3, <2>1, <2>2, <2>3, <2>4, <2>5
<1>4. CASE Throw \/ Killed \/ \E returns \in BOOLEAN : FinalAction(returns)
  BY <1>4 DEF Throw, Killed, FinalAction, Steps, Running
<1>5. CASE WriteArtifact
  BY <1>5 DEF WriteArtifact
<1>6. CASE CreationOver
  BY <1>6 DEF CreationOver, ScriptStep, Ends, GoesOn, NoVerification
<1>7. CASE Discovery \/ PublicShare
  BY <1>7 DEF Discovery, PublicShare, ScriptStep, Ends, GoesOn, NoVerification
<1>8. CASE ReadSchedule \/ WaitForReveal
  BY <1>8 DEF ReadSchedule, WaitForReveal, ScriptStep, GoesOn, NoVerification
<1>9. ASSUME NEW route \in Routes, Probe(route)
      PROVE  ProbesTell'
  <2>1. /\ stage = "probe" /\ UNCHANGED <<stage, final, revealed, exposed>>
        /\ route \notin tried /\ tried' = tried \cup {route}
    BY <1>9 DEF Probe, ScriptStep
  <2>2. CASE silent' = silent \cup {route} /\ UNCHANGED seen
    <3>1. tried' \ silent' = tried \ silent
      BY <2>1, <2>2
    <3> QED
      BY <2>1, <2>2, <3>1
  <2>3. CASE Shows(route) /\ seen' = seen \cup {route} /\ UNCHANGED silent
    BY <2>1, <2>3 DEF Shows
  <2>4. CASE ~Shows(route) /\ UNCHANGED <<seen, silent>>
    BY <2>1, <2>4 DEF Shows
  <2> QED
    BY <1>9, <2>2, <2>3, <2>4 DEF Probe
<1>10. CASE Verdict
  BY <1>10 DEF Verdict, ScriptStep, Ends, NoVerification, HardFailure
<1>11. CASE Resume \/ WriteManifest
  BY <1>11 DEF Resume, WriteManifest
<1> QED
  BY <1>1, <1>2, <1>3, <1>4, <1>5, <1>6, <1>7, <1>8, <1>9, <1>10, <1>11
     DEF Next, Done

(* The actions other than the script's leave the end of a campaign alone.  *)
LEMMA PassedPersistedStep ==
  ASSUME LiveTypes, InTurn, SpecKnows, ShareHasLink, PassedPersisted,
         [Next]_vars
  PROVE  PassedPersisted'
<1> USE DEF PassedPersisted, InTurn, Held, vars, campaign, product, network,
    test, scripts
<1>1. CASE UNCHANGED vars
  BY <1>1
<1>2. CASE SaveDraft \/ Store \/ Reply \/ RevealTimePasses
  BY <1>2 DEF SaveDraft, Store, Reply, RevealTimePasses, Running, Steps
<1>3. CASE \/ Compose \/ Bury \/ ChooseSettings \/ Continue \/ SelectContact
           \/ AwaitEvidence \/ Identify \/ Capture \/ NoErrors
  <2>1. CASE Compose
    BY <2>1 DEF Compose, Step
  <2>5. CASE Bury \/ ChooseSettings
    BY <2>5 DEF Bury, ChooseSettings, Step
  <2>2. CASE Continue \/ SelectContact
    BY <2>2 DEF Continue, SelectContact, Step
  <2>3. CASE AwaitEvidence \/ Identify
    BY <2>3 DEF AwaitEvidence, Identify, Step
  <2>4. CASE Capture \/ NoErrors
    BY <2>4 DEF Capture, NoErrors, Step
  <2> QED
    BY <1>3, <2>1, <2>2, <2>3, <2>4, <2>5
<1>4. CASE Throw \/ Killed \/ \E returns \in BOOLEAN : FinalAction(returns)
  BY <1>4 DEF Throw, Killed, FinalAction, Steps, Running
<1>5. CASE WriteArtifact
  BY <1>5 DEF WriteArtifact
<1>6. CASE CreationOver \/ Discovery
  BY <1>6 DEF CreationOver, Discovery, ScriptStep, Ends, GoesOn, FailureOf
<1>7. CASE PublicShare
  BY <1>7 DEF PublicShare, ScriptStep, Ends, OthersSee, ShareHasLink
<1>8. CASE ReadSchedule \/ WaitForReveal \/ Verdict
           \/ \E route \in Routes : Probe(route)
  <2>1. CASE Verdict
    BY <2>1 DEF Verdict, ScriptStep, Ends
  <2> QED
    BY <1>8, <2>1 DEF ReadSchedule, WaitForReveal, Probe, ScriptStep, GoesOn
<1>9. CASE Resume
  BY <1>9 DEF Resume
<1>10. CASE WriteManifest
  BY <1>10 DEF WriteManifest
<1> QED
  BY <1>1, <1>2, <1>3, <1>4, <1>5, <1>6, <1>7, <1>8, <1>9, <1>10 DEF Next, Done

LEMMA ReportedStep ==
  ASSUME LiveTypes, InTurn, SpecKnows, ShareHasLink, Reported,
         [Next]_vars
  PROVE  Reported'
<1> USE DEF Reported, Acted, InTurn, Held, vars, campaign, product, network, test,
    scripts
<1>1. CASE UNCHANGED vars
  BY <1>1
<1>2. CASE SaveDraft \/ Store \/ Reply \/ RevealTimePasses
  BY <1>2 DEF SaveDraft, Store, Reply, RevealTimePasses, Running, Steps
<1>3. CASE \/ Compose \/ Bury \/ ChooseSettings \/ Continue \/ SelectContact
           \/ AwaitEvidence \/ Identify \/ Capture \/ NoErrors
  <2>1. CASE Compose
    BY <2>1 DEF Compose, Step
  <2>5. CASE Bury \/ ChooseSettings
    BY <2>5 DEF Bury, ChooseSettings, Step
  <2>2. CASE Continue \/ SelectContact
    BY <2>2 DEF Continue, SelectContact, Step
  <2>3. CASE AwaitEvidence \/ Identify
    BY <2>3 DEF AwaitEvidence, Identify, Step
  <2>4. CASE Capture \/ NoErrors
    BY <2>4 DEF Capture, NoErrors, Step
  <2> QED
    BY <1>3, <2>1, <2>2, <2>3, <2>4, <2>5
<1>4. CASE Throw \/ Killed \/ \E returns \in BOOLEAN : FinalAction(returns)
  BY <1>4 DEF Throw, Killed, FinalAction, Steps, Running
<1>5. CASE WriteArtifact
  BY <1>5 DEF WriteArtifact
<1>6. CASE CreationOver
  <2>1. ~threw /\ file.made /\ kind # "reveal-later" => file.id
    BY <1>6 DEF CreationOver, SpecKnows
  <2>2. file.made /\ ~file.id /\ Acted /\ kind # "reveal-later"
          => file.identity = "failed_cleanup_identity"
    BY DEF SpecKnows
  <2>3. CASE threw /\ ~resumed
    BY <1>6, <2>2, <2>3 DEF CreationOver, ScriptStep, Ends, FailureOf
  <2>4. CASE ~(threw /\ ~resumed)
    BY <1>6, <2>1, <2>4 DEF CreationOver, ScriptStep, Ends, GoesOn
  <2> QED
    BY <2>3, <2>4
<1>7. CASE Discovery \/ PublicShare
  <2>1. stage \in {"discovery", "share"} /\ file.made /\ kind # "reveal-later"
          => file.id
    BY DEF ShareHasLink, SpecKnows
  <2> QED
    BY <1>7, <2>1 DEF Discovery, PublicShare, ScriptStep, Ends, GoesOn
<1>8. CASE ReadSchedule \/ WaitForReveal \/ Verdict
           \/ \E route \in Routes : Probe(route)
  <2>1. CASE Verdict
    BY <2>1 DEF Verdict, ScriptStep, Ends
  <2> QED
    BY <1>8, <2>1 DEF ReadSchedule, WaitForReveal, Probe, ScriptStep, GoesOn
<1>9. CASE Resume
  BY <1>9 DEF Resume
<1>10. CASE WriteManifest
  BY <1>10 DEF WriteManifest
<1> QED
  BY <1>1, <1>2, <1>3, <1>4, <1>5, <1>6, <1>7, <1>8, <1>9, <1>10 DEF Next, Done

LEMMA NamedOrBlockingStep ==
  ASSUME LiveTypes, InTurn, SpecKnows, NamedOrBlocking,
         [Next]_vars
  PROVE  NamedOrBlocking'
<1> USE DEF NamedOrBlocking, Hidden, InTurn, Held, vars, campaign, product, network, test,
    scripts
<1>1. CASE UNCHANGED vars
  BY <1>1
<1>2. CASE SaveDraft \/ Store \/ Reply \/ RevealTimePasses
  BY <1>2 DEF SaveDraft, Store, Reply, RevealTimePasses, Running, Steps
<1>3. CASE \/ Compose \/ Bury \/ ChooseSettings \/ Continue \/ SelectContact
           \/ AwaitEvidence \/ Identify \/ Capture \/ NoErrors
  <2>1. CASE Compose
    BY <2>1 DEF Compose, Step
  <2>5. CASE Bury \/ ChooseSettings
    BY <2>5 DEF Bury, ChooseSettings, Step
  <2>2. CASE Continue \/ SelectContact
    BY <2>2 DEF Continue, SelectContact, Step
  <2>3. CASE AwaitEvidence \/ Identify
    BY <2>3 DEF AwaitEvidence, Identify, Step
  <2>4. CASE Capture \/ NoErrors
    BY <2>4 DEF Capture, NoErrors, Step
  <2> QED
    BY <1>3, <2>1, <2>2, <2>3, <2>4, <2>5
<1>4. CASE Throw \/ Killed \/ \E returns \in BOOLEAN : FinalAction(returns)
  BY <1>4 DEF Throw, Killed, FinalAction, Steps, Running
<1>5. CASE WriteArtifact
  BY <1>5 DEF WriteArtifact
<1>6. CASE CreationOver
  BY <1>6 DEF CreationOver, ScriptStep
<1>7. CASE Discovery \/ PublicShare
  BY <1>7 DEF Discovery, PublicShare, ScriptStep
<1>8. CASE ReadSchedule \/ WaitForReveal \/ Verdict
           \/ \E route \in Routes : Probe(route)
  BY <1>8 DEF ReadSchedule, WaitForReveal, Verdict, Probe, ScriptStep
<1>9. CASE Resume
  BY <1>9 DEF Resume
<1>10. CASE WriteManifest
  <2> DEFINE own == file.made /\ ~resumed
             acted == own /\ file.done \cap {"share", "send"} # {}
             named == acted /\ file.id
             objects == (IF named THEN 1 ELSE 0)
                        + (IF own /\ file.picture THEN 1 ELSE 0)
             accounted == /\ objects > 0
                          /\ mode = "manual" =>
                               ~IdentityUnknown(objects, acted, named)
  <2>1. manifest' = [capsule |-> named,
                     status |-> IF accounted THEN "cleanup_unavailable"
                                ELSE "pending"]
    BY <1>10 DEF WriteManifest
  <2>2. manifest'.capsule = named
        /\ (~accounted => manifest'.status = "pending")
    BY <2>1
  <2>3. UNCHANGED <<kind, mode, final, file, done>>
    BY <1>10 DEF WriteManifest
  <2>4. ASSUME ~named, accounted PROVE Hidden
    <3>1. own /\ file.picture
      BY <2>4
    <3>2. kind = "media" /\ file.done = done
      BY <3>1 DEF LiveTypes, SpecKnows
    <3>3. CASE "share" \notin done
      BY <3>1, <3>2, <3>3
    <3>4. CASE "share" \in done
      <4>1. acted /\ ~file.id
        BY <2>4, <3>1, <3>2, <3>4
      <4>2. mode = "deferred"
        BY <2>4, <4>1 DEF LiveTypes, IdentityUnknown
      <4> QED
        BY <3>1, <3>2, <4>1, <4>2
    <3> QED
      BY <3>3, <3>4
  <2> QED
    BY <2>2, <2>3, <2>4
<1> QED
  BY <1>1, <1>2, <1>3, <1>4, <1>5, <1>6, <1>7, <1>8, <1>9, <1>10 DEF Next, Done

LEMMA LiveInductive == LiveInvariant /\ [Next]_vars => LiveInvariant'
BY LiveTypesStep, InTurnStep, SpecKnowsStep, ShareHasLinkStep, ProbesTellStep,
   PassedPersistedStep, ReportedStep, NamedOrBlockingStep, Zenon
   DEF LiveInvariant, CapsuleAccounted

LEMMA LiveInitial == Init => LiveInvariant
<1> SUFFICES ASSUME Init PROVE LiveInvariant
  OBVIOUS
<1> USE DEF Init
<1>1. LiveTypes /\ InTurn
  BY DEF LiveTypes, InTurn, NoFile
<1>2. SpecKnows
  BY DEF SpecKnows, NoFile
<1>3. ShareHasLink /\ ProbesTell /\ PassedPersisted
  BY DEF ShareHasLink, ProbesTell, PassedPersisted
<1>4. CapsuleAccounted
  BY DEF CapsuleAccounted, Reported, NamedOrBlocking
<1> QED
  BY <1>1, <1>2, <1>3, <1>4 DEF LiveInvariant

(* The parts hold together in every state, whatever routes the product     *)
(* leaks by and however the creation spec ends.                            *)
THEOREM LiveSafety == Spec => []LiveInvariant
BY LiveInitial, LiveInductive, PTL DEF Spec

(* A lifecycle campaign that passes has created its capsule.               *)
THEOREM PassedPersistedHolds == Spec => []PassedPersisted
<1>1. LiveInvariant => PassedPersisted
  BY DEF LiveInvariant
<1> QED
  BY <1>1, LiveSafety, PTL

(* A capsule that may exist is reported, named or blocks the next campaign.*)
THEOREM CapsuleAccountedHolds == Spec => []CapsuleAccounted
<1>1. LiveInvariant => CapsuleAccounted
  BY DEF LiveInvariant
<1> QED
  BY <1>1, LiveSafety, PTL

(* A conclusive security campaign fails exactly when some route leaks, for *)
(* any set of routes.                                                      *)
THEOREM VerdictEarnedHolds == Spec => []VerdictEarned
<1>1. LiveInvariant => VerdictEarned
  <2> SUFFICES ASSUME LiveInvariant, script = "security", Conclusive
               PROVE  outcome = "failed" <=> exposed # {}
    BY DEF VerdictEarned
  <2>1. seen = exposed
    BY DEF LiveInvariant, LiveTypes, ProbesTell, Conclusive
  <2>2. tried # {}
    BY LiveCampaignAssumption DEF Conclusive
  <2> QED
    BY <2>1, <2>2 DEF LiveInvariant, ProbesTell, Conclusive
<1> QED
  BY <1>1, LiveSafety, PTL

-----------------------------------------------------------------------------
(* OperatorConsole.                                                        *)

Unique(c) == \A i, j \in DOMAIN c : c[i].run = c[j].run => i = j

(* Deleting what is kept of r leaves the rest of the cache.                *)
LEMMA WithoutFacts ==
  ASSUME NEW c \in Seq(Detail), Unique(c), NEW r
  PROVE  /\ Without(c, r) \in Seq(Detail) /\ Unique(Without(c, r))
         /\ \A i \in DOMAIN Without(c, r) :
              \E j \in DOMAIN c :
                Without(c, r)[i] = c[j] /\ c[j].run # r
<1>1. CASE \A i \in DOMAIN c : c[i].run # r
  BY <1>1 DEF Without
<1>2. CASE \E i \in DOMAIN c : c[i].run = r
  <2> DEFINE at == CHOOSE i \in DOMAIN c : c[i].run = r
             w == [i \in 1 .. Len(c) - 1 |-> c[IF i < at THEN i ELSE i + 1]]
  <2>1. at \in DOMAIN c /\ c[at].run = r
    BY <1>2
  <2>2. Without(c, r) = w
    BY <1>2 DEF Without
  <2> HIDE DEF at
  <2>3. Len(c) - 1 \in Nat /\ DOMAIN c = 1 .. Len(c) /\ at \in 1 .. Len(c)
    BY <2>1
  <2>4. ASSUME NEW i \in 1 .. Len(c) - 1
        PROVE  /\ (IF i < at THEN i ELSE i + 1) \in DOMAIN c
               /\ (IF i < at THEN i ELSE i + 1) # at
    BY <2>3
  <2>5. w \in Seq(Detail)
    <3>1. \A i \in 1 .. Len(c) - 1 : w[i] \in Detail
      BY <2>4, ElementOfSeq, <2>3
    <3> QED BY <3>1, <2>3, IsASeq
  <2>6. \A i \in DOMAIN w : \E j \in DOMAIN c : w[i] = c[j] /\ c[j].run # r
    BY <2>1, <2>4 DEF Unique
  <2>7. Unique(w)
    <3> SUFFICES ASSUME NEW i \in 1 .. Len(c) - 1, NEW j \in 1 .. Len(c) - 1,
                        w[i].run = w[j].run
                 PROVE  i = j
      BY DEF Unique
    <3>1. (IF i < at THEN i ELSE i + 1) = (IF j < at THEN j ELSE j + 1)
      BY <2>4 DEF Unique
    <3> QED BY <3>1, <2>3
  <2> QED BY <2>2, <2>5, <2>6, <2>7
<1> QED BY <1>1, <1>2

(* A detail of a run that the cache does not have.                         *)
LEMMA AppendFacts ==
  ASSUME NEW c \in Seq(Detail), Unique(c), NEW d \in Detail,
         \A i \in DOMAIN c : c[i].run # d.run
  PROVE  /\ Append(c, d) \in Seq(Detail) /\ Unique(Append(c, d))
         /\ \A i \in DOMAIN Append(c, d) :
              Append(c, d)[i] = d \/ \E j \in DOMAIN c : Append(c, d)[i] = c[j]
<1> DEFINE a == Append(c, d)
<1>1. /\ a \in Seq(Detail) /\ Len(a) = Len(c) + 1 /\ Len(c) \in Nat
      /\ a[Len(c) + 1] = d /\ \A i \in 1 .. Len(c) : a[i] = c[i]
  BY AppendProperties
<1>2. DOMAIN a = 1 .. Len(c) + 1 /\ DOMAIN c = 1 .. Len(c)
  BY <1>1
<1> HIDE DEF a
<1>3. \A i \in DOMAIN a : i \in DOMAIN c \/ i = Len(c) + 1
  BY <1>1, <1>2
<1>4. Unique(a)
  <2> SUFFICES ASSUME NEW i \in DOMAIN a, NEW j \in DOMAIN a,
                      a[i].run = a[j].run
               PROVE  i = j
    BY DEF Unique
  <2>1. CASE i \in DOMAIN c /\ j \in DOMAIN c
    BY <1>1, <1>2, <2>1 DEF Unique
  <2>2. CASE i = Len(c) + 1 /\ j \in DOMAIN c
    BY <1>1, <1>2, <2>2
  <2>3. CASE j = Len(c) + 1 /\ i \in DOMAIN c
    BY <1>1, <1>2, <2>3
  <2> QED BY <1>3, <2>1, <2>2, <2>3
<1>5. \A i \in DOMAIN a : a[i] = d \/ \E j \in DOMAIN c : a[i] = c[j]
  BY <1>1, <1>2, <1>3
<1> QED BY <1>1, <1>4, <1>5 DEF a

(* What an answer leaves in the cache: what was there, and itself if it    *)
(* was pending.                                                            *)
LEMMA RememberedFacts ==
  ASSUME cached \in Seq(Detail), Unique(cached), NEW q \in Request
  PROVE  /\ Remembered(q) \in Seq(Detail) /\ Unique(Remembered(q))
         /\ \A i \in DOMAIN Remembered(q) :
              \/ \E j \in DOMAIN cached : Remembered(q)[i] = cached[j]
              \/ q.pending /\ Remembered(q)[i] = DetailOf(q)
<1> DEFINE rest == Without(cached, q.run)
           all == IF TerminalStatus(q.row) THEN Append(rest, DetailOf(q))
                  ELSE rest
<1>1. /\ rest \in Seq(Detail) /\ Unique(rest)
      /\ \A i \in DOMAIN rest : rest[i].run # q.run
      /\ \A i \in DOMAIN rest : \E j \in DOMAIN cached : rest[i] = cached[j]
  BY WithoutFacts
<1>2. DetailOf(q) \in Detail /\ DetailOf(q).run = q.run
  BY DEF DetailOf, Request, Detail
<1> HIDE DEF rest
<1>3. /\ all \in Seq(Detail) /\ Unique(all)
      /\ \A i \in DOMAIN all :
           \/ \E j \in DOMAIN cached : all[i] = cached[j]
           \/ all[i] = DetailOf(q)
  <2>1. CASE TerminalStatus(q.row)
    <3>1. all = Append(rest, DetailOf(q))
      BY <2>1
    <3> QED BY <1>1, <1>2, <3>1, AppendFacts
  <2>2. CASE ~TerminalStatus(q.row)
    BY <1>1, <2>2
  <2> QED BY <2>1, <2>2
<1>4. CASE ~q.pending
  BY <1>4 DEF Remembered
<1>5. CASE q.pending /\ ~(Len(all) > CacheLimit)
  <2>1. Remembered(q) = all
    BY <1>5 DEF Remembered, rest
  <2> QED BY <1>3, <1>5, <2>1
<1>6. CASE q.pending /\ Len(all) > CacheLimit
  <2>1. Remembered(q) = Tail(all)
    BY <1>6 DEF Remembered, rest
  <2> HIDE DEF all
  <2>2. all # << >> /\ Len(all) \in Nat
    BY <1>3, <1>6, ConsoleAssumption
  <2>3. /\ Tail(all) \in Seq(Detail) /\ DOMAIN Tail(all) = 1 .. Len(all) - 1
        /\ \A i \in 1 .. Len(all) - 1 : Tail(all)[i] = all[i + 1]
        /\ DOMAIN all = 1 .. Len(all)
    BY <1>3, <2>2, HeadTailProperties
  <2>4. Unique(Tail(all))
    <3> SUFFICES ASSUME NEW i \in 1 .. Len(all) - 1, NEW j \in 1 .. Len(all) - 1,
                        Tail(all)[i].run = Tail(all)[j].run
                 PROVE  i = j
      BY <2>3 DEF Unique
    <3>1. i + 1 \in DOMAIN all /\ j + 1 \in DOMAIN all
      BY <2>2, <2>3
    <3>2. i + 1 = j + 1
      BY <1>3, <2>3, <3>1 DEF Unique
    <3> QED BY <3>2
  <2>5. \A i \in DOMAIN Tail(all) :
          i + 1 \in DOMAIN all /\ Tail(all)[i] = all[i + 1]
    BY <2>2, <2>3
  <2> QED BY <1>3, <1>6, <2>1, <2>3, <2>4, <2>5
<1> QED BY <1>4, <1>5, <1>6

(* Requests that ask for a known summary, were answered with no older one, *)
(* and are pending only if nobody has forgotten them.                      *)
Fine(reqs) ==
  /\ reqs \in [Slots -> {Null} \cup Request]
  /\ \A s \in Slots : reqs[s] # Null =>
       /\ reqs[s].key <= rows[reqs[s].run]
       /\ reqs[s].row # 0 => reqs[s].key <= reqs[s].row
       /\ reqs[s].pending => ~reqs[s].stale

LEMMA RecordsAreNotNull ==
  /\ Null \notin Slots /\ Null # Failed
  /\ \A q \in Request \cup Refresh \cup Detail : q # Null /\ q # Failed
BY ConsoleAssumption

LEMMA InvalidatedFacts ==
  ASSUME ConsoleTypes, Fine(requests), NEW r \in Runs
  PROVE  /\ Fine(Invalidated(r))
         /\ \A s \in Slots : Invalidated(r)[s] # Null =>
              Invalidated(r)[s].run # r \/ ~Invalidated(r)[s].pending
<1> SUFFICES ASSUME NEW s \in Slots
             PROVE  LET q == Invalidated(r)[s] IN
                    /\ q \in {Null} \cup Request
                    /\ q # Null =>
                         /\ q.key <= rows[q.run] /\ (q.row # 0 => q.key <= q.row)
                         /\ q.pending => ~q.stale
                         /\ q.run # r \/ ~q.pending
  BY DEF Fine, Invalidated
<1>1. CASE requests[s] = Null \/ requests[s].run # r
  BY <1>1 DEF Fine, Invalidated
<1>2. CASE ~(requests[s] = Null \/ requests[s].run # r)
  <2>1. Invalidated(r)[s] = [requests[s] EXCEPT !.pending = FALSE, !.key = 0,
                                                !.stale = TRUE]
    BY <1>2 DEF Invalidated
  <2>2. requests[s] \in Request /\ requests[s].run = r
    BY <1>2 DEF Fine
  <2>3. rows[r] \in Version
    BY DEF ConsoleTypes
  <2>4. /\ Invalidated(r)[s] \in Request
        /\ Invalidated(r)[s].run = r /\ Invalidated(r)[s].key = 0
        /\ ~Invalidated(r)[s].pending
        /\ Invalidated(r)[s].row \in Version
    <3>1. requests[s] = [run |-> requests[s].run, key |-> requests[s].key,
                         row |-> requests[s].row,
                         pending |-> requests[s].pending,
                         stale |-> requests[s].stale]
      BY <2>2 DEF Request
    <3>2. Invalidated(r)[s] = [run |-> r, key |-> 0, row |-> requests[s].row,
                               pending |-> FALSE, stale |-> TRUE]
      BY <2>1, <2>2, <3>1
    <3> QED BY <2>2, <3>2 DEF Request, Version
  <2> QED BY <2>3, <2>4 DEF Version
<1> QED BY <1>1, <1>2

(* What is cached and what is shown was not forgotten.                     *)
Remembers(c) ==
  c \in Seq(Detail) /\ Unique(c) /\ \A i \in DOMAIN c : ~c[i].stale
ShownFresh(x) == x \in {Null, Failed} \cup Detail /\ (IsDetail(x) => ~x.stale)

(* A refresh shows what is cached for the summary it was given, or waits   *)
(* for an answer that is no older; forced, it waits for a new answer.      *)
LEMMA RefreshFacts ==
  ASSUME ConsoleTypes, Fine(requests), Remembers(cached),
         NEW r \in Runs, NEW key \in Version, key <= rows[r],
         NEW force \in BOOLEAN, NEW pane, ShownFresh(pane), rows' = rows,
         RefreshRunDetail(r, key, force, pane)
  PROVE  /\ Fine(requests)'
         /\ Remembers(cached)' /\ ShownFresh(shown)'
         /\ \/ /\ wants' = Null /\ ~force /\ TerminalStatus(key)
               /\ IF r = selected
                  THEN shown' \in Detail /\ shown'.run = r /\ shown'.row = key
                  ELSE shown' = pane
            \/ /\ wants' \in Slots /\ shown' = pane
               /\ requests'[wants'] # Null /\ requests'[wants'].pending
               /\ requests'[wants'].run = r
               /\ requests'[wants'].row = 0
                  \/ (~force /\ requests'[wants'].row >= key)
<1> DEFINE kept == IF force THEN Without(cached, r) ELSE cached
           reqs == IF force THEN Invalidated(r) ELSE requests
<1>1. Remembers(kept) /\ (force => \A i \in DOMAIN kept : kept[i].run # r)
  BY WithoutFacts DEF Remembers
<1>2. /\ Fine(reqs)
      /\ force => \A s \in Slots : reqs[s] # Null =>
                    reqs[s].run # r \/ ~reqs[s].pending
  BY InvalidatedFacts
<1>3. /\ cached' = kept
      /\ \/ \E i \in Hits(kept, r, key) :
              /\ requests' = reqs /\ wants' = Null
              /\ shown' = IF r = selected THEN kept[i] ELSE pane
         \/ \E s \in Joinable(reqs, r, key) :
              /\ requests' = reqs /\ wants' = s /\ shown' = pane
         \/ /\ \E s \in Slots :
                 /\ reqs[s] = Null
                 /\ requests' = [reqs EXCEPT ![s] =
                      [run |-> r, key |-> key, row |-> 0,
                       pending |-> TRUE, stale |-> FALSE]]
                 /\ wants' = s
            /\ shown' = pane
  BY DEF RefreshRunDetail
<1> HIDE DEF kept, reqs
<1>4. ASSUME NEW i \in Hits(kept, r, key),
             requests' = reqs, wants' = Null,
             shown' = IF r = selected THEN kept[i] ELSE pane
      PROVE  /\ Fine(requests)'
             /\ ShownFresh(shown)'
             /\ wants' = Null /\ ~force /\ TerminalStatus(key)
             /\ IF r = selected
                THEN shown' \in Detail /\ shown'.run = r /\ shown'.row = key
                ELSE shown' = pane
  <2>1. i \in DOMAIN kept /\ TerminalStatus(key) /\ kept[i].run = r
        /\ kept[i].row = key
    BY DEF Hits
  <2>2. kept[i] \in Detail /\ ~kept[i].stale /\ ~force
    BY <1>1, <2>1, ElementOfSeq DEF Remembers
  <2>3. ShownFresh(shown')
    BY <1>4, <2>2 DEF ShownFresh
  <2> QED BY <1>2, <1>4, <2>1, <2>2, <2>3 DEF Fine, ShownFresh
<1>5. ASSUME NEW s \in Joinable(reqs, r, key),
             requests' = reqs, wants' = s, shown' = pane
      PROVE  /\ Fine(requests)'
             /\ ShownFresh(shown)'
             /\ wants' \in Slots
             /\ requests'[wants'] # Null /\ requests'[wants'].pending
             /\ requests'[wants'].run = r
             /\ requests'[wants'].row = 0
                \/ (~force /\ requests'[wants'].row >= key)
  <2>1. s \in Slots /\ reqs[s] # Null /\ reqs[s].pending /\ reqs[s].run = r
        /\ reqs[s].key = key
    BY DEF Joinable
  <2>2. ~force /\ (reqs[s].row = 0 \/ reqs[s].row >= key)
    BY <1>2, <2>1 DEF Fine, Request, Version
  <2> QED BY <1>2, <1>5, <2>1, <2>2 DEF Fine, ShownFresh
<1>6. ASSUME NEW s \in Slots, reqs[s] = Null,
             requests' = [reqs EXCEPT ![s] =
                  [run |-> r, key |-> key, row |-> 0,
                   pending |-> TRUE, stale |-> FALSE]],
             wants' = s, shown' = pane
      PROVE  /\ Fine(requests)'
             /\ ShownFresh(shown)'
             /\ wants' \in Slots
             /\ requests'[wants'] # Null /\ requests'[wants'].pending
             /\ requests'[wants'].run = r
             /\ requests'[wants'].row = 0
  <2> DEFINE q == [run |-> r, key |-> key, row |-> 0,
                   pending |-> TRUE, stale |-> FALSE]
  <2>1. q \in Request /\ q # Null
    <3>1. q \in Request
      BY DEF Request, Version
    <3> HIDE DEF q
    <3> QED BY <3>1, RecordsAreNotNull
  <2>2. /\ requests' \in [Slots -> {Null} \cup Request] /\ requests'[s] = q
        /\ \A t \in Slots : t # s => requests'[t] = reqs[t]
    <3>1. requests' = [reqs EXCEPT ![s] = q]
      BY <1>6
    <3>2. reqs \in [Slots -> {Null} \cup Request]
      BY <1>2 DEF Fine
    <3> HIDE DEF q
    <3> QED BY <2>1, <3>1, <3>2
  <2>3. Fine(requests)'
    <3> SUFFICES ASSUME NEW t \in Slots, requests'[t] # Null
                 PROVE  /\ requests'[t].key <= rows[requests'[t].run]
                        /\ requests'[t].row # 0
                             => requests'[t].key <= requests'[t].row
                        /\ requests'[t].pending => ~requests'[t].stale
      <4>1. requests' \in [Slots -> {Null} \cup Request] /\ rows' = rows
        BY <2>2
      <4> QED BY <4>1 DEF Fine
    <3>1. CASE t = s
      BY <2>2, <3>1
    <3>2. CASE t # s
      BY <1>2, <2>2, <3>2 DEF Fine
    <3> QED BY <3>1, <3>2
  <2> QED BY <1>6, <2>1, <2>2, <2>3 DEF ShownFresh
<1>7. Remembers(cached)'
  BY <1>1, <1>3 DEF Remembers
<1> QED BY <1>3, <1>4, <1>5, <1>6, <1>7

LEMMA InvariantParts ==
  ConsoleInvariant <=>
    /\ ConsoleTypes /\ NotAhead /\ Fine(requests) /\ Remembers(cached)
    /\ ShownFresh(shown)
    /\ wants # Null => requests[wants] # Null /\ requests[wants].pending
    /\ ShowsSelected /\ EndIsComing
BY DEF ConsoleInvariant, ConsoleTypes, AnswersNewer, OnePerRun, Awaited,
   ForgottenAnswers, Fine, Remembers, ShownFresh, Unique

(* A step that refreshes a detail keeps the invariant if, where the effect *)
(* has run, it blanks or keeps a pane of the selected run and asks for the *)
(* run as the list knows it.                                               *)
LEMMA RefreshStep ==
  ASSUME ConsoleInvariant,
         NEW r \in Runs, NEW key \in Version, key <= rows[r],
         NEW force \in BOOLEAN, NEW pane \in {Null, shown},
         RefreshRunDetail(r, key, force, pane),
         UNCHANGED <<rows, list, selected, view>>,
         lists' \subseteq lists \cup {rows}, after' \in {Null, after},
         effectDue' \in BOOLEAN, late' \in BOOLEAN,
         pane = Null \/ effectDue' = effectDue,
         view = "detail" /\ ~effectDue' /\ ~late'
           /\ TerminalStatus(list[selected])
             => r = selected /\ (force \/ key = list[selected])
  PROVE  ConsoleInvariant'
<1>1. /\ ConsoleTypes /\ NotAhead /\ Fine(requests) /\ Remembers(cached)
      /\ ShownFresh(shown) /\ ShowsSelected
  BY InvariantParts
<1>2. ShownFresh(pane)
  BY <1>1 DEF ShownFresh, IsDetail
<1>3. /\ Fine(requests)' /\ Remembers(cached)' /\ ShownFresh(shown)'
      /\ \/ /\ wants' = Null /\ ~force /\ TerminalStatus(key)
            /\ IF r = selected
               THEN shown' \in Detail /\ shown'.run = r /\ shown'.row = key
               ELSE shown' = pane
         \/ /\ wants' \in Slots /\ shown' = pane
            /\ requests'[wants'] # Null /\ requests'[wants'].pending
            /\ requests'[wants'].run = r
            /\ requests'[wants'].row = 0
               \/ (~force /\ requests'[wants'].row >= key)
  BY <1>1, <1>2, RefreshFacts
<1>4. Null \notin Slots /\ Null \notin Detail /\ Failed \notin Detail
  BY RecordsAreNotNull
<1>5. ConsoleTypes'
  BY <1>1, <1>3 DEF ConsoleTypes, Fine, Remembers, ShownFresh
<1>6. NotAhead'
  BY <1>1 DEF NotAhead, ConsoleTypes, Version
<1>7. wants' # Null => requests'[wants'] # Null /\ requests'[wants'].pending
  BY <1>3
<1>8. ShowsSelected'
  <2>1. shown' \in {pane} \/ (r = selected /\ shown'.run = selected)
    BY <1>3
  <2> QED BY <1>1, <2>1 DEF ShowsSelected, IsDetail
<1>9. EndIsComing'
  <2> SUFFICES ASSUME view = "detail", ~effectDue', ~late',
                      TerminalStatus(list[selected])
               PROVE  \/ wants' = Null /\ ShowsTheEnd'
                      \/ /\ wants' # Null
                         /\ requests'[wants'].run = selected
                         /\ \/ requests'[wants'].row = 0
                            \/ requests'[wants'].row >= list[selected]
    BY DEF EndIsComing
  <2>1. r = selected /\ (force \/ key = list[selected]) /\ selected' = selected
        /\ list' = list
    OBVIOUS
  <2>2. list[selected] \in Version
    BY <1>1 DEF ConsoleTypes
  <2>3. CASE wants' = Null
    <3>1. shown' \in Detail /\ shown'.run = selected
          /\ shown'.row = list[selected]
      BY <1>3, <1>4, <2>1, <2>3
    <3>2. IsDetail(shown') /\ shown'.row >= list[selected]
      BY <1>4, <2>2, <3>1 DEF IsDetail, Version
    <3> QED BY <2>1, <2>3, <3>1, <3>2 DEF ShowsTheEnd
  <2>4. CASE wants' # Null
    BY <1>3, <2>1, <2>4
  <2> QED BY <2>3, <2>4
<1> QED
  <2>1. /\ ConsoleTypes' /\ NotAhead' /\ Fine(requests)' /\ Remembers(cached)'
        /\ ShownFresh(shown)' /\ ShowsSelected' /\ EndIsComing'
        /\ (wants # Null => requests[wants] # Null /\ requests[wants].pending)'
    BY <1>3, <1>5, <1>6, <1>7, <1>8, <1>9
  <2> QED BY <2>1, InvariantParts, PTL

(* The refreshes of the page.                                              *)
LEMMA RefreshingSteps ==
  ASSUME ConsoleInvariant, Poll \/ DetailEffect \/ RefreshButton \/ RefreshAfter
  PROVE  ConsoleInvariant'
<1>1. /\ ConsoleTypes /\ NotAhead /\ Fine(requests) /\ Remembers(cached)
      /\ ShownFresh(shown) /\ ShowsSelected /\ EndIsComing
      /\ wants # Null => requests[wants] # Null /\ requests[wants].pending
  BY InvariantParts
<1>2. /\ selected \in Runs /\ list[selected] \in Version
      /\ list[selected] <= rows[selected]
  BY <1>1 DEF ConsoleTypes, NotAhead
<1>3. CASE Poll /\ view = "detail" /\ ~TerminalStatus(list[selected])
  <2>1. /\ RefreshRunDetail(selected, list[selected], FALSE, shown)
        /\ UNCHANGED <<rows, list, selected, view, after, effectDue, late>>
        /\ lists' \subseteq lists \cup {rows}
    BY <1>3 DEF Poll, Asked, screen
  <2>2. effectDue' \in BOOLEAN /\ late' \in BOOLEAN
    BY <1>1, <2>1 DEF ConsoleTypes
  <2> QED BY <1>2, <1>3, <2>1, <2>2, RefreshStep
<1>4. CASE Poll /\ ~(view = "detail" /\ ~TerminalStatus(list[selected]))
  <2>1. /\ UNCHANGED <<rows, list, selected, view, after, effectDue, late>>
        /\ UNCHANGED <<requests, wants, shown, cached>>
        /\ lists' \subseteq lists \cup {rows}
    BY <1>4 DEF Poll, Asked, screen
  <2>2. ConsoleTypes' /\ NotAhead'
    BY <1>1, <2>1 DEF ConsoleTypes, NotAhead, Version
  <2>3. /\ Fine(requests)' /\ Remembers(cached)' /\ ShownFresh(shown)'
        /\ ShowsSelected' /\ EndIsComing'
        /\ (wants # Null => requests[wants] # Null /\ requests[wants].pending)'
    BY <1>1, <2>1 DEF Fine, Remembers, ShownFresh, ShowsSelected, EndIsComing,
       ShowsTheEnd
  <2> QED BY <2>2, <2>3, InvariantParts, PTL
<1>5. CASE DetailEffect /\ view = "detail"
  <2>1. /\ RefreshRunDetail(selected, list[selected], FALSE, Null)
        /\ UNCHANGED <<rows, lists, list, selected, view, after>>
        /\ effectDue' = FALSE /\ late' = FALSE
    BY <1>5 DEF DetailEffect, screen
  <2> QED BY <1>2, <2>1, RefreshStep
<1>6. CASE DetailEffect /\ view # "detail"
  <2>1. /\ UNCHANGED <<rows, lists, list, selected, view, after, requests,
                       shown, cached>>
        /\ effectDue' = FALSE /\ late' = FALSE /\ wants' = Null
    BY <1>6 DEF DetailEffect, screen
  <2>2. ConsoleTypes' /\ NotAhead'
    BY <1>1, <2>1 DEF ConsoleTypes, NotAhead
  <2>3. /\ Fine(requests)' /\ Remembers(cached)' /\ ShownFresh(shown)'
        /\ ShowsSelected' /\ EndIsComing'
        /\ (wants # Null => requests[wants] # Null /\ requests[wants].pending)'
    BY <1>1, <1>6, <2>1 DEF Fine, Remembers, ShownFresh, ShowsSelected,
       EndIsComing
  <2> QED BY <2>2, <2>3, InvariantParts, PTL
<1>7. CASE RefreshButton
  <2>1. /\ RefreshRunDetail(selected, list[selected], TRUE, shown)
        /\ UNCHANGED <<rows, lists, list, selected, view, after, effectDue,
                       late>>
    BY <1>7 DEF RefreshButton, screen
  <2>2. effectDue' \in BOOLEAN /\ late' \in BOOLEAN
    BY <1>1, <2>1 DEF ConsoleTypes
  <2> QED BY <1>2, <2>1, <2>2, RefreshStep
<1>8. CASE RefreshAfter
  <2>1. /\ after # Null /\ after' = Null
        /\ RefreshRunDetail(after.run, after.key, after.force, shown)
        /\ UNCHANGED <<rows, lists, list, selected, view, effectDue>>
        /\ late' = (late \/ after.run # selected
                     \/ (~after.force /\ TerminalRunVersion(after.key)
                                    # TerminalRunVersion(list[after.run])))
    BY <1>8 DEF RefreshAfter
  <2>2. /\ after \in Refresh /\ after.run \in Runs /\ after.key \in Version
        /\ after.force \in BOOLEAN /\ after.key <= rows[after.run]
    BY <1>1, <2>1 DEF ConsoleTypes, NotAhead, Refresh
  <2>3. effectDue' \in BOOLEAN /\ late' \in BOOLEAN
    BY <1>1, <2>1 DEF ConsoleTypes
  <2>4. ASSUME ~late', TerminalStatus(list[selected])
        PROVE  after.run = selected
               /\ (after.force \/ after.key = list[selected])
    <3>1. /\ after.run = selected
          /\ after.force \/ TerminalRunVersion(after.key)
                              = TerminalRunVersion(list[selected])
      BY <2>1, <2>4
    <3> QED BY <1>2, <2>2, <2>4, <3>1
            DEF TerminalRunVersion, TerminalStatus, Version
  <2> QED BY <2>1, <2>2, <2>3, <2>4, RefreshStep
<1> QED BY <1>3, <1>4, <1>5, <1>6, <1>7, <1>8

(* A request reaches the server, or is over.                               *)
LEMMA RequestSteps ==
  ASSUME ConsoleInvariant, NEW s \in Slots, ReadRow(s) \/ Answer(s) \/ Fail(s)
  PROVE  ConsoleInvariant'
<1>1. /\ ConsoleTypes /\ NotAhead /\ Fine(requests) /\ Remembers(cached)
      /\ ShownFresh(shown) /\ ShowsSelected /\ EndIsComing
      /\ wants # Null => requests[wants] # Null /\ requests[wants].pending
  BY InvariantParts
<1>2. requests[s] \in Request /\ s # Null
  <2>1. requests[s] # Null
    BY DEF ReadRow, Answer, Fail
  <2> QED BY <1>1, <2>1, RecordsAreNotNull DEF Fine
<1>3. /\ UNCHANGED <<rows, lists, list, selected, view, after, effectDue,
                     late>>
  BY DEF ReadRow, Answer, Fail, RequestEnds, screen
<1>4. CASE ReadRow(s)
  <2> DEFINE q == [requests[s] EXCEPT !.row = rows[requests[s].run]]
  <2>1. /\ requests[s].row = 0 /\ requests' = [requests EXCEPT ![s] = q]
        /\ UNCHANGED <<wants, shown, cached>>
    BY <1>4 DEF ReadRow
  <2>2. rows[requests[s].run] \in Version
        /\ requests[s].key <= rows[requests[s].run]
    BY <1>1, <1>2, RecordsAreNotNull DEF ConsoleTypes, Fine, Request
  <2>3. /\ q \in Request /\ q.run = requests[s].run /\ q.key = requests[s].key
        /\ q.row = rows[q.run] /\ q.pending = requests[s].pending
        /\ q.stale = requests[s].stale
    BY <1>2, <2>2 DEF Request
  <2> HIDE DEF q
  <2>4. q # Null
    BY <2>3, RecordsAreNotNull
  <2>5. /\ requests' \in [Slots -> {Null} \cup Request] /\ requests'[s] = q
        /\ \A t \in Slots : t # s => requests'[t] = requests[t]
    BY <1>1, <2>1, <2>3 DEF Fine
  <2>6. Fine(requests)'
    <3> SUFFICES ASSUME NEW t \in Slots, requests'[t] # Null
                 PROVE  /\ requests'[t].key <= rows[requests'[t].run]
                        /\ requests'[t].row # 0
                             => requests'[t].key <= requests'[t].row
                        /\ requests'[t].pending => ~requests'[t].stale
      BY <1>3, <2>5 DEF Fine
    <3>1. CASE t = s
      BY <1>1, <1>2, <2>2, <2>3, <2>5, <3>1, RecordsAreNotNull DEF Fine
    <3>2. CASE t # s
      BY <1>1, <2>5, <3>2 DEF Fine
    <3> QED BY <3>1, <3>2
  <2>7. (wants # Null => requests[wants] # Null /\ requests[wants].pending)'
    <3>1. CASE wants = s
      BY <1>1, <1>2, <2>1, <2>3, <2>4, <2>5, <3>1
    <3>2. CASE wants # s
      BY <1>1, <2>1, <2>5, <3>2 DEF ConsoleTypes
    <3> QED BY <3>1, <3>2
  <2>8. EndIsComing'
    <3>1. list[selected] <= rows[selected]
      BY <1>1 DEF NotAhead, ConsoleTypes
    <3>2. CASE wants = s
      BY <1>1, <1>2, <1>3, <2>1, <2>2, <2>3, <2>5, <3>1, <3>2
         DEF EndIsComing, ConsoleTypes, Version, ShowsTheEnd
    <3>3. CASE wants # s
      BY <1>1, <1>3, <2>1, <2>5, <3>3 DEF EndIsComing, ConsoleTypes, ShowsTheEnd
    <3> QED BY <3>2, <3>3
  <2>9. ConsoleTypes' /\ NotAhead' /\ Remembers(cached)' /\ ShownFresh(shown)'
        /\ ShowsSelected'
    BY <1>1, <1>3, <2>1, <2>5 DEF ConsoleTypes, NotAhead, Remembers,
       ShownFresh, ShowsSelected
  <2> QED BY <2>6, <2>7, <2>8, <2>9, InvariantParts, PTL
<1>5. ASSUME NEW pane, RequestEnds(s, pane),
             \/ /\ pane = DetailOf(requests[s]) /\ requests[s].row # 0
                /\ cached' = Remembered(requests[s])
             \/ pane = Failed /\ requests[s].row = 0 /\ cached' = cached
      PROVE  ConsoleInvariant'
  <2>1. /\ requests' = [requests EXCEPT ![s] = Null]
        /\ wants' = IF wants = s THEN Null ELSE wants
        /\ shown' = IF IsCurrent(s) THEN pane ELSE shown
    BY <1>5 DEF RequestEnds
  <2>2. /\ requests' \in [Slots -> {Null} \cup Request] /\ requests'[s] = Null
        /\ \A t \in Slots : t # s => requests'[t] = requests[t]
    BY <1>1, <2>1 DEF Fine
  <2>3. /\ DetailOf(requests[s]) \in Detail
        /\ DetailOf(requests[s]).run = requests[s].run
        /\ DetailOf(requests[s]).row = requests[s].row
        /\ DetailOf(requests[s]).stale = requests[s].stale
    BY <1>2 DEF DetailOf, Request, Detail
  <2>4. requests[s].pending => ~requests[s].stale
    BY <1>1, <1>2, RecordsAreNotNull DEF Fine
  <2>5. Fine(requests)'
    BY <1>1, <1>3, <2>2 DEF Fine
  <2>6. Remembers(cached)'
    <3>1. CASE cached' = cached
      BY <1>1, <3>1 DEF Remembers
    <3>2. CASE cached' = Remembered(requests[s])
      <4>1. /\ Remembered(requests[s]) \in Seq(Detail)
            /\ Unique(Remembered(requests[s]))
            /\ \A i \in DOMAIN Remembered(requests[s]) :
                 \/ \E j \in DOMAIN cached :
                      Remembered(requests[s])[i] = cached[j]
                 \/ /\ requests[s].pending
                    /\ Remembered(requests[s])[i] = DetailOf(requests[s])
        BY <1>1, <1>2, RememberedFacts DEF Remembers
      <4> QED BY <1>1, <2>3, <2>4, <3>2, <4>1 DEF Remembers
    <3> QED BY <1>5, <3>1, <3>2
  <2>7. IsCurrent(s) => /\ wants = s /\ requests[s].run = selected
                        /\ requests[s].pending
    BY <1>1, <1>2 DEF IsCurrent
  <2>8. ShownFresh(shown)'
    <3>1. CASE IsCurrent(s)
      BY <1>5, <2>1, <2>3, <2>4, <2>7, <3>1 DEF ShownFresh, IsDetail
    <3>2. CASE ~IsCurrent(s)
      BY <1>1, <2>1, <3>2 DEF ShownFresh
    <3> QED BY <3>1, <3>2
  <2>9. ShowsSelected'
    <3>1. CASE IsCurrent(s)
      BY <1>3, <1>5, <2>1, <2>3, <2>7, <3>1 DEF ShowsSelected, IsDetail
    <3>2. CASE ~IsCurrent(s)
      BY <1>1, <1>3, <2>1, <3>2 DEF ShowsSelected
    <3> QED BY <3>1, <3>2
  <2>10. EndIsComing'
    <3>1. CASE wants = s
      <4> SUFFICES ASSUME view = "detail", ~effectDue, ~late,
                          TerminalStatus(list[selected])
                   PROVE  wants' = Null /\ ShowsTheEnd'
        BY <1>3 DEF EndIsComing
      <4>1. /\ requests[s].run = selected
            /\ requests[s].row = 0 \/ requests[s].row >= list[selected]
        BY <1>1, <1>2, <3>1 DEF EndIsComing
      <4>2. wants' = Null /\ shown' = pane
        BY <2>1, <3>1, <4>1 DEF IsCurrent
      <4>3. CASE pane = Failed
        BY <4>2, <4>3 DEF ShowsTheEnd
      <4>4. CASE pane = DetailOf(requests[s]) /\ requests[s].row # 0
        BY <1>3, <2>3, <4>1, <4>2, <4>4, RecordsAreNotNull
           DEF ShowsTheEnd, IsDetail
      <4> QED BY <1>5, <4>3, <4>4
    <3>2. CASE wants # s
      BY <1>1, <1>3, <2>1, <2>2, <3>2
         DEF EndIsComing, ConsoleTypes, ShowsTheEnd, IsCurrent
    <3> QED BY <3>1, <3>2
  <2>11. ConsoleTypes' /\ NotAhead'
    BY <1>1, <1>3, <2>1, <2>2, <2>6, <2>8 DEF ConsoleTypes, NotAhead,
       Remembers, ShownFresh
  <2>12. (wants # Null => requests[wants] # Null /\ requests[wants].pending)'
    BY <1>1, <2>1, <2>2 DEF ConsoleTypes
  <2> QED BY <2>5, <2>6, <2>8, <2>9, <2>10, <2>11, <2>12, InvariantParts, PTL
<1>6. CASE Answer(s)
  BY <1>5, <1>6 DEF Answer
<1>7. CASE Fail(s)
  BY <1>5, <1>7 DEF Fail
<1> QED BY <1>4, <1>6, <1>7

(* The steps that leave requests, cache and pane alone: lists arrive, the  *)
(* operator moves, runs start, end or are attested.                        *)
LEMMA OtherSteps ==
  ASSUME ConsoleInvariant,
         \/ \E l \in lists : RefreshRuns(l) \/ ListFails(l)
         \/ \E r \in Runs : Select(r) \/ RunCampaign(r) \/ RunEnds(r)
         \/ Leave \/ ConfirmRunCleanup
  PROVE  ConsoleInvariant'
<1>1. /\ ConsoleTypes /\ NotAhead /\ Fine(requests) /\ Remembers(cached)
      /\ ShownFresh(shown) /\ ShowsSelected /\ EndIsComing
      /\ wants # Null => requests[wants] # Null /\ requests[wants].pending
  BY InvariantParts
<1>2. UNCHANGED <<requests, wants, shown, cached, late>>
  BY DEF RefreshRuns, ListFails, Select, RunCampaign, RunEnds, Leave,
     ConfirmRunCleanup
<1>3. rows' \in [Runs -> Version] /\ \A r \in Runs : rows[r] <= rows'[r]
  <2>1. CASE rows' = rows
    BY <1>1, <2>1 DEF ConsoleTypes, Version
  <2>2. ASSUME NEW r \in Runs, NEW v \in {1, 2, 3}, rows[r] = v - 1,
               rows' = [rows EXCEPT ![r] = v]
        PROVE  rows' \in [Runs -> Version] /\ \A x \in Runs : rows[x] <= rows'[x]
    BY <1>1, <2>2 DEF ConsoleTypes, Version
  <2>3. ASSUME NEW r \in Runs, RunCampaign(r) \/ RunEnds(r)
        PROVE  rows' \in [Runs -> Version] /\ \A x \in Runs : rows[x] <= rows'[x]
    <3>1. CASE RunCampaign(r)
      <4>1. rows[r] = 1 - 1 /\ rows' = [rows EXCEPT ![r] = 1]
        BY <3>1 DEF RunCampaign
      <4> QED BY <2>2, <4>1
    <3>2. CASE RunEnds(r)
      <4>1. rows[r] = 2 - 1 /\ rows' = [rows EXCEPT ![r] = 2]
        BY <3>2 DEF RunEnds
      <4> QED BY <2>2, <4>1
    <3> QED BY <2>3, <3>1, <3>2
  <2>4. CASE ConfirmRunCleanup
    <3>1. /\ selected \in Runs /\ rows[selected] = 3 - 1
          /\ rows' = [rows EXCEPT ![selected] = 3]
      BY <1>1, <2>4 DEF ConfirmRunCleanup, ConsoleTypes
    <3> QED BY <2>2, <3>1
  <2> QED BY <2>1, <2>3, <2>4 DEF RefreshRuns, ListFails, Select, Leave, screen
<1>4. Fine(requests)'
  <2> SUFFICES ASSUME NEW s \in Slots, requests[s] # Null
               PROVE  requests[s].key <= rows'[requests[s].run]
    BY <1>1, <1>2 DEF Fine
  <2>1. /\ requests[s].run \in Runs /\ requests[s].key \in Version
        /\ requests[s].key <= rows[requests[s].run]
    BY <1>1 DEF Fine, Request
  <2>2. rows[requests[s].run] \in Version /\ rows'[requests[s].run] \in Version
    BY <1>1, <1>3, <2>1 DEF ConsoleTypes
  <2> QED BY <1>3, <2>1, <2>2 DEF Version
<1>5. Remembers(cached)' /\ ShownFresh(shown)'
      /\ (wants # Null => requests[wants] # Null /\ requests[wants].pending)'
  BY <1>1, <1>2 DEF Remembers, ShownFresh
<1>6. lists' \subseteq lists /\ list' \in {list} \cup lists
  BY DEF RefreshRuns, ListFails, Select, RunCampaign, RunEnds, Leave,
     ConfirmRunCleanup, screen
<1>7. /\ selected' \in Runs /\ effectDue' \in BOOLEAN
      /\ \/ after' = after
         \/ after' \in Refresh /\ after'.key <= rows[after'.run]
  <2>1. ASSUME NEW l \in lists, RefreshRuns(l) \/ ListFails(l)
        PROVE  selected' \in Runs /\ effectDue' \in BOOLEAN /\ after' = after
    BY <1>1, <2>1 DEF RefreshRuns, ListFails, ConsoleTypes, screen
  <2>2. ASSUME NEW r \in Runs, Select(r) \/ RunEnds(r)
        PROVE  selected' \in Runs /\ effectDue' \in BOOLEAN /\ after' = after
    BY <1>1, <2>2 DEF Select, RunEnds, ConsoleTypes, screen
  <2>3. ASSUME NEW r \in Runs, NEW f \in BOOLEAN
        PROVE  LET a == [run |-> r, key |-> list[r], force |-> f] IN
               a \in Refresh /\ a.key <= rows[a.run]
    BY <1>1 DEF ConsoleTypes, NotAhead, Refresh
  <2>4. ASSUME NEW r \in Runs, RunCampaign(r)
        PROVE  /\ selected' \in Runs /\ effectDue' \in BOOLEAN
               /\ after' \in Refresh /\ after'.key <= rows[after'.run]
    BY <2>3, <2>4 DEF RunCampaign
  <2>5. CASE ConfirmRunCleanup
    BY <1>1, <2>3, <2>5 DEF ConfirmRunCleanup, ConsoleTypes
  <2>6. CASE Leave
    BY <1>1, <2>6 DEF Leave, ConsoleTypes
  <2> QED BY <2>1, <2>2, <2>4, <2>5, <2>6
<1>8. ConsoleTypes'
  BY <1>1, <1>2, <1>3, <1>6, <1>7 DEF ConsoleTypes
<1>9. NotAhead'
  <2>1. ASSUME NEW r \in Runs, NEW l \in {list} \cup lists
        PROVE  l[r] <= rows'[r]
    BY <1>1, <1>3 DEF NotAhead, ConsoleTypes, Version
  <2>2. ASSUME after' # Null PROVE after'.key <= rows'[after'.run]
    <3>1. after' \in Refresh /\ after'.key <= rows[after'.run]
      BY <1>1, <1>7, <2>2 DEF ConsoleTypes, NotAhead
    <3> QED BY <1>1, <1>3, <3>1 DEF Refresh, ConsoleTypes, Version
  <2> QED BY <1>6, <2>1, <2>2 DEF NotAhead
<1>10. ShowsSelected' /\ EndIsComing'
  <2>1. ASSUME NEW l \in lists, RefreshRuns(l)
        PROVE  ShowsSelected' /\ EndIsComing'
    <3>1. /\ UNCHANGED <<selected, view>> /\ list' = l
          /\ effectDue' = (effectDue \/ TerminalRunVersion(l[selected])
                                      # TerminalRunVersion(list[selected]))
      BY <2>1 DEF RefreshRuns
    <3>2. TerminalStatus(l[selected]) /\ ~effectDue'
            => l[selected] = list[selected] /\ ~effectDue
      <4>1. effectDue \in BOOLEAN /\ l[selected] \in Version
            /\ list[selected] \in Version
        BY <1>1 DEF ConsoleTypes
      <4>2. ~effectDue' => ~effectDue /\ TerminalRunVersion(l[selected])
                                        = TerminalRunVersion(list[selected])
        BY <3>1
      <4> QED BY <4>1, <4>2 DEF TerminalRunVersion, TerminalStatus, Version
    <3> QED BY <1>1, <1>2, <3>1, <3>2 DEF ShowsSelected, EndIsComing,
            ShowsTheEnd
  <2>2. ASSUME \/ \E l \in lists : ListFails(l)
               \/ \E r \in Runs : RunEnds(r)
               \/ ConfirmRunCleanup
        PROVE  ShowsSelected' /\ EndIsComing'
    <3>1. UNCHANGED <<selected, view, list, effectDue>>
      BY <2>2 DEF ListFails, RunEnds, ConfirmRunCleanup, screen
    <3> QED BY <1>1, <1>2, <3>1 DEF ShowsSelected, EndIsComing, ShowsTheEnd
  <2>3. ASSUME Leave \/ \E r \in Runs : Select(r) \/ RunCampaign(r)
        PROVE  effectDue' = TRUE
    BY <2>3 DEF Leave, Select, RunCampaign
  <2>4. effectDue' = TRUE => ShowsSelected' /\ EndIsComing'
    BY DEF ShowsSelected, EndIsComing
  <2> QED BY <2>1, <2>2, <2>3, <2>4
<1> QED BY <1>4, <1>5, <1>8, <1>9, <1>10, InvariantParts, PTL

LEMMA ConsoleInductive ==
  ConsoleInvariant /\ [ConsoleNext]_consoleVars => ConsoleInvariant'
<1> SUFFICES ASSUME ConsoleInvariant, [ConsoleNext]_consoleVars
             PROVE  ConsoleInvariant'
  OBVIOUS
<1>1. CASE UNCHANGED consoleVars
  BY <1>1 DEF consoleVars, ConsoleInvariant, ConsoleTypes, NotAhead,
     AnswersNewer, OnePerRun, Awaited, ShowsSelected, ForgottenAnswers,
     EndIsComing, ShowsTheEnd
<1>2. CASE ConsoleNext
  BY <1>2, RefreshingSteps, RequestSteps, OtherSteps DEF ConsoleNext
<1> QED BY <1>1, <1>2

LEMMA ConsoleInitial == ConsoleInit => ConsoleInvariant
<1> SUFFICES ASSUME ConsoleInit PROVE ConsoleInvariant
  OBVIOUS
<1>1. rows \in [Runs -> Version] /\ list = rows /\ lists = {} /\ after = Null
  BY DEF ConsoleInit, Version
<1>2. selected \in Runs
  BY ConsoleAssumption DEF ConsoleInit
<1>3. cached = << >> /\ cached \in Seq(Detail) /\ DOMAIN cached = {}
  BY DEF ConsoleInit
<1>4. ConsoleTypes
  BY <1>1, <1>2, <1>3 DEF ConsoleInit, ConsoleTypes
<1>5. NotAhead
  BY <1>1 DEF NotAhead, Version
<1>6. ConsoleInvariant
  BY <1>3, <1>4, <1>5 DEF ConsoleInit, ConsoleInvariant, AnswersNewer,
     OnePerRun, Awaited, ShowsSelected, ForgottenAnswers, EndIsComing, IsDetail
<1> QED BY <1>6

(* The parts hold together, for any number of runs and of requests in      *)
(* flight, and any capacity of the cache.                                  *)
THEOREM ConsoleSafety == ConsoleSpec => []ConsoleInvariant
BY ConsoleInitial, ConsoleInductive, PTL DEF ConsoleSpec

(* The pane never shows another run's detail (refreshRunDetail).           *)
THEOREM ShowsSelectedHolds == ConsoleSpec => []ShowsSelected
<1>1. ConsoleInvariant => ShowsSelected
  BY DEF ConsoleInvariant
<1> QED BY <1>1, ConsoleSafety, PTL

(* A forced refresh makes every older answer forgotten (invalidate).       *)
THEOREM ForgottenAnswersHolds == ConsoleSpec => []ForgottenAnswers
<1>1. ConsoleInvariant => ForgottenAnswers
  BY DEF ConsoleInvariant
<1> QED BY <1>1, ConsoleSafety, PTL

(* When polling has stopped the pane shows the end as the list knows it.   *)
THEOREM RestsOnTheEndHolds == ConsoleSpec => []RestsOnTheEnd
<1>1. ConsoleInvariant => RestsOnTheEnd
  BY DEF ConsoleInvariant, EndIsComing, RestsOnTheEnd, AtRest
<1> QED BY <1>1, ConsoleSafety, PTL
=============================================================================
