---------------------------- MODULE LiveCampaign ----------------------------
(***************************************************************************)
(* What a live campaign does in its own process: run-lifecycle-campaign.js *)
(* or run-reveal-later-security-campaign.js starts a Playwright spec that  *)
(* creates one capsule, reads the result file the spec leaves in its       *)
(* finally block, and then looks at the product again; the worker makes    *)
(* the cleanup manifest from that file.                                    *)
(*                                                                         *)
(* A browser cannot see what the product has stored: it sees replies to    *)
(* its writes, named by the phase of the spec in which they arrive, and a  *)
(* page that may look finished too early.  The step that the spec is in    *)
(* may throw, and its process may be killed, at any time.  "media" stands  *)
(* for the video campaign too, whose spec takes the same steps.            *)
(***************************************************************************)
EXTENDS Naturals, FiniteSets

CONSTANTS Kinds,    \* subset of {"text", "media", "reveal-later"}
          Routes    \* the ways to a capsule that the security campaign tries

ASSUME LiveCampaignAssumption ==
  /\ Kinds \subseteq {"text", "media", "reveal-later"}
  /\ {"token", "tokenless"} \subseteq Routes

VARIABLES
  kind, script, mode, exposed,  \* the campaign; the routes that leak early
  draft, final,    \* the product: "none", "sent", "stored" or "answered"
  picture,         \* an uploaded object whose URL the browser has seen
  revealed,        \* the reveal time has passed
  pc, phase,       \* of the creation spec
  done,            \* flags it has set: bury, continue, timing, share, send
  threw,           \* its test has failed
  answered,        \* the phases in which a write was answered with success
  idSeen,          \* some request or reply named the capsule
  evidence,        \* finalShareEvidence: none, weak, success or link
  known, success,  \* possibleFinalCapsuleId, observedCreateSuccess
  file,            \* the result file
  stage, outcome,  \* of the campaign script
  resumed,         \* it has been given the file of an earlier campaign
  schedule,        \* the state of the schedule when it was read
  tried, seen, silent,  \* routes probed; that showed content; that failed
  manifest

product == <<draft, final, picture, revealed>>
campaign == <<kind, mode, exposed>>
network == <<answered, idSeen>>
test == <<pc, phase, done, threw, evidence, known, success, file>>
scripts == <<script, stage, outcome, resumed, schedule, tried, seen, silent,
             manifest>>
vars == <<campaign, product, network, test, scripts>>

NoFile == [made |-> FALSE, id |-> FALSE, identity |-> "none",
           success |-> FALSE, fatal |-> FALSE, done |-> {}, picture |-> FALSE]
NoManifest == [status |-> "none", capsule |-> FALSE]

Held == {"stored", "answered"}
Steps == {"compose", "bury", "settings", "continue", "contacts", "click",
          "evidence", "identify", "capture", "errors"}
Running == Steps \cup {"finally"}

Init ==
  /\ kind \in Kinds /\ mode \in {"manual", "deferred"}
  /\ script \in IF kind = "reveal-later" THEN {"lifecycle", "security"}
                ELSE {"lifecycle"}
  /\ exposed \in IF kind = "reveal-later" THEN SUBSET Routes ELSE {{}}
  /\ draft = "none" /\ final = "none" /\ picture = FALSE /\ revealed = FALSE
  /\ pc = "compose" /\ phase = "pre-create"
  /\ done = {} /\ threw = FALSE /\ answered = {} /\ idSeen = FALSE
  /\ evidence = "none" /\ known = FALSE /\ success = FALSE /\ file = NoFile
  /\ stage = "create" /\ outcome = "running" /\ resumed = FALSE
  /\ schedule = "none" /\ tried = {} /\ seen = {} /\ silent = {}
  /\ manifest = NoManifest

-----------------------------------------------------------------------------
(* The product and the network monitor.                                    *)

(* A request or a reply may name the capsule, or not.                      *)
MayNameCapsule == idSeen' \in {idSeen, TRUE}

(* The page saves a draft of its own accord while it is open.              *)
SaveDraft ==
  /\ pc \in Running /\ draft = "none"
  /\ draft' = "sent" /\ MayNameCapsule
  /\ UNCHANGED <<campaign, final, picture, revealed, answered, test, scripts>>

(* A write is applied before the campaign has started its next spec, or    *)
(* never.                                                                  *)
Store ==
  /\ stage = "create"
  /\ \/ draft = "sent" /\ draft' = "stored" /\ UNCHANGED final
     \/ final = "sent" /\ final' = "stored" /\ UNCHANGED draft
  /\ UNCHANGED <<campaign, picture, revealed, network, test, scripts>>

(* handleResponse: the phase is the one in which the reply arrives.  A     *)
(* request or a reply that is lost is one for which nothing happens.       *)
Reply ==
  /\ pc \in Running
  /\ \/ draft = "stored" /\ draft' = "answered" /\ UNCHANGED final
     \/ final = "stored" /\ final' = "answered" /\ UNCHANGED draft
  /\ answered' = answered \cup {phase}
  /\ MayNameCapsule
  /\ UNCHANGED <<campaign, picture, revealed, test, scripts>>

RevealTimePasses ==
  /\ ~revealed /\ kind = "reveal-later"
  /\ pc \notin {"compose", "bury", "settings"}
  /\ revealed' = TRUE
  /\ UNCHANGED <<campaign, draft, final, picture, network, test, scripts>>

-----------------------------------------------------------------------------
(* The creation spec.                                                      *)

(* From one step to the next, which may set the phase at once.             *)
Step(from, to, next, flags) ==
  /\ pc = from /\ pc' = to /\ phase' = next
  /\ done' = done \cup flags
  /\ UNCHANGED <<campaign, draft, final, revealed, network, threw, file,
                 scripts>>

KeepFindings == UNCHANGED <<evidence, known, success>>

(* Fields, the medium, the steps up to Share.                              *)
Compose ==
  /\ Step("compose", "bury", "bury-click", {})
  /\ KeepFindings
  /\ picture' \in IF kind = "media" THEN BOOLEAN ELSE {FALSE}

Bury ==
  /\ Step("bury", "settings",
          IF kind = "reveal-later" THEN "reveal-continue" ELSE phase, {"bury"})
  /\ KeepFindings /\ UNCHANGED picture

ChooseSettings ==
  /\ Step("settings", "continue", "reveal-continue", {})
  /\ KeepFindings /\ UNCHANGED picture

Continue ==
  /\ Step("continue", "contacts",
          IF kind = "reveal-later" THEN "post-create" ELSE phase,
          {"continue"} \cup IF kind = "reveal-later" THEN {"timing"} ELSE {})
  /\ KeepFindings /\ UNCHANGED picture

(* The text spec notes the final action before it takes it.                *)
SelectContact ==
  /\ Step("contacts", "click", "post-create",
          IF kind = "text" THEN {"share"} ELSE {})
  /\ KeepFindings /\ UNCHANGED picture

(* The one click; the page sends its write whether or not it returns.      *)
FinalAction(returns) ==
  /\ pc = "click"
  /\ final' = "sent" /\ MayNameCapsule
  /\ pc' = IF returns THEN "evidence" ELSE "finally"
  /\ threw' = ~returns
  /\ done' = IF returns /\ kind # "reveal-later"
             THEN done \cup {"share", "send"} ELSE done
  /\ KeepFindings
  /\ UNCHANGED <<campaign, draft, picture, revealed, answered, phase, file,
                 scripts>>

(* The page may look finished although nothing is stored.                  *)
AwaitEvidence ==
  /\ Step("evidence", IF kind = "reveal-later" THEN "capture" ELSE "identify",
          phase, {})
  /\ evidence' \in {"success", "link"} /\ known' = (evidence' = "link")
  /\ UNCHANGED <<success, picture>>

(* A write was answered since the final action, and the capsule has a name.*)
Identify ==
  /\ "post-create" \in answered /\ (known \/ idSeen)
  /\ Step("identify", "capture", phase, {})
  /\ known' = TRUE
  /\ UNCHANGED <<evidence, success, picture>>

Capture ==
  /\ Step("capture", "errors", phase, {})
  /\ success' = TRUE
  /\ UNCHANGED <<evidence, known, picture>>

NoErrors ==
  /\ Step("errors", "finally", phase, {})
  /\ KeepFindings /\ UNCHANGED picture

(* A step fails.  The reveal-later spec may still see that Continue was    *)
(* clicked, and keeps the evidence that it has polled.                     *)
Throw ==
  /\ pc \in Steps
  /\ pc' = "finally" /\ threw' = TRUE
  /\ done' \in {done} \cup
       IF kind = "reveal-later" /\ pc = "continue"
       THEN {done \cup {"continue"}} ELSE {}
  /\ evidence' = IF kind = "reveal-later" /\ pc = "evidence"
                 THEN "weak" ELSE evidence
  /\ UNCHANGED <<campaign, product, network, phase, known, success, file,
                 scripts>>

(* Seeded fault: what the network monitor has seen is not asked.             *)
ClassifyByClick(id, clicked, persisted) ==
  IF ~clicked THEN "not_finalized"
  ELSE IF id \/ ~persisted THEN "captured" ELSE "failed_cleanup_identity"

ClassifyInssaCleanupIdentity(id, clicked, persisted) ==
  IF ~clicked /\ ~persisted THEN "not_finalized"
  ELSE IF id THEN "captured" ELSE "failed_cleanup_identity"

(* The evidence that finally ends with, and whether it finds an identity.  *)
LastEvidence ==
  IF "continue" \in done /\ evidence = "none"
  THEN {"none", "success", "link"} ELSE {evidence}

Named(e) == known \/ (idSeen /\ kind # "reveal-later") \/ e = "link"

Succeeded(e) ==
  \/ success
  \/ /\ kind = "text" => "share" \in done
     /\ Named(e) \/ e \in {"success", "link"}

(* The finally block: it closes the books on the network, looks at the     *)
(* page again, and writes the result file.  A reveal-later test that has   *)
(* seen success may still fail after that, for want of a stored schedule.  *)
WriteArtifact ==
  /\ pc = "finally" /\ pc' = "exited"
  /\ \E e \in LastEvidence :
     \E fatal \in IF kind = "reveal-later" THEN {FALSE} ELSE BOOLEAN :
       /\ file' = [made |-> TRUE, id |-> Named(e), success |-> Succeeded(e),
                   fatal |-> fatal, done |-> done, picture |-> picture,
                   identity |->
                     IF kind = "reveal-later" THEN "none"
                     ELSE ClassifyInssaCleanupIdentity(Named(e),
                            "share" \in done,
                            Succeeded(e) \/ answered \cap
                              {"reveal-continue", "post-create"} # {})]
       /\ threw' \in {threw, \/ threw
                             \/ /\ kind = "reveal-later"
                                /\ "bury" \in done /\ Succeeded(e)}
  /\ UNCHANGED <<campaign, product, network, phase, done, evidence, known,
                 success, scripts>>

(* The test's process ends before it has written the file.                 *)
Killed ==
  /\ pc \in Running
  /\ pc' = "exited" /\ threw' = TRUE
  /\ UNCHANGED <<campaign, product, network, phase, done, evidence, known,
                 success, file, scripts>>

-----------------------------------------------------------------------------
(* The lifecycle campaign.                                                 *)

Ends(result) == stage' = "over" /\ outcome' = result
GoesOn(next) == stage' = next /\ UNCHANGED outcome

ScriptStep(from) ==
  /\ stage = from
  /\ UNCHANGED <<campaign, product, network, test, script>>

NoVerification == UNCHANGED <<schedule, tried, seen, silent>>

(* isValidCreationArtifact and, for the security campaign,                 *)
(* isUsablePendingRevealLaterArtifact.                                     *)
Usable(f) ==
  /\ f.made /\ f.success /\ {"bury", "continue"} \subseteq f.done
  /\ script = "security" => "timing" \in f.done

(* What the lifecycle campaign asks of the file of an earlier one.         *)
Resumable(f) == f.made /\ f.success /\ "timing" \in f.done

Accepted == IF resumed /\ script = "lifecycle" THEN Resumable(file)
            ELSE Usable(file)

(* What is reported of a creation spec that failed.                        *)
FailureOf(f) == IF f.identity = "failed_cleanup_identity"
                THEN "failed_cleanup_identity" ELSE "failed"

(* The creation spec is over; or an earlier result file is to be used.     *)
CreationOver ==
  /\ pc = "exited" /\ ScriptStep("create")
  /\ IF threw /\ ~resumed
     THEN Ends(IF script = "security" THEN "failed" ELSE FailureOf(file))
     ELSE IF ~Accepted \/ (script = "lifecycle" /\ file.fatal)
     THEN Ends("failed")
     ELSE GoesOn(IF script = "security" THEN "schedule" ELSE "discovery")
  /\ NoVerification /\ UNCHANGED <<resumed, manifest>>

(* External: the owner may also see a capsule that was never finalized;    *)
(* others only see it when it is, and shown.                               *)
OwnerSees == file.id /\ (draft \in Held \/ final \in Held)
OthersSee == /\ file.id /\ final \in Held
             /\ kind = "reveal-later" => revealed \/ "token" \in exposed

(* The discovery spec fails unless the capsule's own page shows the text.  *)
Discovery ==
  /\ ScriptStep("discovery")
  /\ \/ OwnerSees /\ GoesOn("share")
     \/ Ends("failed")
  /\ NoVerification /\ UNCHANGED <<resumed, manifest>>

(* Seeded fault: the link is not tried by who is not logged in.              *)
SharedWithOwner ==
  /\ ScriptStep("share")
  /\ \/ (~file.id \/ OwnerSees) /\ Ends("passed")
     \/ Ends("failed")
  /\ NoVerification /\ UNCHANGED <<resumed, manifest>>

(* The public share spec is skipped, which is a success, without a link.   *)
(* With warnings or without, the campaign passes.                          *)
PublicShare ==
  /\ ScriptStep("share")
  /\ \/ (~file.id \/ OthersSee) /\ Ends("passed")
     \/ Ends("failed")
  /\ NoVerification /\ UNCHANGED <<resumed, manifest>>

(* A reveal-later campaign on the file of an earlier one, which the        *)
(* dashboard has looked at before it admits the run.                       *)
Resume ==
  /\ stage = "over" /\ ~resumed /\ kind = "reveal-later"
  /\ Resumable(file) /\ "bury" \in file.done
  /\ manifest # NoManifest
  /\ script' \in {"lifecycle", "security"}
  /\ resumed' = TRUE
  /\ stage' = "create" /\ outcome' = "running"
  /\ schedule' = "none" /\ tried' = {} /\ seen' = {} /\ silent' = {}
  /\ manifest' = NoManifest
  /\ UNCHANGED <<campaign, product, network, test>>

-----------------------------------------------------------------------------
(* The reveal-later security campaign.                                     *)

(* The schedule is read once, before the campaign may wait for its time:   *)
(* then the probes "before" come after it.                                 *)
ReadSchedule ==
  /\ ScriptStep("schedule")
  /\ schedule' \in {"unknown", IF revealed THEN "elapsed" ELSE "pending"}
  /\ \/ GoesOn("probe")
     \/ schedule' = "pending" /\ GoesOn("wait")
  /\ UNCHANGED <<tried, seen, silent, resumed, manifest>>

WaitForReveal ==
  /\ revealed /\ ScriptStep("wait")
  /\ GoesOn("probe")
  /\ NoVerification /\ UNCHANGED <<resumed, manifest>>

(* A route shows the capsule to whom it should not; a probe that fails     *)
(* counts as one that saw nothing.                                         *)
Shows(route) == final \in Held /\ (revealed \/ route \in exposed)

Probe(route) ==
  /\ route \notin tried /\ ScriptStep("probe")
  /\ tried' = tried \cup {route}
  /\ \/ /\ seen' = IF Shows(route) THEN seen \cup {route} ELSE seen
        /\ UNCHANGED silent
     \/ silent' = silent \cup {route} /\ UNCHANGED seen
  /\ UNCHANGED <<stage, outcome, schedule, resumed, manifest>>

(* Seeded fault: only what is seen without a token counts.                 *)
HardFailureTokenless == "tokenless" \in seen

(* classifyRevealLaterSecurity: protected, or unknown and nothing seen, is *)
(* no failure; the routes that were seen decide how it is called.          *)
HardFailure == seen # {}

Verdict ==
  /\ tried = Routes /\ ScriptStep("probe")
  /\ Ends(IF HardFailure THEN "failed" ELSE "passed")
  /\ NoVerification /\ UNCHANGED <<resumed, manifest>>

-----------------------------------------------------------------------------
(* writeCleanupManifest, by the worker, after the campaign: the accounts   *)
(* are in order.  A resumed campaign has left no file of its own.          *)

IdentityUnknown(objects, acted, named) == objects = 0 \/ (acted /\ ~named)

WriteManifest ==
  /\ stage = "over" /\ manifest = NoManifest
  /\ LET own == file.made /\ ~resumed
         acted == own /\ file.done \cap {"share", "send"} # {}
         named == acted /\ file.id
         objects == (IF named THEN 1 ELSE 0)
                    + (IF own /\ file.picture THEN 1 ELSE 0)
         accounted == /\ objects > 0
                      /\ mode = "manual" =>
                           ~IdentityUnknown(objects, acted, named) IN
       manifest' = [capsule |-> named,
                    status |-> IF accounted THEN "cleanup_unavailable"
                               ELSE "pending"]
  /\ UNCHANGED <<campaign, product, network, test, script, stage, outcome,
                 resumed, schedule, tried, seen, silent>>

Done == manifest # NoManifest /\ UNCHANGED vars

Next ==
  \/ SaveDraft \/ Store \/ Reply \/ RevealTimePasses
  \/ Compose \/ Bury \/ ChooseSettings \/ Continue \/ SelectContact
  \/ \E returns \in BOOLEAN : FinalAction(returns)
  \/ AwaitEvidence \/ Identify \/ Capture \/ NoErrors \/ Throw
  \/ WriteArtifact \/ Killed
  \/ CreationOver \/ Discovery \/ PublicShare \/ Resume
  \/ ReadSchedule \/ WaitForReveal \/ Verdict
  \/ \E route \in Routes : Probe(route)
  \/ WriteManifest \/ Done

Spec == Init /\ [][Next]_vars

-----------------------------------------------------------------------------
(* A lifecycle campaign that passes has created its capsule, although the  *)
(* creation spec may take the late reply to a draft for the reply to its   *)
(* final action, may be shown a page that is ahead of the product, and the *)
(* public share spec is skipped when there is no link.                     *)
PassedPersisted ==
  script = "lifecycle" /\ outcome = "passed" => final \in Held

(* The final action may have been taken, as far as the spec can know: the  *)
(* other specs do not know of a click that has not returned.               *)
Acted == final # "none" /\ (kind = "text" \/ "share" \in done)

(* Once the final action may have been taken and the result file was       *)
(* written, the campaign never ends as merely failed: the file names the   *)
(* capsule, or the campaign asks for a cleanup investigation.              *)
Reported ==
  script = "lifecycle" /\ stage = "over" /\ file.made /\ Acted
  /\ kind # "reveal-later"
    => file.id \/ outcome = "failed_cleanup_identity"

(* What the media campaigns lose: the picture hides the capsule.           *)
Hidden == /\ kind = "media" /\ file.picture
          /\ "share" \notin done \/ (mode = "deferred" /\ ~file.id)

(* A capsule that exists is named by the manifest, or the manifest blocks  *)
(* the next campaign until somebody has looked.                            *)
NamedOrBlocking ==
  manifest # NoManifest /\ final \in Held /\ ~Hidden
    => manifest.capsule \/ manifest.status = "pending"

CapsuleAccounted == Reported /\ NamedOrBlocking

(* Every probe was answered, before the reveal time and with a schedule    *)
(* that was known to be pending.                                           *)
Conclusive ==
  /\ stage = "over" /\ tried = Routes /\ silent = {}
  /\ ~revealed /\ schedule = "pending" /\ final \in Held

(* Then the security campaign fails exactly when some route showed the     *)
(* capsule early; it never fails a product that kept it hidden, nor passes *)
(* one that leaked by any single route.                                    *)
VerdictEarned ==
  script = "security" /\ Conclusive => (outcome = "failed" <=> exposed # {})

-----------------------------------------------------------------------------
(* The inductive invariant, in parts: what the variables range over.       *)
LiveTypes ==
  /\ kind \in Kinds /\ mode \in {"manual", "deferred"}
  /\ exposed \subseteq Routes
  /\ picture \in BOOLEAN /\ (picture => kind = "media")
  /\ file.made \in BOOLEAN /\ file.id \in BOOLEAN /\ file.picture \in BOOLEAN

(* A campaign waits for its spec, and the manifest for its campaign.       *)
InTurn ==
  /\ stage # "create" => pc = "exited"
  /\ outcome # "running" => stage = "over"
  /\ manifest # NoManifest => stage = "over"
  /\ resumed => kind = "reveal-later"
  /\ stage \in {"schedule", "wait", "probe"} => script = "security"

(* What the spec knows at each step and what its file says of it.          *)
SpecKnows ==
  /\ file.made => pc = "exited" /\ file.done = done
                  /\ (file.picture => picture)
  /\ final # "none" => pc \in {"evidence", "identify", "capture", "errors",
                               "finally", "exited"}
  /\ kind = "text" /\ (final # "none" \/ pc = "click") => "share" \in done
  /\ kind # "reveal-later" =>
       /\ pc \in {"capture", "errors"} => known
       /\ pc \in {"finally", "exited"} /\ ~threw => known
       /\ file.made /\ known => file.id
       /\ file.made /\ ~file.id /\ "share" \in done =>
            file.identity = "failed_cleanup_identity"

(* Discovery is for a spec that did not fail, and found the capsule.       *)
ShareHasLink ==
  /\ stage = "discovery" /\ kind # "reveal-later" => ~threw
  /\ stage = "share" => file.id

(* As long as the reveal time has not passed, the probes that were         *)
(* answered have seen the routes that leak.                                *)
ProbesTell ==
  /\ stage \notin {"probe", "over"} => tried = {} /\ seen = {} /\ silent = {}
  /\ silent \subseteq tried
  /\ stage # "create" /\ final \in Held /\ ~revealed =>
       seen = (tried \ silent) \cap exposed
  /\ script = "security" /\ stage = "over" =>
       tried = {} \/ (outcome = "failed" <=> seen # {})

LiveInvariant ==
  /\ LiveTypes /\ InTurn /\ SpecKnows /\ ShareHasLink /\ ProbesTell
  /\ PassedPersisted /\ CapsuleAccounted
=============================================================================
