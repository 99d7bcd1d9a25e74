-------------------------- MODULE OperatorConsole ---------------------------
(***************************************************************************)
(* The run detail pane of the operator console (inssa-ops-client.tsx) and  *)
(* its cache (terminal-run-detail-cache.ts): the list of runs is polled,   *)
(* the detail of the selected run is loaded by four parallel requests, and *)
(* polling stops when the list says that the run is terminal.              *)
(*                                                                         *)
(* A run is absent (0), active (1), terminal (2) or terminal and attested  *)
(* to be cleaned up (3): the versions its row takes.  Of the four answers  *)
(* that make a detail only the row is modelled.  A Select is the render    *)
(* with the new selection; the effects of a render run later.              *)
(***************************************************************************)
EXTENDS Naturals, FiniteSets, Sequences

CONSTANTS Runs, Old,      \* the runs; those that ended before the page opened
          Slots,          \* detail requests in flight at a time
          MaxLists,       \* list requests in flight at a time
          MaxConfirms,    \* runs that are attested
          CacheLimit,     \* 10 in the code
          Null, Failed    \* an empty pane; a pane that shows an error

(* The versions of a run, and the records that its detail is asked, waited *)
(* for and shown with: stale after a forced refresh, pending while it can  *)
(* still be joined.                                                        *)
Version == 0 .. 3
Request == [run : Runs, key : Version, row : Version, pending : BOOLEAN,
            stale : BOOLEAN]
Refresh == [run : Runs, key : Version, force : BOOLEAN]
Detail == [run : Runs, row : Version, stale : BOOLEAN]

ASSUME ConsoleAssumption ==
  /\ Old \subseteq Runs /\ Old # {}
  /\ MaxLists \in Nat \ {0} /\ MaxConfirms \in Nat /\ CacheLimit \in Nat \ {0}
  /\ Null # Failed
  /\ {Null, Failed} \cap (Slots \cup Request \cup Refresh \cup Detail) = {}

VARIABLES
  rows,       \* the version of each run, at the server
  lists,      \* answers to list requests, not yet received
  list,       \* the version of each run in the list on screen, 0 if absent
  selected,   \* selectedRunId
  view,       \* a workspace that shows run details, or another
  effectDue,  \* the detail effect of the last render has not run
  after,      \* what a start or an attestation will refresh when it is done
  requests,   \* detail requests in flight
  wants,      \* the request whose answer the newest refresh waits for
  shown,      \* the pane
  cached,     \* details of terminal runs, oldest first
  late        \* since the last effect a start or an attestation has
              \* refreshed a run that was no longer what it had been

consoleVars == <<rows, lists, list, selected, view, effectDue, after,
                 requests, wants, shown, cached, late>>
screen == <<list, selected, view, after>>

TerminalStatus(v) == v >= 2

(* terminalRunVersion: 0 stands for null.                                  *)
TerminalRunVersion(v) == IF TerminalStatus(v) THEN v ELSE 0

IsDetail(x) == x \notin {Null, Failed}

ConsoleInit ==
  /\ rows = [r \in Runs |-> IF r \in Old THEN 2 ELSE 0]
  /\ lists = {} /\ list = rows
  /\ selected \in Old /\ view = "other" /\ effectDue = TRUE
  /\ after = Null
  /\ requests = [s \in Slots |-> Null] /\ wants = Null
  /\ shown = Null /\ cached = <<>> /\ late = FALSE

(***************************************************************************)
(* TerminalRunDetailCache.                                                 *)
(***************************************************************************)

(* The cache without the detail of r.  There is at most one: what is kept  *)
(* of a run is deleted before a new version is.                            *)
Without(c, r) ==
  IF \A i \in DOMAIN c : c[i].run # r THEN c
  ELSE LET at == CHOOSE i \in DOMAIN c : c[i].run = r IN
       [i \in 1 .. Len(c) - 1 |-> c[IF i < at THEN i ELSE i + 1]]

(* A mutant: invalidate forgets the values but not what is pending.        *)
InvalidatedValuesOnly(r) ==
  [s \in Slots |-> IF requests[s] = Null \/ requests[s].run # r
                   THEN requests[s] ELSE [requests[s] EXCEPT !.stale = TRUE]]

(* invalidate.  A request that has begun is not called back, but nothing   *)
(* finds it by its key any more.                                           *)
Invalidated(r) ==
  [s \in Slots |-> IF requests[s] = Null \/ requests[s].run # r
                   THEN requests[s]
                   ELSE [requests[s] EXCEPT !.pending = FALSE, !.key = 0,
                                            !.stale = TRUE]]

(* A mutant: the cache is keyed by the run alone.                          *)
HitsAnyVersion(c, r, key) ==
  {i \in DOMAIN c : TerminalStatus(key) /\ c[i].run = r}

Hits(c, r, key) ==
  {i \in DOMAIN c : TerminalStatus(key) /\ c[i].run = r /\ c[i].row = key}

Joinable(reqs, r, key) ==
  {s \in Slots : reqs[s] # Null /\ reqs[s].pending
                 /\ reqs[s].run = r /\ reqs[s].key = key}

(* refreshRunDetail with load: what is cached, a request that is pending   *)
(* for the same summary, or new requests; the pane was set to blank.       *)
RefreshRunDetail(r, key, force, pane) ==
  LET kept == IF force THEN Without(cached, r) ELSE cached
      reqs == IF force THEN Invalidated(r) ELSE requests IN
  /\ cached' = kept
  /\ \/ \E i \in Hits(kept, r, key) :
          /\ requests' = reqs /\ wants' = Null
          /\ shown' = IF r = selected THEN kept[i] ELSE pane
     \/ \E s \in Joinable(reqs, r, key) :
          /\ Hits(kept, r, key) = {}
          /\ requests' = reqs /\ wants' = s /\ shown' = pane
     \/ /\ Hits(kept, r, key) = {} /\ Joinable(reqs, r, key) = {}
        /\ \E s \in Slots :
             /\ reqs[s] = Null
             /\ requests' = [reqs EXCEPT ![s] =
                  [run |-> r, key |-> key, row |-> 0,
                   pending |-> TRUE, stale |-> FALSE]]
             /\ wants' = s
        /\ shown' = pane

(* The server answers with what holds now.                                 *)
ReadRow(s) ==
  /\ requests[s] # Null /\ requests[s].row = 0
  /\ requests' = [requests EXCEPT ![s].row = rows[requests[s].run]]
  /\ UNCHANGED <<rows, lists, screen, effectDue, wants, shown, cached, late>>

DetailOf(q) == [run |-> q.run, row |-> q.row, stale |-> q.stale]

(* The value of the cache after a request was answered.                    *)
Remembered(q) ==
  LET rest == Without(cached, q.run)
      all == IF TerminalStatus(q.row) THEN Append(rest, DetailOf(q)) ELSE rest
  IN IF ~q.pending THEN cached
     ELSE IF Len(all) > CacheLimit THEN Tail(all) ELSE all

(* A mutant: only the sequence number is compared.                         *)
IsCurrentBySequence(s) == wants = s

IsCurrent(s) == wants = s /\ selected = requests[s].run

(* A request is over: its answer is shown only to who still waits for it.  *)
RequestEnds(s, pane) ==
  /\ requests' = [requests EXCEPT ![s] = Null]
  /\ wants' = IF wants = s THEN Null ELSE wants
  /\ shown' = IF IsCurrent(s) THEN pane ELSE shown
  /\ UNCHANGED <<rows, lists, screen, effectDue, late>>

Answer(s) ==
  /\ requests[s] # Null /\ requests[s].row # 0
  /\ cached' = Remembered(requests[s])
  /\ RequestEnds(s, DetailOf(requests[s]))

Fail(s) ==
  /\ requests[s] # Null /\ requests[s].row = 0
  /\ RequestEnds(s, Failed)
  /\ UNCHANGED cached

(***************************************************************************)
(* The page.                                                               *)
(***************************************************************************)
Asked == IF Cardinality(lists) < MaxLists THEN lists \cup {rows} ELSE lists

(* The interval: refreshRuns, and the detail of a run that is active.      *)
Poll ==
  /\ lists' = Asked
  /\ IF view = "detail" /\ ~TerminalStatus(list[selected])
     THEN RefreshRunDetail(selected, list[selected], FALSE, shown)
     ELSE UNCHANGED <<requests, wants, shown, cached>>
  /\ UNCHANGED <<rows, screen, effectDue, late>>

(* Answers to list requests come in any order, or fail.                    *)
RefreshRuns(l) ==
  /\ lists' = lists \ {l}
  /\ list' = l
  /\ effectDue' = (effectDue \/ TerminalRunVersion(l[selected])
                                # TerminalRunVersion(list[selected]))
  /\ UNCHANGED <<rows, selected, view, after, requests, wants, shown,
                 cached, late>>

ListFails(l) ==
  /\ lists' = lists \ {l}
  /\ UNCHANGED <<rows, screen, effectDue, requests, wants, shown, cached,
                 late>>

(* The operator opens a run, or goes to another workspace.  A session that *)
(* has expired (apiFetch meets 401) is one whose operator never returns.   *)
Select(r) ==
  /\ list[r] # 0 /\ <<selected, view>> # <<r, "detail">>
  /\ selected' = r /\ view' = "detail" /\ effectDue' = TRUE
  /\ UNCHANGED <<rows, lists, list, after, requests, wants, shown, cached,
                 late>>

Leave ==
  /\ view = "detail"
  /\ view' = "other" /\ effectDue' = TRUE
  /\ UNCHANGED <<rows, lists, list, selected, after, requests, wants, shown,
                 cached, late>>

(* The effect on the selection, its terminal version and the workspace.    *)
DetailEffect ==
  /\ effectDue
  /\ effectDue' = FALSE /\ late' = FALSE
  /\ IF view = "detail"
     THEN RefreshRunDetail(selected, list[selected], FALSE, Null)
     ELSE wants' = Null /\ UNCHANGED <<requests, shown, cached>>
  /\ UNCHANGED <<rows, lists, screen>>

(* The button "Refresh run details".                                       *)
RefreshButton ==
  /\ view = "detail"
  /\ RefreshRunDetail(selected, list[selected], TRUE, shown)
  /\ UNCHANGED <<rows, lists, screen, effectDue, late>>

(* runCampaign and confirmRunCleanup go on with the run and the list of    *)
(* the render in which they began.                                         *)
RunCampaign(r) ==
  /\ rows[r] = 0 /\ after = Null
  /\ rows' = [rows EXCEPT ![r] = 1]
  /\ selected' = r /\ view' = "detail" /\ effectDue' = TRUE
  /\ after' = [run |-> r, key |-> list[r], force |-> FALSE]
  /\ UNCHANGED <<lists, list, requests, wants, shown, cached, late>>

ConfirmRunCleanup ==
  /\ view = "detail" /\ rows[selected] = 2 /\ after = Null
  /\ Cardinality({r \in Runs : rows[r] = 3}) < MaxConfirms
  /\ IsDetail(shown) /\ shown.run = selected
  /\ rows' = [rows EXCEPT ![selected] = 3]
  /\ after' = [run |-> selected, key |-> list[selected], force |-> TRUE]
  /\ UNCHANGED <<lists, list, selected, view, effectDue, requests, wants,
                 shown, cached, late>>

(* ... and when refreshRuns has returned they refresh that run's detail.   *)
RefreshAfter ==
  /\ after # Null
  /\ after' = Null
  /\ RefreshRunDetail(after.run, after.key, after.force, shown)
  /\ late' = (late \/ after.run # selected
                   \/ (~after.force /\ TerminalRunVersion(after.key)
                                       # TerminalRunVersion(list[after.run])))
  /\ UNCHANGED <<rows, lists, list, selected, view, effectDue>>

(* The worker ends the run.                                                *)
RunEnds(r) ==
  /\ rows[r] = 1
  /\ rows' = [rows EXCEPT ![r] = 2]
  /\ UNCHANGED <<lists, screen, effectDue, requests, wants, shown, cached,
                 late>>

ConsoleNext ==
  \/ \E s \in Slots : ReadRow(s) \/ Answer(s) \/ Fail(s)
  \/ \E l \in lists : RefreshRuns(l) \/ ListFails(l)
  \/ \E r \in Runs : Select(r) \/ RunCampaign(r) \/ RunEnds(r)
  \/ Poll \/ Leave \/ DetailEffect \/ RefreshButton
  \/ ConfirmRunCleanup \/ RefreshAfter

ConsoleSpec == ConsoleInit /\ [][ConsoleNext]_consoleVars

-----------------------------------------------------------------------------
(* Once the effect of a selection has run, the pane never shows another    *)
(* run's detail, however late that run's answers come.                     *)
ShowsSelected ==
  view = "detail" /\ ~effectDue /\ IsDetail(shown) => shown.run = selected

(* After a forced refresh no answer to a request that began before it is   *)
(* kept, or shown to who refreshes later.                                  *)
ForgottenAnswers ==
  /\ \A i \in DOMAIN cached : ~cached[i].stale
  /\ IsDetail(shown) => ~shown.stale

(* Nothing is awaited and the list says that the run is terminal: what is  *)
(* on screen stays there.                                                  *)
AtRest == /\ view = "detail" /\ ~effectDue /\ wants = Null
          /\ TerminalStatus(list[selected])

ShowsTheEnd == shown = Failed \/ (IsDetail(shown) /\ shown.run = selected
                                  /\ shown.row >= list[selected])

(* When polling has stopped the pane shows an error or the run as the list *)
(* knows it, unless the refresh that follows a start or an attestation     *)
(* came after the selection or the run had changed.                        *)
RestsOnTheEnd == AtRest /\ ~late => ShowsTheEnd

-----------------------------------------------------------------------------
(* The inductive invariant, in parts: what the variables range over.       *)
ConsoleTypes ==
  /\ rows \in [Runs -> Version] /\ list \in [Runs -> Version]
  /\ lists \subseteq [Runs -> Version]
  /\ selected \in Runs /\ effectDue \in BOOLEAN /\ late \in BOOLEAN
  /\ after \in {Null} \cup Refresh
  /\ requests \in [Slots -> {Null} \cup Request]
  /\ wants \in {Null} \cup Slots
  /\ shown \in {Null, Failed} \cup Detail
  /\ cached \in Seq(Detail)

(* Nobody knows a later version than the server's.                         *)
NotAhead ==
  /\ \A r \in Runs : list[r] <= rows[r] /\ \A l \in lists : l[r] <= rows[r]
  /\ after # Null => after.key <= rows[after.run]

(* An answer is no older than the summary for which it was asked.          *)
AnswersNewer ==
  \A s \in Slots : requests[s] # Null =>
    /\ requests[s].key <= rows[requests[s].run]
    /\ requests[s].row # 0 => requests[s].key <= requests[s].row

OnePerRun ==
  \A i, j \in DOMAIN cached : cached[i].run = cached[j].run => i = j

(* What is awaited can still be joined, and what can be joined was not     *)
(* forgotten.                                                              *)
Awaited ==
  /\ \A s \in Slots :
       requests[s] # Null /\ requests[s].pending => ~requests[s].stale
  /\ wants # Null => requests[wants] # Null /\ requests[wants].pending

(* Once the list says that the run is terminal the end is on screen or on  *)
(* its way.                                                                *)
EndIsComing ==
  view = "detail" /\ ~effectDue /\ ~late /\ TerminalStatus(list[selected])
    => \/ wants = Null /\ ShowsTheEnd
       \/ /\ wants # Null /\ requests[wants].run = selected
          /\ \/ requests[wants].row = 0
             \/ requests[wants].row >= list[selected]

ConsoleInvariant ==
  /\ ConsoleTypes /\ NotAhead /\ AnswersNewer /\ OnePerRun /\ Awaited
  /\ ShowsSelected /\ ForgottenAnswers /\ EndIsComing
=============================================================================
