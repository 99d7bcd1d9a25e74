-------------------------- MODULE DashboardRuntime --------------------------
(***************************************************************************)
(* The commands that own the dashboard's runtime directory: `dev` and      *)
(* `start` (dashboard-supervisor.mjs), `build` (dashboard-build.mjs),      *)
(* `clean` and `doctor` (dashboard-runtime.mjs), the lock they share       *)
(* (dashboard-runtime-lock.mjs) and the artifacts in .next that it guards. *)
(*                                                                         *)
(* Each file operation on the lock is a step, so that of two commands one  *)
(* may act between any two of the other.  A member of Commands is a shell  *)
(* that issues one command after another; every command is a new process.  *)
(* A process may be killed at any step, its children survive it.           *)
(***************************************************************************)
EXTENDS Naturals, FiniteSets

CONSTANTS Commands,     \* the shells
          Children,     \* of a supervisor: the worker, the scheduler and
                        \* the server, which is named "dashboard"
          Null,         \* no owner.json
          Dead          \* an owner whose process has ended

ASSUME OwnerAssumption == Null \notin Commands /\ Dead \notin Commands
                          /\ Null # Dead

VARIABLES
  dir,        \* the lock directory exists
  fresh,      \* it was modified less than INCOMPLETE_LOCK_GRACE_MS ago
  file,       \* who owner.json names
  next,       \* .next: none, partial, complete (production) or dev
  mode,       \* the command a process executes
  pc,         \* what it does next
  task,       \* what it looks at the lock for
  tries,      \* attempts to take the lock
  seen,       \* the owner it has read
  up,         \* the children of a supervisor
  raced,      \* a lock was made, or aged, under a command that looked at it
  killed      \* a command was killed

vars == <<dir, fresh, file, next, mode, pc, task, tries, seen, up,
          raced, killed>>
lock == <<dir, fresh, file>>

Init ==
  /\ dir = FALSE /\ fresh = FALSE /\ file = Null
  /\ next \in {"none", "partial", "complete", "dev"}
  /\ mode = [p \in Commands |-> "none"]
  /\ pc = [p \in Commands |-> "idle"]
  /\ task = [p \in Commands |-> "none"]
  /\ tries = [p \in Commands |-> 0]
  /\ seen = [p \in Commands |-> Null]
  /\ up = [p \in Commands |-> {}]
  /\ raced = FALSE /\ killed = FALSE

(* Between a look at the lock and the last operation that depends on it.  *)
Looking(p) == pc[p] \in {"read", "stat", "unlink", "rmdir"}

Goto(p, step) == pc' = [pc EXCEPT ![p] = step]

(* The process ends.  What still names it names a dead process.           *)
Ends(p) ==
  /\ Goto(p, "idle")
  /\ mode' = [mode EXCEPT ![p] = "none"]
  /\ task' = [task EXCEPT ![p] = "none"]
  /\ tries' = [tries EXCEPT ![p] = 0]
  /\ up' = [up EXCEPT ![p] = {}]
  /\ seen' = [q \in Commands |-> IF q = p THEN Null
                                 ELSE IF seen[q] = p THEN Dead ELSE seen[q]]

(***************************************************************************)
(* acquireDashboardRuntimeLock.                                            *)
(***************************************************************************)
Begin(p, m) ==
  /\ pc[p] = "idle"
  /\ mode' = [mode EXCEPT ![p] = m]
  /\ IF m = "doctor"
     THEN Goto(p, "exists") /\ task' = [task EXCEPT ![p] = "doctor"]
     ELSE Goto(p, "make") /\ task' = [task EXCEPT ![p] = "acquire"]
  /\ UNCHANGED <<lock, next, tries, seen, up, raced, killed>>

MakeDir(p) ==
  /\ pc[p] = "make"
  /\ IF dir
     THEN Goto(p, "exists") /\ UNCHANGED <<dir, fresh, raced>>
     ELSE /\ dir' = TRUE /\ fresh' = TRUE /\ Goto(p, "write")
          /\ raced' = (raced \/ \E q \in Commands \ {p} : Looking(q))
  /\ UNCHANGED <<file, next, mode, task, tries, seen, up, killed>>

(* The directory may have been removed meanwhile: the write throws.       *)
WriteOwner(p) ==
  /\ pc[p] = "write"
  /\ IF dir
     THEN /\ file' = p /\ fresh' = TRUE /\ Goto(p, "owned")
          /\ tries' = [tries EXCEPT ![p] = 0]
          /\ UNCHANGED <<mode, task, seen, up>>
     ELSE Ends(p) /\ UNCHANGED <<file, fresh>>
  /\ UNCHANGED <<dir, next, raced, killed>>

(* Thirty seconds after its last change a lock counts as old.             *)
Age ==
  /\ fresh
  /\ fresh' = FALSE
  /\ raced' = (raced \/ \E q \in Commands : pc[q] = "write" \/ Looking(q))
  /\ UNCHANGED <<dir, file, next, mode, pc, task, tries, seen, up,
                 killed>>

(***************************************************************************)
(* inspectDashboardRuntimeLock, and what its caller does with the answer.  *)
(***************************************************************************)
(* The checks of runDoctor before a server may be launched: the lock is   *)
(* its own, and .next fits the mode.  The checks of the environment may   *)
(* fail as well.                                                          *)
Fits(p) == IF mode[p] = "start" THEN next = "complete" ELSE next # "complete"

(* Only the ownership is looked at.                         seeded fault  *)
PreflightOwnership(p, owner) ==
  /\ task[p] = "check"
  /\ Goto(p, IF owner = p THEN "launch" ELSE "release")
  /\ seen' = [seen EXCEPT ![p] = Null]
  /\ UNCHANGED <<mode, task, tries, up>>

Preflight(p, owner) ==
  /\ task[p] = "check"
  /\ \/ Goto(p, "release")
     \/ owner = p /\ Fits(p) /\ Goto(p, "launch")
  /\ seen' = [seen EXCEPT ![p] = Null]
  /\ UNCHANGED <<mode, task, tries, up>>

(* The lock is somebody's: taking it is refused.                          *)
Active(p, owner) ==
  \/ task[p] \in {"acquire", "doctor"} /\ Ends(p)
  \/ Preflight(p, owner)
  \/ /\ task[p] = "validate" /\ Goto(p, "release")
     /\ seen' = [seen EXCEPT ![p] = Null]
     /\ UNCHANGED <<mode, task, tries, up>>

(* The lock is nobody's: one more attempt to take it.                     *)
Inactive(p) ==
  \/ /\ task[p] = "acquire" /\ tries[p] = 0
     /\ tries' = [tries EXCEPT ![p] = 1]
     /\ Goto(p, "make")
     /\ UNCHANGED <<mode, task, seen, up>>
  \/ task[p] = "acquire" /\ tries[p] = 1 /\ Ends(p)
  \/ task[p] = "doctor" /\ Ends(p)
  \/ /\ task[p] \in {"check", "validate"} /\ Goto(p, "release")
     /\ UNCHANGED <<mode, task, tries, seen, up>>

Exists(p) ==
  /\ pc[p] = "exists"
  /\ IF dir THEN Goto(p, "read") /\ UNCHANGED <<mode, task, tries, seen, up>>
            ELSE Inactive(p)
  /\ UNCHANGED <<lock, next, raced, killed>>

ReadOwner(p) ==
  /\ pc[p] = "read"
  /\ seen' = [seen EXCEPT ![p] = file]
  /\ Goto(p, "stat")
  /\ UNCHANGED <<lock, next, mode, task, tries, up, raced, killed>>

(* The age of the directory, infinite when it is gone, and the signal 0   *)
(* to the owner.  A new directory without an owner counts as active.      *)
SomebodyNamed(p) == seen[p] \in Commands                    \* seeded fault

SomebodyHas(p) == \/ seen[p] \in Commands
                  \/ seen[p] = Null /\ dir /\ fresh

Stat(p) ==
  /\ pc[p] = "stat"
  /\ IF SomebodyHas(p)
     THEN Active(p, seen[p])
     ELSE /\ Goto(p, "unlink")
          /\ seen' = [seen EXCEPT ![p] = Null]
          /\ UNCHANGED <<mode, task, tries, up>>
  /\ UNCHANGED <<lock, next, raced, killed>>

(* rmSync, by name: owner.json goes first, then the directory.            *)
Unlink(p) ==
  /\ pc[p] = "unlink"
  /\ file' = Null
  /\ fresh' = dir
  /\ Goto(p, "rmdir")
  /\ UNCHANGED <<dir, next, mode, task, tries, seen, up, raced,
                 killed>>

(* A file written in between makes it fail, or is removed as well.        *)
Rmdir(p) ==
  /\ pc[p] = "rmdir"
  /\ \/ /\ dir' = FALSE /\ fresh' = FALSE /\ file' = Null
        /\ IF task[p] = "release" THEN Ends(p) ELSE Inactive(p)
     \/ file # Null /\ Ends(p) /\ UNCHANGED <<dir, fresh, file>>
  /\ UNCHANGED <<next, raced, killed>>

(* releaseDashboardRuntimeLock: only a lock that is still one's own.      *)
Release(p) ==
  /\ pc[p] = "release"
  /\ IF file = p
     THEN /\ Goto(p, "unlink") /\ task' = [task EXCEPT ![p] = "release"]
          /\ UNCHANGED <<mode, tries, seen, up>>
     ELSE Ends(p)
  /\ UNCHANGED <<lock, next, raced, killed>>

(***************************************************************************)
(* What the owner of the lock does.                                        *)
(***************************************************************************)
Prepare(p) ==
  /\ pc[p] = "owned"
  /\ next' = IF mode[p] = "start" THEN next ELSE "none"
  /\ \/ /\ mode[p] \in {"dev", "start"}
        /\ Goto(p, "exists") /\ task' = [task EXCEPT ![p] = "check"]
     \/ mode[p] = "build" /\ Goto(p, "compile") /\ UNCHANGED task
     \/ mode[p] = "clean" /\ Goto(p, "release") /\ UNCHANGED task
  /\ UNCHANGED <<lock, mode, tries, seen, up, raced, killed>>

(* next build writes .next while it runs; the doctor follows a success.   *)
BuildWrites(p) ==
  /\ pc[p] = "compile"
  /\ next' = "partial"
  /\ UNCHANGED <<lock, mode, pc, task, tries, seen, up, raced,
                 killed>>

Compile(p) ==
  /\ pc[p] = "compile"
  /\ \/ next' = "partial" /\ Goto(p, "release") /\ UNCHANGED task
     \/ /\ next' = "complete" /\ Goto(p, "exists")
        /\ task' = [task EXCEPT ![p] = "validate"]
  /\ UNCHANGED <<lock, mode, tries, seen, up, raced, killed>>

Launch(p) ==
  /\ pc[p] = "launch"
  /\ up' = [up EXCEPT ![p] = Children]
  /\ Goto(p, "serving")
  /\ UNCHANGED <<lock, next, mode, task, tries, seen, raced, killed>>

DevServerWrites(p) ==
  /\ mode[p] = "dev" /\ "dashboard" \in up[p]
  /\ next' = "dev"
  /\ UNCHANGED <<lock, mode, pc, task, tries, seen, up, raced,
                 killed>>

(* Any child that ends, or cannot be started, ends the others.            *)
ChildExits(p, c) ==
  /\ c \in up[p]
  /\ up' = [up EXCEPT ![p] = @ \ {c}]
  /\ IF pc[p] = "serving" THEN Goto(p, "stopping") ELSE UNCHANGED pc
  /\ UNCHANGED <<lock, next, mode, task, tries, seen, raced, killed>>

StopSignal(p) ==
  /\ pc[p] = "serving"
  /\ Goto(p, "stopping")
  /\ UNCHANGED <<lock, next, mode, task, tries, seen, up, raced,
                 killed>>

ForceNothing(p) == FALSE /\ UNCHANGED vars                  \* seeded fault

(* Five seconds after the signal the rest is killed.                      *)
ForceStop(p) ==
  /\ pc[p] = "stopping" /\ up[p] # {}
  /\ Goto(p, "forcing")
  /\ UNCHANGED <<lock, next, mode, task, tries, seen, up, raced,
                 killed>>

ChildrenGone(p) ==
  /\ pc[p] \in {"stopping", "forcing"} /\ up[p] = {}
  /\ Goto(p, "release")
  /\ UNCHANGED <<lock, next, mode, task, tries, seen, up, raced,
                 killed>>

(***************************************************************************)
(* A killed command leaves its lock.  Its children survive it; what they   *)
(* still do to .next no property looks at after a kill.                    *)
(***************************************************************************)
Kill(p) ==
  /\ pc[p] # "idle"
  /\ Ends(p)
  /\ file' = IF file = p THEN Dead ELSE file
  /\ killed' = TRUE
  /\ UNCHANGED <<dir, fresh, next, raced>>

-----------------------------------------------------------------------------
Proceed(p) ==
  \/ MakeDir(p) \/ WriteOwner(p) \/ Exists(p) \/ ReadOwner(p) \/ Stat(p)
  \/ Unlink(p) \/ Rmdir(p) \/ Release(p) \/ Prepare(p) \/ Compile(p)
  \/ Launch(p) \/ ForceStop(p) \/ ChildrenGone(p)

Next ==
  \/ \E p \in Commands :
       \/ \E m \in {"dev", "start", "build", "clean", "doctor"} : Begin(p, m)
       \/ Proceed(p)
       \/ BuildWrites(p) \/ DevServerWrites(p) \/ StopSignal(p) \/ Kill(p)
       \/ \E c \in Children : ChildExits(p, c)
  \/ Age

(* A process goes on, and a child that was killed ends.                   *)
Fairness ==
  \A p \in Commands :
    /\ WF_vars(Proceed(p))
    /\ WF_vars(pc[p] = "forcing" /\ \E c \in Children : ChildExits(p, c))

Spec == Init /\ [][Next]_vars
FairSpec == Spec /\ Fairness

-----------------------------------------------------------------------------
(* Holding the lock: from the write of owner.json until it is unlinked.   *)
Owns(p) ==
  \/ pc[p] \in {"owned", "compile", "launch", "serving", "stopping",
                "forcing"}
  \/ pc[p] \in {"exists", "read", "stat"} /\ task[p] \in {"check", "validate"}

(* `dev`, `build`, `start` and `clean` never overlap, also after owners   *)
(* were killed: unless a lock is made, or thirty seconds pass, while      *)
(* another command stands between looking at the lock and acting on what  *)
(* it saw (dashboard-runtime-lock.mjs).                                   *)
OneOwner ==
  ~raced => \A p, q \in Commands : Owns(p) /\ Owns(q) => p = q

(* A supervisor that was told to serve a production build serves a        *)
(* complete one for as long as it runs, and a development server never    *)
(* finds a production build: no build, clean or dev changes .next under   *)
(* it (dashboard-supervisor.mjs, dashboard-runtime.mjs preflight).        *)
ServedBuild ==
  ~raced /\ ~killed =>
    \A p \in Commands :
      pc[p] = "serving" => (mode[p] = "start" <=> next = "complete")

(* A command that has begun serves, ends or is killed; told to stop, a    *)
(* supervisor ends even when a child ignores the signal (the worker does  *)
(* while a campaign runs).                                                *)
EveryCommandAnswers ==
  \A p \in Commands :
    pc[p] \notin {"idle", "serving"} ~> pc[p] \in {"idle", "serving"}
=============================================================================
