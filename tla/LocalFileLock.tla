---------------------------- MODULE LocalFileLock ----------------------------
(***************************************************************************)
(* withLocalFileLock around the read-modify-write of a local snapshot file *)
(* (the jobs, runs, scheduler and outbox stores write this way).  The lock *)
(* is a file created exclusively; a waiter removes it when its mtime is    *)
(* older than StaleTicks.  Each client makes one update, identified with   *)
(* the client; the snapshot is the set of updates it contains.             *)
(* hazards: "crash" (a client dies at any point), "slow" (an operation     *)
(* takes longer than StaleTicks).                                          *)
(***************************************************************************)
EXTENDS Integers

CONSTANTS Clients, NoClient, StaleTicks, HazardSets

ASSUME LockAssumption ==
  /\ NoClient \notin Clients
  /\ StaleTicks \in Nat
  /\ HazardSets \subseteq SUBSET {"crash", "slow"}

VARIABLES
  pc,        \* where each client is
  lockedBy,  \* the client that created the lock file, NoClient if there is none
  age,       \* ticks since it was created
  copy,      \* the snapshot a client read
  disk,      \* the snapshot file
  hazards    \* what can go wrong in this execution, fixed from the start

lockVars == <<pc, lockedBy, age, copy, disk, hazards>>

Holding == {"read", "rename", "release", "abort"}
Ended == {"done", "failed", "dead"}
Pc == {"open", "stat", "unlink", "retry"} \cup Holding \cup Ended

LockInit ==
  /\ pc = [c \in Clients |-> "open"]
  /\ lockedBy = NoClient
  /\ age = 0
  /\ copy = [c \in Clients |-> {}]
  /\ disk = {}
  /\ hazards \in HazardSets

Goto(c, s) == pc' = [pc EXCEPT ![c] = s]

\* open(lockPath, "wx") fails with EEXIST when the file is there.
Open(c) ==
  /\ pc[c] = "open"
  /\ IF lockedBy = NoClient
     THEN Goto(c, "read") /\ lockedBy' = c /\ age' = 0
     ELSE Goto(c, "stat") /\ UNCHANGED <<lockedBy, age>>
  /\ UNCHANGED <<copy, disk, hazards>>

\* Seeded faults: off by one at the stale age; and a loop of its own around the
\* age, which does not notice that the lock was released.
StatTooEarly(c) ==
  /\ pc[c] = "stat"
  /\ Goto(c, IF lockedBy # NoClient /\ age >= StaleTicks THEN "unlink" ELSE "retry")
  /\ UNCHANGED <<lockedBy, age, copy, disk, hazards>>
StatUntilStale(c) ==
  /\ pc[c] = "stat"
  /\ Goto(c, IF lockedBy # NoClient /\ age > StaleTicks THEN "unlink" ELSE "stat")
  /\ UNCHANGED <<lockedBy, age, copy, disk, hazards>>

\* removeStaleLock looks at the age of the file ...
Stat(c) ==
  /\ pc[c] = "stat"
  /\ Goto(c, IF lockedBy # NoClient /\ age > StaleTicks THEN "unlink" ELSE "retry")
  /\ UNCHANGED <<lockedBy, age, copy, disk, hazards>>

\* ... and then unlinks whatever file has that name.
Unlink(c) ==
  /\ pc[c] = "unlink"
  /\ Goto(c, "retry")
  /\ lockedBy' = NoClient
  /\ UNCHANGED <<age, copy, disk, hazards>>

Retry(c) ==
  /\ pc[c] = "retry"
  /\ Goto(c, "open")
  /\ UNCHANGED <<lockedBy, age, copy, disk, hazards>>

\* The deadline LOCK_TIMEOUT_MS has passed.
GiveUp(c) ==
  /\ pc[c] = "retry"
  /\ Goto(c, "failed")
  /\ UNCHANGED <<lockedBy, age, copy, disk, hazards>>

Read(c) ==
  /\ pc[c] = "read"
  /\ Goto(c, "rename")
  /\ copy' = [copy EXCEPT ![c] = disk]
  /\ UNCHANGED <<lockedBy, age, disk, hazards>>

\* The changed copy replaces the file atomically.
Rename(c) ==
  /\ pc[c] = "rename"
  /\ Goto(c, "release")
  /\ disk' = copy[c] \cup {c}
  /\ UNCHANGED <<lockedBy, age, copy, hazards>>

\* The operation throws (no such job, not the owner, an active job).
OperationFails(c) ==
  /\ pc[c] = "rename"
  /\ Goto(c, "abort")
  /\ UNCHANGED <<lockedBy, age, copy, disk, hazards>>

\* The finally block unlinks whatever file has the lock's name.
Release(c) ==
  /\ pc[c] \in {"release", "abort"}
  /\ Goto(c, IF pc[c] = "release" THEN "done" ELSE "failed")
  /\ lockedBy' = NoClient
  /\ UNCHANGED <<age, copy, disk, hazards>>

Crash(c) ==
  /\ "crash" \in hazards
  /\ pc[c] \notin Ended
  /\ Goto(c, "dead")
  /\ UNCHANGED <<lockedBy, age, copy, disk, hazards>>

\* Ages beyond StaleTicks + 1 are alike.
LockAges ==
  /\ lockedBy # NoClient
  /\ age <= StaleTicks
  /\ \/ "slow" \in hazards
     \/ age < StaleTicks
     \/ pc[lockedBy] = "dead"
  /\ age' = age + 1
  /\ UNCHANGED <<pc, lockedBy, copy, disk, hazards>>

Step(c) ==
  \/ Open(c) \/ Stat(c) \/ Unlink(c) \/ Retry(c)
  \/ Read(c) \/ Rename(c) \/ OperationFails(c) \/ Release(c)

LockNext ==
  \/ \E c \in Clients : Step(c) \/ GiveUp(c) \/ Crash(c)
  \/ LockAges

LockSpec == LockInit /\ [][LockNext]_lockVars

\* A client keeps executing, and its deadline passes while it waits.
LockFairSpec ==
  /\ LockSpec
  /\ WF_lockVars(LockAges)
  /\ \A c \in Clients : WF_lockVars(Step(c)) /\ SF_lockVars(GiveUp(c))
-----------------------------------------------------------------------------
(* Properties. *)

LockTypeOK ==
  /\ pc \in [Clients -> Pc]
  /\ lockedBy \in Clients \cup {NoClient}
  /\ age \in 0 .. StaleTicks + 1
  /\ copy \in [Clients -> SUBSET Clients]
  /\ disk \in SUBSET Clients
  /\ hazards \in HazardSets

\* Unless a client dies or outlasts the stale age, two clients are never inside
\* the lock at once.
MutualExclusion ==
  hazards = {} => \A c, d \in Clients : pc[c] \in Holding /\ pc[d] \in Holding => c = d

\* Every update that returned successfully is in the snapshot file: no
\* concurrent update was computed from an older snapshot and replaced it.
UpdatesKept == \A c \in Clients : pc[c] \in {"release", "done"} => c \in disk

\* The lock protects the snapshot unless a client dies or outlasts the stale age.
NoLostUpdate == hazards = {} => UpdatesKept

\* Nobody waits for ever, although a client that died left its lock behind.
EveryUpdateEnds == \A c \in Clients : <>(pc[c] \in Ended)

\* The inductive invariant without hazards: who is inside owns the file, nobody
\* is about to unlink it, and a copy that will be written back is the snapshot.
LockProtects ==
  /\ \A c \in Clients :
       /\ pc[c] \in Holding => lockedBy = c
       /\ pc[c] \notin {"unlink", "dead"}
       /\ pc[c] = "rename" => copy[c] = disk
  /\ age <= StaleTicks
  /\ lockedBy # NoClient => pc[lockedBy] \in Holding
  /\ UpdatesKept

LockInvariant == LockTypeOK /\ (hazards = {} => LockProtects)
=============================================================================
