----------------------- MODULE DashboardRuntime_proofs -----------------------
(***************************************************************************)
(* OneOwner holds for any number of commands.  It is not inductive: that   *)
(* nobody removes the lock of a live owner follows from what a command may *)
(* have seen when it decides to remove one.                                *)
(***************************************************************************)
EXTENDS DashboardRuntime, TLAPS

Owners == Commands \cup {Null, Dead}
Steps == {"idle", "make", "write", "owned", "exists", "read", "stat",
          "unlink", "rmdir", "release", "compile", "launch", "serving",
          "stopping", "forcing"}
Tasks == {"none", "acquire", "check", "validate", "release", "doctor"}

(* The owner of the lock, from the moment it made the directory.          *)
Holds(p) == pc[p] = "write" \/ Owns(p)

RuntimeTypes ==
  /\ dir \in BOOLEAN /\ fresh \in BOOLEAN /\ raced \in BOOLEAN
  /\ file \in Owners
  /\ pc \in [Commands -> Steps]
  /\ task \in [Commands -> Tasks]
  /\ seen \in [Commands -> Owners]
  /\ dir \/ file = Null
  /\ \A p \in Commands : pc[p] = "make" => task[p] = "acquire"

USE DEF lock, Owners, Steps, Tasks

(* A lock without a name is young as long as its maker is about to write. *)
MakerInv == \A p \in Commands : pc[p] = "write" => dir /\ fresh /\ file = Null
OwnerInv == \A p \in Commands : Owns(p) => dir /\ file = p
OneMaker == \A p, q \in Commands : pc[p] = "write" /\ pc[q] = "write" => p = q

(* Who removes a lock removes nobody's.                                   *)
RemoverInv ==
  \A q \in Commands : pc[q] \in {"unlink", "rmdir"}
                        => \A p \in Commands : ~Holds(p)

(* Who has seen an owner has seen the present one; who has seen none sees *)
(* a young lock if there is an owner.                                     *)
SeenInv ==
  \A q \in Commands : pc[q] = "stat" =>
    \A p \in Commands : Holds(p) =>
      seen[q] = p \/ (seen[q] = Null /\ dir /\ fresh)

RuntimeInvariant ==
  /\ RuntimeTypes
  /\ ~raced => /\ MakerInv /\ OwnerInv /\ OneMaker
               /\ RemoverInv /\ SeenInv

-----------------------------------------------------------------------------
(* What most steps of a process p do to the lock: nothing.                *)
Neutral(p) ==
  /\ UNCHANGED <<lock, raced>>
  /\ pc' \in [Commands -> Steps] /\ task' \in [Commands -> Tasks]
  /\ seen' \in [Commands -> Owners]
  /\ \A q \in Commands \ {p} : pc'[q] = pc[q] /\ task'[q] = task[q]
  /\ pc'[p] \notin {"write", "unlink", "rmdir", "stat"} \/ pc'[p] = pc[p]
  /\ Owns(p)' => Owns(p)
  /\ pc'[p] = "make" => task'[p] = "acquire"
  /\ pc'[p] = pc[p] => task'[p] = task[p] /\ seen'[p] = seen[p]
  /\ \A q \in Commands \ {p} :
       seen'[q] = seen[q] \/ (seen[q] = p /\ pc'[p] = "idle")

(* Such a step preserves the invariant.                                   *)
LEMMA NeutralStep ==
  ASSUME RuntimeInvariant, NEW p \in Commands, Neutral(p)
  PROVE  RuntimeInvariant'
<1> USE DEF RuntimeInvariant, Neutral, lock
<1>1. RuntimeTypes'
  BY DEF RuntimeTypes
<1>2. ASSUME ~raced, NEW q \in Commands, Holds(q)'
      PROVE  Holds(q) /\ (pc'[q] = "write" <=> pc[q] = "write")
                      /\ (Owns(q)' <=> Owns(q))
  <2>1. CASE q # p
    BY <1>2, <2>1 DEF Holds, Owns, Looking, RuntimeTypes
  <2>2. CASE q = p
    BY <1>2, <2>2 DEF Holds, Owns, Looking, RuntimeTypes
  <2> QED BY <2>1, <2>2
<1>3. ASSUME ~raced PROVE MakerInv' /\ OwnerInv' /\ OneMaker'
  BY <1>2, <1>3 DEF MakerInv, OwnerInv, OneMaker, Holds
<1>4. ASSUME ~raced PROVE RemoverInv'
  <2> SUFFICES ASSUME NEW q \in Commands, pc'[q] \in {"unlink", "rmdir"},
                      NEW r \in Commands, Holds(r)'
               PROVE  FALSE
    BY DEF RemoverInv, Holds, Owns, Looking
  <2>1. pc[q] \in {"unlink", "rmdir"}
    OBVIOUS
  <2> QED BY <1>2, <1>4, <2>1 DEF RemoverInv
<1>5. ASSUME ~raced PROVE SeenInv'
  <2> SUFFICES ASSUME NEW q \in Commands, pc'[q] = "stat",
                      NEW r \in Commands, Holds(r)'
               PROVE  seen'[q] = r \/ (seen'[q] = Null /\ dir' /\ fresh')
    BY DEF SeenInv
  <2>1. pc[q] = "stat" /\ Holds(r)
    BY <1>2, <1>5
  <2>2. seen[q] = r \/ (seen[q] = Null /\ dir /\ fresh)
    BY <1>5, <2>1 DEF SeenInv
  <2>3. CASE seen'[q] = seen[q]
    BY <2>2, <2>3
  <2>4. CASE q # p /\ seen[q] = p /\ pc'[p] = "idle"
    <3>1. r # p
      BY <2>4 DEF Holds, Owns, Looking
    <3>2. p # Null
      BY OwnerAssumption
    <3> QED BY <2>2, <2>4, <3>1, <3>2
  <2> QED BY <2>3, <2>4
<1> QED BY <1>1, <1>3, <1>4, <1>5

(* The end of a process leaves no trace but a dead name.                  *)
LEMMA EndFacts ==
  ASSUME RuntimeTypes, NEW p \in Commands, Ends(p)
  PROVE  /\ pc' \in [Commands -> Steps] /\ task' \in [Commands -> Tasks]
         /\ seen' \in [Commands -> Owners]
         /\ pc'[p] = "idle" /\ ~Owns(p)'
         /\ \A q \in Commands \ {p} :
              /\ pc'[q] = pc[q] /\ task'[q] = task[q]
              /\ seen'[q] = seen[q] \/ seen[q] = p
BY DEF RuntimeTypes, Ends, Goto, Owns, Owners, Steps, Tasks

(* If the lock, and raced, are as before, that is a neutral step.         *)
LEMMA EndIsNeutral ==
  ASSUME RuntimeTypes, NEW p \in Commands, Ends(p), pc[p] # "idle",
         UNCHANGED <<lock, raced>>
  PROVE  Neutral(p)
<1>1. pc'[p] # pc[p]
  BY EndFacts
<1> QED BY <1>1, EndFacts DEF Neutral

-----------------------------------------------------------------------------
(* Making the lock: it was nobody's, and nobody is looking.               *)
LEMMA MakeDirStep ==
  ASSUME RuntimeInvariant, NEW p \in Commands, MakeDir(p)
  PROVE  RuntimeInvariant'
<1>1. CASE dir
  <2>1. /\ pc[p] = "make" /\ pc' = [pc EXCEPT ![p] = "exists"]
        /\ task' = task /\ seen' = seen /\ UNCHANGED <<lock, raced>>
    BY <1>1 DEF MakeDir, Goto, lock
  <2>2. task[p] = "acquire"
    BY <2>1 DEF RuntimeInvariant, RuntimeTypes
  <2>3. Neutral(p)
    BY <2>1, <2>2 DEF RuntimeInvariant, RuntimeTypes, Neutral, Owns, Owners,
                      Steps, Tasks
  <2> QED BY <2>3, NeutralStep
<1>2. CASE ~dir
  <2> USE <1>2 DEF RuntimeInvariant, lock, Goto, Owners, Steps, Tasks
  <2>1. RuntimeTypes'
    BY DEF RuntimeTypes, MakeDir
  <2>2. SUFFICES ASSUME ~raced'
                 PROVE  MakerInv' /\ OwnerInv' /\ OneMaker' /\ RemoverInv'
                        /\ SeenInv'
    BY <2>1
  <2>3. ~raced /\ \A q \in Commands \ {p} : ~Looking(q)
    BY <2>2 DEF MakeDir, RuntimeTypes
  <2>4. \A q \in Commands : ~Holds(q)
    BY <2>3 DEF Holds, MakerInv, OwnerInv
  <2>5. pc' = [pc EXCEPT ![p] = "write"] /\ task' = task /\ file = Null
        /\ dir' /\ fresh' /\ file' = file
    BY DEF MakeDir, RuntimeTypes
  <2>6. \A q \in Commands : (q # p => ~Holds(q)') /\ pc'[p] = "write"
    BY <2>4, <2>5 DEF Holds, Owns, RuntimeTypes
  <2>7. MakerInv' /\ OwnerInv' /\ OneMaker'
    BY <2>5, <2>6 DEF MakerInv, OwnerInv, OneMaker, Holds, Owns
  <2>8. \A q \in Commands : pc'[q] \notin {"unlink", "rmdir", "stat"}
    BY <2>3, <2>5 DEF Looking, RuntimeTypes
  <2> QED BY <2>7, <2>8 DEF RemoverInv, SeenInv
<1> QED BY <1>1, <1>2 DEF RuntimeInvariant, RuntimeTypes

(* Writing the name: the maker becomes the owner.                         *)
LEMMA WriteOwnerStep ==
  ASSUME RuntimeInvariant, NEW p \in Commands, WriteOwner(p)
  PROVE  RuntimeInvariant'
<1>1. CASE ~dir
  <2>1. Neutral(p)
    BY <1>1, EndIsNeutral DEF WriteOwner, RuntimeInvariant, RuntimeTypes, lock
  <2> QED BY <2>1, NeutralStep
<1>2. CASE dir
  <2> USE <1>2 DEF RuntimeInvariant, lock, Goto, Owners, Steps, Tasks
  <2>1. /\ pc' = [pc EXCEPT ![p] = "owned"] /\ task' = task /\ seen' = seen
        /\ file' = p /\ fresh' = TRUE /\ dir' = dir /\ raced' = raced
        /\ pc[p] = "write"
    BY DEF WriteOwner
  <2>2. RuntimeTypes'
    BY <2>1 DEF RuntimeTypes
  <2>3. SUFFICES ASSUME ~raced
                 PROVE  MakerInv' /\ OwnerInv' /\ OneMaker' /\ RemoverInv'
                        /\ SeenInv'
    BY <2>1, <2>2
  <2>4. \A q \in Commands : q # p => ~Holds(q)
    BY <2>1, <2>3, OwnerAssumption DEF Holds, MakerInv, OwnerInv, OneMaker
  <2>5. \A q \in Commands : q # p => ~Holds(q)'
    BY <2>1, <2>4 DEF Holds, Owns, Looking, RuntimeTypes
  <2>6. MakerInv' /\ OwnerInv' /\ OneMaker'
    BY <2>1, <2>5 DEF MakerInv, OwnerInv, OneMaker, Holds, RuntimeTypes
  <2>7. RemoverInv'
    BY <2>1, <2>3 DEF RemoverInv, Holds, RuntimeTypes
  <2>8. SeenInv'
    <3> SUFFICES ASSUME NEW q \in Commands, pc'[q] = "stat"
                 PROVE  seen'[q] = p \/ (seen'[q] = Null /\ dir' /\ fresh')
      BY <2>5 DEF SeenInv
    <3>1. pc[q] = "stat" /\ Holds(p)
      BY <2>1 DEF Holds, RuntimeTypes
    <3> QED BY <2>1, <2>3, <3>1 DEF SeenInv
  <2> QED BY <2>6, <2>7, <2>8
<1> QED BY <1>1, <1>2 DEF RuntimeInvariant, RuntimeTypes

(* A lock that ages under nobody's look has no maker.                     *)
LEMMA AgeStep ==
  ASSUME RuntimeInvariant, Age
  PROVE  RuntimeInvariant'
<1> USE DEF RuntimeInvariant, lock, Goto, Owners, Steps, Tasks
<1>1. RuntimeTypes'
  BY DEF RuntimeTypes, Age
<1>2. SUFFICES ASSUME ~raced'
               PROVE  MakerInv' /\ OwnerInv' /\ OneMaker' /\ RemoverInv'
                      /\ SeenInv'
  BY <1>1
<1>3. ~raced /\ \A q \in Commands : pc[q] # "write" /\ ~Looking(q)
  BY <1>2 DEF Age, RuntimeTypes
<1>4. pc' = pc /\ task' = task /\ dir' = dir /\ file' = file
  BY DEF Age
<1>5. \A q \in Commands : pc[q] \notin {"write", "unlink", "rmdir", "stat"}
  BY <1>3 DEF Looking
<1>6. OwnerInv'
  BY <1>3, <1>4 DEF OwnerInv, Owns, Looking
<1> QED BY <1>4, <1>5, <1>6 DEF MakerInv, OneMaker, RemoverInv, SeenInv

(* Reading the name: the present owner, or none that could lose its lock. *)
LEMMA ReadOwnerStep ==
  ASSUME RuntimeInvariant, NEW p \in Commands, ReadOwner(p)
  PROVE  RuntimeInvariant'
<1> USE DEF RuntimeInvariant, lock, Goto, Owners, Steps, Tasks
<1>1. /\ pc' = [pc EXCEPT ![p] = "stat"] /\ task' = task
      /\ seen' = [seen EXCEPT ![p] = file] /\ pc[p] = "read"
      /\ UNCHANGED <<dir, fresh, file, raced>>
  BY DEF ReadOwner
<1>2. RuntimeTypes'
  BY <1>1 DEF RuntimeTypes
<1>3. SUFFICES ASSUME ~raced
               PROVE  MakerInv' /\ OwnerInv' /\ OneMaker' /\ RemoverInv'
                      /\ SeenInv'
  BY <1>1, <1>2
<1>4. \A q \in Commands : (pc'[q] = "write" <=> pc[q] = "write")
                          /\ (Owns(q)' <=> Owns(q))
  BY <1>1 DEF Owns, Looking, RuntimeTypes
<1>5. \A q \in Commands : Holds(q)' <=> Holds(q)
  BY <1>4 DEF Holds
<1>6. MakerInv' /\ OwnerInv' /\ OneMaker'
  BY <1>1, <1>3, <1>4 DEF MakerInv, OwnerInv, OneMaker
<1>7. RemoverInv'
  BY <1>1, <1>3, <1>5 DEF RemoverInv, RuntimeTypes
<1>8. SeenInv'
  <2> SUFFICES ASSUME NEW q \in Commands, pc'[q] = "stat",
                      NEW r \in Commands, Holds(r)
               PROVE  seen'[q] = r \/ (seen'[q] = Null /\ dir /\ fresh)
    BY <1>1, <1>5 DEF SeenInv
  <2>1. CASE q = p
    BY <1>1, <1>3, <2>1 DEF Holds, MakerInv, OwnerInv, RuntimeTypes
  <2>2. CASE q # p
    BY <1>1, <1>3, <2>2 DEF SeenInv, RuntimeTypes
  <2> QED BY <2>1, <2>2
<1> QED BY <1>6, <1>7, <1>8

(* Judging it: who goes on to remove the lock has seen that it is nobody's. *)
LEMMA StatStep ==
  ASSUME RuntimeInvariant, NEW p \in Commands, Stat(p)
  PROVE  RuntimeInvariant'
<1> USE DEF RuntimeInvariant, lock, Goto, Owners, Steps, Tasks
<1>0. pc[p] = "stat" /\ UNCHANGED <<lock, raced>>
  BY DEF Stat
<1>1. CASE SomebodyHas(p)
  <2>1. Active(p, seen[p])
    BY <1>1 DEF Stat
  <2>2. CASE Ends(p)
    BY <1>0, <2>2, EndIsNeutral, NeutralStep
  <2>3. CASE Preflight(p, seen[p])
    <3>1. task[p] = "check" /\ task' = task
          /\ seen' = [seen EXCEPT ![p] = Null]
          /\ (pc' = [pc EXCEPT ![p] = "release"]
              \/ pc' = [pc EXCEPT ![p] = "launch"])
      BY <2>3 DEF Preflight
    <3>2. Neutral(p)
      BY <1>0, <3>1 DEF Neutral, RuntimeTypes, Owns
    <3> QED BY <3>2, NeutralStep
  <2>4. CASE /\ task[p] = "validate" /\ Goto(p, "release")
             /\ seen' = [seen EXCEPT ![p] = Null] /\ task' = task
    <3>1. Neutral(p)
      BY <1>0, <2>4 DEF Neutral, RuntimeTypes, Owns, Looking
    <3> QED BY <3>1, NeutralStep
  <2> QED BY <2>1, <2>2, <2>3, <2>4 DEF Active
<1>2. CASE ~SomebodyHas(p)
  <2>1. /\ pc' = [pc EXCEPT ![p] = "unlink"] /\ task' = task
        /\ seen' = [seen EXCEPT ![p] = Null]
        /\ UNCHANGED <<dir, fresh, file, raced>>
    BY <1>2 DEF Stat
  <2>2. RuntimeTypes'
    BY <2>1 DEF RuntimeTypes
  <2>3. SUFFICES ASSUME ~raced
                 PROVE  MakerInv' /\ OwnerInv' /\ OneMaker' /\ RemoverInv'
                        /\ SeenInv'
    BY <2>1, <2>2
  <2>4. \A q \in Commands : ~Holds(q)
    BY <1>0, <1>2, <2>3 DEF SeenInv, SomebodyHas, RuntimeTypes
  <2>5. \A q \in Commands : ~Holds(q)'
    BY <2>1, <2>4 DEF Holds, Owns, Looking, RuntimeTypes
  <2> QED BY <2>5 DEF Holds, MakerInv, OwnerInv, OneMaker, RemoverInv, SeenInv
<1> QED BY <1>1, <1>2

(* Removing it, by name.                                                  *)
LEMMA UnlinkStep ==
  ASSUME RuntimeInvariant, NEW p \in Commands, Unlink(p)
  PROVE  RuntimeInvariant'
<1> USE DEF RuntimeInvariant, lock, Goto, Owners, Steps, Tasks
<1>1. /\ pc' = [pc EXCEPT ![p] = "rmdir"] /\ task' = task /\ seen' = seen
      /\ raced' = raced /\ pc[p] = "unlink" /\ dir' = dir /\ fresh' = dir
      /\ file' = Null
  BY DEF Unlink
<1>2. RuntimeTypes'
  BY <1>1 DEF RuntimeTypes
<1>3. ASSUME ~raced PROVE \A q \in Commands : ~Holds(q)'
  <2>1. \A q \in Commands : ~Holds(q)
    BY <1>1, <1>3 DEF RemoverInv
  <2> QED BY <1>1, <2>1 DEF Holds, Owns, Looking, RuntimeTypes
<1> QED BY <1>1, <1>2, <1>3
        DEF Holds, MakerInv, OwnerInv, OneMaker, RemoverInv, SeenInv

LEMMA RmdirStep ==
  ASSUME RuntimeInvariant, NEW p \in Commands, Rmdir(p)
  PROVE  RuntimeInvariant'
<1> USE DEF RuntimeInvariant, lock, Goto, Owners, Steps, Tasks
<1>0. pc[p] = "rmdir" /\ raced' = raced
  BY DEF Rmdir
<1>1. CASE file # Null /\ Ends(p) /\ UNCHANGED <<dir, fresh, file>>
  BY <1>0, <1>1, EndIsNeutral, NeutralStep
<1>2. CASE /\ dir' = FALSE /\ fresh' = FALSE /\ file' = Null
           /\ IF task[p] = "release" THEN Ends(p) ELSE Inactive(p)
  <2>1. /\ pc' \in [Commands -> Steps] /\ task' \in [Commands -> Tasks]
        /\ seen' \in [Commands -> Owners]
        /\ \A q \in Commands \ {p} : pc'[q] = pc[q] /\ task'[q] = task[q]
        /\ pc'[p] \in {"idle", "make", "release"}
        /\ pc'[p] = "make" => task'[p] = "acquire"
    <3>1. CASE Ends(p)
      BY <3>1, EndFacts
    <3>2. CASE ~Ends(p)
      BY <1>2, <3>2 DEF Inactive, RuntimeTypes
    <3> QED BY <3>1, <3>2
  <2>2. RuntimeTypes'
    BY <1>0, <1>2, <2>1 DEF RuntimeTypes
  <2>3. ASSUME ~raced PROVE \A q \in Commands : ~Holds(q)'
    <3>1. \A q \in Commands : ~Holds(q)
      BY <1>0, <2>3 DEF RemoverInv
    <3> QED BY <2>1, <3>1 DEF Holds, Owns, Looking
  <2> QED BY <1>0, <2>2, <2>3
          DEF Holds, MakerInv, OwnerInv, OneMaker, RemoverInv, SeenInv
<1> QED BY <1>1, <1>2 DEF Rmdir

(* Releasing: only the owner's own lock.                                  *)
LEMMA ReleaseStep ==
  ASSUME RuntimeInvariant, NEW p \in Commands, Release(p)
  PROVE  RuntimeInvariant'
<1> USE DEF RuntimeInvariant, lock, Goto, Owners, Steps, Tasks
<1>0. pc[p] = "release" /\ UNCHANGED <<lock, raced>>
  BY DEF Release
<1>1. CASE file # p
  BY <1>0, <1>1, EndIsNeutral, NeutralStep DEF Release
<1>2. CASE file = p
  <2>1. /\ pc' = [pc EXCEPT ![p] = "unlink"] /\ seen' = seen
        /\ task' = [task EXCEPT ![p] = "release"]
        /\ UNCHANGED <<dir, fresh, file, raced>>
    BY <1>2 DEF Release
  <2>2. RuntimeTypes'
    BY <2>1 DEF RuntimeTypes
  <2>3. SUFFICES ASSUME ~raced
                 PROVE  \A q \in Commands : ~Holds(q)'
    BY <2>1, <2>2
       DEF Holds, MakerInv, OwnerInv, OneMaker, RemoverInv, SeenInv
  <2>4. \A q \in Commands : ~Holds(q)
    <3>1. ~Holds(p)
      BY <1>0 DEF Holds, Owns
    <3>2. \A q \in Commands : q # p => ~Holds(q)
      BY <1>2, <2>3, OwnerAssumption DEF Holds, MakerInv, OwnerInv
    <3> QED BY <3>1, <3>2
  <2> QED BY <2>1, <2>4 DEF Holds, Owns, Looking, RuntimeTypes
<1> QED BY <1>1, <1>2

(* A killed process: its lock names a dead owner.                         *)
LEMMA KillStep ==
  ASSUME RuntimeInvariant, NEW p \in Commands, Kill(p)
  PROVE  RuntimeInvariant'
<1> USE DEF RuntimeInvariant, lock, Goto, Owners, Steps, Tasks
<1>0. Ends(p) /\ UNCHANGED <<dir, fresh, raced>> /\ pc[p] # "idle"
  BY DEF Kill
<1>1. CASE file # p
  BY <1>0, <1>1, EndIsNeutral, NeutralStep DEF Kill
<1>2. CASE file = p
  <2>1. file' = Dead
    BY <1>2 DEF Kill
  <2>2. RuntimeTypes'
    BY <1>0, <1>2, <2>1, EndFacts, OwnerAssumption DEF RuntimeTypes
  <2>3. SUFFICES ASSUME ~raced
                 PROVE  \A q \in Commands : ~Holds(q)'
    BY <1>0, <2>2
       DEF Holds, MakerInv, OwnerInv, OneMaker, RemoverInv, SeenInv
  <2>4. \A q \in Commands : q # p => ~Holds(q)
    BY <1>2, <2>3, OwnerAssumption DEF Holds, MakerInv, OwnerInv
  <2>5. \A q \in Commands : q # p => ~Holds(q)'
    BY <1>0, <2>4, EndFacts DEF Holds, Owns, Looking
  <2>6. ~Holds(p)'
    BY <1>0, EndFacts DEF Holds
  <2> QED BY <2>5, <2>6
<1> QED BY <1>1, <1>2

(* Every other step is neutral.                                           *)
LEMMA OtherSteps ==
  ASSUME RuntimeInvariant, NEW p \in Commands,
         \/ \E m \in {"dev", "start", "build", "clean", "doctor"} : Begin(p, m)
         \/ Exists(p) \/ Prepare(p) \/ Compile(p) \/ Launch(p)
         \/ ForceStop(p) \/ ChildrenGone(p) \/ StopSignal(p)
         \/ BuildWrites(p) \/ DevServerWrites(p)
         \/ \E c \in Children : ChildExits(p, c)
  PROVE  RuntimeInvariant'
<1> SUFFICES Neutral(p)
  BY NeutralStep
<1> USE DEF RuntimeInvariant, lock, Goto, Owners, Steps, Tasks
<1>1. ASSUME NEW m \in {"dev", "start", "build", "clean", "doctor"}, Begin(p, m)
      PROVE  Neutral(p)
  BY <1>1 DEF Begin, Neutral, RuntimeTypes, Owns
<1>2. CASE Exists(p)
  <2>1. pc[p] = "exists" /\ UNCHANGED <<lock, raced>>
    BY <1>2 DEF Exists
  <2>2. CASE Ends(p)
    BY <2>1, <2>2, EndIsNeutral
  <2>3. CASE ~Ends(p)
    BY <1>2, <2>1, <2>3 DEF Exists, Inactive, Neutral, RuntimeTypes, Owns
  <2> QED BY <2>2, <2>3
<1>3. CASE Prepare(p)
  BY <1>3 DEF Prepare, Neutral, RuntimeTypes, Owns
<1>4. CASE Compile(p)
  BY <1>4 DEF Compile, Neutral, RuntimeTypes, Owns
<1>5. CASE Launch(p) \/ ForceStop(p) \/ ChildrenGone(p) \/ StopSignal(p)
  BY <1>5 DEF Launch, ForceStop, ChildrenGone, StopSignal, Neutral,
              RuntimeTypes, Owns
<1>6. CASE BuildWrites(p) \/ DevServerWrites(p)
  BY <1>6 DEF BuildWrites, DevServerWrites, Neutral, RuntimeTypes, Owns, Looking
<1>7. ASSUME NEW c \in Children, ChildExits(p, c) PROVE Neutral(p)
  BY <1>7 DEF ChildExits, Neutral, RuntimeTypes, Owns
<1> QED BY <1>1, <1>2, <1>3, <1>4, <1>5, <1>6, <1>7

-----------------------------------------------------------------------------
(* The invariant is inductive.                                            *)
LEMMA RuntimeInductive == RuntimeInvariant /\ [Next]_vars => RuntimeInvariant'
<1> SUFFICES ASSUME RuntimeInvariant, [Next]_vars PROVE RuntimeInvariant'
  OBVIOUS
<1>1. CASE Age
  BY <1>1, AgeStep
<1>2. ASSUME NEW p \in Commands, Proceed(p) PROVE RuntimeInvariant'
  BY <1>2, MakeDirStep, WriteOwnerStep, ReadOwnerStep, StatStep, UnlinkStep,
     RmdirStep, ReleaseStep, OtherSteps DEF Proceed
<1>3. ASSUME NEW p \in Commands, Kill(p) PROVE RuntimeInvariant'
  BY <1>3, KillStep
<1>4. CASE UNCHANGED vars
  BY <1>4 DEF vars, RuntimeInvariant, RuntimeTypes, MakerInv, OwnerInv,
              OneMaker, RemoverInv, SeenInv, Holds, Owns
<1> QED BY <1>1, <1>2, <1>3, <1>4, OtherSteps DEF Next

(* The lock's invariant holds for any number of commands, through kills.  *)
THEOREM RuntimeSafety == Spec => []RuntimeInvariant
<1>1. Init => RuntimeInvariant
  BY DEF Init, RuntimeInvariant, RuntimeTypes, Owners, Steps, Tasks, MakerInv, OwnerInv,
         OneMaker, RemoverInv, SeenInv, Holds, Owns
<1> QED BY <1>1, RuntimeInductive, PTL DEF Spec

(* dev, build, start and clean never overlap, unless a lock changed under *)
(* a command that was looking at it (dashboard-runtime-lock.mjs).         *)
THEOREM OneOwnerHolds == Spec => []OneOwner
<1>1. RuntimeInvariant => OneOwner
  BY DEF RuntimeInvariant, OwnerInv, OneOwner
<1> QED BY <1>1, RuntimeSafety, PTL
-----------------------------------------------------------------------------
(* What a supervisor serves.  Every step that writes .next is one of a     *)
(* command that owns the lock, so a supervisor finds what it has launched. *)
Modes == {"none", "dev", "start", "build", "clean", "doctor"}
Supervises(p) == pc[p] \in {"launch", "serving", "stopping", "forcing"}

SupervisorInv ==
  \A p \in Commands :
    /\ task[p] = "check" \/ Supervises(p) => mode[p] \in {"dev", "start"}
    /\ up[p] # {} => Supervises(p)

FitInv == ~raced /\ ~killed => \A p \in Commands : Supervises(p) => Fits(p)

ServedInvariant ==
  /\ mode \in [Commands -> Modes]
  /\ up \in [Commands -> SUBSET Children]
  /\ raced \in BOOLEAN /\ killed \in BOOLEAN
  /\ SupervisorInv /\ FitInv

(* A step of p that leaves the other commands alone, and supervises only   *)
(* what fits.                                                              *)
Fitting(p) ==
  /\ mode' \in [Commands -> Modes] /\ up' \in [Commands -> SUBSET Children]
  /\ raced' \in BOOLEAN /\ killed' \in BOOLEAN
  /\ (raced => raced') /\ (killed => killed')
  /\ \A q \in Commands \ {p} :
       /\ pc'[q] = pc[q] /\ task'[q] = task[q]
       /\ mode'[q] = mode[q] /\ up'[q] = up[q]
  /\ task'[p] = "check" \/ Supervises(p)' => mode'[p] \in {"dev", "start"}
  /\ up'[p] # {} => Supervises(p)'
  /\ ~raced' /\ ~killed' /\ Supervises(p)' => Fits(p)'

LEMMA FittingStep ==
  ASSUME RuntimeInvariant, ServedInvariant, NEW p \in Commands, Fitting(p),
         next' = next \/ Owns(p)
  PROVE  ServedInvariant'
<1>1. SupervisorInv'
  <2> SUFFICES ASSUME NEW q \in Commands
               PROVE  /\ task'[q] = "check" \/ Supervises(q)'
                           => mode'[q] \in {"dev", "start"}
                      /\ up'[q] # {} => Supervises(q)'
    BY DEF SupervisorInv, Supervises
  <2>1. CASE q = p
    BY <2>1 DEF Fitting
  <2>2. CASE q # p
    BY <2>2 DEF Fitting, ServedInvariant, SupervisorInv, Supervises
  <2> QED BY <2>1, <2>2
<1>2. FitInv'
  <2> SUFFICES ASSUME ~raced', ~killed', NEW q \in Commands, Supervises(q)'
               PROVE  Fits(q)'
    BY DEF FitInv
  <2>1. CASE q = p
    BY <2>1 DEF Fitting
  <2>2. CASE q # p
    <3>1. Supervises(q) /\ ~raced /\ ~killed /\ mode'[q] = mode[q]
      BY <2>2 DEF Fitting, Supervises
    <3>2. next' = next
      BY <2>2, <3>1 DEF RuntimeInvariant, OwnerInv, Owns, Supervises
    <3>3. Fits(q)
      BY <3>1 DEF ServedInvariant, FitInv
    <3> QED BY <3>1, <3>2, <3>3 DEF Fits
  <2> QED BY <2>1, <2>2
<1> QED BY <1>1, <1>2 DEF Fitting, ServedInvariant

(* The end of a process.                                                   *)
LEMMA EndFits ==
  ASSUME RuntimeTypes, ServedInvariant, NEW p \in Commands, Ends(p),
         raced' \in BOOLEAN, killed' \in BOOLEAN,
         raced => raced', killed => killed'
  PROVE  Fitting(p)
BY DEF RuntimeTypes, ServedInvariant, Ends, Goto, Fitting, Supervises, Modes

LEMMA InactiveFits ==
  ASSUME RuntimeTypes, ServedInvariant, NEW p \in Commands, Inactive(p),
         ~Supervises(p), UNCHANGED <<raced, killed>>
  PROVE  Fitting(p)
<1>1. CASE Ends(p)
  BY <1>1, EndFits DEF ServedInvariant
<1>2. CASE ~Ends(p)
  BY <1>2 DEF Inactive, RuntimeTypes, ServedInvariant, SupervisorInv, Goto,
              Fitting, Supervises, Modes
<1> QED BY <1>1, <1>2

(* The one way to become a supervisor is the preflight.                    *)
LEMMA StatFits ==
  ASSUME RuntimeTypes, ServedInvariant, NEW p \in Commands, Stat(p)
  PROVE  Fitting(p)
<1>1. CASE Ends(p)
  BY <1>1, EndFits DEF Stat, ServedInvariant
<1>2. CASE ~Ends(p)
  BY <1>2 DEF Stat, Active, Preflight, Fits, RuntimeTypes, ServedInvariant,
              SupervisorInv, Goto, Fitting, Supervises, Modes
<1> QED BY <1>1, <1>2

LEMMA LockStepsFit ==
  ASSUME RuntimeTypes, ServedInvariant, NEW p \in Commands,
         \/ MakeDir(p) \/ WriteOwner(p) \/ Exists(p) \/ ReadOwner(p)
         \/ Unlink(p) \/ Rmdir(p) \/ Release(p) \/ Kill(p)
         \/ \E m \in {"dev", "start", "build", "clean", "doctor"} : Begin(p, m)
  PROVE  Fitting(p) /\ next' = next
<1> USE DEF RuntimeTypes, ServedInvariant, SupervisorInv, Goto, Supervises, Modes
<1>1. CASE MakeDir(p)
  BY <1>1 DEF MakeDir, Fitting, Looking
<1>2. CASE WriteOwner(p)
  <2>1. next' = next /\ UNCHANGED <<raced, killed>>
    BY <1>2 DEF WriteOwner
  <2>2. CASE Ends(p)
    BY <2>1, <2>2, EndFits
  <2>3. CASE ~Ends(p)
    BY <1>2, <2>3 DEF WriteOwner, Fitting
  <2> QED BY <2>1, <2>2, <2>3
<1>3. CASE Exists(p)
  <2>1. CASE Inactive(p)
    BY <1>3, <2>1, InactiveFits DEF Exists
  <2>2. CASE ~Inactive(p)
    BY <1>3, <2>2 DEF Exists, Fitting
  <2> QED BY <2>1, <2>2
<1>4. CASE ReadOwner(p) \/ Unlink(p)
  BY <1>4 DEF ReadOwner, Unlink, Fitting
<1>5. CASE Rmdir(p)
  <2>1. next' = next /\ UNCHANGED <<raced, killed>> /\ ~Supervises(p)
    BY <1>5 DEF Rmdir
  <2>2. Ends(p) \/ Inactive(p)
    BY <1>5 DEF Rmdir
  <2> QED BY <2>1, <2>2, EndFits, InactiveFits
<1>6. CASE Release(p)
  <2>1. next' = next /\ UNCHANGED <<raced, killed>>
    BY <1>6 DEF Release
  <2>2. CASE Ends(p)
    BY <2>1, <2>2, EndFits
  <2>3. CASE ~Ends(p)
    BY <1>6, <2>3 DEF Release, Fitting
  <2> QED BY <2>1, <2>2, <2>3
<1>7. CASE Kill(p)
  BY <1>7, EndFits DEF Kill
<1>8. ASSUME NEW m \in {"dev", "start", "build", "clean", "doctor"}, Begin(p, m)
      PROVE  Fitting(p) /\ next' = next
  BY <1>8 DEF Begin, Fitting
<1> QED BY <1>1, <1>2, <1>3, <1>4, <1>5, <1>6, <1>7, <1>8

(* What writes .next owns the lock, and supervises nothing it destroys.    *)
LEMMA OwnerStepsFit ==
  ASSUME RuntimeTypes, ServedInvariant, NEW p \in Commands,
         \/ Prepare(p) \/ Compile(p) \/ BuildWrites(p) \/ DevServerWrites(p)
         \/ Launch(p) \/ ForceStop(p) \/ ChildrenGone(p) \/ StopSignal(p)
         \/ \E c \in Children : ChildExits(p, c)
  PROVE  Fitting(p) /\ Owns(p)
<1> USE DEF RuntimeTypes, ServedInvariant, SupervisorInv, FitInv, Goto,
            Supervises, Owns, Modes, Fits
<1>1. CASE Prepare(p)
  BY <1>1 DEF Prepare, Fitting
<1>2. CASE Compile(p) \/ BuildWrites(p)
  BY <1>2 DEF Compile, BuildWrites, Fitting
<1>3. CASE DevServerWrites(p)
  BY <1>3 DEF DevServerWrites, Fitting
<1>4. CASE Launch(p) \/ ForceStop(p) \/ ChildrenGone(p) \/ StopSignal(p)
  BY <1>4 DEF Launch, ForceStop, ChildrenGone, StopSignal, Fitting
<1>5. ASSUME NEW c \in Children, ChildExits(p, c)
      PROVE  Fitting(p) /\ Owns(p)
  BY <1>5 DEF ChildExits, Fitting
<1> QED BY <1>1, <1>2, <1>3, <1>4, <1>5

LEMMA ServedInductive ==
  RuntimeInvariant /\ ServedInvariant /\ [Next]_vars => ServedInvariant'
<1> SUFFICES ASSUME RuntimeInvariant, ServedInvariant, [Next]_vars
             PROVE  ServedInvariant'
  OBVIOUS
<1>1. RuntimeTypes
  BY DEF RuntimeInvariant
<1>2. CASE Age
  BY <1>2 DEF Age, ServedInvariant, SupervisorInv, FitInv, Supervises, Fits,
              Looking
<1>3. ASSUME NEW p \in Commands, Proceed(p) PROVE ServedInvariant'
  BY <1>1, <1>3, FittingStep, StatFits, LockStepsFit, OwnerStepsFit
     DEF Proceed, Stat
<1>4. ASSUME NEW p \in Commands,
             \/ \E m \in {"dev", "start", "build", "clean", "doctor"} :
                  Begin(p, m)
             \/ BuildWrites(p) \/ DevServerWrites(p) \/ StopSignal(p)
             \/ Kill(p) \/ \E c \in Children : ChildExits(p, c)
      PROVE  ServedInvariant'
  BY <1>1, <1>4, FittingStep, LockStepsFit, OwnerStepsFit
<1>5. CASE UNCHANGED vars
  BY <1>5 DEF vars, ServedInvariant, SupervisorInv, FitInv, Supervises, Fits
<1> QED BY <1>2, <1>3, <1>4, <1>5 DEF Next

(* A supervisor serves the build that it has checked, until it stops: no   *)
(* other command changes .next under it (dashboard-supervisor.mjs).        *)
THEOREM ServedBuildHolds == Spec => []ServedBuild
<1>1. Init => ServedInvariant
  BY DEF Init, ServedInvariant, SupervisorInv, FitInv, Supervises, Modes
<1>2. ServedInvariant => ServedBuild
  BY DEF ServedInvariant, SupervisorInv, FitInv, Supervises, Fits, ServedBuild
<1>3. Spec => []ServedInvariant
  BY <1>1, RuntimeSafety, ServedInductive, PTL DEF Spec
<1> QED BY <1>2, <1>3, PTL
=============================================================================
