--------------------------- MODULE HeavyOpsProofs ---------------------------
(* Proofs about HeavyOps, for any set of goroutines and any number of lives. *)
EXTENDS HeavyOps, TLAPS

(***************************************************************************)
(* The inductive invariant.  OneJobPerRun alone is not inductive: a step   *)
(* that starts a program must know that no other goroutine of this life    *)
(* has one running.  That follows from the guard having one owner          *)
(* (OneOwner), from every waited-for program belonging to an owner         *)
(* (JobIsGuarded), and from the numbering of lives, which tells a new      *)
(* life's programs from those of the dead ones (LivesAreNumbered).         *)
(***************************************************************************)
Active(h) == pc[h] # "idle"

OneOwner ==
  /\ \A h \in Handlers : Active(h) => up /\ busy
  /\ \A g, h \in Handlers : Active(g) /\ Active(h) => g = h

LivesAreNumbered == \A j \in jobs : j.run <= run

IInv == TypeOK /\ OneOwner /\ LivesAreNumbered /\ JobIsGuarded /\ OneJobPerRun

(* The programs an operation may run next are programs. *)
LEMMA FirstJobType == \A o \in Ops \ {"selfupdate"} : FirstJob[o] \in Programs
BY DEF FirstJob, Ops, Programs

(* Lives are numbered from 1 on, up to the bound. *)
LEMMA LivesArithmetic ==
  /\ Lives \subseteq Nat /\ 1 \in Lives
  /\ \A r \in Lives : r < MaxRuns => r + 1 \in Lives
BY HeavyOpsAssumption DEF Lives

(* Every step keeps the variables in their types. *)
LEMMA TypeStep == TypeOK /\ [Next]_vars => TypeOK'
<1> SUFFICES ASSUME TypeOK, [Next]_vars PROVE TypeOK'
  OBVIOUS
<1> USE DEF TypeOK
<1>1. ASSUME NEW h \in Handlers, NEW o \in Ops, Begin(h, o) PROVE TypeOK'
  BY <1>1, FirstJobType DEF Begin, tryBusy
<1>2. ASSUME NEW h \in Handlers, GiveUp(h) PROVE TypeOK'
  BY <1>2 DEF GiveUp
<1>3. ASSUME NEW h \in Handlers, StartJob(h) PROVE TypeOK'
  <2>1. [owner |-> h, run |-> run, job |-> next[h]] \in Job
    BY <1>3 DEF StartJob, Job
  <2>2. QED BY <1>3, <2>1 DEF StartJob
<1>4. ASSUME NEW h \in Handlers, Swapped(h) PROVE TypeOK'
  BY <1>4 DEF Swapped
<1>5. ASSUME NEW h \in Handlers, Finish(h) PROVE TypeOK'
  BY <1>5 DEF Finish, clearBusy
<1>6. ASSUME NEW j \in jobs, JobEnds(j) PROVE TypeOK'
  <2>1. j.owner \in Handlers /\ FollowUp(j) \in Programs \cup {""}
    BY DEF Job, FollowUp, Programs
  <2>2. PICK rest \in {FollowUp(j), ""} :
          /\ next' = [next EXCEPT ![j.owner] = rest]
          /\ pc' = [pc EXCEPT ![j.owner] = IF rest = "" THEN "reporting"
                                                       ELSE "guarded"]
    BY <1>6 DEF JobEnds
  <2>3. next' \in [Handlers -> Programs \cup {""}]
    BY <2>1, <2>2
  <2>4. pc' \in [Handlers -> {"idle", "guarded", "running", "reporting"}]
    BY <2>1, <2>2
  <2>5. QED BY <1>6, <2>3, <2>4 DEF JobEnds
<1>7. ASSUME NEW j \in jobs, OrphanEnds(j) PROVE TypeOK'
  BY <1>7 DEF OrphanEnds
<1>8. CASE Exit BY <1>8 DEF Exit, Forget
<1>9. CASE Stop BY <1>9 DEF Stop, Forget
<1>10. CASE Respawn
  <2>1. run' \in Lives BY <1>10, LivesArithmetic DEF Respawn
  <2>2. up' \in BOOLEAN BY <1>10 DEF Respawn
  <2>3. UNCHANGED <<busy, pc, op, next, jobs, exitTimer>>
    BY <1>10 DEF Respawn
  <2>4. QED BY <2>1, <2>2, <2>3
<1>11. CASE UNCHANGED vars BY <1>11 DEF vars
<1>12. QED
  BY <1>1, <1>2, <1>3, <1>4, <1>5, <1>6, <1>7, <1>8, <1>9, <1>10, <1>11
  DEF Next, Undisturbed, HandlerStep

LEMMA InitType == Init => TypeOK
<1> SUFFICES ASSUME Init PROVE TypeOK
  OBVIOUS
<1>1. run \in Lives BY LivesArithmetic DEF Init
<1>2. up \in BOOLEAN /\ busy \in BOOLEAN /\ exitTimer \in BOOLEAN
  BY DEF Init
<1>3. QED BY <1>1, <1>2 DEF Init, TypeOK

(* The variables keep their types in every behaviour of HeavyOps. *)
THEOREM TypeCorrect == Spec => []TypeOK
<1>1. QED BY InitType, TypeStep, PTL DEF Spec

-----------------------------------------------------------------------------

LEMMA InitIInv == Init => IInv
BY InitType
DEF Init, IInv, OneOwner, Active, LivesAreNumbered, JobIsGuarded, OneJobPerRun

(* What the types say of numbers and of the programs running. *)
LEMMA Numbers ==
  TypeOK => run \in Nat /\ \A j \in jobs : j.owner \in Handlers /\ j.run \in Nat
BY LivesArithmetic DEF TypeOK, Job

(* Each action preserves the guard's ownership, the numbering of lives, the *)
(* link between a program and its goroutine, and mutual exclusion.          *)
LEMMA IInvStep == IInv /\ [Next]_vars => IInv'
<1> SUFFICES ASSUME IInv, [Next]_vars PROVE IInv'
  OBVIOUS
<1>0. TypeOK' BY TypeStep DEF IInv
<1>t. /\ pc \in [Handlers -> {"idle", "guarded", "running", "reporting"}]
      /\ next \in [Handlers -> Programs \cup {""}]
      /\ \A j \in jobs : j.owner \in Handlers
  BY Numbers DEF IInv, TypeOK
<1>n. run \in Nat /\ \A j \in jobs : j.run \in Nat
  BY Numbers DEF IInv
<1> USE DEF IInv, OneOwner, Active, LivesAreNumbered, JobIsGuarded,
            OneJobPerRun
<1>1. ASSUME NEW h \in Handlers, NEW o \in Ops, Begin(h, o) PROVE IInv'
  <2>1. UNCHANGED <<up, run, jobs>> /\ up /\ ~busy /\ busy'
    BY <1>1 DEF Begin, tryBusy
  <2>2. \A g \in Handlers : g # h => pc'[g] = "idle"
    BY <1>1, <1>t, <2>1 DEF Begin
  <2>3. OneOwner' BY <2>1, <2>2
  <2>4. \A j \in jobs : j.run # run BY <2>1
  <2>5. LivesAreNumbered' /\ JobIsGuarded' /\ OneJobPerRun' BY <2>1, <2>4
  <2>6. QED BY <1>0, <2>3, <2>5
<1>2. ASSUME NEW h \in Handlers, GiveUp(h) PROVE IInv'
  <2>1. UNCHANGED <<up, run, busy, jobs>> /\ pc[h] = "guarded"
    BY <1>2 DEF GiveUp
  <2>2. /\ pc' = [pc EXCEPT ![h] = "reporting"]
        /\ next' = [next EXCEPT ![h] = ""]
    BY <1>2 DEF GiveUp
  <2>3. OneOwner' BY <1>t, <2>1, <2>2
  <2>4. \A j \in jobs : j.run # run BY <1>t, <2>1
  <2>5. LivesAreNumbered' /\ JobIsGuarded' /\ OneJobPerRun' BY <2>1, <2>4
  <2>6. QED BY <1>0, <2>3, <2>5
<1>3. ASSUME NEW h \in Handlers, StartJob(h) PROVE IInv'
  <2> DEFINE new == [owner |-> h, run |-> run, job |-> next[h]]
  <2>1. \A j \in jobs : j.run # run
    <3> SUFFICES ASSUME NEW j \in jobs, j.run = run PROVE FALSE
      OBVIOUS
    <3>1. up /\ pc[h] = "guarded" BY <1>3 DEF StartJob
    <3>2. j.owner \in Handlers /\ pc[j.owner] = "running" BY <1>t, <3>1
    <3>3. j.owner = h BY <3>1, <3>2
    <3>4. QED BY <3>1, <3>2, <3>3
  <2>2. jobs' = jobs \cup {new} /\ UNCHANGED <<up, run, busy, next>>
    BY <1>3 DEF StartJob
  <2>3. up /\ busy BY <1>3 DEF StartJob
  <2>4. pc' = [pc EXCEPT ![h] = "running"] /\ pc[h] = "guarded"
    BY <1>3 DEF StartJob
  <2>5. OneOwner' BY <1>t, <2>2, <2>3, <2>4
  <2>6. LivesAreNumbered'
    <3>1. \A j \in jobs : j.run <= run BY DEF IInv
    <3>2. new.run <= run BY <1>n
    <3>3. QED BY <2>2, <3>1, <3>2
  <2>7. JobIsGuarded'
    <3>1. \A j \in jobs' : j.run = run => j = new BY <2>1, <2>2
    <3>2. pc'[h] = "running" BY <1>t, <2>4
    <3>3. QED BY <2>2, <2>3, <3>1, <3>2
  <2>8. OneJobPerRun' BY <2>1, <2>2
  <2>9. QED BY <1>0, <2>5, <2>6, <2>7, <2>8
<1>4. ASSUME NEW h \in Handlers, Swapped(h) PROVE IInv'
  BY <1>0, <1>t, <1>4 DEF Swapped
<1>5. ASSUME NEW h \in Handlers, Finish(h) PROVE IInv'
  <2>1. UNCHANGED <<up, run, jobs>> /\ up /\ pc[h] = "reporting"
    BY <1>5 DEF Finish, Returned
  <2>2. \A g \in Handlers : pc'[g] = "idle"
    BY <1>5, <1>t, <2>1 DEF Finish
  <2>3. \A j \in jobs : j.run # run BY <1>t, <2>1
  <2>4. OneOwner' BY <2>2
  <2>5. LivesAreNumbered' /\ JobIsGuarded' /\ OneJobPerRun' BY <2>1, <2>3
  <2>6. QED BY <1>0, <2>4, <2>5
<1>6. ASSUME NEW j \in jobs, JobEnds(j) PROVE IInv'
  <2>1. j.owner \in Handlers /\ up /\ busy /\ pc[j.owner] = "running"
    BY <1>t, <1>6 DEF JobEnds
  <2>2. jobs' = jobs \ {j} /\ UNCHANGED <<up, run, busy>>
    BY <1>6 DEF JobEnds
  <2>3. \A k \in jobs' : k.run # run BY <1>6, <2>2 DEF JobEnds
  <2>4. \A h \in Handlers : h # j.owner => pc'[h] = pc[h]
    BY <1>t, <1>6, <2>1 DEF JobEnds
  <2>5. OneOwner' BY <2>1, <2>2, <2>4
  <2>6. LivesAreNumbered' /\ JobIsGuarded' /\ OneJobPerRun'
    BY <2>2, <2>3
  <2>7. QED BY <1>0, <2>5, <2>6
<1>7. ASSUME NEW j \in jobs, OrphanEnds(j) PROVE IInv'
  BY <1>0, <1>7 DEF OrphanEnds
<1>8. CASE Exit
  <2>1. ~up' /\ UNCHANGED <<run, jobs>> BY <1>8 DEF Exit
  <2>2. \A h \in Handlers : pc'[h] = "idle" BY <1>8 DEF Exit, Forget
  <2>3. QED BY <1>0, <2>1, <2>2
<1>9. CASE Stop
  <2>1. ~up' /\ jobs' \subseteq jobs /\ UNCHANGED run BY <1>9 DEF Stop
  <2>2. \A h \in Handlers : pc'[h] = "idle" BY <1>9 DEF Stop, Forget
  <2>3. QED BY <1>0, <2>1, <2>2
<1>10. CASE Respawn
  <2>1. run' = run + 1 /\ UNCHANGED <<busy, pc, jobs>> /\ ~up
    BY <1>10 DEF Respawn
  <2>2. \A j \in jobs : j.run <= run' /\ j.run # run'
    BY <1>n, <2>1
  <2>3. \A h \in Handlers : pc'[h] = "idle" BY <2>1
  <2>4. OneOwner' BY <2>3
  <2>5. LivesAreNumbered' /\ JobIsGuarded' /\ OneJobPerRun' BY <2>1, <2>2
  <2>6. QED BY <1>0, <2>4, <2>5
<1>11. CASE UNCHANGED vars BY <1>0, <1>11 DEF vars
<1>12. QED
  BY <1>1, <1>2, <1>3, <1>4, <1>5, <1>6, <1>7, <1>8, <1>9, <1>10, <1>11
  DEF Next, Undisturbed, HandlerStep

LEMMA Invariance == Spec => []IInv
<1>1. QED BY InitIInv, IInvStep, PTL DEF Spec

(* Programs run as root by one life of the daemon never overlap, for any   *)
(* number of goroutines clicking and checking at once.                     *)
THEOREM MutualExclusion == Spec => []OneJobPerRun
<1>1. IInv => OneJobPerRun BY DEF IInv
<1>2. QED BY <1>1, Invariance, PTL

(* A program the living daemon waits for is covered by the busy guard.     *)
THEOREM GuardCoversJob == Spec => []JobIsGuarded
<1>1. IInv => JobIsGuarded BY DEF IInv
<1>2. QED BY <1>1, Invariance, PTL

-----------------------------------------------------------------------------

(* A step that starts a program starts the only one of this life; every    *)
(* other step lets programs end, begins a new life, or is invisible to     *)
(* RootJobs.                                                               *)
LEMMA StepRefines == IInv /\ [Next]_vars => [Promise!Next]_(Promise!vars)
<1> SUFFICES ASSUME IInv, [Next]_vars PROVE [Promise!Next]_(Promise!vars)
  OBVIOUS
<1> USE DEF Promise!vars
<1>1. ASSUME NEW h \in Handlers, NEW o \in Ops, Begin(h, o)
      PROVE UNCHANGED Promise!vars
  BY <1>1 DEF Begin
<1>2. ASSUME NEW h \in Handlers, GiveUp(h) PROVE UNCHANGED Promise!vars
  BY <1>2 DEF GiveUp
<1>3. ASSUME NEW h \in Handlers, StartJob(h) PROVE Promise!Start
  <2>1. \A j \in jobs : j.run # run
    BY <1>3 DEF StartJob, IInv, JobIsGuarded, OneOwner, Active, TypeOK, Job
  <2>2. next[h] \in Programs BY <1>3 DEF StartJob, IInv, TypeOK
  <2>3. QED BY <1>3, <2>1, <2>2 DEF StartJob, Promise!Start
<1>4. ASSUME NEW h \in Handlers, Swapped(h) PROVE UNCHANGED Promise!vars
  BY <1>4 DEF Swapped
<1>5. ASSUME NEW h \in Handlers, Finish(h) PROVE UNCHANGED Promise!vars
  BY <1>5 DEF Finish
<1>6. ASSUME NEW j \in jobs, JobEnds(j) PROVE Promise!End
  BY <1>6 DEF JobEnds, Promise!End
<1>7. ASSUME NEW j \in jobs, OrphanEnds(j) PROVE Promise!End
  BY <1>7 DEF OrphanEnds, Promise!End
<1>8. CASE Exit BY <1>8 DEF Exit
<1>9. CASE Stop BY <1>9 DEF Stop, Promise!End, Promise!Next
<1>10. CASE Respawn BY <1>10 DEF Respawn, Promise!NewLife, Promise!Next
<1>11. CASE UNCHANGED vars BY <1>11 DEF vars
<1>12. QED
  BY <1>1, <1>2, <1>3, <1>4, <1>5, <1>6, <1>7, <1>8, <1>9, <1>10, <1>11
  DEF Next, Undisturbed, HandlerStep, Promise!Next

(* The bot keeps the promise of its guard: HeavyOps implements RootJobs.   *)
THEOREM Refinement == Spec => ImplementsRootJobs
<1>1. Init => Promise!Init BY DEF Init, Promise!Init
<1>2. QED BY <1>1, Invariance, StepRefines, PTL
          DEF Spec, Promise!Spec, ImplementsRootJobs
=============================================================================
