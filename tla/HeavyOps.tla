------------------------------ MODULE HeavyOps ------------------------------
(***************************************************************************)
(* The long-running operations of the bot: restart, podkop update,         *)
(* rollback, config restore and self-update.  Each Telegram update is      *)
(* handled in a goroutine of its own and the periodic check starts the     *)
(* same operations, so several goroutines (Handlers) meet at the busy      *)
(* guard of botState.  An operation runs programs as root (install.sh, the *)
(* package manager, /etc/init.d/podkop) as child processes; a child lives  *)
(* on when the daemon dies.  A successful self-update arms a timer that    *)
(* ends the process three seconds later, after the guard was released.     *)
(***************************************************************************)
EXTENDS Naturals, FiniteSets

CONSTANTS Handlers,   \* goroutines that may run a heavy operation
          NoOp,       \* the operation of an idle goroutine
          MaxRuns     \* bound: how many lives the daemon is given

ASSUME HeavyOpsAssumption == MaxRuns \in Nat \ {0}

(* The first program an operation runs; a self-update runs none. *)
FirstJob_Inverted ==   \* mutant: programs and operations are swapped
  [restart |-> "restart", update |-> "update", rollback |-> "rollback",
   restore |-> "restore"]
FirstJob == [restart  |-> "podkop_restart",
             update   |-> "install_sh",
             rollback |-> "packages",
             restore  |-> "podkop_restart"]

Programs == {"podkop_restart", "install_sh", "packages"}

Ops == DOMAIN FirstJob \cup {"selfupdate"}

VARIABLES
  up,         \* the daemon process exists
  run,        \* number of its current (or, when down, its last) life
  busy,       \* botState.busy
  pc,         \* where each goroutine is in its operation
  op,         \* the operation it performs
  next,       \* the program it runs next, "" when there is none
  jobs,       \* root programs running: owner, life that started it, program
  exitTimer   \* time.AfterFunc(3s, os.Exit) is armed

vars == <<up, run, busy, pc, op, next, jobs, exitTimer>>

Lives == 1..MaxRuns

Job == [owner : Handlers, run : Lives, job : Programs]

TypeOK ==
  /\ up \in BOOLEAN
  /\ run \in Lives
  /\ busy \in BOOLEAN
  /\ pc \in [Handlers -> {"idle", "guarded", "running", "reporting"}]
  /\ op \in [Handlers -> Ops \cup {NoOp}]
  /\ next \in [Handlers -> Programs \cup {""}]
  /\ jobs \in SUBSET Job
  /\ exitTimer \in BOOLEAN

Init ==
  /\ up = TRUE /\ run = 1 /\ jobs = {}
  /\ busy = FALSE
  /\ pc = [h \in Handlers |-> "idle"]
  /\ op = [h \in Handlers |-> NoOp]
  /\ next = [h \in Handlers |-> ""]
  /\ exitTimer = FALSE

-----------------------------------------------------------------------------

(* tryBusy: an atomic test-and-set under the mutex of botState. *)
tryBusy_Unchecked == busy' = TRUE   \* mutant: the test of the guard is lost
tryBusy == ~busy /\ busy' = TRUE

clearBusy_Forgotten == UNCHANGED busy   \* mutant: no deferred release
clearBusy == busy' = FALSE

(* beginHeavy, autoUpdatePodkop, autoSelfUpdate, onTextRestart: the        *)
(* operation goes on only if tryBusy finds the guard free.  Finding it     *)
(* taken only answers "busy", so that outcome is no step.                  *)
Begin(h, o) ==
  /\ up /\ pc[h] = "idle"
  /\ tryBusy
  /\ pc' = [pc EXCEPT ![h] = "guarded"]
  /\ op' = [op EXCEPT ![h] = o]
  /\ next' = [next EXCEPT ![h] = IF o = "selfupdate" THEN "" ELSE FirstJob[o]]
  /\ UNCHANGED <<up, run, jobs, exitTimer>>

(* The early returns before a program runs: no target staged, no runner,   *)
(* the script, the assets or the new binary could not be fetched, or       *)
(* starting the program failed.                                            *)
GiveUp(h) ==
  /\ up /\ pc[h] = "guarded"
  /\ pc' = [pc EXCEPT ![h] = "reporting"]
  /\ next' = [next EXCEPT ![h] = ""]
  /\ UNCHANGED <<up, run, busy, op, jobs, exitTimer>>

(* cmd.Run / cmd.CombinedOutput: the child process starts. *)
StartJob(h) ==
  /\ up /\ pc[h] = "guarded" /\ next[h] # ""
  /\ jobs' = jobs \cup {[owner |-> h, run |-> run, job |-> next[h]]}
  /\ pc' = [pc EXCEPT ![h] = "running"]
  /\ UNCHANGED <<up, run, busy, op, next, exitTimer>>

(* RunDowngrade restarts podkop once the packages are installed; every     *)
(* other operation runs a single program.                                  *)
FollowUp(j) == IF j.job = "packages" THEN "podkop_restart" ELSE ""

(* A program of this life ends.  Its goroutine runs the next one, or, when *)
(* it was the last or failed, polls DNS, refreshes and renders the result. *)
JobEnds(j) ==
  /\ up /\ j \in jobs /\ j.run = run
  /\ jobs' = jobs \ {j}
  /\ \E rest \in {FollowUp(j), ""} :
       /\ next' = [next EXCEPT ![j.owner] = rest]
       /\ pc' = [pc EXCEPT ![j.owner] = IF rest = "" THEN "reporting"
                                                     ELSE "guarded"]
  /\ UNCHANGED <<up, run, busy, op, exitTimer>>

(* A program left behind by an earlier life ends; nobody waits for it. *)
OrphanEnds(j) ==
  /\ j \in jobs /\ (~up \/ j.run # run)
  /\ jobs' = jobs \ {j}
  /\ UNCHANGED <<up, run, busy, pc, op, next, exitTimer>>

(* RunSelfUpdate swapped the binary: it arms the exit timer and returns to *)
(* performSelfUpdate, which renders the result.                            *)
Swapped(h) ==
  /\ up /\ pc[h] = "guarded" /\ op[h] = "selfupdate"
  /\ exitTimer' = TRUE
  /\ pc' = [pc EXCEPT ![h] = "reporting"]
  /\ UNCHANGED <<up, run, busy, op, next, jobs>>

(* The operation is over once the call that ran its program returned. *)
Returned_NoWait(h) == pc[h] \in {"running", "reporting"}   \* mutant: cmd.Start
Returned(h) == pc[h] = "reporting"

(* The result is rendered and the deferred clearBusy runs. *)
Finish(h) ==
  /\ up /\ Returned(h)
  /\ clearBusy
  /\ pc' = [pc EXCEPT ![h] = "idle"]
  /\ op' = [op EXCEPT ![h] = NoOp]
  /\ UNCHANGED <<up, run, next, jobs, exitTimer>>

(* Everything the process kept in memory is gone with it. *)
Forget ==
  /\ busy' = FALSE
  /\ pc' = [h \in Handlers |-> "idle"]
  /\ op' = [h \in Handlers |-> NoOp]
  /\ next' = [h \in Handlers |-> ""]
  /\ exitTimer' = FALSE

(* The timer fires: os.Exit.  The child processes are not ended.        *)
Exit ==
  /\ up /\ exitTimer
  /\ up' = FALSE
  /\ Forget
  /\ UNCHANGED <<run, jobs>>

(* SIGTERM, a crash or a kill.  The context of exec.CommandContext may     *)
(* still reach the child of the operation in progress, or come too late.   *)
Stop ==
  /\ up
  /\ up' = FALSE
  /\ Forget
  /\ jobs' \in {jobs, {j \in jobs : j.run # run}}
  /\ UNCHANGED run

(* procd starts the daemon again, with an empty botState. *)
Respawn ==
  /\ ~up /\ run < MaxRuns
  /\ up' = TRUE
  /\ run' = run + 1
  /\ UNCHANGED <<busy, pc, op, next, jobs, exitTimer>>

-----------------------------------------------------------------------------

HandlerStep(h) == \/ \E o \in Ops : Begin(h, o)
                  \/ GiveUp(h) \/ StartJob(h) \/ Swapped(h) \/ Finish(h)

(* What happens when nobody stops the daemon from outside. *)
Undisturbed == \/ \E h \in Handlers : HandlerStep(h)
               \/ \E j \in jobs : JobEnds(j) \/ OrphanEnds(j)
               \/ Exit \/ Respawn

Next == Undisturbed \/ Stop

Spec == Init /\ [][Next]_vars

(* A goroutine that owns the guard keeps running, every root program ends, *)
(* procd respawns and an armed timer fires.  Clicks, crashes and the       *)
(* choice between giving up and going on are left to the environment.      *)
Proceed(h) == GiveUp(h) \/ StartJob(h) \/ Swapped(h) \/ Finish(h)

Fairness == /\ \A h \in Handlers : WF_vars(Proceed(h))
            /\ WF_vars(\E j \in jobs : JobEnds(j))
            /\ WF_vars(Exit) /\ WF_vars(Respawn)

FairSpec == Spec /\ Fairness

UndisturbedSpec == Init /\ [][Undisturbed]_vars

-----------------------------------------------------------------------------

(* Two root programs started by the same life of the daemon never overlap: *)
(* the guard of beginHeavy and the auto-update paths does its job.         *)
OneJobPerRun == \A j, k \in jobs : j.run = k.run => j = k

(* The guard covers a program for as long as the daemon waits for it: a    *)
(* program of the living daemon belongs to the one goroutine that is       *)
(* waiting for it, and that goroutine owns the guard.                      *)
JobIsGuarded ==
  \A j \in jobs : up /\ j.run = run =>
      busy /\ pc[j.owner] = "running" /\ next[j.owner] = j.job

(* state.go:44-46: no two install.sh run as root at once. *)
OneInstaller ==
  Cardinality({j \in jobs : j.job = "install_sh"}) <= 1

(* A taken guard is released, by the goroutine or by the end of the process. *)
GuardReleased == busy ~> ~busy

(* The guard keeps the promise RootJobs states. *)
Promise == INSTANCE RootJobs WITH Owners <- Handlers
ImplementsRootJobs == Promise!Spec
=============================================================================
