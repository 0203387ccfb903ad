------------------------------ MODULE RootJobs ------------------------------
(***************************************************************************)
(* What the busy guard of botState promises (state.go: "a double-click or  *)
(* an overlapping auto-update can't run two install.sh invocations as root *)
(* concurrently"), as an abstract specification: programs run as root on   *)
(* behalf of one life of the daemon never overlap.  A life is numbered by  *)
(* `run'; a program started by an earlier life may still be running.       *)
(***************************************************************************)
EXTENDS Naturals

CONSTANTS Owners,   \* who may start a program
          Programs  \* the programs run as root

VARIABLES run,   \* the number of the daemon's current life
          jobs   \* the root programs running: who started which, in which life

vars == <<run, jobs>>

Init == run = 1 /\ jobs = {}

(* A program starts only when the current life has none running. *)
Start == \E j \in [owner : Owners, run : {run}, job : Programs] :
            /\ \A k \in jobs : k.run # run
            /\ jobs' = jobs \cup {j}
            /\ UNCHANGED run

(* Programs end, in any number. *)
End == /\ jobs' \in SUBSET jobs
       /\ UNCHANGED run

(* A new life begins; what the previous ones started goes on. *)
NewLife == run' = run + 1 /\ UNCHANGED jobs

Next == Start \/ End \/ NewLife

Spec == Init /\ [][Next]_vars
=============================================================================
