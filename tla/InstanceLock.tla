---------------------------- MODULE InstanceLock ----------------------------
(***************************************************************************)
(* The pid file of cmd/podkop_updater (acquireLock, releaseLock): a        *)
(* starting daemon reads the file, refuses to run if a process with the    *)
(* pid it holds is alive, and else writes its own pid.  Reading, checking, *)
(* truncating and writing are separate steps, and several daemons may      *)
(* start (procd, a shell).  A daemon that returns from runDaemon removes   *)
(* the file; one that is killed, or ends by the os.Exit of a self-update,  *)
(* does not.  A pid that was freed may be given to any new process.        *)
(***************************************************************************)
EXTENDS Naturals, FiniteSets

CONSTANTS Pids,     \* process ids
          NoPid,    \* no file, or a file without a number
          Overlap   \* a daemon may start while another is starting

ASSUME LockAssumption == NoPid \notin Pids /\ Overlap \in BOOLEAN

VARIABLES
  lock,   \* the pid in the file
  pc,     \* what the process with a pid is: no process, another program,
          \* or a daemon and how far it got
  seen    \* the pid a starting daemon read from the file

vars == <<lock, pc, seen>>

Starting == {"reading", "checking", "truncating", "writing"}

TypeOK ==
  /\ lock \in Pids \cup {NoPid}
  /\ pc \in [Pids -> {"free", "other", "refused", "running", "leaving"} \cup Starting]
  /\ seen \in [Pids -> Pids \cup {NoPid}]

Init == /\ lock = NoPid
        /\ pc = [p \in Pids |-> "free"]
        /\ seen = [p \in Pids |-> NoPid]

Forget(p) == seen' = [seen EXCEPT ![p] = NoPid]
Go(p, from, to) == pc[p] = from /\ pc' = [pc EXCEPT ![p] = to]

(* A process is created, a daemon or another program of the router. *)
Spawn(p) == /\ Overlap \/ \A q \in Pids : pc[q] \notin Starting
            /\ Go(p, "free", "reading")
            /\ UNCHANGED <<lock, seen>>
SpawnOther(p) == Go(p, "free", "other") /\ UNCHANGED <<lock, seen>>

(* os.ReadFile and the parse of its content *)
Read(p) == /\ Go(p, "reading", "checking")
           /\ seen' = [seen EXCEPT ![p] = lock]
           /\ UNCHANGED lock

(* processAlive: signal 0 reaches any process, whatever its program. *)
LivePids == {q \in Pids : pc[q] # "free"}

(* Another instance is running: runDaemon logs it and returns, and no       *)
(* releaseLock has been deferred yet.                                       *)
Refuse(p) == /\ seen[p] \in LivePids
             /\ Go(p, "checking", "refused") /\ Forget(p)
             /\ UNCHANGED lock

Return(p) == Go(p, "refused", "leaving") /\ UNCHANGED <<lock, seen>>

Accept_Always(p) ==   \* mutant: the check is skipped
  /\ Go(p, "checking", "truncating") /\ Forget(p)
  /\ UNCHANGED lock
Accept(p) == /\ seen[p] \notin LivePids
             /\ Go(p, "checking", "truncating") /\ Forget(p)
             /\ UNCHANGED lock

(* os.WriteFile truncates the file and then writes it. *)
Truncate(p) == /\ Go(p, "truncating", "writing") /\ lock' = NoPid
               /\ UNCHANGED seen
Write(p) == Go(p, "writing", "running") /\ lock' = p /\ UNCHANGED seen

(* runDaemon returns: the deferred releaseLock removes the file. *)
Leave(p) == /\ Go(p, "running", "leaving") /\ lock' = NoPid
            /\ UNCHANGED seen

(* The process ends: after releaseLock, killed, or by os.Exit. *)
End(p) == /\ pc[p] # "free"
          /\ pc' = [pc EXCEPT ![p] = "free"] /\ Forget(p)
          /\ UNCHANGED lock

Step(p) == \/ Spawn(p) \/ SpawnOther(p)
           \/ Read(p) \/ Refuse(p) \/ Return(p) \/ Accept(p) \/ Truncate(p) \/ Write(p)
           \/ Leave(p) \/ End(p)

Next == \E p \in Pids : Step(p)

Spec == Init /\ [][Next]_vars

-----------------------------------------------------------------------------

(* main.go:199-200: no two daemons run at once, whatever is killed where   *)
(* and however pids are given out again.                                   *)
OneInstance == \A p, q \in Pids : pc[p] = "running" /\ pc[q] = "running" => p = q

(* A running daemon owns the file: nobody who crashes while starting, no   *)
(* stale pid and no daemon on its way out takes it away.                   *)
RunningOwnsLock == \A p \in Pids : pc[p] = "running" => lock = p
=============================================================================
