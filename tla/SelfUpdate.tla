----------------------------- MODULE SelfUpdate -----------------------------
(***************************************************************************)
(* Package selfupdate and the startup of the daemon: the files of the      *)
(* executable (cur, with .bak and .new beside it), the steps of            *)
(* selfupdate.Run that move them, the exit three seconds after a swap,     *)
(* procd's respawns and CleanupBackup.  The process may die between any    *)
(* two steps; the files stay as they are.  The busy guard admits one       *)
(* update at a time, but it is free again while the exit timer runs.       *)
(* procd and what a downloaded binary does when started are external.      *)
(***************************************************************************)
EXTENDS Naturals

CONSTANTS
  None,     \* no such file
  Retries   \* bound: starts procd grants, for one reason or another

(* "old" and "good" work; "late" fails after it removed .bak, e.g. on the  *)
(* first use of the network; "dead" does not get that far; "corrupt" is a  *)
(* damaged download and "partial" one still in progress.                   *)
Binary == {"old", "good", "late", "dead", "corrupt", "partial"}
Works(b) == b \in {"old", "good"}
Released == {"good", "late", "dead"}

ASSUME SelfUpdateAssumption == Retries \in Nat \ {0} /\ None \notin Binary

VARIABLES
  file,     \* content of the files "cur", "bak" and "new"
  running,  \* the binary the daemon's process runs, None when it is down
  main,     \* how far runDaemon got: "starting", "cleaned", "connected"
  pc,       \* next step of selfupdate.Run, "idle" when none is in progress
  timer,    \* time.AfterFunc(3s, os.Exit) is armed
  retries,  \* starts procd still grants
  stale,    \* the pid file names another program, that has the pid of an
            \* ended daemon (InstanceLock has the steps)
  releases,    \* environment: what a release may hold
  unverified,  \* environment: the checksum may be missing or out of reach
  calm,        \* environment: no kills, and no second update is begun while
               \* the exit timer runs
  crowded,     \* environment: pids of ended daemons are given out again
  troubled     \* environment: UCI or Telegram may fail a start

environment == <<releases, unverified, calm, crowded, troubled>>
vars == <<file, running, main, pc, timer, retries, stale, environment>>

Ranges ==
  /\ file \in [{"cur", "bak", "new"} -> Binary \cup {None}]
  /\ running \in Binary \cup {None}
  /\ main \in {"starting", "cleaned", "connected"}
  /\ pc \in {"idle", "open", "copy", "verify", "backup", "install", "undo"}
  /\ pc \in {"verify", "backup", "install"} => file["new"] # None
  /\ retries \in 0..Retries
  /\ releases \subseteq Released

Flags ==
  /\ timer \in BOOLEAN
  /\ stale \in BOOLEAN
  /\ unverified \in BOOLEAN /\ calm \in BOOLEAN
  /\ crowded \in BOOLEAN /\ troubled \in BOOLEAN

TypeOK == Ranges /\ Flags

Init ==
  /\ file = [cur |-> "old", bak |-> None, new |-> None]
  /\ running = "old" /\ main = "connected"
  /\ pc = "idle" /\ timer = FALSE
  /\ retries = Retries
  /\ releases \in {{"good"}, Released}
  /\ stale = FALSE
  /\ unverified \in BOOLEAN /\ calm \in BOOLEAN
  /\ crowded \in BOOLEAN /\ troubled \in BOOLEAN

Rename(from, to) == [file EXCEPT ![to] = file[from], ![from] = None]
Remove(f) == [file EXCEPT ![f] = None]

-----------------------------------------------------------------------------
(* selfupdate.Run *)

Step(from, to) ==
  /\ running # None /\ pc = from /\ pc' = to
  /\ UNCHANGED <<running, main, retries, stale, environment>>

(* The button, or the periodic check: the version that runs has not changed *)
(* yet, so the update is still on offer after a swap.                       *)
Begin == /\ main = "connected"
         /\ calm => ~timer
         /\ Step("idle", "open") /\ UNCHANGED <<file, timer>>

(* The download does not start, or .new is created or truncated. *)
Open == \/ Step("open", "idle") /\ UNCHANGED <<file, timer>>
        \/ /\ Step("open", "copy")
           /\ file' = [file EXCEPT !["new"] = "partial"]
           /\ UNCHANGED timer

(* The body arrives, intact or not; an error or a short file removes it. *)
Copy == \/ Step("copy", "idle") /\ file' = Remove("new") /\ UNCHANGED timer
        \/ /\ Step("copy", "verify")
           /\ \E b \in releases \cup {"corrupt"} :
                file' = [file EXCEPT !["new"] = b]
           /\ UNCHANGED timer

(* verifyChecksum: a mismatch (a release may also have been published in   *)
(* between) is fatal, an unavailable checksum is not.                      *)
Verify_Tolerant ==   \* mutant: a mismatch is only logged
  Step("verify", "backup") /\ UNCHANGED <<file, timer>>
Verify_Continues ==   \* mutant: no return after the download is removed
  Step("verify", "backup") /\ file' = Remove("new") /\ UNCHANGED timer
Verify ==
  \/ Step("verify", "idle") /\ file' = Remove("new") /\ UNCHANGED timer
  \/ /\ file["new"] # "corrupt" \/ unverified
     /\ Step("verify", "backup") /\ UNCHANGED <<file, timer>>

(* The two renames of the swap. *)
BackupCurrent_Remove ==   \* mutant: the old binary is removed instead
  Step("backup", "install") /\ file' = Remove("cur") /\ UNCHANGED timer
BackupCurrent ==
  \/ /\ file["cur"] # None /\ Step("backup", "install")
     /\ file' = Rename("cur", "bak") /\ UNCHANGED timer
  \/ /\ Step("backup", "idle") /\ file' = Remove("new") /\ UNCHANGED timer

InstallNew ==
  \/ Step("install", "idle") /\ file' = Rename("new", "cur") /\ timer' = TRUE
  \/ Step("install", "undo") /\ UNCHANGED <<file, timer>>

(* The best-effort restore; .new stays behind. *)
Undo_Reported ==   \* mutant: the error is lost, the caller schedules the exit
  Step("undo", "idle") /\ file' = Rename("bak", "cur") /\ timer' = TRUE
Undo ==
  \/ Step("undo", "idle") /\ file' = Rename("bak", "cur") /\ UNCHANGED timer
  \/ Step("undo", "idle") /\ UNCHANGED <<file, timer>>

-----------------------------------------------------------------------------
(* The process *)

(* Whatever ends the process here, nothing removes its pid file.           *)
Down == /\ running' = None /\ main' = "starting" /\ pc' = "idle" /\ timer' = FALSE
        /\ stale' \in {FALSE, crowded}

Exit == running # None /\ timer /\ Down /\ UNCHANGED <<file, retries, environment>>

Crash == ~calm /\ running # None /\ Down /\ UNCHANGED <<file, retries, environment>>

(* procd starts what it finds; without a file there is nothing to start.   *)
Respawn ==
  /\ running = None /\ retries > 0 /\ file["cur"] # None
  /\ retries' = retries - 1
  /\ running' = file["cur"] /\ main' = "starting"
  /\ UNCHANGED <<file, pc, timer, stale, environment>>

(* acquireLock: another instance is thought to be running, and runDaemon    *)
(* returns; the other program may have ended at the next attempt.           *)
Refuse ==
  /\ running \in {"old", "good", "late"} /\ main = "starting" /\ stale
  /\ Down
  /\ UNCHANGED <<file, retries, environment>>

(* A binary that does not work ends where its kind says. *)
Perish ==
  /\ \/ running \in {"dead", "corrupt", "partial"}
     \/ running = "late" /\ main = "cleaned"
  /\ Down
  /\ UNCHANGED <<file, retries, environment>>

(* runDaemon: the pid file is written, the config is loaded, CleanupBackup *)
(* removes .bak; only later does Bot.Start reach Telegram.                 *)
CleanupBackup ==
  /\ running \in {"old", "good", "late"} /\ main = "starting" /\ ~stale
  /\ file' = Remove("bak")
  /\ main' = "cleaned"
  /\ UNCHANGED <<running, pc, timer, retries, stale, environment>>

(* runDaemon returns 1: the config cannot be loaded, or one of the two getMe *)
(* of telegram.New and Bot.Start fails.  On the way out the pid file goes.   *)
FailToStart ==
  /\ troubled
  /\ running \in {"old", "good", "late"} /\ main # "connected"
  /\ main = "starting" => ~stale
  /\ running' = None /\ main' = "starting" /\ stale' = FALSE
  /\ UNCHANGED <<file, pc, timer, retries, environment>>

Connect ==
  /\ Works(running) /\ main = "cleaned"
  /\ main' = "connected"
  /\ UNCHANGED <<file, running, pc, timer, retries, stale, environment>>

Run == Open \/ Copy \/ Verify \/ BackupCurrent \/ InstallNew \/ Undo
Startup == Refuse \/ Perish \/ CleanupBackup \/ FailToStart \/ Connect
Process == Exit \/ Respawn \/ Startup

Next == Begin \/ Run \/ Process \/ Crash

(* Requests and renames return, the timer fires, procd respawns and a      *)
(* binary proceeds to where it works or perishes.                          *)
Spec == Init /\ [][Next]_vars /\ WF_vars(Run) /\ WF_vars(Exit)
             /\ WF_vars(Respawn \/ Startup)

-----------------------------------------------------------------------------

(* What is installed was downloaded completely, and a damaged download is  *)
(* installed only when no checksum could be had: neither a crash during an *)
(* update nor what it leaves behind makes the next one install it.         *)
NothingTornInstalled ==
  /\ file["cur"] # "partial"
  /\ file["cur"] = "corrupt" => unverified

(* If releases work, a binary that works is in place or in .bak whatever   *)
(* the moment of a crash and however many updates and failures preceded.   *)
SurvivorExists ==
  (releases = {"good"} /\ ~unverified) =>
     Works(file["cur"]) \/ Works(file["bak"])

(* selfupdate.go:50-51: after a swap procd respawns into the new binary,   *)
(* unless every start it grants fails: for want of UCI or Telegram          *)
(* (troubled), or because a program got the pid that the exit leaves in the *)
(* pid file (crowded).  It holds when nothing else ends the process and no  *)
(* second update is cut short by the exit of the first, between the two     *)
(* renames (calm).                                                          *)
SwapTakesEffect ==
  (releases = {"good"} /\ ~unverified /\ calm) =>
     (timer /\ retries > 0) ~>
        \/ main = "connected" /\ running = "good" /\ ~timer
        \/ (crowded \/ troubled) /\ running = None /\ retries = 0

(* selfupdate.go:163, DESIGN.md:94-96: .bak goes when the new binary has   *)
(* proved healthy; until then the user can move it back.  It does not hold *)
(* for a release that fails after CleanupBackup.                           *)
BakUntilHealthy ==
  running = None /\ retries = 0 /\ ~Works(file["cur"]) => Works(file["bak"])
=============================================================================
