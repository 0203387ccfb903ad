-------------------------- MODULE SelfUpdateProofs --------------------------
(* Proofs about SelfUpdate, for any number of starts that procd grants. *)
EXTENDS SelfUpdate, TLAPS

(***************************************************************************)
(* What is next to be installed was verified (NewIsWhole), so neither the  *)
(* executable nor its backup is ever a partial file, or a damaged one when *)
(* checksums can be had (Sound).  A process that starts runs the           *)
(* executable as it is on disk, and no update is in progress (StartsClean):*)
(* that is why CleanupBackup may remove .bak.  In the middle of a swap the *)
(* only executable is .bak (InTheMiddle).                                  *)
(***************************************************************************)
Verified(b) == b # "partial" /\ (b = "corrupt" => unverified)

NewIsWhole ==
  /\ pc = "verify" => file["new"] # "partial"
  /\ pc \in {"backup", "install"} => Verified(file["new"])

Sound == Verified(file["cur"]) /\ Verified(file["bak"])

StartsClean ==
  /\ running = None => main = "starting"
  /\ main # "connected" => pc = "idle" /\ running \in {None, file["cur"]}

Trusted == releases = {"good"} /\ ~unverified

(* Of releases that work nothing else gets into the files. *)
OnlyGood ==
  Trusted => /\ \A f \in {"cur", "bak"} : Works(file[f]) \/ file[f] = None
             /\ file["new"] \in {"good", "corrupt", "partial", None}

InTheMiddle ==
  Trusted =>
    IF pc \in {"install", "undo"} THEN Works(file["bak"])
    ELSE Works(file["cur"]) \/ Works(file["bak"])

IInv == TypeOK /\ NewIsWhole /\ Sound /\ StartsClean /\ OnlyGood /\ InTheMiddle

LEMMA InitIInv == Init => IInv
<1> SUFFICES ASSUME Init PROVE IInv OBVIOUS
<1>1. Ranges BY SelfUpdateAssumption DEF Init, Ranges, Binary, Released
<1>2. Flags BY DEF Init, Flags
<1>3. NewIsWhole /\ Sound /\ StartsClean
  BY SelfUpdateAssumption
  DEF Init, NewIsWhole, Verified, Sound, StartsClean, Binary
<1>4. OnlyGood /\ InTheMiddle BY DEF Init, OnlyGood, InTheMiddle, Works
<1>5. QED BY <1>1, <1>2, <1>3, <1>4 DEF IInv, TypeOK

LEMMA RangesStep == ASSUME Ranges, [Next]_vars PROVE Ranges'
<1> USE SelfUpdateAssumption DEF Ranges, Step, Down, environment, vars, Rename, Remove, Binary, Released
<1>1. CASE Begin BY <1>1 DEF Begin
<1>2. CASE Open BY <1>2 DEF Open
<1>3. CASE Copy
  <2>1. releases \cup {"corrupt"} \subseteq Binary OBVIOUS
  <2>2. \A b \in releases \cup {"corrupt"} :
          [file EXCEPT !["new"] = b] \in [{"cur", "bak", "new"} -> Binary \cup {None}]
    BY <2>1
  <2>3. CASE Step("copy", "idle") /\ file' = Remove("new") BY <2>3
  <2>4. ASSUME NEW b \in releases \cup {"corrupt"}, Step("copy", "verify"),
               file' = [file EXCEPT !["new"] = b]
        PROVE Ranges'
    BY <2>1, <2>2, <2>4
  <2>5. QED BY <1>3, <2>3, <2>4 DEF Copy
<1>4. CASE Verify BY <1>4 DEF Verify
<1>5. CASE BackupCurrent BY <1>5 DEF BackupCurrent
<1>6. CASE InstallNew BY <1>6 DEF InstallNew
<1>7. CASE Undo BY <1>7 DEF Undo
<1>8. CASE Exit BY <1>8 DEF Exit
<1>9. CASE Respawn BY <1>9 DEF Respawn
<1>10. CASE Refuse BY <1>10 DEF Refuse
<1>11. CASE Perish BY <1>11 DEF Perish
<1>12. CASE CleanupBackup BY <1>12 DEF CleanupBackup
<1>13. CASE FailToStart BY <1>13 DEF FailToStart
<1>14. CASE Connect BY <1>14 DEF Connect
<1>15. CASE Crash BY <1>15 DEF Crash
<1>16. CASE UNCHANGED vars BY <1>16
<1>17. QED
  BY <1>1, <1>2, <1>3, <1>4, <1>5, <1>6, <1>7, <1>8, <1>9, <1>10, <1>11, <1>12, <1>13, <1>14, <1>15, <1>16
  DEF Next, Run, Process, Startup

LEMMA FlagsStep == ASSUME Flags, [Next]_vars PROVE Flags'
<1> USE DEF Next, Run, Process, Startup, Step, Down, environment, vars,
      Begin, Open, Copy, Verify, BackupCurrent, InstallNew, Undo, Exit, Respawn,
      Refuse, Perish, CleanupBackup, FailToStart, Connect, Crash
<1>1. UNCHANGED environment OBVIOUS
<1>2. timer' = timer \/ timer' = TRUE \/ timer' = FALSE OBVIOUS
<1>3. stale' = stale \/ stale' = FALSE \/ stale' = crowded OBVIOUS
<1>4. QED BY <1>1, <1>2, <1>3, Zenon DEF Flags

LEMMA WholeStep == ASSUME IInv, [Next]_vars PROVE NewIsWhole'
<1> USE SelfUpdateAssumption DEF IInv, TypeOK, Ranges, NewIsWhole, Verified, Step, Down, environment, vars, Rename, Remove, Binary, Released
<1>1. CASE Begin BY <1>1 DEF Begin
<1>2. CASE Open BY <1>2 DEF Open
<1>3. CASE Copy BY <1>3 DEF Copy
<1>4. CASE Verify BY <1>4 DEF Verify
<1>5. CASE BackupCurrent BY <1>5 DEF BackupCurrent
<1>6. CASE InstallNew BY <1>6 DEF InstallNew
<1>7. CASE Undo BY <1>7 DEF Undo
<1>8. CASE Exit BY <1>8 DEF Exit
<1>9. CASE Respawn BY <1>9 DEF Respawn
<1>10. CASE Refuse BY <1>10 DEF Refuse
<1>11. CASE Perish BY <1>11 DEF Perish
<1>12. CASE CleanupBackup BY <1>12 DEF CleanupBackup
<1>13. CASE FailToStart BY <1>13 DEF FailToStart
<1>14. CASE Connect BY <1>14 DEF Connect
<1>15. CASE Crash BY <1>15 DEF Crash
<1>16. CASE UNCHANGED vars BY <1>16
<1>17. QED
  BY <1>1, <1>2, <1>3, <1>4, <1>5, <1>6, <1>7, <1>8, <1>9, <1>10, <1>11, <1>12, <1>13, <1>14, <1>15, <1>16
  DEF Next, Run, Process, Startup

LEMMA SoundStep == ASSUME IInv, [Next]_vars PROVE Sound'
<1> USE SelfUpdateAssumption DEF IInv, TypeOK, Ranges, NewIsWhole, Sound, Verified, Step, Down, environment, vars, Rename, Remove, Binary, Released
<1>1. CASE Begin BY <1>1 DEF Begin
<1>2. CASE Open BY <1>2 DEF Open
<1>3. CASE Copy BY <1>3 DEF Copy
<1>4. CASE Verify BY <1>4 DEF Verify
<1>5. CASE BackupCurrent BY <1>5 DEF BackupCurrent
<1>6. CASE InstallNew BY <1>6 DEF InstallNew
<1>7. CASE Undo BY <1>7 DEF Undo
<1>8. CASE Exit BY <1>8 DEF Exit
<1>9. CASE Respawn BY <1>9 DEF Respawn
<1>10. CASE Refuse BY <1>10 DEF Refuse
<1>11. CASE Perish BY <1>11 DEF Perish
<1>12. CASE CleanupBackup BY <1>12 DEF CleanupBackup
<1>13. CASE FailToStart BY <1>13 DEF FailToStart
<1>14. CASE Connect BY <1>14 DEF Connect
<1>15. CASE Crash BY <1>15 DEF Crash
<1>16. CASE UNCHANGED vars BY <1>16
<1>17. QED
  BY <1>1, <1>2, <1>3, <1>4, <1>5, <1>6, <1>7, <1>8, <1>9, <1>10, <1>11, <1>12, <1>13, <1>14, <1>15, <1>16
  DEF Next, Run, Process, Startup

LEMMA CleanStep == ASSUME IInv, [Next]_vars PROVE StartsClean'
<1> USE SelfUpdateAssumption DEF IInv, TypeOK, Ranges, StartsClean, Step, Down, environment, vars, Rename, Remove, Binary, Works
<1>1. CASE Begin BY <1>1 DEF Begin
<1>2. CASE Open BY <1>2 DEF Open
<1>3. CASE Copy BY <1>3 DEF Copy
<1>4. CASE Verify BY <1>4 DEF Verify
<1>5. CASE BackupCurrent BY <1>5 DEF BackupCurrent
<1>6. CASE InstallNew BY <1>6 DEF InstallNew
<1>7. CASE Undo BY <1>7 DEF Undo
<1>8. CASE Exit BY <1>8 DEF Exit
<1>9. CASE Respawn BY <1>9 DEF Respawn
<1>10. CASE Refuse BY <1>10 DEF Refuse
<1>11. CASE Perish BY <1>11 DEF Perish
<1>12. CASE CleanupBackup BY <1>12 DEF CleanupBackup
<1>13. CASE FailToStart BY <1>13 DEF FailToStart
<1>14. CASE Connect BY <1>14 DEF Connect
<1>15. CASE Crash BY <1>15 DEF Crash
<1>16. CASE UNCHANGED vars BY <1>16
<1>17. QED
  BY <1>1, <1>2, <1>3, <1>4, <1>5, <1>6, <1>7, <1>8, <1>9, <1>10, <1>11, <1>12, <1>13, <1>14, <1>15, <1>16
  DEF Next, Run, Process, Startup

LEMMA GoodStep == ASSUME IInv, [Next]_vars PROVE OnlyGood'
<1> USE SelfUpdateAssumption DEF IInv, TypeOK, Ranges, NewIsWhole, Verified, OnlyGood, Trusted, Works, Step, Down, environment, vars, Rename, Remove, Binary, Released
<1>1. CASE Begin BY <1>1 DEF Begin
<1>2. CASE Open BY <1>2 DEF Open
<1>3. CASE Copy BY <1>3 DEF Copy
<1>4. CASE Verify BY <1>4 DEF Verify
<1>5. CASE BackupCurrent BY <1>5 DEF BackupCurrent
<1>6. CASE InstallNew BY <1>6 DEF InstallNew
<1>7. CASE Undo BY <1>7 DEF Undo
<1>8. CASE Exit BY <1>8 DEF Exit
<1>9. CASE Respawn BY <1>9 DEF Respawn
<1>10. CASE Refuse BY <1>10 DEF Refuse
<1>11. CASE Perish BY <1>11 DEF Perish
<1>12. CASE CleanupBackup BY <1>12 DEF CleanupBackup
<1>13. CASE FailToStart BY <1>13 DEF FailToStart
<1>14. CASE Connect BY <1>14 DEF Connect
<1>15. CASE Crash BY <1>15 DEF Crash
<1>16. CASE UNCHANGED vars BY <1>16
<1>17. QED
  BY <1>1, <1>2, <1>3, <1>4, <1>5, <1>6, <1>7, <1>8, <1>9, <1>10, <1>11, <1>12, <1>13, <1>14, <1>15, <1>16
  DEF Next, Run, Process, Startup

LEMMA MiddleStep == ASSUME IInv, [Next]_vars PROVE InTheMiddle'
<1> USE SelfUpdateAssumption DEF IInv, TypeOK, Ranges, NewIsWhole, Verified, StartsClean, OnlyGood, InTheMiddle, Trusted, Works, Step, Down, environment, vars, Rename, Remove, Binary, Released
<1>1. CASE Begin BY <1>1 DEF Begin
<1>2. CASE Open BY <1>2 DEF Open
<1>3. CASE Copy BY <1>3 DEF Copy
<1>4. CASE Verify BY <1>4 DEF Verify
<1>5. CASE BackupCurrent BY <1>5 DEF BackupCurrent
<1>6. CASE InstallNew BY <1>6 DEF InstallNew
<1>7. CASE Undo BY <1>7 DEF Undo
<1>8. CASE Exit BY <1>8 DEF Exit
<1>9. CASE Respawn BY <1>9 DEF Respawn
<1>10. CASE Refuse BY <1>10 DEF Refuse
<1>11. CASE Perish BY <1>11 DEF Perish
<1>12. CASE CleanupBackup BY <1>12 DEF CleanupBackup
<1>13. CASE FailToStart BY <1>13 DEF FailToStart
<1>14. CASE Connect BY <1>14 DEF Connect
<1>15. CASE Crash BY <1>15 DEF Crash
<1>16. CASE UNCHANGED vars BY <1>16
<1>17. QED
  BY <1>1, <1>2, <1>3, <1>4, <1>5, <1>6, <1>7, <1>8, <1>9, <1>10, <1>11, <1>12, <1>13, <1>14, <1>15, <1>16
  DEF Next, Run, Process, Startup

LEMMA IInvStep == ASSUME IInv, [Next]_vars PROVE IInv'
<1>1. TypeOK' BY RangesStep, FlagsStep DEF IInv, TypeOK
<1>2. QED
  BY <1>1, WholeStep, SoundStep, CleanStep, GoodStep, MiddleStep DEF IInv

LEMMA IInvHolds == Spec => []IInv
<1>1. QED BY InitIInv, IInvStep, PTL DEF Spec

(* Type correctness, whatever releases hold and however often the process  *)
(* is ended and started.                                                   *)
THEOREM TypeCorrect == Spec => []TypeOK
<1>1. IInv => TypeOK BY DEF IInv
<1>2. QED BY <1>1, IInvHolds, PTL

(* selfupdate.Run never leaves a partial file as the executable, nor one   *)
(* whose checksum was known not to match, wherever it is interrupted and   *)
(* whatever an interrupted update left behind.                             *)
THEOREM InstallsWhole == Spec => []NothingTornInstalled
<1>1. IInv => NothingTornInstalled
  BY DEF IInv, Sound, Verified, NothingTornInstalled
<1>2. QED BY <1>1, IInvHolds, PTL

(* selfupdate.Run and CleanupBackup together never lose the last binary    *)
(* that works, if releases do: CleanupBackup removes .bak only in a process *)
(* that runs the executable as it is on disk.                              *)
THEOREM Survives == Spec => []SurvivorExists
<1>1. IInv => SurvivorExists
  BY DEF IInv, InTheMiddle, Trusted, SurvivorExists
<1>2. QED BY <1>1, IInvHolds, PTL
=============================================================================
