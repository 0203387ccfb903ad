---------------------------- MODULE ConfigBackup ----------------------------
(***************************************************************************)
(* The operations of service.Runner that move podkop's config, its backups *)
(* and the installed package: BackupConfig, RestoreConfig, RunDowngrade,   *)
(* RunUpdate and DeleteBackup.  The busy guard (HeavyOps) admits one       *)
(* restore, rollback or update at a time, run here by the process Heavy;   *)
(* the backup and delete buttons take no guard, so backups (Manual) and    *)
(* deletions interleave with it step by step.  The package manager and     *)
(* install.sh are external: they change the installed version, and         *)
(* install.sh may rewrite the config.                                      *)
(***************************************************************************)
EXTENDS BackupStore

CONSTANTS Manual,    \* goroutines handling the backup button
          Heavy,     \* the goroutine that owns the busy guard
          Versions,  \* podkop versions
          Configs,   \* contents of the config file
          None,      \* no value
          Torn,      \* content of a file truncated or half overwritten
          Settings   \* values of backup_keep, how many to retain and 0 for
                     \* all, each with or without meddling and with a bound:
                     \* the seconds that pass

ASSUME ConfigBackupAssumption ==
  /\ Versions \subseteq Nat
  /\ Settings \subseteq [keep : Nat, meddling : BOOLEAN, seconds : Nat]
  /\ Heavy \notin Manual /\ Torn \notin Configs

Procs == Manual \cup {Heavy}
Ids == [ver : Versions, stamp : Nat]
Contents == Configs \cup {Torn}
Backups == [ver : Versions, stamp : Nat, data : Contents]

VARIABLES
  config,    \* content of the live config
  version,   \* installed podkop version
  backups,   \* the backup files
  clock,     \* wall clock, in seconds
  pc,        \* what each goroutine does next
  name,      \* the name of the backup it takes
  text,      \* what it read and is going to write
  tmp,       \* the temporary files, each named after the backup it is to be
  file,      \* what has become of the one it opened: "tmp", or a "backup" by
             \* another's rename, or "none"
  doomed,    \* ids its prune has listed for removal and not yet removed
  op,        \* the operation Heavy performs
  goal,      \* version Heavy is to install
  id,        \* backup Heavy is to restore
  promised,  \* when Heavy's operation began, a backup for it existed
  saved,     \* history: the backup of the live config that operation takes did
             \* not fail, and since then no two fell into one second
  keep,      \* environment: backup_keep
  meddling,  \* environment: the delete button is used, and the config is
             \* edited, while operations run
  seconds    \* bound: the time at which the clock stops

heavyVars == <<op, goal, id, promised, saved>>
environment == <<keep, meddling, seconds>>
copies == <<name, text, tmp, file>>
vars == <<config, version, backups, clock, pc, doomed, copies, heavyVars,
          environment>>

TypeOK ==
  /\ config \in Contents /\ version \in Versions
  /\ backups \in SUBSET Backups
  /\ clock \in Nat
  /\ pc \in [Procs -> {"idle", "backup", "stamp", "read", "open", "write", "rename",
                       "list", "prune", "fetch", "lookup", "restore", "overwrite",
                       "install"}]
  /\ name \in [Procs -> Ids \cup {None}]
  /\ text \in [Procs -> Contents \cup {None}]
  /\ tmp \in SUBSET Backups
  /\ file \in [Procs -> {"none", "tmp", "backup"}]
  /\ doomed \in [Procs -> SUBSET Ids]
  /\ op \in {"restore", "rollback", "update", None}
  /\ goal \in Versions \cup {None}
  /\ id \in Ids \cup {None}
  /\ promised \in BOOLEAN
  /\ saved \in BOOLEAN
  /\ [keep |-> keep, meddling |-> meddling, seconds |-> seconds] \in Settings

Init ==
  /\ config \in Configs /\ version \in Versions
  /\ backups = {}
  /\ clock = 0
  /\ pc = [p \in Procs |-> "idle"]
  /\ doomed = [p \in Procs |-> {}]
  /\ name = [p \in Procs |-> None] /\ text = [p \in Procs |-> None]
  /\ tmp = {} /\ file = [p \in Procs |-> "none"]
  /\ op = None /\ goal = None /\ id = None
  /\ promised = FALSE /\ saved = FALSE
  /\ \E s \in Settings : keep = s.keep /\ meddling = s.meddling /\ seconds = s.seconds

-----------------------------------------------------------------------------

Go(p, step) == pc' = [pc EXCEPT ![p] = step]

Begin(p, step) ==
  /\ pc[p] = "idle" /\ Go(p, step)
  /\ UNCHANGED <<config, version, backups, clock, doomed, copies, environment>>

(* onBackup *)
BeginBackup(p) == Begin(p, "backup") /\ UNCHANGED heavyVars

(* RestoreConfig, of a backup the user picked from the list *)
BeginRestore(b) ==
  /\ Begin(Heavy, "backup")
  /\ op' = "restore" /\ id' = IdOf(b) /\ promised' = TRUE
  /\ UNCHANGED <<goal, saved>>

(* RunDowngrade; the prompt said whether a config would be restored *)
BeginRollback(v) ==
  /\ Begin(Heavy, "backup")
  /\ v # version
  /\ op' = "rollback" /\ goal' = v /\ promised' = HasVersion(backups, v)
  /\ UNCHANGED <<id, saved>>

(* RunUpdate *)
BeginUpdate(v) ==
  /\ Begin(Heavy, "install")
  /\ op' = "update" /\ goal' = v
  /\ UNCHANGED <<id, promised, saved>>

(* Heavy's operation returns, but for the restart of podkop and the DNS     *)
(* check, and its variables are gone.                                       *)
Return ==
  /\ Go(Heavy, "idle")
  /\ op' = None /\ goal' = None /\ id' = None
  /\ promised' = FALSE /\ saved' = FALSE

(* Where a goroutine goes once it is done with backing up and pruning. *)
Onward(p) == IF p # Heavy THEN "idle"
             ELSE IF op = "restore" THEN "restore" ELSE "fetch"

(* BackupConfig and RunDowngrade read the installed version, Store.Backup   *)
(* then the clock; the stamp is 0 until then.                               *)
ReadVersion(p) ==
  /\ pc[p] = "backup" /\ Go(p, "stamp")
  /\ name' = [name EXCEPT ![p] = [ver |-> version, stamp |-> 0]]
  /\ UNCHANGED <<config, version, backups, clock, doomed, text, tmp, file,
                 heavyVars, environment>>

(* Another backup has the current second in its name. *)
Copying(p) == pc[p] \in {"read", "open", "write", "rename"}
SecondIsTaken(p) ==
  \/ \E b \in backups : b.stamp = clock
  \/ \E q \in Procs \ {p} : Copying(q) /\ name[q].stamp = clock

Stamp(p) ==
  /\ pc[p] = "stamp" /\ Go(p, "read")
  /\ name' = [name EXCEPT ![p].stamp = clock]
  /\ saved' = (~SecondIsTaken(p) /\ (p = Heavy \/ saved))
  /\ UNCHANGED <<config, version, backups, clock, doomed, text, tmp, file, op, goal,
                 id, promised, environment>>

(* copyFile reads the config, truncates or creates the temporary file, which *)
(* it shares with a backup of the same name, writes to it and renames it.    *)
ReadConfig(p) ==
  /\ pc[p] = "read" /\ Go(p, "open")
  /\ text' = [text EXCEPT ![p] = config]
  /\ UNCHANGED <<config, version, backups, clock, doomed, name, tmp, file,
                 heavyVars, environment>>

OpenTmp(p) ==
  /\ pc[p] = "open" /\ Go(p, "write")
  /\ tmp' = Put(tmp, name[p], Torn)
  /\ file' = [file EXCEPT ![p] = "tmp"]
  /\ UNCHANGED <<config, version, backups, clock, doomed, name, text, heavyVars,
                 environment>>

(* Over another text, which may have been longer, it may leave neither.      *)
WriteTmp(p) ==
  /\ pc[p] = "write" /\ Go(p, "rename")
  /\ \E d \in {text[p], Torn} :
       /\ d = Torn => \E b \in tmp \cup backups :
                         IdOf(b) = name[p] /\ b.data \notin {Torn, text[p]}
       /\ tmp' = IF file[p] = "tmp" THEN Fill(tmp, name[p], d) ELSE tmp
       /\ backups' = IF file[p] = "backup" THEN Fill(backups, name[p], d) ELSE backups
  /\ text' = [text EXCEPT ![p] = None]
  /\ UNCHANGED <<config, version, clock, doomed, name, file, heavyVars,
                 environment>>

RenameTmp(p) ==
  /\ pc[p] = "rename" /\ Go(p, "list")
  /\ HasId(tmp, name[p])
  /\ backups' = Put(backups, name[p], Named(tmp, name[p]).data)
  /\ tmp' = Delete(tmp, name[p])
  /\ file' = [q \in Procs |->
                IF q # p /\ name[q] = name[p] /\ file[q] = "tmp" THEN "backup"
                ELSE IF name[q] = name[p] THEN "none" ELSE file[q]]
  /\ name' = [name EXCEPT ![p] = None]
  /\ UNCHANGED <<config, version, clock, doomed, text, heavyVars, environment>>

(* A copy that fails, be it because the temporary file was renamed by        *)
(* another, is logged; a restore or a rollback goes on without it, and does  *)
(* not prune.  What it leaves is no backup, and truncated by the next one.   *)
BackupFails(p) ==
  /\ Copying(p) /\ Go(p, Onward(p))
  /\ tmp' = IF \E q \in Procs \ {p} : file[q] = "tmp" /\ name[q] = name[p]
              THEN tmp ELSE Delete(tmp, name[p])
  /\ name' = [name EXCEPT ![p] = None]
  /\ text' = [text EXCEPT ![p] = None]
  /\ file' = [file EXCEPT ![p] = "none"]
  /\ saved' = (p # Heavy /\ saved)
  /\ UNCHANGED <<config, version, backups, clock, doomed, op, goal, id, promised,
                 environment>>

(* pruneBackups: Store.Prune lists the directory, then removes the files    *)
(* beyond the limit one by one, newest first; one already gone is skipped.  *)
ListExcess(p) ==
  /\ pc[p] = "list"
  /\ doomed' = [doomed EXCEPT ![p] = {IdOf(b) : b \in Excess(backups, keep)}]
  /\ Go(p, "prune")
  /\ UNCHANGED <<config, version, backups, clock, copies, heavyVars, environment>>

PruneOne(p, i) ==
  /\ pc[p] = "prune"
  /\ \A k \in doomed[p] : k = i \/ Before(i, k)
  /\ backups' = Delete(backups, i)
  /\ doomed' = [doomed EXCEPT ![p] = @ \ {i}]
  /\ UNCHANGED <<config, version, clock, pc, copies, heavyVars, environment>>

PruneDone(p) ==
  /\ pc[p] = "prune" /\ doomed[p] = {}
  /\ Go(p, Onward(p))
  /\ UNCHANGED <<config, version, backups, clock, doomed, copies, heavyVars,
                 environment>>

(* AssetURLsForTag and downloadTo: the packages arrive, or the rollback     *)
(* ends with an error.                                                      *)
Fetch ==
  /\ pc[Heavy] = "fetch"
  /\ \/ Go(Heavy, "lookup") /\ UNCHANGED heavyVars
     \/ Return
  /\ UNCHANGED <<config, version, backups, clock, doomed, copies, environment>>

(* LatestIDForVersion(target) *)
Lookup_Entry ==   \* mutant: the entry is taken for its ID
  /\ pc[Heavy] = "lookup"
  /\ IF HasVersion(backups, goal)
       THEN id' = LatestForVersion(backups, goal) /\ Go(Heavy, "restore")
       ELSE id' = None /\ Go(Heavy, "install")
  /\ UNCHANGED <<config, version, backups, clock, doomed, copies, op, goal, promised,
                 saved, environment>>
Lookup ==
  /\ pc[Heavy] = "lookup"
  /\ IF HasVersion(backups, goal)
       THEN id' = IdOf(LatestForVersion(backups, goal)) /\ Go(Heavy, "restore")
       ELSE id' = None /\ Go(Heavy, "install")
  /\ UNCHANGED <<config, version, backups, clock, doomed, copies, op, goal, promised,
                 saved, environment>>

(* Store.RestoreID: the backup is read and copied over the live config; a   *)
(* file that is gone, or a failing copy, ends a restore and is only logged  *)
(* by a rollback.                                                           *)
Restored == IF op = "rollback" THEN Go(Heavy, "install") /\ UNCHANGED heavyVars
                               ELSE Return

ReadChosen ==
  /\ pc[Heavy] = "restore"
  /\ \/ /\ HasId(backups, id) /\ Go(Heavy, "overwrite")
        /\ text' = [text EXCEPT ![Heavy] = Named(backups, id).data]
        /\ UNCHANGED heavyVars
     \/ Restored /\ UNCHANGED text
  /\ UNCHANGED <<config, version, backups, clock, doomed, name, tmp, file, environment>>

Overwrite ==
  /\ pc[Heavy] = "overwrite" /\ Restored
  /\ config' \in {config, text[Heavy]}
  /\ text' = [text EXCEPT ![Heavy] = None]
  /\ UNCHANGED <<version, backups, clock, doomed, name, tmp, file, environment>>

(* installPackages (rollback) or install.sh (update); a failure may strike  *)
(* before or after the version changed, and only install.sh touches the     *)
(* config.                                                                  *)
Install ==
  /\ pc[Heavy] = "install" /\ Return
  /\ version' \in {version, goal}
  /\ IF op = "update" THEN config' \in Configs ELSE config' = config
  /\ UNCHANGED <<backups, clock, doomed, copies, environment>>

(* onDeleteConfirm: no guard, at any time *)
UserDelete(b) ==
  /\ meddling
  /\ backups' = Delete(backups, IdOf(b))
  /\ UNCHANGED <<config, version, clock, pc, doomed, copies, heavyVars,
                 environment>>

(* The router's owner edits podkop's config (LuCI, ssh). *)
Edit ==
  /\ meddling \/ pc[Heavy] = "idle"
  /\ config' \in Configs \ {config}
  /\ UNCHANGED <<version, backups, clock, pc, doomed, copies, heavyVars,
                 environment>>

Tick ==
  /\ clock < seconds /\ clock' = clock + 1
  /\ UNCHANGED <<config, version, backups, pc, doomed, copies, heavyVars,
                 environment>>

BackupStep(p) ==
  \/ ReadVersion(p) \/ Stamp(p) \/ ReadConfig(p)
  \/ OpenTmp(p) \/ WriteTmp(p) \/ RenameTmp(p) \/ BackupFails(p)
  \/ ListExcess(p)
  \/ (\E i \in doomed[p] : PruneOne(p, i))
  \/ PruneDone(p)

Next ==
  \/ \E p \in Manual : BeginBackup(p)
  \/ \E b \in backups : BeginRestore(b) \/ UserDelete(b)
  \/ \E v \in Versions : BeginRollback(v) \/ BeginUpdate(v)
  \/ \E p \in Procs : BackupStep(p)
  \/ Fetch \/ Lookup \/ ReadChosen \/ Overwrite \/ Install
  \/ Edit \/ Tick

Spec == Init /\ [][Next]_vars

-----------------------------------------------------------------------------

(* The retention limit holds whenever no operation is between its backup   *)
(* and the end of its prune, however those of several goroutines, failing   *)
(* copies and the delete button overlap.                                    *)
Retention ==
  (keep > 0 /\ \A p \in Procs : pc[p] \notin {"list", "prune"})
    => Cardinality(backups) <= keep

(* Overlapping prunes, each working from its own listing, never remove more *)
(* than the excess: once `keep' backups exist there are as many from then   *)
(* on, unless the user deletes some.                                        *)
PruneLeavesKeep ==
  [][~meddling /\ Cardinality(backups) >= keep => Cardinality(backups') >= keep]_backups

(* A config that a restore or a rollback overwrites can be found among the  *)
(* backups at that moment: neither operation, nor a backup taken meanwhile, *)
(* pushed it out.  This needs seconds that are not shared: two backups of   *)
(* one version and second have one name and one temporary file, and of two  *)
(* versions in one second the newer one may be pruned first.                *)
OverwriteIsRecoverable ==
  [][~meddling /\ Overwrite /\ config' # config /\ saved =>
       \E b \in backups : b.data = config]_vars

(* backup.go:111-112 asks to confirm restoring a backup that exists; the    *)
(* restore finds it.                                                        *)
RestoreFindsChosen ==
  pc[Heavy] = "restore" /\ op = "restore" /\ ~meddling
    => HasId(backups, id)

(* rollback.go:182: a rollback prompted with "the config will be restored   *)
(* from the backup" has a backup of its target to restore.  Under a limit   *)
(* neither of these two holds: the backup each operation takes first may    *)
(* push out the one that was chosen or promised.                            *)
RollbackKeepsPromise ==
  pc[Heavy] = "lookup" /\ promised /\ ~meddling => HasVersion(backups, goal)

(* Without a limit both promises hold.                                      *)
UnlimitedKeepsPromises == keep = 0 => RestoreFindsChosen /\ RollbackKeepsPromise
=============================================================================
