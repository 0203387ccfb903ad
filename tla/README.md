# podkop_updater in TLA+

podkop_updater is a daemon for OpenWrt routers. It watches the releases of
podkop, a proxy service, and of itself, and lets a Telegram chat update, roll
back, restart, back up and restore podkop. These modules model what it does with
state: concurrent handlers, a process that kills and replaces itself, a network
that breaks in the middle of the messages that report it.

File names below are relative to `go/` of the repository; `handlers.go`,
`state.go`, `bot.go`, `menu.go`, `settings.go`, `watchdog.go`, `rollback.go`,
`backup.go` and `status.go` are those of `internal/telegram`.

Contents: 1 the system, 2 the plan, 3 the modules, 4 the runs, 5 the proofs,
6 where the code falls short of its texts, 7 what is not modelled.

## 1. The system

### Goroutines

| goroutine | what it does | source |
|---|---|---|
| long poll | receives updates, starts **one goroutine per update** | bot.go `Start`, the go-telegram library |
| handlers | one per update: clicks, commands, texts | handlers.go, menu.go, rollback.go, backup.go, settings.go |
| periodicCheck | on a timer: refreshes the known releases, notifies or installs | bot.go |
| transportWatch | every 30 s: samples the path to Telegram, alerts the chat | watchdog.go |
| runStickyReset | every 10 min: nudges the transport back to its first tier | cmd/podkop_updater/main.go |
| runEmergencyIPRefresh | once a day: rediscovers addresses of Telegram | cmd/podkop_updater/main.go |
| exit timer | three seconds after a self-update: `os.Exit` | service/service.go |

Shared by them: `botState` and `botSettings` (a mutex each), the
`TieredTransport` (a mutex, and one more in the pinned tier), UCI, the files of
the router. No lock is held across a network call, a program or a write to UCI,
so what was read before one may be stale after it. Outside the process: procd,
which restarts the daemon up to its limit, child processes, which may outlive the
daemon, the network, Telegram, GitHub, and the owner of the router.

### Components

| component | state | operations | what is hard | what makes it correct |
|---|---|---|---|---|
| **Heavy operations**: restart, update, rollback, restore, self-update | `busy`; child processes; the exit timer | tryBusy, the program(s), DNS poll, result, clearBusy | several goroutines at one guard; children that survive the daemon; an exit that fires later | programs as root do not overlap; the guard covers a program and is always released |
| **Config backups** | backup files named by version and second; the live config | backup, prune, delete, restore, lookups | backups by button run without the guard; each prune works from its own listing; names, and temporary files, collide within a second | the limit holds; nothing needed is pruned; what is overwritten can be found |
| **Tiered transport** | sticky index, health flag, time of the last success | round trip, nudge, address swap | the index is read before and written after attempts of several clients; one deadline for all attempts of a request, which a tier that hangs uses up | fail only after every tier; health is that of the last success |
| **Watchdog** | two episodes and whether the alert was delivered | probe, alerts | its messages travel over what they report on | no false outage; the chat's picture settles to the truth |
| **Pinned dialer** | addresses, health of each | sort, dial, record, swap | records and swaps under a dial that walks a copy | a live address is found; good ones come first |
| **Self-update** | executable, `.bak`, `.new`; exit timer | download, verify, two renames, undo, exit, cleanup | kills between any two steps; leftovers of an earlier attempt; starts that fail | never install half a file; something that works survives; a swap takes effect |
| **Instance lock** | pid file | read, check, write, remove | stale pids, pids given out again | one daemon runs |
| **Menu** | tracked message, saved id, staged targets, the chat | clicks, commands, edits, notifications, restart | any old message can be clicked; edits fail; handlers overlap in steps | a menu remains, current prompts, no dead screens |
| **Periodic check** | cached releases | refreshes, compare, notify, auto-update | every refresh moves what the check compares with; messages that get lost | releases are shown, once, and installed if so configured |
| **Settings** | memory, UCI, runner, timer, awaited text | setters, prompt, interval signal | copies written after the lock; a channel of one | copies agree; intervals take effect |
| **Address refresh** | the pinned set, its copy in UCI | discover, filter, merge, swap, save | the timer and a button overlap; restarts between swap and save; resolvers that lie | no stranger is pinned; memory and UCI agree; the path heals |
| **Logger** | the log file, a temporary one | append, count, copy the tail, rename | install.sh and a second daemon write to the same file; kills between steps | rotation takes only the oldest lines |
| **Versions** | none | compare, list for a rollback | the order of segments; a version nobody reports | a total order; nothing unsupported offered |
| DNS checks, texts, packaging | | | | see section 7 |

They meet as follows. A handler or periodicCheck takes the guard (Heavy
operations) and calls the runner, which backs up and prunes (Config backups),
swaps the executable (Self-update) or runs root programs. Every message goes
through the transport, whose last tier is the pinned dialer. The exit of a
self-update ends all of it, and the next start begins with the instance lock,
the cleanup of the swap and the saved menu id.

`PROJECT.json` lists every hazard found in this code, at its line, with the
properties that watch it.

## 2. The plan

Order of work, the most important behaviour first:

1. `RootJobs` (abstract promise), `HeavyOps` that implements it, `HeavyOpsProofs`. *Done.*
2. `BackupStore` (operators) and `ConfigBackup` over it, with proofs. *Done.*
3. `TieredTransport`, its proofs, and `Watchdog`, which composes with it and is
   proved to implement it. *Done.*
4. `PinnedDialer`, and `AddressRefresh` over it, with proofs of both. *Done.*
5. `SelfUpdate` and `InstanceLock` with proofs; the exit that leaves the pid file
   behind is in both. `LogRotation` over `InstanceLock`, proved to implement it and
   to keep the newest lines. *Done.*
6. `Menu` and `Settings` down to flash, with proofs; `Versions` with proofs and
   `PeriodicCheck` over it. *Done, with proofs.*
7. Handlers that overlap: the properties of `Menu` and `Settings` that survive it
   (`MenuRemains`, `AwaitsWhatWasAsked`), with proofs for any number of handlers. *Done.*
8. Abstract promises of `Menu`, `Settings` and `PeriodicCheck`, and their refinement.

## 3. The modules

Common to all of them:

* A goroutine is one element of a set of CONSTANTS. An action is what a goroutine
  does between two points where others may run: a section under a mutex, one
  system call, one message, one program.
* Where a handler is a long sequence (`Menu`, `PeriodicCheck`, `Settings`), it is
  a *todo list*: the action that starts it (`Click...`, `Heavy`, `Choose`, ...)
  writes down the calls the handler makes, in the order of the code, and one
  action per kind of call takes them off the list.
* A variable marked *history* records what happened for a property to speak of;
  no guard reads it, except where the code offers a button only after showing it.
* A variable marked *environment* is chosen in the initial state and never
  changes: how the router is configured and what may go wrong. One run then
  checks every environment, and a property that holds in some of them says which
  in its antecedent. Every antecedent is met by some initial state.
* A definition whose name ends in `_Something`, marked *mutant*, is a plausible
  bug. It is used only to see that the property it stands for can fail.

### RootJobs, HeavyOps

`RootJobs` states what the guard promises (state.go:44-46): root programs started
by one life of the daemon do not overlap. `HeavyOps` is the code: `Begin` is
beginHeavy, the text command's and the auto-updates' tryBusy; `GiveUp` the early
returns; `StartJob`, `JobEnds` the programs (rollback runs two: packages, then a
restart); `Swapped` a self-update that armed the exit; `Finish` the result and the
deferred clearBusy; `Exit`, `Stop`, `Respawn` the process. A child belongs to the
life that started it and goes on after it (`OrphanEnds`). `MaxRuns` bounds the
lives, `Handlers` the goroutines.

### BackupStore, ConfigBackup

`BackupStore` is package cfgbackup as operators on a set of backups: `Put` and
`Fill` are what the rename and the writes of copyFile do to files, `Before` is the
order of List, `Excess` what Prune removes. `ConfigBackup` performs the runner's
operations with them, step by step: one goroutine under the guard (`Heavy`: restore,
rollback, update) and others that back up by button without it (`Manual`). A backup is
the reading of the installed version, of the clock, of the config, and the writing
of a temporary file that is renamed (`ReadVersion`, `Stamp`, `ReadConfig`, `OpenTmp`,
`WriteTmp`, `RenameTmp`); two of one version and second share the temporary file, which
a second writer truncates or finds gone. `Torn` stands for a text that is
neither writer's. A copy may fail at any step (`BackupFails`), that of a restore too
(`ReadChosen`, `Overwrite`). `ListExcess` and `PruneOne` are separate, since a prune
lists first and then removes file by file. `Versions` and `Configs` are what can be told
apart. Environment (`Settings`): `keep` (backup_keep), `meddling` (the delete button
is used and the config edited while operations run) and the bound `seconds`, the time
at which the clock stops; any number of steps may fall into one second.

### TieredTransport, Watchdog

A round trip is `Send` (reads the index), then an attempt per step, `Succeed` or
`Fail`, and a last `Fail` that gives up (`GiveUpAt`). `ResetSticky` is the nudge,
`GrowStale` the passing of 100 s without success, `Toggle` the network. A tier that
does not answer (not in `reachable`) refuses, or hangs (`hanging`): all attempts of a
request run under one context (75 s of the client, main.go:129-132; 15 s of the probe,
watchdog.go:90), so an attempt that hangs lasts until the deadline and makes the
request `late`: the calls that follow fail at once, also those of a tier that works.
`Watchdog` extends it: the loop of transportWatch is one more client, whose probe and
alerts are `Send`s, so that an alert moves the health it reports. Environment:
`solid`, the tiers that never break, `hangs`, whether those that break may hang, and
`rejects`, whether Telegram may answer with an error.

### PinnedDialer, AddressRefresh

`Dial` copies and sorts the set by recorded health, `Connect` and `Skip` walk it
and `mark` each outcome. The records are a sequence in the order of their times,
which is all that the times decide: `Before` puts the healthy addresses first,
latest success first, then those without a record in the order of the set, then the
failed ones, stalest first, and a dial walks the one sequence of its set that
has this order (`Orders`). `setIPs` swaps the set and prunes the records. `Die` and
`Revive` are the network.

`AddressRefresh` adds who calls setIPs: `Begin`, `Discover` or `DiscoverNone`,
`Apply`, `Save` are refreshEmergencyIPsOnce, for the timer and for handlers of the
settings button. `Usable` is the filter of Discover, applied to any set of
addresses that resolvers might name, `mergeIPs` the union with the compiled-in
ones. `Restart` comes between any two steps and takes the set from UCI. A write to
UCI may fail. `scenario` says who is at work, which addresses may ever answer, and
what the owner wrote to UCI before. `MaxRestarts` bounds the restarts.

### SelfUpdate

Files `cur`, `bak`, `new` with the binary each holds, one action per file
operation of selfupdate.Run, the exit timer, kills at any step (`Crash`), procd
with a limited number of starts (`Respawn`, `Retries`), and runDaemon up to its
first contact with Telegram (`CleanupBackup`, `Connect`). A rename may fail, the
rename back too, and so may a start: `FailToStart` is runDaemon's return of 1 when the
config cannot be loaded or one of the two getMe of telegram.New and Bot.Start fails
(environment `troubled`). Environment: what a release may hold, whether a checksum may
be missing, and `calm`: no kills, and no second update while the timer runs.

The exit of a self-update leaves the pid file behind, as a kill does. `stale` says
that another program got that pid, and `Refuse` is the start that takes it for
another instance (environment `crowded`).

### InstanceLock, LogRotation

acquireLock and releaseLock in their steps, for processes named by pid. Other
programs get pids too, so a stale pid may name a live process. `Overlap` says
whether a daemon may start while another one is starting.

`LogRotation` gives these processes the log. Files are inodes with names: `Open`
finds the inode that has the name, `AppendLine` writes to it, `Scan` counts, `OpenTmp`
and `CopyTail` write the temporary file (a new inode, or the one a killed daemon
left behind), `Rename` moves it over the log. install.sh
(`RunScript`, `ScriptPrints`, `ScriptEnds`) has a descriptor of its own and may outlive
the daemon. Lines are numbered as they are written. A refused daemon logs one
line on its way out. `MaxWritten` bounds the lines written.

### Menu

`shown` is the chat: for every message what its buttons do. `tracked`, `saved`
and `staged` are botState and the saved id. `Click...`, `TextCommand`,
`PeriodicNotify`, `PeriodicUpdate` and `Restart` write todo lists; `Do...` take
steps off them. Screens are told apart only by what can be done with them. The
library starts a goroutine per update, so one may arrive while another is handled.
Environment (`Scenarios`): `textCommands`, `failing`, and `overlapping`: whether an
update, or the periodic check, begins while a handler is at work; `updates` bounds how
many do. The properties that fail when handlers overlap say `~overlapping` in their
antecedent, and section 6 says how they fail. MCMenu adds the symmetry over messages
and targets; it is sound since the run checks invariants only.

### Versions, PeriodicCheck

`Versions` is the order of versions (`IsNewer`, three segments), the lists of a
rollback (`Supported`, `BackedUp`, `NewestFirst`) and the candidates of
PreviousRelease, which nothing calls.

`PeriodicCheck` has for both products what is published, installed and cached;
refreshPodkop and refreshSelf as fetch, compare, store; the decision of
periodicCheck with the snapshot it took before; checks of one product and the
button that refreshes both; updates, rollbacks and restarts. A message that shows
releases shows those cached by then (`Shows`: one product or, for a dashboard, both),
or is not sent (`NotSent`), which the code logs.
Releases are named by `Tags`, some with a segment that is larger and a later one
that is smaller. While a package is being replaced (`Replace`, then `Install` or
`NotInstalled`) podkop reports no version, which is compared as 0.0.0. `scenario` is
the environment: which products are released and auto-updated, what the user
does, whether releases appear during startup, whether requests and installs fail,
whether messages may be lost, bounds on releases and crashes. MCPeriodicCheck names
twelve.

### Settings

`mem`, `uci`, `flash`, `runner` for six options, the channel of one (`signal`), the
timer, and the awaited text. Setters change memory, then `Save` (uci set) and
`Commit` (uci commit), then push or signal. `Restart` is a kill, after which what is
staged is still there, or a reboot, after which it is not. `scenario`: which
handlers are at work, on what, and how the daemon ends; `asked` remembers the prompt
opened last that nothing has answered or cancelled.

## 4. The runs

Nine runs pass and three show a violation. Sizes are what TLC needs on two cores.

| run | instance | shows |
|---|---|---|
| HeavyOps | 3 goroutines, 3 lives | `ImplementsRootJobs`, `JobIsGuarded`, `GuardReleased` |
| HeavyOpsInstallers | 2 goroutines, 2 lives, nobody stops the daemon | violates `OneInstaller` |
| ConfigBackup | 1 button, 1 operation, 2 versions, 2 configs, limits 0, 1 and 2, up to 3 stamps | `Retention`, `PruneLeavesKeep`, `OverwriteIsRecoverable`, `UnlimitedKeepsPromises` |
| ConfigBackupRestore | no button, limit 2, 4 s | violates `RestoreFindsChosen` |
| Watchdog | long poll and watchdog, 2 tiers, any `solid`, `hangs` and `rejects` | `FailsOnlyAfterAll`, `DegradedFollowsSuccess`, `AnyTierSuffices`, `OutageIsConfirmed`, `OutageEnds`, `ChatKnowsHealth`, `RecoveryFollowsAlert` |
| AddressRefresh | 2 dials, timer and button, 3 addresses, 1 restart, 4 scenarios | `SteadfastIsFound`, `KnownGoodFirst`, `PinnedIsTrusted`, `SavedIsPinned`, `PathHeals` |
| SelfUpdate | 4 starts | `TypeOK`, `NothingTornInstalled`, `SurvivorExists`, `SwapTakesEffect` |
| LogRotation | 3 pids without a log; 2 pids, 2 goroutines, 6 lines; 1 pid and a full file system | `RunningOwnsLock`, `NewestAreKept` |
| Menu | 2 goroutines, 4 messages, 2 targets: one update at a time in every environment, and 3 that overlap | `SavedIsTracked`, `PromptsAreCurrent`, `MenuRemains`, `BusyEnds` |
| MenuStale | the same, one at a time with slash commands | violates `ActsOnWhatIsShown` |
| PeriodicCheck | 1 handler and periodicCheck, up to 3 releases, 12 scenarios | `CacheIsTrue`, `ReleaseIsShown`, `AnnouncedOnce`, `AutoUpdateCatchesUp` |
| Settings | 6 options, kills and reboots; 2 handlers on the interval; 2 on prompts, with kills | `RebootKeepsAll`, `CopiesAgree`, `AwaitsWhatWasAsked`, `IntervalTakesEffect` |

HeavyOps, ConfigBackup, SelfUpdate and Menu also check their type invariant. Those of
the other modules hold on the same instances and, but for the one of
AddressRefresh, are theorems.
Deadlock is checked where the system never stops (Watchdog, AddressRefresh,
LogRotation); elsewhere a bound (lives, seconds, starts, releases) or a daemon that procd gave
up on is a legitimate end.

**Why the bounds are enough.** HeavyOps: three goroutines let one hold the guard,
one be refused and one come after a release; three lives are a crash, a
self-update exit, and orphans of two lives at once. ConfigBackup: an operation under
the guard and a button press overlap from their first step to their last; at a limit
of one, three stamps are the backup of an operation and one before and after it, and
with fewer stamps than backups names and temporary files collide; at a limit of two
each of two prunes may list what the other removes. Without a limit the store only
grows, so one second will do. Two versions make ties between files of a second, two
configs tell a backup of what was overwritten from another. The violation needs four seconds to
fill the limit first. Watchdog: two tiers are all the code configures; two clients are
the long poll, whose late success races with the probe, and the watchdog. The
theorems cover any number of both. AddressRefresh: an address that is compiled in, one
that only resolvers know and a stranger; two dials race over all of them, with
each other or with the timer, and one meets the timer, the button, a restart and
failing writes, which together leave every combination of memory and UCI.
SelfUpdate: a start for the new binary, one more for a crash before it confirms
itself, and two for a second update. LogRotation: an owner, a starter, and a pid
given out again; two goroutines for the mutex; rotation keeps two of three lines,
so six lines rotate twice and more, and five inodes are the log, its copy, that of
install.sh and two a rotation still holds. Menu: a tracked menu, an announcement,
and two messages left behind; two targets tell a stale prompt from a current one;
of updates that overlap, one is on its way while the other goroutine takes two. The
theorems cover any number of handlers.
PeriodicCheck: three releases are one installed, one announced and one that
supersedes it; their tags make a wrong comparison of segments show. Settings: each option has a default and another value; two handlers suffice for
two sends that meet at the channel of one, and for an answer that overlaps with a
prompt, a cancel or a second answer.

**Fairness.** A goroutine that can run goes on (`WF` of its steps): Go's scheduler
provides it. Programs started as root end: there is no timeout on install.sh, so
this is an assumption, without which `GuardReleased` fails with a hanging script.
procd respawns and timers fire. Requests end, at their deadline at last, and
in PeriodicCheck each fetch succeeds now and then if retried for ever (`SF`).
In AddressRefresh only refreshes and dials go on; that resolvers are reached again
and again is an antecedent of `PathHeals`, and so is an address that works.
Clients of the transport keep sending, since the long poll never stops. In
Settings, `SF` of `Receive` says that select does not always prefer the
timer to the channel, as Go's select chooses at random. Nothing is assumed of
users, of crashes, of releases, or of the network except in the antecedent of a
property.

**Assumptions of the models.** The clock does not go back. There are at most a
dozen backups, for which sort.Slice is stable. backup_keep does not change while
an operation of ConfigBackup runs. Writes to UCI succeed, except in AddressRefresh.

## 5. The proofs

All are checked by TLAPS for every value of the constants.

**HeavyOpsProofs** (any goroutines, any number of lives): `TypeCorrect`;
`MutualExclusion`: `OneJobPerRun` always holds; `GuardCoversJob`: `JobIsGuarded`;
`Refinement`: HeavyOps implements RootJobs. None of the invariants is inductive
alone: a step that starts a program must know that nobody else of this life has
one. `IInv` adds `OneOwner` (whoever is in an operation owns the guard, and it
has one owner) and `LivesAreNumbered` (programs of dead lives have smaller
numbers, so a new life's do not meet them under its number). `IInvStep` has one step
per action. The refinement maps StartJob to Start, JobEnds, OrphanEnds and Stop to
End, Respawn to NewLife, and all else to stuttering.

**TransportProofs**, of TieredTransport (any number of tiers and clients): `TypeCorrect`;
`Exhaustive`: a request fails only after it called every tier, in time or after its
deadline; `HealthIsTruth`: only a success moves the health flag. The run has two tiers, where an off-by-one in the
wrap-around has few places to hide; the theorem has N. `Walk` is the
strengthening: the tiers called are those at a cyclic distance from the start
below the number of attempts, whatever became of the shared index meanwhile.
Of Watchdog: `WatchImplementsTransport`: with the watchdog among its clients the
transport still behaves as TieredTransport, whose theorems it therefore has; from
these, `WatchTypeCorrect`; `OutagesAreConfirmed`: an outage begins only with a probe that was called
on every tier; `RecoveriesFollow`: `RecoveryFollowsAlert`, by `Believes`, which says what the
chat was told in the middle of an alert.

Of AddressRefresh (any addresses, dials, buttons and restarts):
`DialsOnlyTrusted`: `PinnedIsTrusted`, since what a refresh holds was filtered and
merged (`FoundIsTrusted`) and UCI holds that or what the owner wrote
(`UciIsTrusted`); `MemoryIsSaved`: `SavedIsPinned`, by `OneSet`: between the swap and
the save the set in memory is the one to be saved. Of PinnedDialer:
`LiveIsFound`: `SteadfastIsFound`; `HealthyGoFirst`: `KnownGoodFirst`. An address that has
been live since the dial began is still ahead in its walk (`SteadfastIsAhead`);
of those ahead the ones that were healthy when it sorted come first
(`KnownIsAhead`), which only the order at that moment decides, not what other dials
record later.

**ConfigBackupProofs** (any versions, configs, goroutines and limits): `TypeCorrect`;
`RetentionHolds`: `Retention`; `UnlimitedIsKept`: `UnlimitedKeepsPromises`;
`PruningLeavesKeep`: `PruneLeavesKeep`; `OverwritesAreRecoverable`:
`OverwriteIsRecoverable`. The listing orders files by name, so the proofs speak of
the set of names (`Existing`), where `Before` is a strict total order and the position
of a backup is the number of newer names. `Spared` are the names that no prune in
progress is going to remove. The invariant says that they are within the limit
unless somebody has yet to list (`SparedAreFew`), and that each name that is
listed for removal has as many newer ones as the limit
(`DoomedIsExcess`): this survives whatever other goroutines add or prune, since
what they remove is older than as many. It is why a stale listing does no harm.
A backup is several steps, so the last property needs what they have in
hand (`Known`, `Stored`: no name is of a second to come) and a second to count from.
From the one in which an operation names its backup, names and temporary files do
not clash, and every backup of that second or later holds, or is about to hold,
the config to be overwritten (`Fresh`, `FreshCopy`). A prune leaves one of those
(`Recoverable`), for what it removes has newer ones in front of it. The property,
and only that part of the invariant, supposes seconds that are not shared (`saved`).

**SelfUpdateProofs** (any number of starts): `TypeCorrect`; `InstallsWhole`:
`NothingTornInstalled`; `Survives`: `SurvivorExists`. A kill may come at any step
and leave any of the three files, so `IInv` says what each file may hold at each
step: what is next to be renamed over the executable was verified (`NewIsWhole`),
hence executable and backup are whole (`Sound`); of releases that work nothing
else gets into them (`OnlyGood`); a process that has just started has no update in
progress and runs the executable on disk (`StartsClean`), so that removing `.bak`
at startup does not remove the last thing that works (`InTheMiddle`).

**LogRotationProofs** (any set of pids), of InstanceLock: assuming that daemons do
not start at the same time (`~Overlap`), `LockIsKept` and with it
`SerialStartsAreExclusive`: one daemon runs. The invariant adds that one daemon starts
at a time, that it has seen the pid of the one that runs, and therefore that it
does not get to the write. Of LogRotation (any processes, goroutines, inodes and
limits): `LogImplementsLock`: every step is one of InstanceLock or leaves the lock
alone, so that `LoggersKeepLock` carries `RunningOwnsLock` over from there, under
`~Overlap`; `RotationKeepsNewest`: `NewestAreKept`, under the antecedent of the
property, one daemon at a time. A file that is or is about to become the log
holds a `Record`: its lines are numbered upwards, and a line of the daemon that is
not in it has at least `KeepLines` newer ones. Numbers grow at least as fast as
positions, so the last `KeepLines` of a record are a record too, although lines of
install.sh that went to another file leave gaps. The invariant says which files
those are at each step of a rotation, a temporary file that a killed daemon left
half written among the others. `LogTypeCorrect` holds without antecedent.

**SettingsProofs** (any handlers and scenarios): `CopiesAlwaysAgree`: `CopiesAgree`;
`RebootsKeepAll`: `RebootKeepsAll`, which are about handlers that come one after the
other; the invariant (`Fits`) is about the todo list of the one at work. It has at
most two steps (`One`, `Two`), and they account for every difference between memory,
UCI, flash and the runner (`Covers`); when the list is empty there is none.
`OnlyPromptsAwait`: `AwaitsWhatWasAsked`, and `TypeCorrect` hold for handlers that overlap
in any way. For the first, `Answering` says that a prompt that is open and is not the
last one opened is about to be closed: some handler has its `clearAwait` yet to do
(`Closing`), even if by then another prompt is open. The name of the
host, which memory takes where UCI has no label, is none that UCI ever gets.

**MenuProofs** (any handlers, messages and targets). Two theorems are about updates
that overlap in any way. `TypeCorrect`: `ValidStep` says what each kind of step is
about, so that no handler deletes or adopts message 0, however ids are reset
meanwhile, since each list is put together from what was read when it was.
`AMenuRemains`: `MenuRemains`. Handlers that overlap delete and edit each other's
messages, so nothing can be said of the one that is tracked. What the invariant
(`RemainInv`) says is that each step that may take the last menu away (`Risks`: an
adoption, which has a delete follow, a delete, a busy screen) has one ahead of it in
the same list that brings a menu back (`Mends`), and no guard between them that
may be refused; so there is a message that can be used or a handler that will send
or edit one.

`SavedStaysTracked`: `SavedIsTracked`; `BusyAlwaysEnds`: `BusyEnds`;
`PromptsStayCurrent`: `PromptsAreCurrent`. These three properties are about updates
that do not overlap, and say so; when they do, all three are false (section 6). The
invariant (`IInv`, under `Unshared`) relates the state to the steps that lie ahead:
a save is the next step and saves the tracked id (`SavedInv`); a
message that is shown is the tracked one, or the next steps track or delete
it (`TidyInv`); a target is staged right before the prompt that shows it, and nothing
is staged between a click on a confirm button and its action (`PromptInv`); a screen
without buttons has a successor ahead (`BusyInv`). A handler's steps grow as they
are taken (an adopted click adds a save and a delete, an edit a track), so each
step is first reduced to what it does to the list (`Effects`: a step dropped,
replaced by one or by two), and each part is shown for each effect. What a
handler may begin with is `Orderly`, shown for each action that begins one.

**PeriodicCheckProofs** (any handlers, scenarios, and number and names of releases):
`TypeCorrect`; `NewsComeOnce`: `AnnouncedOnce`, under the antecedent of the property:
no failed check, no crash, no command. Products that update themselves may still
restart the daemon, and releases appear between any two steps. It is not enough to
look at what was announced: the answer of a refresh may be older than the release
there is by now, and the decision compares two snapshots. `NewsOf` orders them: what
was announced is at most what periodicCheck began with, that at most what the
refresh was answered, and that at most what is published (`Covers`, wherever on its
way the answer is: in the request, in the step that stores it, in the cache). Of
the steps about one product those of a refresh come first and a decision last
(`Orderly`), so that it is the refreshed cache that is looked at; and both snapshots
are an `Answer` for the same installed version, so that two that name the same
release say the same of it. Like those of Menu, steps are first reduced to what
they do to the list (`Goes`: the first is replaced by none, one or two). The type
invariant is `Typed`: `TypeOK` does not say what the lists consist of.

The same module has the theorems about `Versions` (any versions), which PeriodicCheck
compares and a rollback lists: `IsNewerIsAnOrder`: a strict total order;
`ListIsDetermined`: the sort of rollback.go:24-26 is not stable and gets its versions
in the order in which Go walks a map, yet there is one list it can return: two
lists of the same versions, with no later element newer and none listed twice, are
equal (each version is preceded by as many as are newer, `Place`);
`PreviousIsNeverOlder`: what PreviousRelease considers is never older than what is
installed (see section 6).

Assumptions are those named in the modules: a number of lives, of tiers and of
starts of at least one (`HeavyOpsAssumption`, `TransportAssumption`,
`SelfUpdateAssumption`), `NoPid` not a pid, `None` not a binary, a message or an inode
(`LockAssumption`, `SelfUpdateAssumption`, `MenuAssumption`, `LogAssumption`), a log
that keeps fewer lines than it may have (`LogAssumption`), numbers for versions,
limits and seconds, the operation under the guard no button press and a torn copy
no config (`ConfigBackupAssumption`), scenarios that are ones (`SettingsAssumption`),
periodicCheck among the goroutines of the menu (`MenuAssumption`), finitely many addresses
(`DialerAssumption`), the watchdog a client (`WatchdogAssumption`), compiled-in
addresses that there are and that are Telegram's (`RefreshAssumption`), periodicCheck
not a handler and no scenario with more releases than have names (`CheckAssumption`).

Only model-checked: liveness under fairness (`GuardReleased`, `AnyTierSuffices`,
`OutageEnds`, `ChatKnowsHealth`, `SwapTakesEffect`, `ReleaseIsShown`, `CacheIsTrue`,
`AutoUpdateCatchesUp`, `IntervalTakesEffect`, `PathHeals`), which the prover does not
do, nor ENABLED, nor induction over data. The type invariant of AddressRefresh is not
a theorem for that reason: its records are a sequence filtered with SelectSeq, which
is defined by recursion. Every invariant and every action property
of the runs that pass is the statement of a theorem. No module declares a RECURSIVE
operator, so none is closed to proofs.

## 6. Where the code falls short of its texts

Three of these have a run and are listed as findings; the others were met while
modelling and are reproduced by checking the named definition under the named
constants. Where a property of a passing run excludes one of them, its antecedent
says so.

Findings:

* **Two install.sh at once** (service.go:147, run HeavyOpsInstallers). The guard is
  released when the exit of a self-update is armed. An update begun in those three
  seconds is orphaned by the exit, and the next life may start another.
* **A restore prunes what it restores** (service/cfgbackup.go:55, run
  ConfigBackupRestore). Its own backup pushes the chosen one over the limit.
  `RollbackKeepsPromise` fails the same way (rollback.go:182 promises the backup,
  service/downgrade.go:28 takes a new one first).
* **A stale button acts on a new target** (rollback.go:202, run MenuStale). A prompt
  left in the chat by `/menu` acts on whatever was staged since.

Others:

* `FallsBack` of TieredTransport (transport.go:165-167, README.md:23): the tiers share
  the deadline of the request, and a dial by SOCKS has none of its own. A first
  tier that hangs uses it up, and the tier that works is called too late. Then
  the index moves on, until the next nudge. The same goes for probes and
  alerts: `AnyTierSuffices` and `OutageEnds` fail without `hanging = {}` in
  `Carries`, `ChatKnowsHealth` without `~hangs`.
* `PrimaryIsReclaimed` of TieredTransport, FairSpec, one client, two tiers
  (transport.go:112-115): a long poll in flight on the second tier puts the index
  back when it succeeds, so every nudge may be lost.
* `ChatKnowsHealth` without `solid # {}` (watchdog.go:124): an alert that meets a
  break of every tier is not repeated.
* `HealthIsPruned` of PinnedDialer (transport.go:284, 377): a dial that copied the
  set before a swap records an address that has left it.
* `SwapTakesEffect` without `calm` (service.go:147): the exit may fall between the
  two renames of a second update. More generally the two renames are not one
  step (selfupdate.go:102-108): a kill between them leaves no executable, and what
  works is in `.bak` only, as `SurvivorExists` says.
* `BakUntilHealthy` of SelfUpdate with any release (main.go:106, selfupdate.go:163,
  DESIGN.md:94-96): `.bak` is removed at startup, before the new binary has
  shown that it works.
* `RunningOwnsLock` with `Overlap = TRUE` (main.go:201-210): two daemons that start
  together both find the file free.
* `OverwriteIsRecoverable` without `saved` (cfgbackup.go:87, 223): two backups of one
  version and second share their name and its `.tmp`, so one is lost or torn; two
  versions in one second are ordered by name, and the newer may be pruned first.
* Menu with updates that overlap, `~overlapping` dropped. `SavedIsTracked` (state.go:278):
  ids are saved in the opposite order of their being set. `PromptsAreCurrent`
  (rollback.go:179, 185): two clicks stage t1 and t2 and render in the other order, so
  that the prompt shows t1 and acts on t2. `BusyEnds` (handlers.go:163-165): `/menu` or
  an announcement during a check leaves the busy screen behind.
  Two handlers may leave two menus, and a click adopted between
  forgetting the old menu and posting the new one turns the announcement into a
  silent edit (bot.go:225).
* `ReleaseIsShown` with `unsent` (bot.go:226-228, 178-180, status.go:156-158): a send that
  fails is only logged. bot.go:188-190 speaks of "what was previously shown", but what is
  compared is the cache, which holds the release already: it is never shown.
* `ReleaseIsShown` with podkop automatic and the check button (handlers.go:393-400): a late
  answer, stored between the decision and performPodkopUpdate, makes the update
  reinstall the old release, and the refresh that follows caches the new one
  without showing it. With requests that fail, one refresh clears what another
  found.
* `AutoUpdateCatchesUp` without `~early`, with more than one release, or with both
  products automatic (bot.go:216, README.md:69): what startup, a button or the refresh
  after an install finds is cached and so is no news to the periodic check. With both
  automatic, startup finds podkop's release after the exit of the self-update.
* `ReleaseIsShown` with updates by button (handlers.go:416): the refresh after an update
  caches a release it does not show.
* `AnnouncedOnce` with failing requests (state.go:244): a failed check clears the
  cache, and the release is announced again.
* bot.go:232-233 calls self-updates "notify-only"; with auto_update_self the code
  below it installs them, as README.md:70 says.
* `CopiesAgree` with two handlers (settings.go:115): values saved in the opposite order.
* Two handlers and a prompt (settings.go:425): what is awaited is read before it is
  cleared, so two texts may be taken for one prompt, and an answer may close the prompt
  that was opened after its own.
* `HeaderNamesRouter` of Settings (settings.go:154): a label cleared in the menu is
  empty, not the host's name, until the next start.
* `SavedIsPinned` without its antecedent (main.go:226-227, 270): two refreshes that
  overlap save in the opposite order of their swaps, and a failed write leaves UCI
  behind, until the next refresh.
* onSetIPRefresh (settings.go:332) answers that the addresses were refreshed even
  when discovery found none or the write failed.
* main.go:41-42 says that the compiled-in addresses are used only until discovery
  has run; mergeIPs (main.go:268) adds them each time.
* `RebootKeepsAll` with kills (internal/config/uci.go:114): a kill between `uci set` and
  `uci commit` leaves a value that the next life uses and a reboot takes back.
* `SwapTakesEffect` with `crowded` or `troubled` (main.go:92-95, 98-102, 174-182): the exit
  leaves the pid file; when another program has got the pid, a start is refused. A
  config that cannot be loaded or a getMe that fails ends one too. procd
  grants a few; when they are used up the daemon stays down, which the property allows.
* `NewestAreKept` with a second daemon (logger.go:78): the mutex is that of one
  process, and lines written between the other's copy and rename are lost.
* install.go:30-31 says that install.sh prints to the daemon's log: what it prints
  after a rotation goes to a file without a name.
* PreviousRelease (updater/downgrade.go:53) is commented `v < installed` and takes
  the versions that are not older than the installed one; nothing calls it
  (theorem `PreviousIsNeverOlder`).
* cfgbackup.go:1-3 speaks of a backup for "a broken update"; RunUpdate
  (service.go:99) takes none.

Definitions named here that no run checks stay in the modules as statements of
what the texts say.

## 7. What is not modelled

* Requests to GitHub and to resolvers and the parsing of their answers
  (`internal/updater`, `transport/discovery.go`): what they answer is a choice of
  PeriodicCheck, ConfigBackup, SelfUpdate and AddressRefresh; what is done with it,
  the comparison and the filter included, is modelled.
* DNS checks, podkop's constants and SOCKS settings (`internal/service`): polls and
  reads; their outcome is a choice.
* Texts and layout of messages; access control, which is a test at the entry of
  every handler without state of its own (the set of admins is in Settings).
* install.sh, the init script, packaging. procd's respawn is external to HeavyOps
  and SelfUpdate.
* The replay of request bodies in TieredTransport.
* In Menu and Settings handlers overlap; section 6 says which properties do not hold
  then, and they have it in their antecedent. In ConfigBackup and SelfUpdate what else
  runs under the guard is idle (HeavyOps shows that it is).

## Running

    tlc -config HeavyOps.cfg HeavyOps.tla
    tlapm HeavyOpsProofs.tla

`PROJECT.json` names the module of every configuration. PeriodicCheck,
ConfigBackup and AddressRefresh take a minute or two, the others less.
