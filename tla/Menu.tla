-------------------------------- MODULE Menu --------------------------------
(***************************************************************************)
(* The bot's menu in the chat: one tracked message that handlers edit,     *)
(* the prompts that stage a target and the confirm buttons that act on it. *)
(* botState keeps the tracked id and the staged targets; the id is also    *)
(* saved in UCI, outside the mutex, for the next start.  A handler is a    *)
(* goroutine whose remaining steps are its todo list: between two steps,   *)
(* each a mutex section, a UCI write or a Telegram call, other handlers    *)
(* run.  Telegram and its message ids are external.                        *)
(***************************************************************************)
EXTENDS Naturals, Sequences, FiniteSets

CONSTANTS Handlers,   \* goroutines, each handling one update after another
          Main,       \* the one that runs Start, then periodicCheck
          Messages,   \* bound: messages that are in the chat or referred to
          Targets,    \* versions and backups the user may choose
          None,
          Scenarios   \* values of the environment and of a bound, one for
                      \* a behaviour

ASSUME MenuAssumption ==
  /\ Main \in Handlers /\ None \notin Messages
  /\ Scenarios \subseteq [textCommands : BOOLEAN, failing : BOOLEAN,
                          overlapping : BOOLEAN, updates : Nat]

Kinds == {"rollback", "restore", "delete"}

(* What a message shows: a menu that offers every command, a screen        *)
(* without buttons, a prompt whose confirm button names the target.        *)
screen(w, k, t) == [what |-> w, kind |-> k, target |-> t]
menu == screen("menu", None, None)
working == screen("busy", None, None)
prompt(k, t) == screen("confirm", k, t)
Gone == screen("gone", None, None)
Screens == {menu, working} \cup {prompt(k, t) : k \in Kinds, t \in Targets}

VARIABLES
  shown,    \* what each message of the chat shows; Gone: not in the chat
  tracked,  \* botState.menuMID, None for 0
  saved,    \* podkop_updater.settings.menu_mid
  staged,   \* rollbackTarget, restoreTarget, deleteTarget
  busy,     \* botState.busy
  todo,     \* per handler: the steps it has yet to take
  textCommands,  \* environment: the user sends slash commands
  failing,       \* environment: the daemon is stopped and started again, and
                 \* calls to Telegram fail
  overlapping,   \* environment: an update arrives while another is handled
  updates        \* bound: how many more arrive, if they overlap

environment == <<textCommands, failing, overlapping>>
vars == <<shown, tracked, saved, staged, busy, todo, environment, updates>>

(* Steps: what to do, the message and the screen it concerns. *)
step(do, m, s) == [do |-> do, msg |-> m, screen |-> s]
Guard == step("guard", None, Gone)
Release == step("release", None, Gone)
Adopt(m) == step("adopt", m, Gone)
Save(m) == step("save", m, Gone)
Delete(m) == step("delete", m, Gone)
Forget == step("track", None, Gone)
Track(m) == step("track", m, Gone)
Render(s) == step("render", None, s)
Announce(s) == step("announce", None, s)   \* a render meant to be a new message
Stage(k, t) == step("stage", None, prompt(k, t))
Act(s) == step("act", None, s)             \* s: the prompt that was confirmed
Clear(s) == step("clear", None, s)
Started == step("started", None, Gone)

Idle(h) == todo[h] = <<>>
Now(h) == Head(todo[h])
Does(h, names) == ~Idle(h) /\ Now(h).do \in names
Polling == \A i \in DOMAIN todo[Main] : todo[Main][i] # Started

InChat == {m \in Messages : shown[m] # Gone}
Refers(h, m) == \E i \in DOMAIN todo[h] : todo[h][i].msg = m
Fresh == {m \in Messages \ (InChat \cup {tracked, saved}) :
            \A h \in Handlers : ~Refers(h, m)}

TypeOK ==
  /\ shown \in [Messages -> Screens \cup {Gone}]
  /\ {tracked, saved} \subseteq Messages \cup {None}
  /\ staged \in [Kinds -> Targets \cup {None}]
  /\ busy \in BOOLEAN
  /\ {textCommands, failing, overlapping} \subseteq BOOLEAN /\ updates \in Nat
  /\ \A h \in Handlers : \A i \in DOMAIN todo[h] :
       /\ todo[h][i].msg \in Messages \cup {None}
       /\ todo[h][i].screen \in Screens \cup {Gone}
       /\ todo[h][i].do \in {"adopt", "delete"} => todo[h][i].msg # None

(* Start shows the dashboard before the long poll and the timers begin. *)
Startup == [h \in Handlers |-> IF h = Main THEN <<Render(menu), Started>> ELSE <<>>]

Init ==
  /\ shown = [m \in Messages |-> Gone]
  /\ tracked = None /\ saved = None
  /\ staged = [k \in Kinds |-> None]
  /\ busy = FALSE
  /\ todo = Startup
  /\ \E s \in Scenarios : /\ textCommands = s.textCommands /\ failing = s.failing
                         /\ overlapping = s.overlapping /\ updates = s.updates

-----------------------------------------------------------------------------
(* Updates that arrive, each handled by a goroutine of its own.  Bound:    *)
(* while there is room for two new messages.                               *)

Quiet == \A h \in Handlers : Idle(h)

Begin(h, steps) ==
  /\ Polling /\ Idle(h) /\ Cardinality(Fresh) >= 2
  /\ IF overlapping THEN updates > 0 /\ updates' = updates - 1
                    ELSE Quiet /\ UNCHANGED updates
  /\ todo' = [todo EXCEPT ![h] = steps]
  /\ UNCHANGED <<shown, tracked, saved, staged, busy, environment>>

Report_Resent ==   \* mutant: the result is a new message, the busy one stays
  <<Render(working), Forget, Render(menu)>>
Report == <<Render(working), Render(menu)>>   \* editBusy, editResult

(* A command that shows a menu, after some work or at once: a check, a     *)
(* list, a cancelled prompt, the dashboard.                                *)
ClickMenu(h, m) ==
  /\ m \in InChat /\ shown[m] # working
  /\ \E work \in {<<Render(menu)>>, Report} : Begin(h, <<Adopt(m)>> \o work)

(* onRollbackTo, onRestoreID, onDeleteID: the target is staged, then shown. *)
ClickTarget(h, m, k, t) ==
  /\ m \in InChat /\ shown[m] = menu
  /\ Begin(h, <<Adopt(m), Stage(k, t), Render(prompt(k, t))>>)

(* onRollbackConfirm and onRestoreConfirm take the guard, onDeleteConfirm  *)
(* does not.                                                               *)
ClickConfirm(h, m) ==
  /\ m \in InChat /\ shown[m].what = "confirm"
  /\ IF shown[m].kind = "delete"
       THEN Begin(h, <<Adopt(m), Act(shown[m])>>)
       ELSE Begin(h, <<Guard, Adopt(m), Act(shown[m]), Release>>)

(* performPodkopUpdate and the others: the result, or an offer to roll     *)
(* back when an update left DNS broken.                                    *)
Results == {<<Render(menu)>>, Report} \cup
  {<<Render(working), Stage("rollback", t), Render(prompt("rollback", t))>> : t \in Targets}

(* onRestart, onUpdatePodkop, onUpdateSelf *)
ClickHeavy(h, m) ==
  /\ m \in InChat /\ shown[m] = menu
  /\ \E work \in Results : Begin(h, <<Guard, Adopt(m)>> \o work \o <<Release>>)

(* startTextCommand, onStartOrMenu: the menu is left where it is. *)
TextCommand(h) ==
  /\ textCommands
  /\ \E work \in {<<Render(menu)>>, Report, <<Guard>> \o Report \o <<Release>>} :
       Begin(h, <<Forget>> \o work)

(* periodicCheck found a release: the menu it read is deleted and a new    *)
(* one is posted so that Telegram notifies; or it is installed.            *)
Orphan_Zero(m) == <<Delete(m)>>   \* mutant: also if there is none
Orphan(m) == IF m = None THEN <<>> ELSE <<Delete(m)>>
PeriodicNotify_Late ==   \* mutant: the old menu is deleted after the new one is posted
  Begin(Main, <<Forget, Announce(menu)>> \o Orphan(tracked))
PeriodicNotify == Begin(Main, Orphan(tracked) \o <<Forget, Announce(menu)>>)
PeriodicUpdate ==
  \E work \in Results :
    Begin(Main, <<Guard>> \o Orphan(tracked) \o <<Forget, Announce(Head(work).screen)>>
                  \o Tail(work) \o <<Release>>)

-----------------------------------------------------------------------------
(* The steps of a handler *)

Done(h) == todo' = [todo EXCEPT ![h] = Tail(@)]
DoneThen(h, steps) == todo' = [todo EXCEPT ![h] = steps \o Tail(@)]

(* tryBusy: a handler that is refused only says so. *)
DoGuard(h) ==
  /\ Does(h, {"guard"})
  /\ busy' = TRUE
  /\ IF busy THEN todo' = [todo EXCEPT ![h] = <<>>] ELSE Done(h)
  /\ UNCHANGED <<shown, tracked, saved, staged, environment, updates>>
DoRelease(h) ==
  /\ Does(h, {"release"}) /\ Done(h)
  /\ busy' = FALSE
  /\ UNCHANGED <<shown, tracked, saved, staged, environment, updates>>
DoStarted(h) ==
  /\ Does(h, {"started"}) /\ Done(h)
  /\ UNCHANGED <<shown, tracked, saved, staged, busy, environment, updates>>

(* adoptMenuID, adoptClickedMessage: the clicked message becomes the       *)
(* tracked one; its id is saved and the one tracked before deleted.        *)
adoptMenuID(m, old) == IF old = m THEN <<>> ELSE <<Save(m)>> \o Orphan(old)
DoAdopt(h) ==
  /\ Does(h, {"adopt"})
  /\ tracked' = Now(h).msg
  /\ DoneThen(h, adoptMenuID(Now(h).msg, tracked))
  /\ UNCHANGED <<shown, saved, staged, busy, environment, updates>>

(* setMenuID: nothing is saved when the id is the tracked one already *)
setMenuID_Unsaved(m, old) == <<>>   \* mutant: never saved
setMenuID(m, old) == IF old = m THEN <<>> ELSE <<Save(m)>>
DoTrack(h) ==
  /\ Does(h, {"track"})
  /\ tracked' = Now(h).msg
  /\ DoneThen(h, setMenuID(Now(h).msg, tracked))
  /\ UNCHANGED <<shown, saved, staged, busy, environment, updates>>

(* persistMID: uci set and uci commit *)
DoSave(h) ==
  /\ Does(h, {"save"}) /\ Done(h)
  /\ saved' = Now(h).msg
  /\ UNCHANGED <<shown, tracked, staged, busy, environment, updates>>

DoDelete(h) ==
  /\ Does(h, {"delete"}) /\ Done(h)
  /\ \/ shown' = [shown EXCEPT ![Now(h).msg] = Gone]
     \/ failing /\ UNCHANGED shown
  /\ UNCHANGED <<tracked, saved, staged, busy, environment, updates>>

(* replaceMenuRaw reads the tracked id and sendOrEdit edits that message;  *)
(* if there is none, or it cannot be edited, a new one is sent.            *)
DoRender(h) ==
  /\ Does(h, {"render", "announce"})
  /\ DoneThen(h, <<step("put", tracked, Now(h).screen)>>)
  /\ UNCHANGED <<shown, tracked, saved, staged, busy, environment, updates>>
Put(h, m) == /\ shown' = [shown EXCEPT ![m] = Now(h).screen]
             /\ DoneThen(h, <<Track(m)>>)
             /\ UNCHANGED <<tracked, saved, staged, busy, environment, updates>>
DoEdit(h) == Does(h, {"put"}) /\ Now(h).msg \in InChat /\ Put(h, Now(h).msg)
Sends(h) == Does(h, {"put"}) /\ (Now(h).msg \notin InChat \/ failing)
DoSend(h) == Sends(h) /\ \E m \in Fresh : Put(h, m)
SendFailed(h) ==
  /\ Sends(h) /\ failing /\ Done(h)
  /\ UNCHANGED <<shown, tracked, saved, staged, busy, environment, updates>>

(* setRollback, setRestore, setDelete *)
setTarget_Once(k, t) ==   \* mutant: a target staged before is kept
  staged' = [staged EXCEPT ![k] = IF @ = None THEN t ELSE @]
setTarget(k, t) == staged' = [staged EXCEPT ![k] = t]
DoStage(h) ==
  /\ Does(h, {"stage"}) /\ Done(h)
  /\ setTarget(Now(h).screen.kind, Now(h).screen.target)
  /\ UNCHANGED <<shown, tracked, saved, busy, environment, updates>>
DoClear(h) ==
  /\ Does(h, {"clear"}) /\ Done(h)
  /\ setTarget(Now(h).screen.kind, None)
  /\ UNCHANGED <<shown, tracked, saved, busy, environment, updates>>

(* performDowngrade, performRestore and the body of onDeleteConfirm act on *)
(* the staged target.  Only a deleted backup is unstaged.                  *)
DoAct(h) ==
  /\ Does(h, {"act"})
  /\ LET s == Now(h).screen
     IN  \/ /\ staged[s.kind] = None \/ s.kind = "delete"   \* DeleteBackup fails
            /\ DoneThen(h, <<Render(menu)>>)
         \/ /\ staged[s.kind] # None
            /\ DoneThen(h, IF s.kind = "delete" THEN <<Clear(s), Render(menu)>> ELSE Report)
  /\ UNCHANGED <<shown, tracked, saved, staged, busy, environment, updates>>

(* The daemon stops at any step; the next start tracks the saved message.  *)
Restart ==
  /\ failing
  /\ tracked' = saved
  /\ staged' = [k \in Kinds |-> None]
  /\ busy' = FALSE
  /\ todo' = Startup
  /\ UNCHANGED <<shown, saved, environment, updates>>

Work(h) ==
  \/ DoGuard(h) \/ DoRelease(h) \/ DoStarted(h)
  \/ DoAdopt(h) \/ DoTrack(h) \/ DoSave(h) \/ DoDelete(h)
  \/ DoRender(h) \/ DoEdit(h) \/ DoSend(h) \/ SendFailed(h)
  \/ DoStage(h) \/ DoClear(h) \/ DoAct(h)

Arrive(h) ==
  \/ \E m \in Messages :
       \/ ClickMenu(h, m) \/ ClickConfirm(h, m) \/ ClickHeavy(h, m)
       \/ \E k \in Kinds, t \in Targets : ClickTarget(h, m, k, t)
  \/ TextCommand(h)

Next ==
  \/ \E h \in Handlers : Arrive(h) \/ Work(h)
  \/ PeriodicNotify \/ PeriodicUpdate \/ Restart

Spec == Init /\ [][Next]_vars

-----------------------------------------------------------------------------

(* state.go:49-51: the saved id is that of the tracked message whenever no *)
(* handler is at work, so that the next start edits the same message: for  *)
(* updates that do not overlap, since the save is outside the mutex.       *)
SavedIsTracked == ~overlapping /\ Quiet => saved = tracked

(* rollback.go:241, backup.go:155: the button names the target; confirming *)
(* it acts on that target, or on none.                                     *)
ActsOnWhatIsShown ==
  \A h \in Handlers : Does(h, {"act"}) =>
    LET s == Now(h).screen IN staged[s.kind] \in {s.target, None}

(* A prompt acts on what it shows as long as updates do not overlap, which  *)
(* may stage two targets and show them in the other order, and no prompt is *)
(* left behind by a slash command or by an edit that failed.                *)
PromptsAreCurrent ==
  ~textCommands /\ ~failing /\ ~overlapping => ActsOnWhatIsShown

(* handlers.go:163-165, bot.go:220-225: handlers delete each other's        *)
(* messages and render on whatever is tracked then, but never leave the     *)
(* chat without a message that has buttons: however updates overlap, once   *)
(* they are handled there is one, if the calls to Telegram succeed.         *)
Usable(m) == shown[m] \notin {working, Gone}
MenuRemains == ~failing /\ Quiet => \E m \in Messages : Usable(m)

(* A screen without buttons does not stay: when updates do not overlap and  *)
(* calls to Telegram succeed, every message of the chat can be used once    *)
(* an update is handled.                                                    *)
BusyEnds ==
  ~failing /\ ~overlapping /\ Quiet => \A m \in Messages : shown[m] # working
=============================================================================
