------------------------------ MODULE Settings ------------------------------
(***************************************************************************)
(* The settings menu: botSettings in memory, their copies in UCI and in    *)
(* the service.Runner, the periodic timer that a new interval re-arms, and *)
(* the prompt that takes the next text message as its answer.  A handler   *)
(* changes memory under the lock and writes the copies after it; a write   *)
(* carries the value the handler chose, or, for the admins, the set it     *)
(* read again.  UCI itself takes a write in two steps: `uci set` stages it *)
(* in memory, where `uci get` finds it, `uci commit` writes all that is    *)
(* staged to flash.  Handlers run concurrently and are todo lists here.    *)
(***************************************************************************)
EXTENDS Naturals, Sequences

CONSTANTS Handlers,  \* goroutines that handle updates
          Users,     \* user ids given as admins
          Scenarios  \* what users do in a behaviour

AllOptions == {"auto", "self", "hours", "keep", "label", "admins"}

(* A scenario: the handlers that are at work, what they edit, and what      *)
(* happens at any moment: the daemon is killed and starts again, or the     *)
(* router loses power.                                                      *)
Scenario == [handlers : SUBSET Handlers, options : SUBSET AllOptions,
             ends : SUBSET {"kill", "reboot"}]
ASSUME SettingsAssumption == Scenarios \subseteq Scenario

(* The values that are told apart: presets, a name or none. *)
Values == [auto   |-> {FALSE, TRUE},
           self   |-> {FALSE, TRUE},
           hours  |-> {1, 6},
           keep   |-> {0, 5},
           label  |-> {"none", "named", "hostname"},
           admins |-> SUBSET Users]
Default == [auto |-> FALSE, self |-> FALSE, hours |-> 6, keep |-> 0, label |-> "none", admins |-> {}]

VARIABLES
  mem,       \* botSettings
  uci,       \* what `uci get` returns
  flash,     \* /etc/config/podkop_updater
  runner,    \* Runner.backupKeep
  signal,    \* settingsCh holds its one element
  armed,     \* hours the timer was last reset to
  timer,     \* periodicCheck: "waiting", "resetting" the timer, "checking"
  awaiting,  \* botState.awaiting: "none", "label", "admins"
  asked,     \* history: the prompt opened last that was not answered or cancelled
  todo,      \* steps each handler has yet to take
  scenario   \* environment: one of Scenarios

vars == <<mem, uci, flash, runner, signal, armed, timer, awaiting, asked, todo, scenario>>
copies == <<uci, flash, runner>>
clock == <<signal, armed, timer>>
input == <<awaiting, asked>>

(* A step: what to do, for which option, with which value. *)
step(do, o, v) == [do |-> do, option |-> o, value |-> v]
Set(o, v) == step("set", o, v)

Idle(h) == todo[h] = <<>>
Now(h) == Head(todo[h])
Does(h, do) == ~Idle(h) /\ Now(h).do = do
Done(h) == todo' = [todo EXCEPT ![h] = Tail(@)]
DoneThen(h, steps) == todo' = [todo EXCEPT ![h] = steps \o Tail(@)]

TypeOK ==
  /\ \A o \in AllOptions : {mem[o], uci[o], flash[o]} \subseteq Values[o]
  /\ "hostname" \notin {uci.label, flash.label}
  /\ runner \in Values.keep
  /\ signal \in BOOLEAN /\ armed \in Values.hours
  /\ timer \in {"waiting", "resetting", "checking"}
  /\ {awaiting, asked} \subseteq {"none", "label", "admins"}
  /\ scenario \in Scenarios
  /\ \A h \in Handlers \ scenario.handlers : Idle(h)

(* runDaemon, newBotSettings: an empty label is the host's name. *)
Loaded(stored) ==
  [stored EXCEPT !.label = IF @ = "none" THEN "hostname" ELSE @]
Start(stored) ==
  /\ uci' = stored /\ mem' = Loaded(stored) /\ runner' = stored.keep
  /\ signal' = FALSE /\ armed' = stored.hours /\ timer' = "waiting"
  /\ awaiting' = "none" /\ asked' = "none"
  /\ todo' = [h \in Handlers |-> <<>>]

Init ==
  /\ uci = Default /\ flash = Default /\ mem = Loaded(Default) /\ runner = 0
  /\ signal = FALSE /\ armed = 6 /\ timer = "waiting"
  /\ awaiting = "none" /\ asked = "none"
  /\ todo = [h \in Handlers |-> <<>>]
  /\ scenario \in Scenarios

-----------------------------------------------------------------------------
(* Updates that arrive *)

Begin(h, steps) ==
  /\ Idle(h)
  /\ todo' = [todo EXCEPT ![h] = steps]
  /\ UNCHANGED <<mem, copies, clock, input, scenario>>

(* onSetAutoUpd, onSetAutoUpdSelf read the flag, then set the opposite. *)
Toggle(h, o) ==
  /\ o \in scenario.options \cap {"auto", "self"}
  /\ Begin(h, <<step("toggle", o, 0)>>)

(* onSetInt, onSetKeepN *)
Choose(h, o) ==
  /\ o \in scenario.options \cap {"hours", "keep"}
  /\ \E v \in Values[o] : Begin(h, <<Set(o, v)>>)

(* onSetAdminClear *)
ClearAdmins(h) == "admins" \in scenario.options /\ Begin(h, <<Set("admins", {})>>)

(* onSetLabel and onSetAdminAdd prompt for a text; onSettings cancels. *)
Prompt(h, o) ==
  /\ o \in scenario.options \cap {"label", "admins"} /\ Idle(h)
  /\ awaiting' = o /\ asked' = o
  /\ UNCHANGED <<mem, copies, clock, todo, scenario>>
Cancel(h) ==
  /\ Idle(h) /\ awaiting # "none"
  /\ awaiting' = "none" /\ asked' = "none"
  /\ UNCHANGED <<mem, copies, clock, todo, scenario>>

(* handleAwaitedInput reads what a text is awaited for, clears that, then   *)
(* uses the text; one that is no user id only says so.                      *)
Named == {<<Set("label", v)>> : v \in {"none", "named"}}
Added == {<<step("add", "admins", {u})>> : u \in Users}
Uses(kind) == IF kind = "label" THEN Named ELSE Added \cup {<<>>}
Text(h) ==
  /\ Idle(h) /\ awaiting # "none"
  /\ \E use \in Uses(awaiting) :
       todo' = [todo EXCEPT ![h] = <<step("clearAwait", awaiting, 0)>> \o use]
  /\ asked' = "none"
  /\ UNCHANGED <<mem, copies, clock, awaiting, scenario>>

-----------------------------------------------------------------------------
(* The steps of a handler *)

ClearAwait_Kept(h) ==   \* mutant: the prompt stays open
  Does(h, "clearAwait") /\ Done(h) /\ UNCHANGED <<mem, copies, clock, input, scenario>>
ClearAwait(h) ==
  /\ Does(h, "clearAwait") /\ Done(h)
  /\ awaiting' = "none"
  /\ UNCHANGED <<mem, copies, clock, asked, scenario>>

ReadToggle(h) ==
  /\ Does(h, "toggle")
  /\ DoneThen(h, <<Set(Now(h).option, ~mem[Now(h).option])>>)
  /\ UNCHANGED <<mem, copies, clock, input, scenario>>

(* What follows the change of an option: its value is saved; for admins the *)
(* set is read again first (persistAdmins); an interval is signalled, the   *)
(* retention limit handed to the runner.                                    *)
After_Unsaved(o, v) ==   \* mutant: the value is not saved
  IF o = "hours" THEN <<step("signal", o, v)>>
  ELSE IF o = "keep" THEN <<step("push", o, v)>> ELSE <<>>
After(o, v) ==
  CASE o = "hours"  -> <<step("save", o, v), step("signal", o, v)>>
    [] o = "keep"   -> <<step("save", o, v), step("push", o, v)>>
    [] o = "admins" -> <<step("snapshot", o, v)>>
    [] OTHER        -> <<step("save", o, v)>>

DoSet(h) ==
  LET o == Now(h).option  v == Now(h).value
  IN  /\ Does(h, "set") /\ DoneThen(h, After(o, v))
      /\ mem' = [mem EXCEPT ![o] = v]
      /\ UNCHANGED <<copies, clock, input, scenario>>
AddAdmin(h) ==
  /\ Does(h, "add") /\ DoneThen(h, After("admins", Now(h).value))
  /\ mem' = [mem EXCEPT !.admins = @ \cup Now(h).value]
  /\ UNCHANGED <<copies, clock, input, scenario>>
Snapshot(h) ==
  /\ Does(h, "snapshot") /\ DoneThen(h, <<step("save", "admins", mem.admins)>>)
  /\ UNCHANGED <<mem, copies, clock, input, scenario>>

(* setKey: uci set, then uci commit, which takes along what others staged.  *)
Save_Uncommitted(h) ==   \* mutant: nothing is committed
  /\ Does(h, "save") /\ Done(h)
  /\ uci' = [uci EXCEPT ![Now(h).option] = Now(h).value]
  /\ UNCHANGED <<mem, flash, runner, clock, input, scenario>>
Save(h) ==
  /\ Does(h, "save") /\ DoneThen(h, <<step("commit", Now(h).option, 0)>>)
  /\ uci' = [uci EXCEPT ![Now(h).option] = Now(h).value]
  /\ UNCHANGED <<mem, flash, runner, clock, input, scenario>>
Commit(h) ==
  /\ Does(h, "commit") /\ Done(h)
  /\ flash' = uci
  /\ UNCHANGED <<mem, uci, runner, clock, input, scenario>>
Push(h) ==
  /\ Does(h, "push") /\ Done(h)
  /\ runner' = Now(h).value
  /\ UNCHANGED <<mem, uci, flash, clock, input, scenario>>

(* onInterval: a send that never blocks, into a channel of one *)
Signal_Unbuffered(h) ==   \* mutant: nobody receives while a check runs
  /\ Does(h, "signal") /\ Done(h)
  /\ signal' = (timer = "waiting")
  /\ UNCHANGED <<mem, copies, armed, timer, input, scenario>>
Signal(h) ==
  /\ Does(h, "signal") /\ Done(h)
  /\ signal' = TRUE
  /\ UNCHANGED <<mem, copies, armed, timer, input, scenario>>

Work(h) ==
  \/ ClearAwait(h) \/ ReadToggle(h) \/ DoSet(h) \/ AddAdmin(h)
  \/ Snapshot(h) \/ Save(h) \/ Commit(h) \/ Push(h) \/ Signal(h)

-----------------------------------------------------------------------------
(* periodicCheck *)

Receive == /\ timer = "waiting" /\ signal
           /\ signal' = FALSE /\ timer' = "resetting"
           /\ UNCHANGED <<mem, copies, armed, input, todo, scenario>>
Reset == /\ timer = "resetting"
         /\ armed' = mem.hours /\ timer' = "waiting"
         /\ UNCHANGED <<mem, copies, signal, input, todo, scenario>>
Fire == /\ timer = "waiting"
        /\ armed' = mem.hours /\ timer' = "checking"
        /\ UNCHANGED <<mem, copies, signal, input, todo, scenario>>
Checked == /\ timer = "checking" /\ timer' = "waiting"
           /\ UNCHANGED <<mem, copies, signal, armed, input, todo, scenario>>

(* The staged changes are files in /tmp: they outlive the daemon, but not   *)
(* the router.                                                              *)
Restart ==
  /\ \/ "kill" \in scenario.ends /\ Start(uci)
     \/ "reboot" \in scenario.ends /\ Start(flash)
  /\ UNCHANGED <<flash, scenario>>

Arrive(h) ==
  \/ ClearAdmins(h) \/ Cancel(h) \/ Text(h)
  \/ \E o \in scenario.options : Toggle(h, o) \/ Choose(h, o) \/ Prompt(h, o)

Next ==
  \/ \E h \in scenario.handlers : Arrive(h) \/ Work(h)
  \/ Receive \/ Reset \/ Fire \/ Checked \/ Restart

(* Handlers and periodicCheck go on; nothing is assumed of the timer, which *)
(* may have hours to go.                                                    *)
Spec ==
  /\ Init /\ [][Next]_vars
  /\ \A h \in Handlers : WF_vars(Work(h))
  /\ SF_vars(Receive) /\ WF_vars(Reset) /\ WF_vars(Checked)

-----------------------------------------------------------------------------

Quiet == \A h \in Handlers : Idle(h)
OneByOne == \A h, k \in scenario.handlers : h = k   \* no two handlers overlap

(* README.md, "applied live": when no handler is at work, what a start      *)
(* would load from UCI is what is in memory, and the runner prunes to the   *)
(* limit that is set.  Of handlers that overlap, a slower one may save what *)
(* the other has replaced, so it is stated of handlers that do not.         *)
CopiesAgree ==
  OneByOne /\ Quiet =>
    /\ \A o \in AllOptions \ {"label"} : uci[o] = mem[o]
    /\ uci.label = "named" <=> mem.label = "named"
    /\ runner = mem.keep

(* uci.go:113-114: a reboot keeps what was set by the menu, and one in the  *)
(* middle of a handler does not split memory from flash.  Of a daemon that  *)
(* is killed between `uci set` and `uci commit` the next life uses a value  *)
(* that a reboot takes back, so it is stated of power losses only.          *)
RebootKeepsAll ==
  OneByOne /\ Quiet /\ "kill" \notin scenario.ends => flash = uci

(* bot.go:199-200: a new interval is in effect without waiting for the old *)
(* one to pass, however many changes and checks overlap.                   *)
IntervalTakesEffect == []<>(armed = mem.hours)

(* state.go:40-41: whatever prompts, answers, cancels and restarts overlap, *)
(* once the handlers are done a text is taken for the prompt that was       *)
(* opened last, if nothing answered or cancelled it since, or for none: no  *)
(* message in the chat is mistaken for a setting.  Of handlers that overlap *)
(* the opposite may fail: an answer to one prompt may close the next one    *)
(* too, and two messages be taken for one prompt.                           *)
AwaitsWhatWasAsked == Quiet => awaiting \in {"none", asked}

(* README.md:67: an empty label is the host's name.  It is not: one that is *)
(* cleared in the menu stays empty until the daemon starts again.           *)
HeaderNamesRouter == mem.label # "none"
=============================================================================
