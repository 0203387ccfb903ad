---------------------------- MODULE PeriodicCheck ----------------------------
(***************************************************************************)
(* How releases of podkop and of the updater itself become known: what     *)
(* botState caches of them, the periodic check that compares the cache     *)
(* with what it was a moment ago and then notifies or installs, and the    *)
(* handlers that refresh the same cache.  Every goroutine is a todo list;  *)
(* others run between two steps, and an answer from the network may be old *)
(* by the time it is stored.  Releases are published by others (external). *)
(***************************************************************************)
EXTENDS Versions, Sequences

CONSTANTS Handlers,    \* goroutines that handle updates
          Main,        \* the one that runs Start, then periodicCheck
          MaxVersion,  \* bound: releases published, per product, in any scenario
          Tags,        \* what the releases are called, in the order of publication;
                       \* 0 is no version, which parses as 0.0.0
          Scenarios    \* the settings, users and failures of a behaviour

(* A scenario: the products that get new releases, those that are updated   *)
(* automatically (auto_update, auto_update_self), what the user does,       *)
(* whether releases may appear while the daemon starts or is down, whether  *)
(* requests to GitHub and installs may fail, whether a message may not get  *)
(* to Telegram, and bounds on the releases and the crashes.                 *)
Scenario == [released : SUBSET {"podkop", "self"}, auto : SUBSET {"podkop", "self"},
             commands : SUBSET {"check", "update", "rollback"},
             early : BOOLEAN, fails : BOOLEAN, unsent : BOOLEAN,
             releases : Nat, crashes : Nat]

ASSUME CheckAssumption ==
  /\ MaxVersion \in Nat \ {0}
  /\ Tags \in [0..MaxVersion -> Version] /\ Tags[0] = <<0, 0, 0>>
  /\ Main \notin Handlers
  /\ Scenarios \subseteq Scenario /\ \A s \in Scenarios : s.releases <= MaxVersion

Products == {"podkop", "self"}

Versions == 1..MaxVersion
Goroutines == Handlers \cup {Main}

VARIABLES
  published,  \* the latest release of each product
  installed,  \* podkop's version, 0 while its package is being replaced and
              \* nothing reports one; for "self" that of the running binary
  disk,       \* version of the updater's file
  cached,     \* botState: for each product the installed version, the latest
              \* release (0: none) and whether it is available
  prev,       \* what periodicCheck read before it refreshed
  busy,       \* botState.busy
  crashes,    \* crashes so far
  exiting,    \* a self-update was done: the exit timer is armed
  todo,       \* steps each goroutine has yet to take
  told,       \* history: versions shown to the user as available
  news,       \* history: versions announced by a message of their own
  scenario    \* environment: one of Scenarios

vars == <<published, installed, disk, cached, prev, busy, exiting, crashes, todo, told, news,
          scenario>>

Cache == [installed : Versions \cup {0}, latest : Versions \cup {0}, available : BOOLEAN]
Empty == [p \in Products |-> [installed |-> 0, latest |-> 0, available |-> FALSE]]

(* A step: what to do, for which product, the release the answer named and *)
(* the installed version it was compared with. *)
step(do, p) == [do |-> do, of |-> p, latest |-> 0, current |-> 0]

Idle(g) == todo[g] = <<>>
Now(g) == Head(todo[g])
Does(g, do) == ~Idle(g) /\ Now(g).do = do
Done(g) == todo' = [todo EXCEPT ![g] = Tail(@)]
DoneThen(g, steps) == todo' = [todo EXCEPT ![g] = steps \o Tail(@)]
Polling == \A i \in DOMAIN todo[Main] : todo[Main][i].do # "started"

TypeOK ==
  /\ published \in [Products -> Versions]
  /\ installed \in [Products -> Versions \cup {0}]
  /\ disk \in Versions
  /\ cached \in [Products -> Cache] /\ prev \in [Products -> Cache]
  /\ \A p \in Products : cached[p].available => cached[p].latest # 0
  /\ busy \in BOOLEAN /\ exiting \in BOOLEAN /\ crashes \in Nat
  /\ told \in [Products -> SUBSET Versions] /\ news \in [Products -> SUBSET Versions]
  /\ \A g \in Goroutines : \A i \in DOMAIN todo[g] :
       {todo[g][i].latest, todo[g][i].current} \subseteq Versions \cup {0}
  /\ scenario \in Scenarios /\ crashes <= scenario.crashes

(* refreshAll, but for the DNS probe *)
refreshAll == <<step("fetch", "podkop"), step("fetch", "self")>>

(* Start: refreshAll and the dashboard come before the long poll. *)
Startup_ShowFirst ==   \* mutant: the dashboard comes before the refresh
  [g \in Goroutines |->
     IF g = Main THEN <<step("dashboard", "self")>> \o refreshAll \o <<step("started", "self")>>
     ELSE <<>>]
Startup ==
  [g \in Goroutines |->
     IF g = Main THEN refreshAll \o <<step("dashboard", "self"), step("started", "self")>>
     ELSE <<>>]

Init ==
  /\ published = [p \in Products |-> 1]
  /\ installed = published /\ disk = 1
  /\ cached = Empty /\ prev = Empty
  /\ busy = FALSE /\ exiting = FALSE /\ crashes = 0
  /\ todo = Startup
  /\ told = [p \in Products |-> {}] /\ news = told
  /\ scenario \in Scenarios

-----------------------------------------------------------------------------
(* What sets the goroutines to work *)

Publish(p) ==
  /\ p \in scenario.released /\ (scenario.early \/ Polling)
  /\ published[p] < scenario.releases
  /\ published' = [published EXCEPT ![p] = @ + 1]
  /\ UNCHANGED <<installed, disk, cached, prev, busy, exiting, crashes, todo, told, news, scenario>>

Begin(g, steps) ==
  /\ Polling /\ Idle(g)
  /\ todo' = [todo EXCEPT ![g] = steps]
  /\ UNCHANGED <<published, installed, disk, cached, busy, exiting, crashes, told, news, scenario>>

(* The timer of periodicCheck *)
Tick ==
  /\ prev' = cached
  /\ Begin(Main, refreshAll \o <<step("decide", "podkop"), step("decide", "self")>>)

(* onCheckPodkop and onCheckSelf, and onRefresh, which refreshes both and   *)
(* redraws the dashboard; a command under the guard.                        *)
Check(h, p) ==
  /\ "check" \in scenario.commands
  /\ Begin(h, <<step("fetch", p), step("show", p)>>) /\ UNCHANGED prev
Refresh(h) ==
  /\ "check" \in scenario.commands
  /\ Begin(h, refreshAll \o <<step("dashboard", "self")>>) /\ UNCHANGED prev
Update(h, p) ==
  /\ "update" \in scenario.commands
  /\ told[p] # {}   \* the button has been offered
  /\ Begin(h, <<step("try", p)>>) /\ UNCHANGED prev

(* onRollbackAll lists the releases, without the one believed installed. *)
Offered ==
  LET releases == 1..published["podkop"]
      tags == Supported({Tags[v] : v \in releases}, Tags[cached["podkop"].installed])
  IN  {v \in releases : Tags[v] \in tags}
Rollback(h, v) ==
  /\ "rollback" \in scenario.commands /\ v \in Offered
  /\ Begin(h, <<[step("try", "podkop") EXCEPT !.latest = v]>>) /\ UNCHANGED prev

-----------------------------------------------------------------------------
(* refreshPodkop, refreshSelf *)

(* The answer arrives, or an error, which is stored as "no release known". *)
Fetched(g) ==
  /\ Does(g, "fetch")
  /\ DoneThen(g, <<[step("compare", Now(g).of) EXCEPT !.latest = published[Now(g).of]]>>)
  /\ UNCHANGED <<published, installed, disk, cached, prev, busy, exiting, crashes, told, news, scenario>>
NotFetched(g) ==
  /\ scenario.fails /\ Does(g, "fetch")
  /\ DoneThen(g, <<step("compare", Now(g).of)>>)
  /\ UNCHANGED <<published, installed, disk, cached, prev, busy, exiting, crashes, told, news, scenario>>

(* InstalledVersion reads the version in use, after the answer; when nobody *)
(* reports one it is FallbackVersion.                                       *)
Compare(g) ==
  /\ Does(g, "compare")
  /\ DoneThen(g, <<[Now(g) EXCEPT !.do = "store", !.current = installed[Now(g).of]]>>)
  /\ UNCHANGED <<published, installed, disk, cached, prev, busy, exiting, crashes, told, news, scenario>>

(* setPodkopFetch, setSelfFetch and those for an error *)
Answer(current, latest) ==
  [installed |-> current, latest |-> latest,
   available |-> latest # 0 /\ IsNewer(Tags[current], Tags[latest])]
Store(g) ==
  /\ Does(g, "store") /\ Done(g)
  /\ cached' = [cached EXCEPT ![Now(g).of] = Answer(Now(g).current, Now(g).latest)]
  /\ UNCHANGED <<published, installed, disk, prev, busy, exiting, crashes, told, news, scenario>>

(* What a message offers is what is cached by then: the result of a check   *)
(* and the news of the updater are about one product, the dashboard, which  *)
(* is also what announces a podkop, about both.                             *)
About(s) == IF s.do = "show" \/ s = step("decide", "self") THEN {s.of} ELSE Products
Shows(shown) ==
  told' = [p \in Products |->
             told[p] \cup {v \in {cached[p].latest} : p \in shown /\ cached[p].available}]
Show(g) ==
  /\ Does(g, "show") \/ Does(g, "dashboard")
  /\ Done(g) /\ Shows(About(Now(g)))
  /\ UNCHANGED <<published, installed, disk, cached, prev, busy, exiting, crashes, news, scenario>>
Started(g) ==
  /\ Does(g, "started") /\ Done(g)
  /\ UNCHANGED <<published, installed, disk, cached, prev, busy, exiting, crashes, told, news, scenario>>

-----------------------------------------------------------------------------
(* periodicCheck after its refresh *)

IsNews_Swapped(old, new) ==   \* mutant: the snapshots are mixed up
  old.available /\ (~new.available \/ new.latest # old.latest)
IsNews_Always(old, new) == new.available   \* mutant: nothing is compared
IsNews(old, new) == new.available /\ (~old.available \/ new.latest # old.latest)

NothingNew(g) ==
  /\ Does(g, "decide") /\ ~IsNews(prev[Now(g).of], cached[Now(g).of])
  /\ Done(g)
  /\ UNCHANGED <<published, installed, disk, cached, prev, busy, exiting, crashes, told, news, scenario>>
Announces(g) ==
  Does(g, "decide") /\ IsNews(prev[Now(g).of], cached[Now(g).of]) /\ Now(g).of \notin scenario.auto
Notify(g) ==
  /\ Announces(g) /\ Done(g) /\ Shows(About(Now(g)))
  /\ news' = [news EXCEPT ![Now(g).of] = @ \cup {cached[Now(g).of].latest}]
  /\ UNCHANGED <<published, installed, disk, cached, prev, busy, exiting, crashes, scenario>>

(* A message, a result or a dashboard that does not get to Telegram is      *)
(* logged; the cache names the release all the same.                        *)
NotSent(g) ==
  /\ scenario.unsent
  /\ Does(g, "show") \/ Does(g, "dashboard") \/ Announces(g)
  /\ Done(g)
  /\ UNCHANGED <<published, installed, disk, cached, prev, busy, exiting, crashes, told, news, scenario>>
AutoUpdate(g) ==
  /\ Does(g, "decide") /\ IsNews(prev[Now(g).of], cached[Now(g).of]) /\ Now(g).of \in scenario.auto
  /\ DoneThen(g, <<step("try", Now(g).of)>>)
  /\ UNCHANGED <<published, installed, disk, cached, prev, busy, exiting, crashes, told, news, scenario>>

(* tryBusy; a refused auto-update is dropped. *)
Try(g) ==
  /\ Does(g, "try")
  /\ IF busy THEN Done(g)
     ELSE DoneThen(g, <<[Now(g) EXCEPT !.do = "install"], step("release", Now(g).of)>>)
  /\ busy' = TRUE
  /\ UNCHANGED <<published, installed, disk, cached, prev, exiting, crashes, told, news, scenario>>

(* performPodkopUpdate installs the release cached by then, performDowngrade *)
(* the staged one; a success is followed by refreshPodkop, whose outcome the *)
(* result does not show.                                                     *)
Target(s) == IF s.latest # 0 THEN s.latest ELSE cached["podkop"].latest
Replace(g) ==
  /\ Does(g, "install") /\ Now(g).of = "podkop" /\ Target(Now(g)) # 0
  /\ installed' = [installed EXCEPT !["podkop"] = 0]
  /\ DoneThen(g, <<[Now(g) EXCEPT !.do = "replace", !.latest = Target(Now(g))]>>)
  /\ UNCHANGED <<published, disk, cached, prev, busy, exiting, crashes, told, news, scenario>>
Install(g) ==
  /\ Does(g, "replace")
  /\ installed' = [installed EXCEPT !["podkop"] = Now(g).latest]
  /\ DoneThen(g, <<step("fetch", "podkop")>>)
  /\ UNCHANGED <<published, disk, cached, prev, busy, exiting, crashes, told, news, scenario>>

(* performSelfUpdate takes the latest release there is. *)
SelfInstall(g) ==
  /\ Does(g, "install") /\ Now(g).of = "self"
  /\ disk' = published["self"] /\ exiting' = TRUE /\ Done(g)
  /\ UNCHANGED <<published, installed, cached, prev, busy, crashes, told, news, scenario>>

(* No release is cached, or the install fails, before or after the old      *)
(* package was removed.                                                     *)
NotInstalled(g) ==
  /\ Does(g, "install") \/ Does(g, "replace")
  /\ scenario.fails \/ (Now(g) = step("install", "podkop") /\ cached["podkop"].latest = 0)
  /\ Done(g)
  /\ UNCHANGED <<published, installed, disk, cached, prev, busy, exiting, crashes, told, news, scenario>>

Release(g) ==
  /\ Does(g, "release") /\ Done(g)
  /\ busy' = FALSE
  /\ UNCHANGED <<published, installed, disk, cached, prev, exiting, crashes, told, news, scenario>>

(* The daemon stops, because it crashed or updated itself, and starts. *)
Restart ==
  /\ \/ exiting /\ UNCHANGED crashes
     \/ crashes < scenario.crashes /\ crashes' = crashes + 1
  /\ installed' = [installed EXCEPT !["self"] = disk]
  /\ cached' = Empty /\ prev' = Empty
  /\ busy' = FALSE /\ exiting' = FALSE
  /\ todo' = Startup
  /\ UNCHANGED <<published, disk, told, news, scenario>>

Work(g) ==
  \/ Fetched(g) \/ NotFetched(g) \/ Compare(g) \/ Store(g) \/ Show(g) \/ Started(g)
  \/ NothingNew(g) \/ Notify(g) \/ NotSent(g) \/ AutoUpdate(g) \/ Try(g)
  \/ Replace(g) \/ Install(g) \/ SelfInstall(g) \/ NotInstalled(g) \/ Release(g)

Next ==
  \/ \E p \in Products : Publish(p)
  \/ Tick \/ Restart
  \/ \E g \in Goroutines : Work(g)
  \/ \E h \in Handlers : Refresh(h)
  \/ \E h \in Handlers, p \in Products :
       Check(h, p) \/ Update(h, p)
  \/ \E h \in Handlers, v \in Versions : Rollback(h, v)

(* The timer fires again and again, requests return and succeed now and    *)
(* then, the exit timer fires.                                             *)
Spec ==
  /\ Init /\ [][Next]_vars
  /\ WF_vars(Tick) /\ WF_vars(exiting /\ Restart)
  /\ \A g \in Goroutines :
       /\ WF_vars(Work(g))
       /\ SF_vars(Fetched(g) /\ Now(g).of = "podkop")
       /\ SF_vars(Fetched(g) /\ Now(g).of = "self")

-----------------------------------------------------------------------------

(* bot.go:188-190: the user gets to see every release that is newer than   *)
(* what is installed, unless it is installed or a newer one supersedes it,  *)
(* whether startup, a button or the periodic check finds it, and whatever   *)
(* is installed automatically meanwhile.  It takes that                     *)
(*  - what is sent arrives: a release whose announcement is lost is cached, *)
(*    and no news at the next check;                                        *)
(*  - each refresh shows what it finds: the one that follows an install     *)
(*    does not;                                                             *)
(*  - no handler's late answer puts an old release in the cache, which an   *)
(*    automatic update of podkop would then install;                        *)
(*  - no failed request of one refresh clears what another one found.       *)
AllRefreshesShow ==
  /\ ~scenario.unsent
  /\ scenario.commands \subseteq {"check"}
  /\ "podkop" \in scenario.auto => scenario.commands = {} /\ scenario.releases <= 2
  /\ scenario.fails => scenario.commands = {} /\ scenario.auto = {}
ReleaseIsShown ==
  AllRefreshesShow =>
    \A p \in Products, v \in Versions :
      (published[p] = v /\ installed[p] < v)
        ~> (v \in told[p] \/ published[p] > v \/ installed[p] >= v)

(* handlers.go:487-489: the cache comes to reflect reality.  Once releases, *)
(* installs and restarts cease, it names the latest release and whether     *)
(* that is newer than what is installed again and again, whatever late      *)
(* answers, failed requests and looks at a package that was just being      *)
(* replaced put into it in between.                                         *)
Quiet == <>[][UNCHANGED <<published, installed>> /\ ~Restart]_vars
CacheIsTrue ==
  Quiet => \A p \in Products :
    []<>(/\ cached[p].installed = installed[p] /\ cached[p].latest = published[p]
         /\ cached[p].available = (published[p] > installed[p]))

(* bot.go:188-190: what was announced is not announced again, if the cache  *)
(* is neither cleared by a failed check nor moved back by a late answer.    *)
AnnouncedOnce ==
  [][(~scenario.fails /\ scenario.commands = {} /\ scenario.crashes = 0) =>
       \A g \in Goroutines : Notify(g) => cached[Now(g).of].latest \notin news[Now(g).of]]_vars

(* uci.go:35-36, README.md:69: a product that is auto-updated catches up    *)
(* with its releases, as long as the periodic check is the first to find    *)
(* them: not startup, a button, or the refresh that follows an install,     *)
(* which is why one release is the most that may appear here.  With both    *)
(* automatic the exit of a self-update and the startup after it come        *)
(* between podkop's release and the check, and it is only shown.            *)
FoundByCheck ==
  /\ scenario.commands = {} /\ scenario.crashes = 0
  /\ ~scenario.early /\ ~scenario.fails /\ scenario.releases <= 2
  /\ scenario.auto # Products
AutoUpdateCatchesUp ==
  FoundByCheck =>
    \A p \in Products, v \in Versions :
      (p \in scenario.auto /\ published[p] = v) ~> (installed[p] >= v \/ published[p] > v)
=============================================================================
