------------------------- MODULE PeriodicCheckProofs -------------------------
(* Proofs about PeriodicCheck, for any handlers, releases and scenarios, and *)
(* about Versions, for all numbers.                                          *)
EXTENDS PeriodicCheck, SequenceTheorems, FiniteSetTheorems, TLAPS

Names == {"fetch", "compare", "store", "show", "dashboard", "started", "decide",
          "try", "install", "replace", "release"}
Step == [do : Names, of : Products, latest : Versions \cup {0}, current : Versions \cup {0}]

Typed == TypeOK /\ todo \in [Goroutines -> Seq(Step)]

-----------------------------------------------------------------------------
(* Lists of steps *)

LEMMA Cat ==
  ASSUME NEW p \in Seq(Step), NEW q \in Seq(Step)
  PROVE  /\ p \o q \in Seq(Step) /\ Len(p \o q) = Len(p) + Len(q)
         /\ \A i \in 1..Len(p) : (p \o q)[i] = p[i]
         /\ \A i \in 1..Len(q) : (p \o q)[Len(p) + i] = q[i]
OBVIOUS

(* The first step of t is replaced by those of s. *)
LEMMA Rewritten ==
  ASSUME NEW t \in Seq(Step), t # <<>>, NEW s \in Seq(Step)
  PROVE  /\ Len(t) \in Nat \ {0} /\ Len(s) \in Nat /\ Head(t) = t[1] /\ t[1] \in Step
         /\ s \o Tail(t) \in Seq(Step) /\ Len(s \o Tail(t)) = Len(s) + Len(t) - 1
         /\ \A i \in 1..Len(s) : (s \o Tail(t))[i] = s[i]
         /\ \A i \in 2..Len(t) : (s \o Tail(t))[Len(s) + i - 1] = t[i]
<1>1. /\ Len(t) \in Nat \ {0} /\ Len(s) \in Nat /\ Head(t) = t[1] /\ t[1] \in Step
  OBVIOUS
<1>2. /\ Tail(t) \in Seq(Step) /\ Len(Tail(t)) = Len(t) - 1
      /\ \A i \in 1..Len(Tail(t)) : Tail(t)[i] = t[i + 1]
  OBVIOUS
<1> DEFINE q == Tail(t)
<1>3. q \in Seq(Step) /\ Len(q) = Len(t) - 1 /\ \A i \in 1..Len(q) : q[i] = t[i + 1]
  BY <1>2
<1> HIDE DEF q
<1>4. /\ s \o q \in Seq(Step) /\ Len(s \o q) = Len(s) + Len(q)
      /\ \A i \in 1..Len(s) : (s \o q)[i] = s[i]
      /\ \A i \in 1..Len(q) : (s \o q)[Len(s) + i] = q[i]
  BY <1>3, Cat
<1>5. ASSUME NEW i \in 2..Len(t) PROVE (s \o q)[Len(s) + i - 1] = t[i]
  <2>1. i - 1 \in 1..Len(q) /\ (i - 1) + 1 = i /\ Len(s) + (i - 1) = Len(s) + i - 1
    BY <1>1, <1>3
  <2>2. (s \o q)[Len(s) + (i - 1)] = q[i - 1] BY <1>4, <2>1
  <2>3. q[i - 1] = t[(i - 1) + 1] BY <1>3, <2>1
  <2>4. QED BY ONLY <2>1, <2>2, <2>3
<1>6. Len(s) + Len(q) = Len(s) + Len(t) - 1 BY <1>1, <1>3
<1>7. QED BY <1>1, <1>4, <1>5, <1>6 DEF q

LEMMA Dropped ==
  ASSUME NEW t \in Seq(Step), t # <<>>
  PROVE  Tail(t) = <<>> \o Tail(t)
<1>1. Tail(t) \in Seq(Step) OBVIOUS
<1>2. \A q \in Seq(Step) : q = <<>> \o q OBVIOUS
<1>3. QED BY <1>1, <1>2

(* What a goroutine at work does to its list. *)
Puts(g, s) ==
  s \in Seq(Step) /\ ~Idle(g) /\ todo' = [todo EXCEPT ![g] = s \o Tail(@)]

LEMMA Drops ==
  ASSUME Typed, NEW g \in Goroutines, ~Idle(g), Done(g) PROVE Puts(g, <<>>)
<1>1. todo[g] \in Seq(Step) /\ todo[g] # <<>> BY DEF Typed, Idle
<1>2. Tail(todo[g]) = <<>> \o Tail(todo[g]) BY <1>1, Dropped
<1>3. <<>> \in Seq(Step) OBVIOUS
<1>4. QED BY <1>2, <1>3 DEF Done, Puts

LEMMA Writes ==
  ASSUME Typed, NEW g \in Goroutines, ~Idle(g), NEW s \in Seq(Step), DoneThen(g, s)
  PROVE  Puts(g, s)
BY DEF DoneThen, Puts

LEMMA PutsTyped ==
  ASSUME Typed, NEW g \in Goroutines, NEW s, Puts(g, s)
  PROVE  todo' \in [Goroutines -> Seq(Step)]
<1>1. todo[g] \in Seq(Step) /\ todo[g] # <<>> BY DEF Typed, Puts, Idle
<1>2. s \o Tail(todo[g]) \in Seq(Step) BY <1>1, Rewritten DEF Puts
<1>3. QED BY <1>2 DEF Typed, Puts

LEMMA ListsTyped ==
  ASSUME NEW f \in [Goroutines -> Seq(Step)], NEW g \in Goroutines, NEW i \in DOMAIN f[g]
  PROVE  /\ f[g][i] \in Step
         /\ {f[g][i].latest, f[g][i].current} \subseteq Versions \cup {0}
<1>1. f[g] \in Seq(Step) OBVIOUS
<1>2. f[g][i] \in Step BY <1>1
<1>3. QED BY <1>2 DEF Step

(* What a goroutine is about to do. *)
LEMMA NowTyped ==
  ASSUME Typed, NEW g \in Goroutines, ~Idle(g)
  PROVE  Now(g) \in Step
<1>1. todo[g] \in Seq(Step) /\ todo[g] # <<>> BY DEF Typed, Idle
<1>2. QED BY <1>1, Rewritten DEF Now

LEMMA StepsTyped ==
  ASSUME NEW do \in Names, NEW p \in Products
  PROVE  step(do, p) \in Step
BY DEF step, Step

LEMMA RefreshFirst ==
  ASSUME NEW w \in Seq(Step), NEW u, u = refreshAll \o w
  PROVE  /\ u \in Seq(Step) /\ Len(u) = 2 + Len(w) /\ \A i \in 1..Len(w) : u[2 + i] = w[i]
         /\ u[1] = step("fetch", "podkop") /\ u[2] = step("fetch", "self")
<1>1. PICK r : r = refreshAll OBVIOUS
<1>2. \A p \in Products : step("fetch", p) \in Step BY StepsTyped DEF Names
<1>3. step("fetch", "podkop") \in Step /\ step("fetch", "self") \in Step
  BY <1>2 DEF Products
<1>4. /\ r \in Seq(Step) /\ Len(r) = 2
      /\ r[1] = step("fetch", "podkop") /\ r[2] = step("fetch", "self")
  BY <1>1, <1>3 DEF refreshAll
<1>5. /\ u \in Seq(Step) /\ Len(u) = Len(r) + Len(w)
      /\ \A i \in 1..Len(r) : u[i] = r[i]
      /\ \A i \in 1..Len(w) : u[Len(r) + i] = w[i]
  BY <1>1, <1>4, Cat
<1>6. QED BY ONLY <1>4, <1>5

LEMMA StartupIs ==
  /\ Startup \in [Goroutines -> Seq(Step)] /\ \A h \in Handlers : Startup[h] = <<>>
  /\ \E u : /\ u = Startup[Main] /\ Len(u) = 4
            /\ u[1] = step("fetch", "podkop") /\ u[2] = step("fetch", "self")
            /\ u[3] = step("dashboard", "self") /\ u[4] = step("started", "self")
<1>1. PICK w : w = <<step("dashboard", "self"), step("started", "self")>>
  OBVIOUS
<1>2. \A p \in Products, do \in {"dashboard", "started"} : step(do, p) \in Step
  BY StepsTyped DEF Names
<1>3. /\ w \in Seq(Step) /\ Len(w) = 2
      /\ w[1] = step("dashboard", "self") /\ w[2] = step("started", "self")
  BY <1>1, <1>2 DEF Products
<1>4. PICK u : u = refreshAll \o w OBVIOUS
<1>5. /\ u \in Seq(Step) /\ Len(u) = 2 + Len(w) /\ \A i \in 1..Len(w) : u[2 + i] = w[i]
      /\ u[1] = step("fetch", "podkop") /\ u[2] = step("fetch", "self")
  BY <1>3, <1>4, RefreshFirst
<1>6. Startup = [g \in Goroutines |-> IF g = Main THEN u ELSE <<>>]
  BY <1>1, <1>4 DEF Startup
<1>7. Main \in Goroutines /\ Handlers \subseteq Goroutines /\ Main \notin Handlers
  BY CheckAssumption DEF Goroutines
<1>8. /\ Startup \in [Goroutines -> Seq(Step)] /\ Startup[Main] = u
      /\ \A h \in Handlers : Startup[h] = <<>>
  BY <1>5, <1>6, <1>7
<1>9. 2 + 1 = 3 /\ 2 + 2 = 4 OBVIOUS
<1>10. Len(u) = 4 /\ u[3] = step("dashboard", "self") /\ u[4] = step("started", "self")
  BY <1>3, <1>5, <1>9
<1>11. QED BY <1>5, <1>8, <1>10

LEMMA BeginTyped ==
  ASSUME Typed, NEW g \in Goroutines, NEW s \in Seq(Step), Begin(g, s)
  PROVE  todo' \in [Goroutines -> Seq(Step)]
BY DEF Typed, Begin

(* Every step of a goroutine replaces the first one of its list. *)
LEMMA WorkPuts ==
  ASSUME Typed, NEW g \in Goroutines, Work(g)
  PROVE  \E s : Puts(g, s)
<1>1. ~Idle(g)
  BY DEF Work, Fetched, NotFetched, Compare, Store, Show, Started, NothingNew, Notify,
     NotSent, Announces, AutoUpdate, Try, Replace, Install, SelfInstall, NotInstalled, Release, Does
<1>2. Now(g) \in Step BY <1>1, NowTyped
<1>3. ASSUME Done(g) PROVE \E s : Puts(g, s) BY <1>1, <1>3, Drops
<1>4. ASSUME NEW s \in Seq(Step), DoneThen(g, s) PROVE \E r : Puts(g, r)
  BY <1>1, <1>4, Writes
<1>5. CASE Store(g) \/ Show(g) \/ Started(g) \/ NothingNew(g) \/ Notify(g) \/ NotSent(g)
             \/ SelfInstall(g) \/ NotInstalled(g) \/ Release(g)
  BY <1>3, <1>5
  DEF Store, Show, Started, NothingNew, Notify, NotSent, SelfInstall, NotInstalled, Release
<1>6. ASSUME NEW a \in Step PROVE <<a>> \in Seq(Step) OBVIOUS
<1>7. CASE Fetched(g)
  <2>1. [step("compare", Now(g).of) EXCEPT !.latest = published[Now(g).of]] \in Step
    BY <1>2 DEF Typed, TypeOK, Step, step, Names
  <2>2. QED BY <1>4, <1>6, <1>7, <2>1 DEF Fetched
<1>8. CASE NotFetched(g)
  <2>1. step("compare", Now(g).of) \in Step BY <1>2, StepsTyped DEF Step, Names
  <2>2. QED BY <1>4, <1>6, <1>8, <2>1 DEF NotFetched
<1>9. CASE Compare(g)
  <2>1. [Now(g) EXCEPT !.do = "store", !.current = installed[Now(g).of]] \in Step
    BY <1>2 DEF Typed, TypeOK, Step, Names
  <2>2. QED BY <1>4, <1>6, <1>9, <2>1 DEF Compare
<1>10. CASE AutoUpdate(g)
  <2>1. step("try", Now(g).of) \in Step BY <1>2, StepsTyped DEF Step, Names
  <2>2. QED BY <1>4, <1>6, <1>10, <2>1 DEF AutoUpdate
<1>11. CASE Try(g)
  <2>1. [Now(g) EXCEPT !.do = "install"] \in Step BY <1>2 DEF Step, Names
  <2>2. step("release", Now(g).of) \in Step BY <1>2, StepsTyped DEF Step, Names
  <2>3. <<[Now(g) EXCEPT !.do = "install"], step("release", Now(g).of)>> \in Seq(Step)
    BY <2>1, <2>2
  <2>4. QED BY <1>3, <1>4, <1>11, <2>3 DEF Try
<1>12. CASE Replace(g)
  <2>1. Target(Now(g)) \in Versions \cup {0}
    BY <1>2 DEF Typed, TypeOK, Step, Cache, Target, Products
  <2>2. [Now(g) EXCEPT !.do = "replace", !.latest = Target(Now(g))] \in Step
    BY <1>2, <2>1 DEF Step, Names
  <2>3. QED BY <1>4, <1>6, <1>12, <2>2 DEF Replace
<1>13. CASE Install(g)
  <2>1. step("fetch", "podkop") \in Step BY StepsTyped DEF Names, Products
  <2>2. QED BY <1>4, <1>6, <1>13, <2>1 DEF Install
<1>14. QED
  BY <1>5, <1>7, <1>8, <1>9, <1>10, <1>11, <1>12, <1>13 DEF Work

LEMMA TickBegins ==
  ASSUME Tick
  PROVE  \E u \in Seq(Step) :
           /\ Begin(Main, u) /\ Len(u) = 4
           /\ u[1] = step("fetch", "podkop") /\ u[2] = step("fetch", "self")
           /\ u[3] = step("decide", "podkop") /\ u[4] = step("decide", "self")
<1>1. PICK w : w = <<step("decide", "podkop"), step("decide", "self")>> OBVIOUS
<1>2. \A p \in Products : step("decide", p) \in Step BY StepsTyped DEF Names
<1>3. /\ w \in Seq(Step) /\ Len(w) = 2 /\ w[1] = step("decide", "podkop")
      /\ w[2] = step("decide", "self")
  BY <1>1, <1>2 DEF Products
<1>4. PICK u : u = refreshAll \o w OBVIOUS
<1>5. /\ u \in Seq(Step) /\ Len(u) = 2 + Len(w) /\ \A i \in 1..Len(w) : u[2 + i] = w[i]
      /\ u[1] = step("fetch", "podkop") /\ u[2] = step("fetch", "self")
  BY <1>3, <1>4, RefreshFirst
<1>6. Begin(Main, u) BY <1>1, <1>4 DEF Tick
<1>7. 2 + 1 = 3 /\ 2 + 2 = 4 OBVIOUS
<1>8. Len(u) = 4 /\ u[3] = step("decide", "podkop") /\ u[4] = step("decide", "self")
  BY <1>3, <1>5, <1>7
<1>9. QED BY <1>5, <1>6, <1>8

(* The button that refreshes both. *)
LEMMA RefreshBegins ==
  ASSUME NEW h, Refresh(h) PROVE \E u \in Seq(Step) : Begin(h, u)
<1>1. PICK w : w = <<step("dashboard", "self")>> OBVIOUS
<1>2. step("dashboard", "self") \in Step BY StepsTyped DEF Names, Products
<1>3. w \in Seq(Step) BY <1>1, <1>2
<1>4. PICK u : u = refreshAll \o w OBVIOUS
<1>5. u \in Seq(Step) BY <1>3, <1>4, RefreshFirst
<1>6. QED BY <1>1, <1>4, <1>5 DEF Refresh

LEMMA TodoStep ==
  ASSUME Typed, [Next]_vars PROVE todo' \in [Goroutines -> Seq(Step)]
<1>1. CASE UNCHANGED todo BY <1>1 DEF Typed
<1>2. ASSUME NEW g \in Goroutines, Work(g) PROVE todo' \in [Goroutines -> Seq(Step)]
  BY <1>2, WorkPuts, PutsTyped
<1>3. CASE Tick
  <2>1. Main \in Goroutines BY DEF Goroutines
  <2>2. QED BY <1>3, <2>1, TickBegins, BeginTyped
<1>4. CASE Restart BY <1>4, StartupIs DEF Restart
<1>5. ASSUME NEW h \in Handlers, NEW p \in Products, Check(h, p) \/ Update(h, p)
      PROVE  todo' \in [Goroutines -> Seq(Step)]
  <2>1. h \in Goroutines BY DEF Goroutines
  <2>2. /\ step("fetch", p) \in Step /\ step("show", p) \in Step /\ step("try", p) \in Step
    BY StepsTyped DEF Names
  <2>3. /\ <<step("fetch", p), step("show", p)>> \in Seq(Step)
        /\ <<step("try", p)>> \in Seq(Step)
    BY <2>2
  <2>4. QED BY <1>5, <2>1, <2>3, BeginTyped DEF Check, Update
<1>6. ASSUME NEW h \in Handlers, NEW v \in Versions, Rollback(h, v)
      PROVE  todo' \in [Goroutines -> Seq(Step)]
  <2>1. h \in Goroutines BY DEF Goroutines
  <2>2. [step("try", "podkop") EXCEPT !.latest = v] \in Step
    BY DEF step, Step, Names, Products
  <2>3. <<[step("try", "podkop") EXCEPT !.latest = v]>> \in Seq(Step) BY <2>2
  <2>4. QED BY <1>6, <2>1, <2>3, BeginTyped DEF Rollback
<1>7. ASSUME NEW p \in Products, Publish(p) PROVE UNCHANGED todo BY <1>7 DEF Publish
<1>8. ASSUME NEW h \in Handlers, Refresh(h) PROVE todo' \in [Goroutines -> Seq(Step)]
  <2>1. h \in Goroutines BY DEF Goroutines
  <2>2. QED BY <1>8, <2>1, RefreshBegins, BeginTyped
<1>9. QED BY <1>1, <1>2, <1>3, <1>4, <1>5, <1>6, <1>7, <1>8 DEF Next, vars

(* TypeOK without its clause about lists. *)
Variables ==
  /\ published \in [Products -> Versions]
  /\ installed \in [Products -> Versions \cup {0}]
  /\ disk \in Versions
  /\ cached \in [Products -> Cache] /\ prev \in [Products -> Cache]
  /\ \A p \in Products : cached[p].available => cached[p].latest # 0
  /\ busy \in BOOLEAN /\ exiting \in BOOLEAN /\ crashes \in Nat
  /\ told \in [Products -> SUBSET Versions] /\ news \in [Products -> SUBSET Versions]
  /\ scenario \in Scenarios /\ crashes <= scenario.crashes

LEMMA TypedIs == Typed <=> Variables /\ todo \in [Goroutines -> Seq(Step)]
BY ListsTyped DEF Typed, TypeOK, Variables

LEMMA TypedIsNext == Typed' <=> Variables' /\ todo' \in [Goroutines -> Seq(Step)]
BY ListsTyped DEF Typed, TypeOK, Variables

LEMMA EmptyTyped == Empty \in [Products -> Cache] /\ \A p \in Products : ~Empty[p].available
BY DEF Empty, Cache

LEMMA AnswerTyped ==
  ASSUME NEW c \in Versions \cup {0}, NEW l \in Versions \cup {0}
  PROVE  /\ Answer(c, l) \in Cache /\ Answer(c, l).latest = l
         /\ Answer(c, l).available => l # 0
<1>1. (l # 0 /\ IsNewer(Tags[c], Tags[l])) \in BOOLEAN BY DEF IsNewer
<1>2. QED BY <1>1 DEF Answer, Cache

LEMMA WorkTyped == ASSUME Typed, NEW g \in Goroutines, Work(g) PROVE Variables'
<1> USE DEF Variables
<1>1. Variables BY TypedIs
<1>2. ~Idle(g)
  BY DEF Work, Fetched, NotFetched, Compare, Store, Show, Started, NothingNew, Notify,
     NotSent, Announces, AutoUpdate, Try, Replace, Install, SelfInstall, NotInstalled, Release, Does
<1>3. /\ Now(g).of \in Products /\ Now(g).latest \in Versions \cup {0}
      /\ Now(g).current \in Versions \cup {0}
  BY <1>2, NowTyped DEF Step
<1>4. CASE Fetched(g) BY <1>1, <1>4 DEF Fetched
<1>5. CASE NotFetched(g) BY <1>1, <1>5 DEF NotFetched
<1>6. CASE Compare(g) BY <1>1, <1>6 DEF Compare
<1>7. CASE Store(g)
  <2>1. PICK a : a = Answer(Now(g).current, Now(g).latest) OBVIOUS
  <2>2. a \in Cache /\ (a.available => a.latest # 0) BY <1>3, <2>1, AnswerTyped
  <2>3. cached' = [cached EXCEPT ![Now(g).of] = a] BY <1>7, <2>1 DEF Store
  <2>4. QED BY <1>1, <1>3, <1>7, <2>2, <2>3 DEF Store
<1>8. ASSUME NEW P, Shows(P) PROVE told' \in [Products -> SUBSET Versions]
  <2>1. ASSUME NEW p \in Products, cached[p].available PROVE cached[p].latest \in Versions
    <3>1. cached[p] \in Cache BY <1>1
    <3>2. QED BY <1>1, <2>1, <3>1 DEF Cache
  <2>2. QED BY <1>1, <1>8, <2>1 DEF Shows
<1>9. CASE Show(g)
  <2>1. told' \in [Products -> SUBSET Versions] BY <1>8, <1>9 DEF Show
  <2>2. QED BY <1>1, <1>9, <2>1 DEF Show
<1>10. CASE Started(g) BY <1>1, <1>10 DEF Started
<1>11. CASE NothingNew(g) BY <1>1, <1>11 DEF NothingNew
<1>12. CASE Notify(g)
  <2>1. told' \in [Products -> SUBSET Versions] BY <1>8, <1>12 DEF Notify
  <2>2. cached[Now(g).of] \in Cache /\ cached[Now(g).of].available
    BY <1>1, <1>3, <1>12 DEF Notify, Announces, IsNews
  <2>3. cached[Now(g).of].latest \in Versions BY <1>1, <1>3, <2>2 DEF Cache
  <2>4. news' \in [Products -> SUBSET Versions] BY <1>1, <1>3, <1>12, <2>3 DEF Notify
  <2>5. QED BY <1>1, <1>12, <2>1, <2>4 DEF Notify
<1>13. CASE AutoUpdate(g) BY <1>1, <1>13 DEF AutoUpdate
<1>14. CASE Try(g) BY <1>1, <1>14 DEF Try
<1>15. CASE Replace(g) BY <1>1, <1>15 DEF Replace
<1>16. CASE Install(g) BY <1>1, <1>3, <1>16 DEF Install
<1>17. CASE SelfInstall(g) BY <1>1, <1>17 DEF SelfInstall, Products
<1>18. CASE NotInstalled(g) BY <1>1, <1>18 DEF NotInstalled
<1>19. CASE Release(g) BY <1>1, <1>19 DEF Release
<1>20. CASE NotSent(g) BY <1>1, <1>20 DEF NotSent
<1>21. QED
  BY <1>4, <1>5, <1>6, <1>7, <1>9, <1>10, <1>11, <1>12, <1>13, <1>14, <1>15, <1>16,
     <1>17, <1>18, <1>19, <1>20 DEF Work

LEMMA TypedStep == ASSUME Typed, [Next]_vars PROVE Typed'
<1> SUFFICES Variables' BY TodoStep, TypedIsNext
<1> USE DEF Variables
<1>1. Variables BY TypedIs
<1>2. ASSUME NEW p \in Products, Publish(p) PROVE Variables'
  <2>1. scenario.releases \in Nat /\ scenario.releases <= MaxVersion
    BY <1>1, CheckAssumption DEF Scenario
  <2>2. published[p] \in Versions /\ published[p] < scenario.releases
    BY <1>1, <1>2 DEF Publish
  <2>3. published[p] + 1 \in Versions BY <2>1, <2>2, CheckAssumption DEF Versions
  <2>4. QED BY <1>1, <1>2, <2>3 DEF Publish
<1>3. ASSUME NEW g, NEW s, Begin(g, s), prev' \in {prev, cached} PROVE Variables'
  BY <1>1, <1>3 DEF Begin
<1>4. CASE Tick
  <2>1. PICK u \in Seq(Step) : Begin(Main, u) BY <1>4, TickBegins
  <2>2. QED BY <1>3, <1>4, <2>1 DEF Tick
<1>5. CASE Restart
  <2>1. Empty \in [Products -> Cache] /\ \A p \in Products : ~Empty[p].available
    BY EmptyTyped
  <2>2. scenario.crashes \in Nat BY <1>1, CheckAssumption DEF Scenario
  <2>3. crashes' \in Nat /\ crashes' <= scenario.crashes BY <1>1, <1>5, <2>2 DEF Restart
  <2>4. installed' \in [Products -> Versions \cup {0}] BY <1>1, <1>5 DEF Restart
  <2>5. busy' = FALSE /\ exiting' = FALSE /\ cached' = Empty /\ prev' = Empty
        /\ UNCHANGED <<published, disk, told, news, scenario>>
    BY <1>5 DEF Restart
  <2>6. QED BY <1>1, <2>1, <2>3, <2>4, <2>5
<1>6. ASSUME NEW h, NEW p, Check(h, p) \/ Update(h, p) \/ Rollback(h, p) \/ Refresh(h)
      PROVE  Variables'
  BY <1>3, <1>6 DEF Check, Update, Rollback, Refresh
<1>7. CASE UNCHANGED vars
  <2>1. UNCHANGED <<published, installed, disk, cached, prev, busy, exiting, crashes, told,
                    news, scenario>>
    BY <1>7 DEF vars
  <2>2. QED BY <1>1, <2>1
<1> HIDE DEF Variables
<1>8. QED BY <1>2, <1>4, <1>5, <1>6, <1>7, WorkTyped DEF Next

LEMMA InitTyped == ASSUME Init PROVE Typed
<1>1. 1 \in Versions BY CheckAssumption DEF Versions
<1>2. scenario.crashes \in Nat BY CheckAssumption DEF Init, Scenario
<1>3. Variables
  <2>1. /\ cached \in [Products -> Cache] /\ prev \in [Products -> Cache]
        /\ \A p \in Products : cached[p].available => cached[p].latest # 0
    BY EmptyTyped DEF Init
  <2>2. /\ busy = FALSE /\ exiting = FALSE /\ crashes = 0 /\ scenario \in Scenarios
        /\ crashes <= scenario.crashes
    BY <1>2 DEF Init
  <2>3. /\ published \in [Products -> Versions] /\ installed \in [Products -> Versions]
        /\ disk \in Versions /\ told \in [Products -> SUBSET Versions] /\ news = told
    BY <1>1 DEF Init
  <2>4. QED BY <2>1, <2>2, <2>3 DEF Variables
<1>4. todo \in [Goroutines -> Seq(Step)] BY StartupIs DEF Init
<1>5. QED BY <1>3, <1>4, TypedIs

LEMMA TypedHolds == Spec => []Typed
<1>1. Typed /\ [Next]_vars => Typed' BY TypedStep
<1>2. QED BY InitTyped, <1>1, PTL DEF Spec

-----------------------------------------------------------------------------
(***************************************************************************)
(* Announcements, when nothing fails and nobody but the periodic check and *)
(* startup refreshes the cache.  AnnouncedOnce is not inductive: of what   *)
(* is cached it matters whether it was fetched after all that was          *)
(* announced.  Until p's refresh is over that is so of the answer that is  *)
(* on its way, then of the cache, and a check begins with a snapshot of    *)
(* which it is so, too (Covers).  Releases only grow, and the version in   *)
(* use of what is not updated automatically stays, so that a snapshot that *)
(* names the same release says the same of it (Answer).                    *)
(***************************************************************************)
ahead == todo[Main]
Refreshes == {"fetch", "compare", "store"}

Waiting(p) == \E i \in 1..Len(ahead) : ahead[i].of = p /\ ahead[i].do \in Refreshes
Deciding(p) == \E i \in 1..Len(ahead) : ahead[i].of = p /\ ahead[i].do = "decide"

(* Release v of p is at least what was announced and what a check that is   *)
(* under way began with.                                                    *)
Covers(p, v) == /\ \A n \in news[p] : n <= v
                /\ Deciding(p) => prev[p].latest <= v

(* The steps about p that lie ahead: a refresh, before all else, and a      *)
(* decision, after all else.                                                *)
Orderly(p) ==
  \A i, j \in 1..Len(ahead) : ahead[i].of = p /\ ahead[j].of = p /\ i < j =>
    ahead[i].do # "decide" /\ ahead[j].do \notin Refreshes

Answers(p) ==
  \A i \in 1..Len(ahead) : ahead[i].of = p =>
    /\ ahead[i].do \in Refreshes \cup {"show", "dashboard", "started", "decide"}
    /\ ahead[i].do = "store" => ahead[i].current = 1
    /\ ahead[i].do \in {"compare", "store"} =>
         Covers(p, ahead[i].latest) /\ ahead[i].latest <= published[p]

Known(p) ==
  /\ installed[p] = 1
  /\ Covers(p, published[p]) /\ cached[p].latest <= published[p]
  /\ ~Waiting(p) =>
       Covers(p, cached[p].latest) /\ cached[p] = Answer(1, cached[p].latest)
  /\ Deciding(p) => /\ prev[p] = Answer(1, prev[p].latest)
                    /\ \A n \in news[p] : n <= prev[p].latest

NewsOf(p) == Orderly(p) /\ Answers(p) /\ Known(p)

Calm == ~scenario.fails /\ scenario.commands = {} /\ scenario.crashes = 0

NewsInv ==
  Calm => /\ \A h \in Handlers : todo[h] = <<>>
          /\ "self" \notin scenario.auto => disk = 1
          /\ \A p \in Products \ scenario.auto : NewsOf(p)

(* Only podkop's package is replaced. *)
Replacing == \A i \in 1..Len(ahead) : ahead[i].do = "replace" => ahead[i].of = "podkop"

-----------------------------------------------------------------------------

(* The first of Main's steps is gone, k others come before the rest. *)
Goes(k) ==
  /\ k \in 0..2 /\ Len(ahead) \in Nat \ {0} /\ Len(ahead') \in Nat
  /\ k = 1 => 1 \in 1..Len(ahead')
  /\ \A i \in 1..Len(ahead') :
       i <= k \/ \E j \in 2..Len(ahead) : j = i - k + 1 /\ ahead'[i] = ahead[j]
  /\ \A j \in 2..Len(ahead) :
       \E i \in 1..Len(ahead') : i = j + k - 1 /\ ahead'[i] = ahead[j]

LEMMA MainPuts ==
  ASSUME Typed, NEW s, Puts(Main, s), Len(s) \in 0..2
  PROVE  /\ Goes(Len(s)) /\ \A i \in 1..Len(s) : ahead'[i] = s[i]
         /\ ahead[1] = Now(Main)
<1>1. Main \in Goroutines BY DEF Goroutines
<1>2. PICK t : t = todo[Main] OBVIOUS
<1>3. t \in Seq(Step) /\ t # <<>> /\ s \in Seq(Step)
  BY <1>1, <1>2 DEF Typed, Puts, Idle
<1>4. PICK u : u = s \o Tail(t) OBVIOUS
<1>5. /\ Len(t) \in Nat \ {0} /\ Len(s) \in Nat /\ Head(t) = t[1]
      /\ u \in Seq(Step) /\ Len(u) = Len(s) + Len(t) - 1
      /\ \A i \in 1..Len(s) : u[i] = s[i]
      /\ \A i \in 2..Len(t) : u[Len(s) + i - 1] = t[i]
  BY <1>3, <1>4, Rewritten
<1>6. todo'[Main] = u BY <1>1, <1>2, <1>4 DEF Puts, Typed
<1>7. PICK k \in 0..2 : k = Len(s) OBVIOUS
<1>8. Len(u) \in Nat /\ (k = 1 => 1 \in 1..Len(u)) BY <1>5, <1>7
<1>9. ASSUME NEW i \in 1..Len(u), i > k
      PROVE  \E j \in 2..Len(t) : j = i - k + 1 /\ u[i] = t[j]
  <2>1. i - k + 1 \in 2..Len(t) /\ k + (i - k + 1) - 1 = i BY <1>5, <1>7, <1>9
  <2>2. u[k + (i - k + 1) - 1] = t[i - k + 1] BY <1>5, <1>7, <2>1
  <2>3. QED BY <2>1, <2>2
<1>10. ASSUME NEW j \in 2..Len(t)
       PROVE  \E i \in 1..Len(u) : i = j + k - 1 /\ u[i] = t[j]
  <2>1. j + k - 1 \in 1..Len(u) /\ k + j - 1 = j + k - 1 BY <1>5, <1>7
  <2>2. u[k + j - 1] = t[j] BY <1>5, <1>7
  <2>3. QED BY <2>1, <2>2
<1>11. \A i \in 1..Len(u) : i <= k \/ i > k BY <1>5, <1>7
<1>12. Goes(k)
  BY <1>2, <1>5, <1>6, <1>8, <1>9, <1>10, <1>11 DEF Goes, ahead
<1>13. QED BY <1>2, <1>5, <1>6, <1>7, <1>12 DEF Now, ahead

(* Of p's steps, the order is kept and no decision is added, if those that  *)
(* come first are not about p or carry on the refresh that went.            *)
CarriesOn(p) ==
  /\ ahead[1].of = p /\ ahead[1].do \in Refreshes
  /\ ahead'[1].of = p /\ ahead'[1].do \in Refreshes

LEMMA StepsKept ==
  ASSUME NEW p, NEW k, Goes(k), Orderly(p),
         \A i \in 1..k : i \in 1..Len(ahead') =>
           ahead'[i].of # p \/ (k = 1 /\ CarriesOn(p))
  PROVE  Orderly(p)' /\ (Deciding(p)' => Deciding(p))
<1>1. k \in 0..2 /\ Len(ahead) \in Nat \ {0} /\ Len(ahead') \in Nat BY DEF Goes
<1>2. ASSUME NEW i \in 1..Len(ahead'), ahead'[i].of = p
      PROVE  \/ \E m \in 2..Len(ahead) : m = i - k + 1 /\ ahead'[i] = ahead[m]
             \/ k = 1 /\ i = 1 /\ CarriesOn(p)
  <2>1. CASE i <= k
    <3>1. i \in 1..k BY <1>1, <2>1
    <3>2. k = 1 /\ CarriesOn(p) BY <1>2, <3>1
    <3>3. QED BY <3>1, <3>2
  <2>2. CASE ~(i <= k) BY <2>2 DEF Goes
  <2>3. QED BY <2>1, <2>2
<1>3. ASSUME NEW i \in 1..Len(ahead'), NEW j \in 1..Len(ahead'),
             ahead'[i].of = p, ahead'[j].of = p, i < j
      PROVE  ahead'[i].do # "decide" /\ ahead'[j].do \notin Refreshes
  <2>1. PICK m \in 2..Len(ahead) : m = j - k + 1 /\ ahead'[j] = ahead[m]
    BY <1>1, <1>2, <1>3
  <2>2. m \in 1..Len(ahead) /\ 1 \in 1..Len(ahead) /\ 1 < m BY <1>1
  <2>3. CASE k = 1 /\ i = 1 /\ CarriesOn(p)
    <3>1. ahead[m].do \notin Refreshes BY <1>3, <2>1, <2>2, <2>3 DEF Orderly, CarriesOn
    <3>2. ahead'[i].do # "decide" BY <2>3 DEF CarriesOn, Refreshes
    <3>3. QED BY <2>1, <3>1, <3>2
  <2>4. CASE \E l \in 2..Len(ahead) : l = i - k + 1 /\ ahead'[i] = ahead[l]
    <3>1. PICK l \in 2..Len(ahead) : l = i - k + 1 /\ ahead'[i] = ahead[l] BY <2>4
    <3>2. l \in 1..Len(ahead) /\ l < m BY <1>1, <1>3, <2>1, <3>1
    <3>3. ahead[l].do # "decide" /\ ahead[m].do \notin Refreshes
      BY <1>3, <2>1, <2>2, <3>1, <3>2 DEF Orderly
    <3>4. QED BY <2>1, <3>1, <3>3
  <2>5. QED BY <1>2, <1>3, <2>3, <2>4
<1>4. Orderly(p)' BY <1>3 DEF Orderly
<1>5. ASSUME Deciding(p)' PROVE Deciding(p)
  <2>1. PICK i \in 1..Len(ahead') : ahead'[i].of = p /\ ahead'[i].do = "decide"
    BY <1>5 DEF Deciding
  <2>2. ~(i = 1 /\ CarriesOn(p)) BY <2>1 DEF CarriesOn, Refreshes
  <2>3. PICK m \in 2..Len(ahead) : ahead'[i] = ahead[m] BY <1>2, <2>1, <2>2
  <2>4. m \in 1..Len(ahead) BY <1>1
  <2>5. QED BY <2>1, <2>3, <2>4 DEF Deciding
<1>6. QED BY <1>4, <1>5

(* A refresh that lies ahead does so still, unless it was the first step.   *)
LEMMA WaitsStill ==
  ASSUME NEW p, NEW k, Goes(k), Waiting(p),
         ~(ahead[1].of = p /\ ahead[1].do \in Refreshes)
  PROVE  Waiting(p)'
<1>1. PICK m \in 1..Len(ahead) : ahead[m].of = p /\ ahead[m].do \in Refreshes
  BY DEF Waiting
<1>2. m \in 2..Len(ahead) BY <1>1 DEF Goes
<1>3. PICK i \in 1..Len(ahead') : ahead'[i] = ahead[m] BY <1>2 DEF Goes
<1>4. QED BY <1>1, <1>3 DEF Waiting

(* What covered news and snapshot does so while they stay.                  *)
LEMMA CoversStill ==
  ASSUME NEW p, news'[p] = news[p], prev'[p] = prev[p], Deciding(p)' => Deciding(p), NEW v,
         Covers(p, v)
  PROVE  (\A n \in news'[p] : n <= v) /\ (Deciding(p)' => prev'[p].latest <= v)
BY DEF Covers

LEMMA AnswersStep ==
  ASSUME NEW p, NEW k, Goes(k), Answers(p), Deciding(p)' => Deciding(p),
         published'[p] = published[p], news'[p] = news[p], prev'[p] = prev[p],
         \A i \in 1..k : i \in 1..Len(ahead') => ahead'[i].of # p
  PROVE  Answers(p)'
<1>1. ASSUME NEW i \in 1..Len(ahead'), ahead'[i].of = p
      PROVE  /\ ahead'[i].do \in Refreshes \cup {"show", "dashboard", "started", "decide"}
             /\ ahead'[i].do = "store" => ahead'[i].current = 1
             /\ ahead'[i].do \in {"compare", "store"} =>
                  Covers(p, ahead[i].latest)' /\ ahead'[i].latest <= published'[p]
  <2>1. ~(i <= k) BY <1>1 DEF Goes
  <2>2. PICK m \in 2..Len(ahead) : ahead'[i] = ahead[m] BY <2>1 DEF Goes
  <2>3. m \in 1..Len(ahead) BY DEF Goes
  <2>4. /\ ahead[m].do \in Refreshes \cup {"show", "dashboard", "started", "decide"}
        /\ ahead[m].do = "store" => ahead[m].current = 1
        /\ ahead[m].do \in {"compare", "store"} =>
             Covers(p, ahead[m].latest) /\ ahead[m].latest <= published[p]
    BY <1>1, <2>2, <2>3 DEF Answers
  <2>5. ahead'[i].do \in {"compare", "store"} =>
          /\ \A n \in news'[p] : n <= ahead'[i].latest
          /\ Deciding(p)' => prev'[p].latest <= ahead'[i].latest
    BY <2>2, <2>4, CoversStill
  <2>6. QED BY <2>2, <2>4, <2>5 DEF Covers
<1>2. QED BY <1>1 DEF Answers

(* A step that is not about p's refresh and leaves what is known of p.      *)
Untouched(p) ==
  /\ published'[p] = published[p] /\ installed'[p] = installed[p]
  /\ cached'[p] = cached[p] /\ prev'[p] = prev[p] /\ news'[p] = news[p]

LEMMA KnownStep ==
  ASSUME NEW p, Known(p), Untouched(p), Waiting(p) => Waiting(p)',
         Deciding(p)' => Deciding(p)
  PROVE  Known(p)'
<1>1. installed'[p] = 1 BY DEF Known, Untouched
<1>2. /\ \A n \in news'[p] : n <= published'[p]
      /\ Deciding(p)' => prev'[p].latest <= published'[p]
      /\ cached'[p].latest <= published'[p]
  BY CoversStill DEF Known, Untouched
<1>3. ASSUME ~Waiting(p)'
      PROVE  /\ \A n \in news'[p] : n <= cached'[p].latest
             /\ Deciding(p)' => prev'[p].latest <= cached'[p].latest
             /\ cached'[p] = Answer(1, cached'[p].latest)
  BY <1>3, CoversStill DEF Known, Untouched
<1>4. Deciding(p)' => /\ prev'[p] = Answer(1, prev'[p].latest)
                      /\ \A n \in news'[p] : n <= prev'[p].latest
  BY DEF Known, Untouched
<1>5. Answer(1, cached[p].latest)' = Answer(1, cached'[p].latest)
      /\ Answer(1, prev[p].latest)' = Answer(1, prev'[p].latest)
  BY DEF Answer
<1>6. QED BY <1>1, <1>2, <1>3, <1>4, <1>5 DEF Known, Covers

LEMMA AsideStep ==
  ASSUME NEW p, NEW k, Goes(k), NewsOf(p), Untouched(p),
         ~(ahead[1].of = p /\ ahead[1].do \in Refreshes),
         \A i \in 1..k : i \in 1..Len(ahead') => ahead'[i].of # p
  PROVE  NewsOf(p)'
<1>1. Orderly(p)' /\ (Deciding(p)' => Deciding(p)) BY StepsKept DEF NewsOf
<1>2. Waiting(p) => Waiting(p)' BY WaitsStill
<1>3. Answers(p)' BY <1>1, AnswersStep DEF NewsOf, Untouched
<1>4. Known(p)' BY <1>1, <1>2, KnownStep DEF NewsOf
<1>5. QED BY <1>1, <1>3, <1>4 DEF NewsOf

(* The refresh of p goes on: a request was answered, or the version in use  *)
(* was read.                                                                *)
LEMMA RefreshStep ==
  ASSUME NEW p, Goes(1), NewsOf(p), Untouched(p), CarriesOn(p),
         ahead'[1].do \in {"compare", "store"},
         ahead'[1].do = "store" => ahead'[1].current = 1,
         Covers(p, ahead'[1].latest), ahead'[1].latest <= published[p]
  PROVE  NewsOf(p)'
<1>0. 1 \in 1..Len(ahead') BY DEF Goes
<1>1. Orderly(p)' /\ (Deciding(p)' => Deciding(p)) BY StepsKept DEF NewsOf
<1>2. Waiting(p)' BY <1>0 DEF Waiting, CarriesOn
<1>3. Known(p)' BY <1>1, <1>2, KnownStep DEF NewsOf
<1>4. ASSUME NEW i \in 1..Len(ahead'), ahead'[i].of = p
      PROVE  /\ ahead'[i].do \in Refreshes \cup {"show", "dashboard", "started", "decide"}
             /\ ahead'[i].do = "store" => ahead'[i].current = 1
             /\ ahead'[i].do \in {"compare", "store"} =>
                  Covers(p, ahead[i].latest)' /\ ahead'[i].latest <= published'[p]
  <2>1. CASE i = 1
    <3>1. /\ \A n \in news'[p] : n <= ahead'[1].latest
          /\ Deciding(p)' => prev'[p].latest <= ahead'[1].latest
      BY <1>1, CoversStill DEF Untouched
    <3>2. QED BY <2>1, <3>1 DEF Covers, Untouched, Refreshes
  <2>2. CASE i # 1
    <3>1. ~(i <= 1) BY <1>0, <2>2 DEF Goes
    <3>2. PICK m \in 2..Len(ahead) : ahead'[i] = ahead[m] BY <3>1 DEF Goes
    <3>3. m \in 1..Len(ahead) BY DEF Goes
    <3>4. /\ ahead[m].do \in Refreshes \cup {"show", "dashboard", "started", "decide"}
          /\ ahead[m].do = "store" => ahead[m].current = 1
          /\ ahead[m].do \in {"compare", "store"} =>
               Covers(p, ahead[m].latest) /\ ahead[m].latest <= published[p]
      BY <1>4, <3>2, <3>3 DEF Answers, NewsOf
    <3>5. ahead'[i].do \in {"compare", "store"} =>
            /\ \A n \in news'[p] : n <= ahead'[i].latest
            /\ Deciding(p)' => prev'[p].latest <= ahead'[i].latest
      BY <1>1, <3>2, <3>4, CoversStill DEF Untouched
    <3>6. QED BY <3>2, <3>4, <3>5 DEF Covers, Untouched
  <2>3. QED BY <2>1, <2>2
<1>5. Answers(p)' BY <1>4 DEF Answers
<1>6. QED BY <1>1, <1>3, <1>5 DEF NewsOf

(* The answer to p's refresh is stored.                                     *)
LEMMA StoreStep ==
  ASSUME NEW p, Goes(0), NewsOf(p), 1 \in 1..Len(ahead),
         ahead[1].of = p, ahead[1].do = "store", cached'[p] = Answer(1, ahead[1].latest),
         published'[p] = published[p], installed'[p] = installed[p],
         prev'[p] = prev[p], news'[p] = news[p]
  PROVE  NewsOf(p)'
<1>1. Orderly(p)' /\ (Deciding(p)' => Deciding(p)) BY StepsKept DEF NewsOf
<1>2. Answers(p)' BY <1>1, AnswersStep DEF NewsOf
<1>3. Covers(p, ahead[1].latest) /\ ahead[1].latest <= published[p]
  BY DEF NewsOf, Answers
<1>4. cached'[p].latest = ahead[1].latest BY DEF Answer
<1>5. installed'[p] = 1 BY DEF NewsOf, Known
<1>6. /\ \A n \in news'[p] : n <= published'[p]
      /\ Deciding(p)' => prev'[p].latest <= published'[p]
      /\ cached'[p].latest <= published'[p]
  BY <1>1, <1>3, <1>4, CoversStill DEF NewsOf, Known
<1>7. /\ \A n \in news'[p] : n <= cached'[p].latest
      /\ Deciding(p)' => prev'[p].latest <= cached'[p].latest
      /\ cached'[p] = Answer(1, cached'[p].latest)
  BY <1>1, <1>3, <1>4, CoversStill
<1>8. Deciding(p)' => /\ prev'[p] = Answer(1, prev'[p].latest)
                      /\ \A n \in news'[p] : n <= prev'[p].latest
  BY <1>1 DEF NewsOf, Known
<1>9. Answer(1, cached[p].latest)' = Answer(1, cached'[p].latest)
      /\ Answer(1, prev[p].latest)' = Answer(1, prev'[p].latest)
  BY DEF Answer
<1>10. Known(p)' BY <1>5, <1>6, <1>7, <1>8, <1>9 DEF Known, Covers
<1>11. QED BY <1>1, <1>2, <1>10 DEF NewsOf

(* When the decision is due, the cache is what the refresh found, and what  *)
(* it says is news was not announced before.                                *)
LEMMA DecidesOnNews ==
  ASSUME Typed, NEW p \in Products, NewsOf(p), Len(ahead) \in Nat, 1 \in 1..Len(ahead),
         ahead[1].of = p, ahead[1].do = "decide"
  PROVE  /\ \A j \in 2..Len(ahead) : ahead[j].of # p
         /\ \A n \in news[p] : n <= cached[p].latest
         /\ IsNews(prev[p], cached[p]) => cached[p].latest \notin news[p]
<1>1. ASSUME NEW j \in 2..Len(ahead) PROVE ahead[j].of # p
  BY <1>1 DEF NewsOf, Orderly
<1>2. ~Waiting(p)
  <2>1. ASSUME NEW i \in 1..Len(ahead), ahead[i].of = p PROVE ahead[i].do \notin Refreshes
    <3>1. i = 1 BY <1>1, <2>1
    <3>2. QED BY <3>1 DEF Refreshes
  <2>2. QED BY <2>1 DEF Waiting
<1>3. Deciding(p) BY DEF Deciding
<1>4. /\ cached[p] = Answer(1, cached[p].latest) /\ prev[p] = Answer(1, prev[p].latest)
      /\ \A n \in news[p] : n <= cached[p].latest /\ n <= prev[p].latest
      /\ prev[p].latest <= cached[p].latest
  BY <1>2, <1>3 DEF NewsOf, Known, Covers
<1>5. cached[p].latest \in Nat /\ prev[p].latest \in Nat
  BY DEF Typed, TypeOK, Cache, Versions
<1>6. ASSUME IsNews(prev[p], cached[p]), cached[p].latest \in news[p] PROVE FALSE
  <2>1. cached[p].latest = prev[p].latest BY <1>4, <1>5, <1>6
  <2>2. cached[p] = prev[p] BY <1>4, <2>1
  <2>3. QED BY <1>6, <2>2 DEF IsNews
<1>7. QED BY <1>1, <1>4, <1>6

LEMMA NotifyStep ==
  ASSUME Typed, NEW p \in Products, Goes(0), NewsOf(p), 1 \in 1..Len(ahead),
         ahead[1].of = p, ahead[1].do = "decide",
         news'[p] = news[p] \cup {cached[p].latest},
         published'[p] = published[p], installed'[p] = installed[p],
         cached'[p] = cached[p], prev'[p] = prev[p]
  PROVE  NewsOf(p)'
<1>1. /\ \A j \in 2..Len(ahead) : ahead[j].of # p
      /\ \A n \in news[p] : n <= cached[p].latest
  BY DecidesOnNews DEF Goes
<1>2. ASSUME NEW i \in 1..Len(ahead') PROVE ahead'[i].of # p
  <2>1. ~(i <= 0) OBVIOUS
  <2>2. PICK j \in 2..Len(ahead) : ahead'[i] = ahead[j] BY <2>1 DEF Goes
  <2>3. QED BY <1>1, <2>2
<1>3. Orderly(p)' BY <1>2 DEF Orderly
<1>4. Answers(p)' BY <1>2 DEF Answers
<1>5. ~Deciding(p)' BY <1>2 DEF Deciding
<1>6. cached[p].latest \in Nat /\ published[p] \in Nat
  BY DEF Typed, TypeOK, Cache, Versions
<1>7. cached[p].latest <= published[p] /\ \A n \in news[p] : n <= published[p]
  BY DEF NewsOf, Known, Covers
<1>8. \A n \in news'[p] : n <= cached'[p].latest /\ n <= published'[p]
  BY <1>1, <1>6, <1>7
<1>9. ~Waiting(p)
  <2>1. ASSUME NEW i \in 1..Len(ahead), ahead[i].of = p PROVE ahead[i].do \notin Refreshes
    <3>1. i = 1 BY <1>1, <2>1 DEF Goes
    <3>2. QED BY <3>1 DEF Refreshes
  <2>2. QED BY <2>1 DEF Waiting
<1>10. cached[p] = Answer(1, cached[p].latest) /\ installed[p] = 1
  BY <1>9 DEF NewsOf, Known
<1>11. Answer(1, cached[p].latest)' = Answer(1, cached'[p].latest) BY DEF Answer
<1>12. Known(p)' BY <1>5, <1>7, <1>8, <1>10, <1>11 DEF Known, Covers
<1>13. QED BY <1>3, <1>4, <1>12 DEF NewsOf

LEMMA PublishedNews ==
  ASSUME Typed, NEW p \in Products, NewsOf(p), ahead' = ahead,
         published'[p] \in Nat, published[p] <= published'[p],
         UNCHANGED <<installed, cached, prev, news>>
  PROVE  NewsOf(p)'
<1>1. Orderly(p)' BY DEF NewsOf, Orderly
<1>2. (Deciding(p)' <=> Deciding(p)) /\ (Waiting(p)' <=> Waiting(p))
  BY DEF Deciding, Waiting
<1>3. /\ published[p] \in Nat /\ cached[p].latest \in Nat /\ prev[p].latest \in Nat
      /\ news[p] \subseteq Nat
      /\ \A i \in 1..Len(ahead) : ahead[i].latest \in Nat
  <2>1. Main \in Goroutines BY DEF Goroutines
  <2>2. ahead \in Seq(Step) BY <2>1 DEF Typed, ahead
  <2>3. \A i \in 1..Len(ahead) : ahead[i].latest \in Nat
    <3>1. \A i \in 1..Len(ahead) : ahead[i] \in Step BY <2>2
    <3>2. QED BY <3>1 DEF Step, Versions
  <2>4. QED BY <2>3 DEF Typed, TypeOK, Cache, Versions
<1>4. ASSUME NEW v \in Nat, Covers(p, v)
      PROVE  /\ \A n \in news'[p] : n <= v
             /\ Deciding(p)' => prev'[p].latest <= v
  BY <1>2, <1>4 DEF Covers
<1>5. ASSUME NEW i \in 1..Len(ahead'), ahead'[i].of = p
      PROVE  /\ ahead'[i].do \in Refreshes \cup {"show", "dashboard", "started", "decide"}
             /\ ahead'[i].do = "store" => ahead'[i].current = 1
             /\ ahead'[i].do \in {"compare", "store"} =>
                  Covers(p, ahead[i].latest)' /\ ahead'[i].latest <= published'[p]
  <2>1. i \in 1..Len(ahead) /\ ahead'[i] = ahead[i] /\ ahead[i].latest \in Nat
    BY <1>3
  <2>2. /\ ahead[i].do \in Refreshes \cup {"show", "dashboard", "started", "decide"}
        /\ ahead[i].do = "store" => ahead[i].current = 1
        /\ ahead[i].do \in {"compare", "store"} =>
             Covers(p, ahead[i].latest) /\ ahead[i].latest <= published[p]
    BY <1>5, <2>1 DEF NewsOf, Answers
  <2>3. ahead[i].do \in {"compare", "store"} =>
          /\ \A n \in news'[p] : n <= ahead'[i].latest
          /\ Deciding(p)' => prev'[p].latest <= ahead'[i].latest
    BY <1>4, <2>1, <2>2
  <2>4. ahead[i].do \in {"compare", "store"} => ahead'[i].latest <= published'[p]
    BY <1>3, <2>1, <2>2
  <2>5. QED BY <2>1, <2>2, <2>3, <2>4 DEF Covers
<1>6. Answers(p)' BY <1>5 DEF Answers
<1>7. /\ \A n \in news'[p] : n <= published'[p]
      /\ Deciding(p)' => prev'[p].latest <= published'[p]
      /\ cached'[p].latest <= published'[p]
  BY <1>2, <1>3 DEF NewsOf, Known, Covers
<1>8. ~Waiting(p)' =>
        /\ \A n \in news'[p] : n <= cached'[p].latest
        /\ Deciding(p)' => prev'[p].latest <= cached'[p].latest
        /\ cached'[p] = Answer(1, cached'[p].latest)
  BY <1>2, <1>3, <1>4 DEF NewsOf, Known
<1>9. Deciding(p)' => /\ prev'[p] = Answer(1, prev'[p].latest)
                      /\ \A n \in news'[p] : n <= prev'[p].latest
  BY <1>2 DEF NewsOf, Known
<1>10. installed'[p] = 1 BY DEF NewsOf, Known
<1>11. Answer(1, cached[p].latest)' = Answer(1, cached'[p].latest)
       /\ Answer(1, prev[p].latest)' = Answer(1, prev'[p].latest)
  BY DEF Answer
<1>12. Known(p)' BY <1>7, <1>8, <1>9, <1>10, <1>11 DEF Known, Covers
<1>13. QED BY <1>1, <1>6, <1>12 DEF NewsOf

LEMMA TickNews ==
  ASSUME Typed, NEW p \in Products, NewsOf(p), Tick
  PROVE  NewsOf(p)'
<1>1. PICK u \in Seq(Step) :
        /\ Begin(Main, u) /\ Len(u) = 4
        /\ u[1] = step("fetch", "podkop") /\ u[2] = step("fetch", "self")
        /\ u[3] = step("decide", "podkop") /\ u[4] = step("decide", "self")
  BY TickBegins
<1>2. Main \in Goroutines BY DEF Goroutines
<1>3. ahead = <<>> /\ ahead' = u BY <1>1, <1>2 DEF Begin, Idle, ahead, Typed
<1>4. Len(ahead) = 0 /\ ~Waiting(p) BY <1>3 DEF Waiting
<1>5. /\ prev' = cached
      /\ UNCHANGED <<published, installed, cached, news>>
  BY <1>1 DEF Tick, Begin
<1>6. ASSUME NEW i \in 1..Len(ahead')
      PROVE  \/ i = 1 /\ ahead'[i].do = "fetch" /\ ahead'[i].of = "podkop"
             \/ i = 2 /\ ahead'[i].do = "fetch" /\ ahead'[i].of = "self"
             \/ i = 3 /\ ahead'[i].do = "decide" /\ ahead'[i].of = "podkop"
             \/ i = 4 /\ ahead'[i].do = "decide" /\ ahead'[i].of = "self"
  <2>1. i \in 1..4 /\ ahead'[i] = u[i] BY <1>1, <1>3
  <2>2. i = 1 \/ i = 2 \/ i = 3 \/ i = 4 BY <2>1
  <2>3. QED BY <1>1, <2>1, <2>2 DEF step
<1>7. Orderly(p)' BY <1>6 DEF Orderly, Refreshes
<1>8. Answers(p)' BY <1>6 DEF Answers, Refreshes
<1>9. Waiting(p)'
  <2>1. 1 \in 1..Len(ahead') /\ 2 \in 1..Len(ahead') BY <1>1, <1>3
  <2>2. \E i \in 1..Len(ahead') : ahead'[i].of = p /\ ahead'[i].do = "fetch"
    BY <1>6, <2>1 DEF Products
  <2>3. QED BY <2>2 DEF Waiting, Refreshes
<1>10. /\ installed[p] = 1 /\ \A n \in news[p] : n <= published[p] /\ n <= cached[p].latest
       /\ cached[p].latest <= published[p] /\ cached[p] = Answer(1, cached[p].latest)
  BY <1>4 DEF NewsOf, Known, Covers
<1>11. Answer(1, prev[p].latest)' = Answer(1, prev'[p].latest) BY DEF Answer
<1>12. Known(p)' BY <1>5, <1>9, <1>10, <1>11 DEF Known, Covers
<1>13. QED BY <1>7, <1>8, <1>12 DEF NewsOf

LEMMA RestartNews ==
  ASSUME Typed, NEW p \in Products, NewsOf(p), Restart, p = "self" => disk = 1
  PROVE  NewsOf(p)'
<1>1. PICK u : /\ u = Startup[Main] /\ Len(u) = 4
               /\ u[1] = step("fetch", "podkop") /\ u[2] = step("fetch", "self")
               /\ u[3] = step("dashboard", "self") /\ u[4] = step("started", "self")
  BY StartupIs
<1>2. ahead' = u BY <1>1 DEF Restart, ahead
<1>3. ASSUME NEW i \in 1..Len(ahead')
      PROVE  \/ i = 1 /\ ahead'[i].do = "fetch" /\ ahead'[i].of = "podkop"
             \/ i = 2 /\ ahead'[i].do = "fetch" /\ ahead'[i].of = "self"
             \/ i = 3 /\ ahead'[i].do = "dashboard"
             \/ i = 4 /\ ahead'[i].do = "started"
  <2>1. i \in 1..4 /\ ahead'[i] = u[i] BY <1>1, <1>2
  <2>2. i = 1 \/ i = 2 \/ i = 3 \/ i = 4 BY <2>1
  <2>3. QED BY <1>1, <2>1, <2>2 DEF step
<1>4. Orderly(p)' BY <1>3 DEF Orderly, Refreshes
<1>5. Answers(p)' BY <1>3 DEF Answers, Refreshes
<1>6. ~Deciding(p)' BY <1>3 DEF Deciding
<1>7. Waiting(p)'
  <2>1. 1 \in 1..Len(ahead') /\ 2 \in 1..Len(ahead') BY <1>1, <1>2
  <2>2. \E i \in 1..Len(ahead') : ahead'[i].of = p /\ ahead'[i].do = "fetch"
    BY <1>3, <2>1 DEF Products
  <2>3. QED BY <2>2 DEF Waiting, Refreshes
<1>8. installed'[p] = 1
  BY DEF NewsOf, Known, Restart, Typed, TypeOK, Products
<1>9. cached'[p].latest = 0 BY DEF Restart, Empty
<1>10. published[p] \in Nat BY DEF Typed, TypeOK, Versions
<1>11. published' = published /\ news' = news BY DEF Restart
<1>12. \A n \in news[p] : n <= published[p] BY DEF NewsOf, Known, Covers
<1>13. Known(p)' BY <1>6, <1>7, <1>8, <1>9, <1>10, <1>11, <1>12 DEF Known, Covers
<1>14. QED BY <1>4, <1>5, <1>13 DEF NewsOf

LEMMA InitNews ==
  ASSUME Init, NEW p \in Products
  PROVE  NewsOf(p)
<1>1. PICK u : /\ u = Startup[Main] /\ Len(u) = 4
               /\ u[1] = step("fetch", "podkop") /\ u[2] = step("fetch", "self")
               /\ u[3] = step("dashboard", "self") /\ u[4] = step("started", "self")
  BY StartupIs
<1>2. ahead = u BY <1>1 DEF Init, ahead
<1>3. ASSUME NEW i \in 1..Len(ahead)
      PROVE  \/ i = 1 /\ ahead[i].do = "fetch" /\ ahead[i].of = "podkop"
             \/ i = 2 /\ ahead[i].do = "fetch" /\ ahead[i].of = "self"
             \/ i = 3 /\ ahead[i].do = "dashboard"
             \/ i = 4 /\ ahead[i].do = "started"
  <2>1. i \in 1..4 /\ ahead[i] = u[i] BY <1>1, <1>2
  <2>2. i = 1 \/ i = 2 \/ i = 3 \/ i = 4 BY <2>1
  <2>3. QED BY <1>1, <2>1, <2>2 DEF step
<1>4. Orderly(p) BY <1>3 DEF Orderly, Refreshes
<1>5. Answers(p) BY <1>3 DEF Answers, Refreshes
<1>6. ~Deciding(p) BY <1>3 DEF Deciding
<1>7. Waiting(p)
  <2>1. 1 \in 1..Len(ahead) /\ 2 \in 1..Len(ahead) BY <1>1, <1>2
  <2>2. \E i \in 1..Len(ahead) : ahead[i].of = p /\ ahead[i].do = "fetch"
    BY <1>3, <2>1 DEF Products
  <2>3. QED BY <2>2 DEF Waiting, Refreshes
<1>8. installed[p] = 1 /\ published[p] = 1 /\ cached[p].latest = 0 /\ news[p] = {}
  BY DEF Init, Empty
<1>9. Known(p) BY <1>6, <1>7, <1>8 DEF Known, Covers
<1>10. QED BY <1>4, <1>5, <1>9 DEF NewsOf

-----------------------------------------------------------------------------
(* The steps of Main *)

(* Main drops its first step, or puts one or two others in its place.       *)
LEMMA MainDrops ==
  ASSUME Typed, ~Idle(Main), Done(Main)
  PROVE  /\ Goes(0) /\ Puts(Main, <<>>) /\ 1 \in 1..Len(ahead) /\ ahead[1] = Now(Main)
         /\ \A i \in 1..0 : i \in 1..Len(ahead') => FALSE
<1>1. Main \in Goroutines BY DEF Goroutines
<1>2. PICK s : s = <<>> /\ Puts(Main, s) BY <1>1, Drops
<1>3. Len(s) = 0 BY <1>2
<1>4. Goes(0) /\ ahead[1] = Now(Main) BY <1>2, <1>3, MainPuts
<1>5. QED BY <1>2, <1>4 DEF Goes

LEMMA MainWrites ==
  ASSUME Typed, ~Idle(Main), NEW a \in Step, DoneThen(Main, <<a>>)
  PROVE  /\ Goes(1) /\ Puts(Main, <<a>>) /\ 1 \in 1..Len(ahead) /\ ahead[1] = Now(Main)
         /\ ahead'[1] = a
<1>1. Main \in Goroutines BY DEF Goroutines
<1>2. PICK s : s = <<a>> OBVIOUS
<1>3. s \in Seq(Step) /\ Len(s) = 1 /\ s[1] = a BY <1>2
<1>4. Puts(Main, s) BY <1>1, <1>2, <1>3, Writes
<1>5. Goes(1) /\ ahead'[1] = s[1] /\ ahead[1] = Now(Main) BY <1>3, <1>4, MainPuts
<1>6. QED BY <1>2, <1>3, <1>4, <1>5 DEF Goes

(* A step that leads to no other one of p, nor ends its refresh.            *)
LEMMA Drop ==
  ASSUME Typed, NEW p, NewsOf(p), Untouched(p), ~Idle(Main), Done(Main),
         ~(Now(Main).of = p /\ Now(Main).do \in Refreshes)
  PROVE  NewsOf(p)'
BY MainDrops, AsideStep

LEMMA Write ==
  ASSUME Typed, NEW p, NewsOf(p), Untouched(p), ~Idle(Main),
         NEW a \in Step, DoneThen(Main, <<a>>), a.of # p,
         ~(Now(Main).of = p /\ Now(Main).do \in Refreshes)
  PROVE  NewsOf(p)'
<1>1. Goes(1) /\ ahead[1] = Now(Main) /\ ahead'[1] = a BY MainWrites
<1>2. \A i \in 1..1 : ahead'[i].of # p BY <1>1
<1>3. QED BY <1>1, <1>2, AsideStep

LEMMA MainNow ==
  ASSUME Typed, ~Idle(Main)
  PROVE  /\ Len(ahead) \in Nat /\ 1 \in 1..Len(ahead) /\ ahead[1] = Now(Main)
         /\ Now(Main) \in Step
         /\ \A p : Now(Main).of = p /\ Answers(p) =>
              /\ Now(Main).do \in Refreshes \cup {"show", "dashboard", "started", "decide"}
              /\ Now(Main).do = "store" => Now(Main).current = 1
              /\ Now(Main).do \in {"compare", "store"} =>
                   Covers(p, Now(Main).latest) /\ Now(Main).latest <= published[p]
<1>1. Main \in Goroutines BY DEF Goroutines
<1>2. ahead \in Seq(Step) /\ ahead # <<>> BY <1>1 DEF Typed, Idle, ahead
<1>3. Len(ahead) \in Nat /\ 1 \in 1..Len(ahead) /\ ahead[1] = Head(ahead) BY <1>2
<1>4. ahead[1] = Now(Main) BY <1>3 DEF Now, ahead
<1>5. Now(Main) \in Step BY <1>1, NowTyped
<1>6. QED BY <1>3, <1>4, <1>5 DEF Answers

LEMMA MainFetched ==
  ASSUME Typed, NEW p \in Products, NewsOf(p), Fetched(Main) PROVE NewsOf(p)'
<1>1. ~Idle(Main) /\ Now(Main).do = "fetch" BY DEF Fetched, Does
<1>2. PICK a : a = [step("compare", Now(Main).of) EXCEPT !.latest = published[Now(Main).of]]
  OBVIOUS
<1>3. /\ Now(Main) \in Step /\ ahead[1] = Now(Main)
      /\ Now(Main).of \in Products
  BY <1>1, MainNow DEF Step
<1>4. /\ a \in Step /\ a.of = Now(Main).of /\ a.do = "compare"
      /\ a.latest = published[Now(Main).of]
  BY <1>2, <1>3 DEF Typed, TypeOK, Step, step, Names
<1>5. DoneThen(Main, <<a>>) BY <1>2 DEF Fetched
<1>6. Untouched(p) BY DEF Fetched, Untouched
<1>7. Goes(1) /\ ahead'[1] = a BY <1>1, <1>4, <1>5, MainWrites
<1>8. CASE Now(Main).of = p
  <2>1. CarriesOn(p) BY <1>1, <1>3, <1>4, <1>7, <1>8 DEF CarriesOn, Refreshes
  <2>2. published[p] <= published[p] BY DEF Typed, TypeOK, Versions
  <2>3. Covers(p, published[p]) BY DEF NewsOf, Known
  <2>4. Covers(p, ahead'[1].latest) /\ ahead'[1].latest <= published[p]
    BY <1>4, <1>7, <1>8, <2>2, <2>3
  <2>5. ahead'[1].do = "compare" BY <1>4, <1>7
  <2>6. QED BY <1>6, <1>7, <2>1, <2>4, <2>5, RefreshStep
<1>9. CASE Now(Main).of # p BY <1>1, <1>4, <1>5, <1>6, <1>9, Write
<1>10. QED BY <1>8, <1>9

LEMMA MainCompare ==
  ASSUME Typed, NEW p \in Products, NewsOf(p), Compare(Main) PROVE NewsOf(p)'
<1>1. ~Idle(Main) /\ Now(Main).do = "compare" BY DEF Compare, Does
<1>2. PICK a : a = [Now(Main) EXCEPT !.do = "store", !.current = installed[Now(Main).of]]
  OBVIOUS
<1>3. /\ Now(Main) \in Step /\ ahead[1] = Now(Main)
      /\ Now(Main).of \in Products
  BY <1>1, MainNow DEF Step
<1>4. /\ a \in Step /\ a.of = Now(Main).of /\ a.do = "store"
      /\ a.latest = Now(Main).latest /\ a.current = installed[Now(Main).of]
  BY <1>2, <1>3 DEF Typed, TypeOK, Step, Names
<1>5. DoneThen(Main, <<a>>) BY <1>2 DEF Compare
<1>6. Untouched(p) BY DEF Compare, Untouched
<1>7. Goes(1) /\ ahead'[1] = a BY <1>1, <1>4, <1>5, MainWrites
<1>8. CASE Now(Main).of = p
  <2>1. CarriesOn(p) BY <1>1, <1>3, <1>4, <1>7, <1>8 DEF CarriesOn, Refreshes
  <2>2. Covers(p, Now(Main).latest) /\ Now(Main).latest <= published[p]
    BY <1>1, <1>8, MainNow DEF NewsOf
  <2>3. installed[p] = 1 BY DEF NewsOf, Known
  <2>4. Covers(p, ahead'[1].latest) /\ ahead'[1].latest <= published[p]
    BY <1>4, <1>7, <2>2
  <2>5. ahead'[1].do = "store" /\ ahead'[1].current = 1 BY <1>4, <1>7, <1>8, <2>3
  <2>6. QED BY <1>6, <1>7, <2>1, <2>4, <2>5, RefreshStep
<1>9. CASE Now(Main).of # p BY <1>1, <1>4, <1>5, <1>6, <1>9, Write
<1>10. QED BY <1>8, <1>9

LEMMA MainStore ==
  ASSUME Typed, NEW p \in Products, NewsOf(p), Store(Main) PROVE NewsOf(p)'
<1>1. ~Idle(Main) /\ Now(Main).do = "store" /\ Done(Main) BY DEF Store, Does
<1>2. /\ 1 \in 1..Len(ahead) /\ ahead[1] = Now(Main) /\ Now(Main).of \in Products
  BY <1>1, MainNow DEF Step
<1>3. CASE Now(Main).of = p
  <2>1. Now(Main).current = 1 BY <1>1, <1>3, MainNow DEF NewsOf
  <2>2. cached'[p] = Answer(1, ahead[1].latest)
    BY <1>2, <1>3, <2>1 DEF Store, Typed, TypeOK
  <2>3. Goes(0) BY <1>1, MainDrops
  <2>4. /\ published'[p] = published[p] /\ installed'[p] = installed[p]
        /\ prev'[p] = prev[p] /\ news'[p] = news[p]
    BY DEF Store
  <2>5. QED BY <1>1, <1>2, <1>3, <2>2, <2>3, <2>4, StoreStep
<1>4. CASE Now(Main).of # p
  <2>1. Untouched(p) BY <1>4 DEF Store, Untouched, Typed, TypeOK
  <2>2. QED BY <1>1, <1>4, <2>1, Drop
<1>5. QED BY <1>3, <1>4

LEMMA MainNotify ==
  ASSUME Typed, NEW p \in Products, NewsOf(p), Notify(Main) PROVE NewsOf(p)'
<1>1. ~Idle(Main) /\ Now(Main).do = "decide" /\ Done(Main) BY DEF Notify, Announces, Does
<1>2. /\ 1 \in 1..Len(ahead) /\ ahead[1] = Now(Main) /\ Now(Main).of \in Products
  BY <1>1, MainNow DEF Step
<1>3. UNCHANGED <<published, installed, cached, prev>> BY DEF Notify
<1>4. news' = [news EXCEPT ![Now(Main).of] = @ \cup {cached[Now(Main).of].latest}]
  BY DEF Notify
<1>5. CASE Now(Main).of = p
  <2>1. news'[p] = news[p] \cup {cached[p].latest} BY <1>4, <1>5 DEF Typed, TypeOK
  <2>2. Goes(0) BY <1>1, MainDrops
  <2>3. QED BY <1>1, <1>2, <1>3, <1>5, <2>1, <2>2, NotifyStep
<1>6. CASE Now(Main).of # p
  <2>1. Untouched(p) BY <1>3, <1>4, <1>6 DEF Untouched, Typed, TypeOK
  <2>2. QED BY <1>1, <1>6, <2>1, Drop
<1>7. QED BY <1>5, <1>6

LEMMA MainShows ==
  ASSUME Typed, NEW p \in Products, NewsOf(p),
         Show(Main) \/ NotSent(Main) \/ Started(Main) \/ NothingNew(Main) \/ Release(Main)
  PROVE  NewsOf(p)'
<1>1. ~Idle(Main) /\ Done(Main) /\ Now(Main).do \notin Refreshes
  BY DEF Show, NotSent, Announces, Started, NothingNew, Release, Does, Refreshes
<1>2. Untouched(p) BY DEF Show, NotSent, Started, NothingNew, Release, Untouched
<1>3. QED BY <1>1, <1>2, Drop

(* Installs, which are not of p.                                            *)
LEMMA MainInstalls ==
  ASSUME Typed, Replacing, NEW p \in Products \ scenario.auto, NewsOf(p),
         \/ AutoUpdate(Main) \/ Try(Main) \/ Replace(Main) \/ Install(Main)
         \/ SelfInstall(Main) \/ NotInstalled(Main)
  PROVE  NewsOf(p)' /\ (p = "self" => disk' = disk)
<1>1. /\ ~Idle(Main)
      /\ Now(Main).do \in {"decide", "try", "install", "replace"}
  BY DEF AutoUpdate, Try, Replace, Install, SelfInstall, NotInstalled, Does
<1>2. /\ Now(Main) \in Step /\ Now(Main).of \in Products /\ Len(ahead) \in Nat
      /\ 1 \in 1..Len(ahead) /\ ahead[1] = Now(Main)
  BY <1>1, MainNow DEF Step
<1>3. Now(Main).do \notin Refreshes BY <1>1 DEF Refreshes
<1>4. Now(Main).do \in {"try", "install", "replace"} => Now(Main).of # p
  BY <1>1, MainNow DEF NewsOf, Refreshes
<1>5. CASE AutoUpdate(Main)
  <2>1. PICK a : a = step("try", Now(Main).of) OBVIOUS
  <2>2. a \in Step /\ a.of # p BY <1>2, <1>5, <2>1, StepsTyped DEF AutoUpdate, Names, step
  <2>3. Untouched(p) /\ disk' = disk /\ DoneThen(Main, <<a>>)
    BY <1>5, <2>1 DEF AutoUpdate, Untouched
  <2>4. QED BY <1>1, <1>3, <2>2, <2>3, Write
<1>6. CASE Try(Main)
  <2>1. Untouched(p) /\ disk' = disk BY <1>6 DEF Try, Untouched
  <2>2. CASE busy
    <3>1. Done(Main) BY <1>6, <2>2 DEF Try
    <3>2. QED BY <1>1, <1>3, <2>1, <3>1, Drop
  <2>3. CASE ~busy
    <3>1. PICK a, b : /\ a = [Now(Main) EXCEPT !.do = "install"]
                      /\ b = step("release", Now(Main).of)
      OBVIOUS
    <3>2. a \in Step /\ a.of = Now(Main).of BY <1>2, <3>1 DEF Step, Names
    <3>3. b \in Step /\ b.of = Now(Main).of BY <1>2, <3>1, StepsTyped DEF Names, step
    <3>4. PICK s : s = <<a, b>> OBVIOUS
    <3>5. s \in Seq(Step) /\ Len(s) = 2 /\ s[1] = a /\ s[2] = b BY <3>2, <3>3, <3>4
    <3>6. DoneThen(Main, s) BY <1>6, <2>3, <3>1, <3>4 DEF Try
    <3>7. Main \in Goroutines BY DEF Goroutines
    <3>8. Puts(Main, s) BY <1>1, <3>5, <3>6, <3>7, Writes
    <3>9. Goes(2) /\ \A i \in 1..2 : ahead'[i] = s[i]
      <4>1. Len(s) \in 0..2 BY <3>5
      <4>2. Goes(Len(s)) /\ \A i \in 1..Len(s) : ahead'[i] = s[i]
        BY <3>8, <4>1, MainPuts
      <4>3. QED BY <3>5, <4>2
    <3>10. Now(Main).of # p BY <1>4, <1>6 DEF Try, Does
    <3>11. \A i \in 1..2 : ahead'[i].of # p
      <4>1. \A i \in 1..2 : i = 1 \/ i = 2 OBVIOUS
      <4>2. QED BY <3>2, <3>3, <3>5, <3>9, <3>10, <4>1
    <3>12. QED BY <1>2, <1>3, <2>1, <3>9, <3>11, AsideStep
  <2>4. QED BY <2>2, <2>3
<1>7. CASE Replace(Main)
  <2>1. PICK a : a = [Now(Main) EXCEPT !.do = "replace", !.latest = Target(Now(Main))]
    OBVIOUS
  <2>2. Target(Now(Main)) \in Versions \cup {0}
    BY <1>2 DEF Typed, TypeOK, Step, Cache, Target, Products
  <2>3. a \in Step /\ a.of = Now(Main).of BY <1>2, <2>1, <2>2 DEF Step, Names
  <2>4. Now(Main).of = "podkop" /\ Now(Main).of # p
    BY <1>4, <1>7 DEF Replace, Does
  <2>5. Untouched(p) /\ disk' = disk
    BY <1>7, <2>4 DEF Replace, Untouched, Typed, TypeOK
  <2>6. DoneThen(Main, <<a>>) BY <1>7, <2>1 DEF Replace
  <2>7. QED BY <1>1, <1>3, <2>3, <2>4, <2>5, <2>6, Write
<1>8. CASE Install(Main)
  <2>1. PICK a : a = step("fetch", "podkop") OBVIOUS
  <2>2. a \in Step /\ a.of = "podkop" BY <2>1, StepsTyped DEF Names, Products, step
  <2>3. Now(Main).do = "replace" BY <1>8 DEF Install, Does
  <2>4. Now(Main).of = "podkop" BY <1>2, <2>3 DEF Replacing
  <2>5. p # "podkop" BY <1>4, <2>3, <2>4
  <2>6. Untouched(p) /\ disk' = disk
    BY <1>8, <2>5 DEF Install, Untouched, Typed, TypeOK
  <2>7. DoneThen(Main, <<a>>) BY <1>8, <2>1 DEF Install
  <2>8. QED BY <1>1, <1>3, <2>2, <2>5, <2>6, <2>7, Write
<1>9. CASE SelfInstall(Main)
  <2>1. Now(Main).of = "self" /\ p # "self" BY <1>4, <1>9 DEF SelfInstall, Does
  <2>2. Untouched(p) /\ Done(Main) BY <1>9 DEF SelfInstall, Untouched
  <2>3. QED BY <1>1, <1>3, <2>1, <2>2, Drop
<1>10. CASE NotInstalled(Main)
  <2>1. Untouched(p) /\ Done(Main) /\ disk' = disk BY <1>10 DEF NotInstalled, Untouched
  <2>2. QED BY <1>1, <1>3, <2>1, Drop
<1>11. QED BY <1>5, <1>6, <1>7, <1>8, <1>9, <1>10

LEMMA MainNews ==
  ASSUME Typed, Replacing, NEW p \in Products \ scenario.auto, NewsOf(p), ~scenario.fails,
         Work(Main)
  PROVE  NewsOf(p)' /\ (p = "self" => disk' = disk)
<1>1. CASE \/ AutoUpdate(Main) \/ Try(Main) \/ Replace(Main) \/ Install(Main)
           \/ SelfInstall(Main) \/ NotInstalled(Main)
  BY <1>1, MainInstalls
<1>2. CASE Fetched(Main) BY <1>2, MainFetched DEF Fetched
<1>3. CASE NotFetched(Main) BY <1>3 DEF NotFetched
<1>4. CASE Compare(Main) BY <1>4, MainCompare DEF Compare
<1>5. CASE Store(Main) BY <1>5, MainStore DEF Store
<1>6. CASE Notify(Main) BY <1>6, MainNotify DEF Notify
<1>7. CASE Show(Main) \/ NotSent(Main) \/ Started(Main) \/ NothingNew(Main) \/ Release(Main)
  BY <1>7, MainShows DEF Show, NotSent, Started, NothingNew, Release
<1>8. QED BY <1>1, <1>2, <1>3, <1>4, <1>5, <1>6, <1>7 DEF Work

-----------------------------------------------------------------------------

LEMMA ReplacingPuts ==
  ASSUME Replacing, NEW k, Goes(k),
         \A i \in 1..k : i \in 1..Len(ahead') =>
           (ahead'[i].do = "replace" => ahead'[i].of = "podkop")
  PROVE  Replacing'
<1>1. ASSUME NEW i \in 1..Len(ahead'), ahead'[i].do = "replace"
      PROVE  ahead'[i].of = "podkop"
  <2>1. CASE i <= k BY <1>1, <2>1 DEF Goes
  <2>2. CASE ~(i <= k)
    <3>1. PICK j \in 2..Len(ahead) : ahead'[i] = ahead[j] BY <2>2 DEF Goes
    <3>2. j \in 1..Len(ahead) BY DEF Goes
    <3>3. QED BY <1>1, <3>1, <3>2 DEF Replacing
  <2>3. QED BY <2>1, <2>2
<1>2. QED BY <1>1 DEF Replacing

LEMMA ReplacingWork ==
  ASSUME Typed, Replacing, NEW g \in Goroutines, Work(g) PROVE Replacing'
<1>1. CASE g # Main
  <2>1. PICK s : Puts(g, s) BY WorkPuts
  <2>2. Main \in Goroutines BY DEF Goroutines
  <2>3. ahead' = ahead BY <1>1, <2>1, <2>2 DEF Puts, ahead, Typed
  <2>4. QED BY <2>3 DEF Replacing
<1>2. ~Idle(g)
  BY DEF Work, Fetched, NotFetched, Compare, Store, Show, Started, NothingNew, Notify,
     NotSent, Announces, AutoUpdate, Try, Replace, Install, SelfInstall, NotInstalled, Release, Does
<1>3. ASSUME g = Main, Done(g) PROVE Replacing'
  <2>1. ~Idle(Main) /\ Done(Main) BY <1>2, <1>3
  <2>2. Goes(0) BY <2>1, MainDrops
  <2>3. QED BY <2>2, ReplacingPuts
<1>4. ASSUME g = Main, NEW a \in Step, DoneThen(g, <<a>>),
             a.do = "replace" => a.of = "podkop"
      PROVE  Replacing'
  <2>1. ~Idle(Main) /\ DoneThen(Main, <<a>>) BY <1>2, <1>4
  <2>2. Goes(1) /\ ahead'[1] = a BY <2>1, MainWrites
  <2>3. \A i \in 1..1 : ahead'[i].do = "replace" => ahead'[i].of = "podkop"
    BY <1>4, <2>2
  <2>4. QED BY <2>2, <2>3, ReplacingPuts
<1>5. Now(g) \in Step BY <1>2, NowTyped
<1>6. CASE g = Main /\ (Store(g) \/ Show(g) \/ Started(g) \/ NothingNew(g) \/ Notify(g)
                        \/ NotSent(g) \/ SelfInstall(g) \/ NotInstalled(g) \/ Release(g))
  BY <1>3, <1>6
  DEF Store, Show, Started, NothingNew, Notify, NotSent, SelfInstall, NotInstalled, Release
<1>7. CASE g = Main /\ Fetched(g)
  <2>1. PICK a : a = [step("compare", Now(g).of) EXCEPT !.latest = published[Now(g).of]]
    OBVIOUS
  <2>2. a \in Step /\ a.do = "compare"
    BY <1>5, <2>1 DEF Typed, TypeOK, Step, step, Names
  <2>3. QED BY <1>4, <1>7, <2>1, <2>2 DEF Fetched
<1>8. CASE g = Main /\ NotFetched(g)
  <2>1. PICK a : a = step("compare", Now(g).of) OBVIOUS
  <2>2. a \in Step /\ a.do = "compare" BY <1>5, <2>1, StepsTyped DEF Step, step, Names
  <2>3. QED BY <1>4, <1>8, <2>1, <2>2 DEF NotFetched
<1>9. CASE g = Main /\ Compare(g)
  <2>1. PICK a : a = [Now(g) EXCEPT !.do = "store", !.current = installed[Now(g).of]]
    OBVIOUS
  <2>2. a \in Step /\ a.do = "store" BY <1>5, <2>1 DEF Typed, TypeOK, Step, Names
  <2>3. QED BY <1>4, <1>9, <2>1, <2>2 DEF Compare
<1>10. CASE g = Main /\ AutoUpdate(g)
  <2>1. PICK a : a = step("try", Now(g).of) OBVIOUS
  <2>2. a \in Step /\ a.do = "try" BY <1>5, <2>1, StepsTyped DEF Step, step, Names
  <2>3. QED BY <1>4, <1>10, <2>1, <2>2 DEF AutoUpdate
<1>11. CASE g = Main /\ Try(g) /\ busy BY <1>3, <1>11 DEF Try
<1>12. CASE g = Main /\ Try(g) /\ ~busy
  <2>1. PICK a, b : a = [Now(g) EXCEPT !.do = "install"] /\ b = step("release", Now(g).of)
    OBVIOUS
  <2>2. a \in Step /\ a.do = "install" BY <1>5, <2>1 DEF Step, Names
  <2>3. b \in Step /\ b.do = "release" BY <1>5, <2>1, StepsTyped DEF Step, step, Names
  <2>4. PICK s : s = <<a, b>> OBVIOUS
  <2>5. s \in Seq(Step) /\ Len(s) = 2 /\ s[1] = a /\ s[2] = b BY <2>2, <2>3, <2>4
  <2>6. DoneThen(g, s) BY <1>12, <2>1, <2>4 DEF Try
  <2>7. Puts(Main, s) BY <1>2, <1>12, <2>5, <2>6, Writes
  <2>8. Goes(2) /\ \A i \in 1..2 : ahead'[i] = s[i]
    <3>1. Len(s) \in 0..2 BY <2>5
    <3>2. Goes(Len(s)) /\ \A i \in 1..Len(s) : ahead'[i] = s[i]
      BY <2>7, <3>1, MainPuts
    <3>3. QED BY <2>5, <3>2
  <2>9. \A i \in 1..2 : ahead'[i].do # "replace"
    <3>1. \A i \in 1..2 : i = 1 \/ i = 2 OBVIOUS
    <3>2. QED BY <2>2, <2>3, <2>5, <2>8, <3>1
  <2>10. QED BY <2>8, <2>9, ReplacingPuts
<1>13. CASE g = Main /\ Replace(g)
  <2>1. PICK a : a = [Now(g) EXCEPT !.do = "replace", !.latest = Target(Now(g))] OBVIOUS
  <2>2. Target(Now(g)) \in Versions \cup {0}
    BY <1>5 DEF Typed, TypeOK, Step, Cache, Target, Products
  <2>3. a \in Step /\ a.of = Now(g).of BY <1>5, <2>1, <2>2 DEF Step, Names
  <2>4. QED BY <1>4, <1>13, <2>1, <2>3 DEF Replace
<1>14. CASE g = Main /\ Install(g)
  <2>1. PICK a : a = step("fetch", "podkop") OBVIOUS
  <2>2. a \in Step /\ a.do = "fetch" BY <2>1, StepsTyped DEF Names, Products, step
  <2>3. QED BY <1>4, <1>14, <2>1, <2>2 DEF Install
<1>15. QED
  BY <1>1, <1>6, <1>7, <1>8, <1>9, <1>10, <1>11, <1>12, <1>13, <1>14 DEF Work

LEMMA StartupReplaces ==
  \A i \in 1..Len(Startup[Main]) : Startup[Main][i].do # "replace"
<1>1. PICK u : /\ u = Startup[Main] /\ Len(u) = 4
               /\ u[1] = step("fetch", "podkop") /\ u[2] = step("fetch", "self")
               /\ u[3] = step("dashboard", "self") /\ u[4] = step("started", "self")
  BY StartupIs
<1>2. ASSUME NEW i \in 1..Len(u) PROVE u[i].do # "replace"
  <2>1. i = 1 \/ i = 2 \/ i = 3 \/ i = 4 BY <1>1
  <2>2. QED BY <1>1, <2>1 DEF step
<1>3. QED BY <1>1, <1>2

LEMMA ReplacingStep == ASSUME Typed, Replacing, [Next]_vars PROVE Replacing'
<1>1. CASE ahead' = ahead BY <1>1 DEF Replacing
<1>2. ASSUME NEW g \in Goroutines, Work(g) PROVE Replacing' BY <1>2, ReplacingWork
<1>3. CASE Restart
  <2>1. ahead' = Startup[Main] BY <1>3 DEF Restart, ahead
  <2>2. QED BY <2>1, StartupReplaces DEF Replacing
<1>4. CASE Tick
  <2>1. PICK u \in Seq(Step) :
          /\ Begin(Main, u) /\ Len(u) = 4
          /\ u[1] = step("fetch", "podkop") /\ u[2] = step("fetch", "self")
          /\ u[3] = step("decide", "podkop") /\ u[4] = step("decide", "self")
    BY <1>4, TickBegins
  <2>2. Main \in Goroutines BY DEF Goroutines
  <2>3. ahead' = u BY <2>1, <2>2 DEF Begin, ahead, Typed
  <2>4. ASSUME NEW i \in 1..4 PROVE u[i].do # "replace"
    <3>1. i = 1 \/ i = 2 \/ i = 3 \/ i = 4 OBVIOUS
    <3>2. QED BY <2>1, <3>1 DEF step
  <2>5. QED BY <2>1, <2>3, <2>4 DEF Replacing
<1>5. ASSUME NEW h \in Handlers, NEW s, Begin(h, s) PROVE ahead' = ahead
  <2>1. Main # h BY CheckAssumption
  <2>2. QED BY <1>5, <2>1 DEF Begin, ahead, Typed, Goroutines
<1>6. ASSUME NEW h \in Handlers, NEW p,
             Check(h, p) \/ Update(h, p) \/ Rollback(h, p) \/ Refresh(h)
      PROVE  ahead' = ahead
  BY <1>5, <1>6 DEF Check, Update, Rollback, Refresh
<1>7. ASSUME NEW p \in Products, Publish(p) PROVE ahead' = ahead
  BY <1>7 DEF Publish, ahead
<1>8. CASE UNCHANGED vars BY <1>1, <1>8 DEF vars, ahead
<1>9. QED BY <1>1, <1>2, <1>3, <1>4, <1>6, <1>7, <1>8 DEF Next

(* Without commands only Main works, and the scenario stays.                *)
LEMMA CalmStep ==
  ASSUME Typed, NewsInv, Calm', [Next]_vars
  PROVE  /\ Calm /\ scenario' = scenario
         /\ \/ UNCHANGED vars \/ Tick \/ Restart \/ Work(Main)
            \/ \E p \in Products : Publish(p)
<1>1. scenario' = scenario
  <2>1. ASSUME NEW g, Work(g) PROVE scenario' = scenario
    BY <2>1 DEF Work, Fetched, NotFetched, Compare, Store, Show, Started, NothingNew, Notify,
       NotSent, Announces, AutoUpdate, Try, Replace, Install, SelfInstall, NotInstalled, Release
  <2>2. ASSUME NEW h, NEW p, Check(h, p) \/ Update(h, p) \/ Rollback(h, p) \/ Refresh(h)
        PROVE  scenario' = scenario
    BY <2>2 DEF Check, Update, Rollback, Refresh, Begin
  <2>3. ASSUME NEW p, Publish(p) PROVE scenario' = scenario BY <2>3 DEF Publish
  <2>4. CASE Tick \/ Restart \/ UNCHANGED vars BY <2>4 DEF Tick, Restart, Begin, vars
  <2>5. QED BY <2>1, <2>2, <2>3, <2>4 DEF Next
<1>2. Calm BY <1>1 DEF Calm
<1>3. \A h \in Handlers : Idle(h) BY <1>2 DEF NewsInv, Idle
<1>4. ASSUME NEW h \in Handlers, Work(h) PROVE FALSE
  BY <1>3, <1>4 DEF Work, Fetched, NotFetched, Compare, Store, Show, Started, NothingNew,
     Notify, NotSent, Announces, AutoUpdate, Try, Replace, Install, SelfInstall, NotInstalled,
     Release, Does
<1>5. ASSUME NEW h, NEW p, Check(h, p) \/ Update(h, p) \/ Rollback(h, p) \/ Refresh(h)
      PROVE  FALSE
  BY <1>2, <1>5 DEF Calm, Check, Update, Rollback, Refresh
<1>6. \A g \in Goroutines : Work(g) => g = Main BY <1>4 DEF Goroutines
<1>7. QED BY <1>1, <1>2, <1>5, <1>6 DEF Next

LEMMA NewsStep ==
  ASSUME Typed, Typed', Replacing, NewsInv, [Next]_vars PROVE NewsInv'
<1> SUFFICES ASSUME Calm'
             PROVE  /\ \A h \in Handlers : todo'[h] = <<>>
                    /\ "self" \notin scenario'.auto => disk' = 1
                    /\ \A p \in Products \ scenario'.auto : NewsOf(p)'
  BY DEF NewsInv
<1>1. Calm /\ scenario' = scenario BY CalmStep
<1>2. /\ \A h \in Handlers : todo[h] = <<>>
      /\ "self" \notin scenario.auto => disk = 1
      /\ \A p \in Products \ scenario.auto : NewsOf(p)
  BY <1>1 DEF NewsInv
<1>3. Main \in Goroutines /\ Handlers \subseteq Goroutines /\ Main \notin Handlers
  BY CheckAssumption DEF Goroutines
<1>4. CASE UNCHANGED vars
  <2>1. /\ todo' = todo /\ disk' = disk /\ published' = published
        /\ UNCHANGED <<installed, cached, prev, news>>
    BY <1>4 DEF vars
  <2>2. ASSUME NEW p \in Products \ scenario'.auto PROVE NewsOf(p)'
    <3>1. published[p] \in Nat /\ published[p] <= published[p]
      BY DEF Typed, TypeOK, Versions
    <3>2. ahead' = ahead BY <2>1 DEF ahead
    <3>3. NewsOf(p) BY <1>1, <1>2
    <3>4. QED BY <2>1, <3>1, <3>2, <3>3, PublishedNews
  <2>3. QED BY <1>1, <1>2, <2>1, <2>2
<1>5. CASE Tick
  <2>1. PICK u : Begin(Main, u) BY <1>5, TickBegins
  <2>2. disk' = disk /\ \A h \in Handlers : todo'[h] = todo[h]
    BY <1>3, <2>1 DEF Begin, Typed
  <2>3. \A p \in Products \ scenario'.auto : NewsOf(p)' BY <1>1, <1>2, <1>5, TickNews
  <2>4. QED BY <1>1, <1>2, <2>2, <2>3
<1>6. CASE Restart
  <2>1. disk' = disk /\ \A h \in Handlers : todo'[h] = <<>>
    BY <1>6, StartupIs DEF Restart
  <2>2. \A p \in Products \ scenario'.auto : NewsOf(p)' BY <1>1, <1>2, <1>6, RestartNews
  <2>3. QED BY <1>1, <1>2, <2>1, <2>2
<1>7. CASE Work(Main)
  <2>1. PICK s : Puts(Main, s) BY <1>3, <1>7, WorkPuts
  <2>2. \A h \in Handlers : todo'[h] = todo[h] BY <1>3, <2>1 DEF Puts, Typed
  <2>3. ASSUME NEW p \in Products \ scenario.auto
        PROVE  NewsOf(p)' /\ (p = "self" => disk' = disk)
    <3>1. NewsOf(p) /\ ~scenario.fails BY <1>1, <1>2 DEF Calm
    <3>2. QED BY <1>7, <3>1, MainNews
  <2>4. "self" \in Products BY DEF Products
  <2>5. QED BY <1>1, <1>2, <2>2, <2>3, <2>4
<1>8. ASSUME NEW q \in Products, Publish(q)
      PROVE  /\ \A h \in Handlers : todo'[h] = <<>>
             /\ "self" \notin scenario'.auto => disk' = 1
             /\ \A p \in Products \ scenario'.auto : NewsOf(p)'
  <2>1. todo' = todo /\ disk' = disk /\ UNCHANGED <<installed, cached, prev, news>>
    BY <1>8 DEF Publish
  <2>2. ASSUME NEW p \in Products \ scenario'.auto PROVE NewsOf(p)'
    <3>1. published'[p] \in Nat /\ published[p] <= published'[p]
      BY <1>8 DEF Typed, TypeOK, Versions, Publish
    <3>2. ahead' = ahead BY <2>1 DEF ahead
    <3>3. NewsOf(p) BY <1>1, <1>2
    <3>4. QED BY <2>1, <3>1, <3>2, <3>3, PublishedNews
  <2>3. QED BY <1>1, <1>2, <2>1, <2>2
<1>9. QED BY <1>4, <1>5, <1>6, <1>7, <1>8, CalmStep

IInv == Typed /\ Replacing /\ NewsInv

LEMMA IInvInit == ASSUME Init PROVE IInv
<1>1. ahead = Startup[Main] BY DEF Init, ahead
<1>2. Replacing BY <1>1, StartupReplaces DEF Replacing
<1>3. /\ \A h \in Handlers : todo[h] = <<>> /\ disk = 1 BY StartupIs DEF Init
<1>4. NewsInv BY <1>3, InitNews DEF NewsInv, Init
<1>5. QED BY <1>2, <1>4, InitTyped DEF IInv

LEMMA IInvStep == ASSUME IInv, [Next]_vars PROVE IInv'
<1>1. Typed' BY TypedStep DEF IInv
<1>2. Replacing' BY ReplacingStep DEF IInv
<1>3. NewsInv' BY <1>1, NewsStep DEF IInv
<1>4. QED BY <1>1, <1>2, <1>3 DEF IInv

LEMMA IInvHolds == Spec => []IInv
<1>1. IInv /\ [Next]_vars => IInv' BY IInvStep
<1>2. QED BY IInvInit, <1>1, PTL DEF Spec

(* botState, the lists of steps and the history have the types they are     *)
(* declared with, and what is cached as available always names a release.    *)
THEOREM TypeCorrect == Spec => []TypeOK
<1>1. Typed => TypeOK BY DEF Typed
<1>2. QED BY TypedHolds, <1>1, PTL

(* bot.go:188-190, for any handlers, any number of releases under any names *)
(* and any settings: while no check fails, the daemon does not crash and    *)
(* the user gives no command, the periodic check announces no release for   *)
(* a second time, however its refreshes and decisions interleave with the   *)
(* publication of releases.                                                 *)
THEOREM NewsComeOnce == Spec => AnnouncedOnce
<1> DEFINE Fresh == Calm => \A g \in Goroutines :
                      Notify(g) => cached[Now(g).of].latest \notin news[Now(g).of]
<1>1. ASSUME IInv PROVE Fresh
  <2> SUFFICES ASSUME Calm, NEW g \in Goroutines, Notify(g)
               PROVE  cached[Now(g).of].latest \notin news[Now(g).of]
    OBVIOUS
  <2>1. g = Main BY <1>1 DEF IInv, NewsInv, Notify, Announces, Does, Idle, Goroutines
  <2>2. /\ ~Idle(Main) /\ Now(Main).do = "decide" /\ Now(Main).of \notin scenario.auto
        /\ IsNews(prev[Now(Main).of], cached[Now(Main).of])
    BY <2>1 DEF Notify, Announces, Does
  <2>3. /\ Len(ahead) \in Nat /\ 1 \in 1..Len(ahead) /\ ahead[1] = Now(Main)
        /\ Now(Main).of \in Products
    BY <1>1, <2>2, MainNow DEF IInv, Step
  <2>4. NewsOf(Now(Main).of) BY <1>1, <2>2, <2>3 DEF IInv, NewsInv
  <2>5. QED BY <1>1, <2>1, <2>2, <2>3, <2>4, DecidesOnNews DEF IInv
<1>2. IInv /\ [Next]_vars => [Fresh]_vars BY <1>1
<1>3. Spec => [][Fresh]_vars BY IInvHolds, <1>2, PTL DEF Spec
<1>4. QED BY <1>3 DEF AnnouncedOnce, Calm
-----------------------------------------------------------------------------
(* Versions, for all numbers. *)

LEMMA Segments ==
  ASSUME NEW a \in Version, NEW b \in Version
  PROVE IsNewer(a, b) <=> \/ b[1] > a[1]
                          \/ b[1] = a[1] /\ b[2] > a[2]
                          \/ b[1] = a[1] /\ b[2] = a[2] /\ b[3] > a[3]
<1>1. 1..3 = {1, 2, 3} /\ 1..0 = {} /\ 1..1 = {1} /\ 1..2 = {1, 2} OBVIOUS
<1>2. 1 - 1 = 0 /\ 2 - 1 = 1 /\ 3 - 1 = 2 OBVIOUS
<1>3. IsNewer(a, b) <=>
        \/ b[1] > a[1] /\ \A j \in 1..(1 - 1) : b[j] = a[j]
        \/ b[2] > a[2] /\ \A j \in 1..(2 - 1) : b[j] = a[j]
        \/ b[3] > a[3] /\ \A j \in 1..(3 - 1) : b[j] = a[j]
  BY <1>1 DEF IsNewer
<1>4. QED BY <1>1, <1>2, <1>3

LEMMA SegmentsAreNumbers ==
  ASSUME NEW a \in Version PROVE a[1] \in Nat /\ a[2] \in Nat /\ a[3] \in Nat
BY DEF Version

LEMMA SameSegments ==
  ASSUME NEW a \in Version, NEW b \in Version,
         a[1] = b[1], a[2] = b[2], a[3] = b[3]
  PROVE a = b
<1>1. \A i \in 1..3 : a[i] = b[i]
  <2>1. 1..3 = {1, 2, 3} OBVIOUS
  <2>2. QED BY <2>1
<1>2. QED BY <1>1 DEF Version

(* version.go:27: IsNewer orders versions: of two that differ exactly one   *)
(* is newer, none is newer than itself, and what is newer than a newer one  *)
(* is newer.  sort.Slice (rollback.go:25) and the choice of the latest      *)
(* release need just that.                                                  *)
THEOREM IsNewerIsAnOrder ==
  ASSUME NEW a \in Version, NEW b \in Version, NEW c \in Version
  PROVE /\ ~IsNewer(a, a)
        /\ ~(IsNewer(a, b) /\ IsNewer(b, a))
        /\ a # b => IsNewer(a, b) \/ IsNewer(b, a)
        /\ IsNewer(a, b) /\ IsNewer(b, c) => IsNewer(a, c)
<1> USE SegmentsAreNumbers, Segments
<1>1. ~IsNewer(a, a) OBVIOUS
<1>2. ~(IsNewer(a, b) /\ IsNewer(b, a)) OBVIOUS
<1>3. ASSUME a # b PROVE IsNewer(a, b) \/ IsNewer(b, a)
  <2>1. ~(a[1] = b[1] /\ a[2] = b[2] /\ a[3] = b[3]) BY <1>3, SameSegments
  <2>2. QED BY <2>1
<1>4. IsNewer(a, b) /\ IsNewer(b, c) => IsNewer(a, c) OBVIOUS
<1>5. QED BY <1>1, <1>2, <1>3, <1>4

(* The first versions of a list that is sorted newest first, where none is  *)
(* listed twice, are those newer than the next one.                          *)
Distinct(list) == \A i, j \in DOMAIN list : list[i] = list[j] => i = j

LEMMA NewerComeFirst ==
  ASSUME NEW n \in Nat, NEW list \in [1..n -> Version], NewestFirst(list), Distinct(list),
         NEW i \in 1..n, NEW j \in 1..n
  PROVE  IsNewer(list[i], list[j]) <=> j < i
<1>1. DOMAIN list = 1..n /\ list[i] \in Version /\ list[j] \in Version OBVIOUS
<1>2. CASE j = i BY <1>1, <1>2, IsNewerIsAnOrder
<1>3. CASE i < j BY <1>1, <1>3 DEF NewestFirst
<1>4. CASE j < i
  <2>1. ~IsNewer(list[j], list[i]) BY <1>1, <1>4 DEF NewestFirst
  <2>2. list[i] # list[j] BY <1>1, <1>4 DEF Distinct
  <2>3. QED BY <1>1, <1>4, <2>1, <2>2, IsNewerIsAnOrder
<1>5. QED BY <1>2, <1>3, <1>4

Newer(list, v) == {u \in {list[j] : j \in DOMAIN list} : IsNewer(v, u)}

LEMMA Place ==
  ASSUME NEW n \in Nat, NEW list \in [1..n -> Version], NewestFirst(list), Distinct(list),
         NEW i \in 1..n
  PROVE  Cardinality(Newer(list, list[i])) = i - 1
<1> DEFINE f == [j \in 1..(i - 1) |-> list[j]]
<1>1. DOMAIN list = 1..n /\ 1..(i - 1) \subseteq 1..n OBVIOUS
<1>2. \A j \in 1..n : IsNewer(list[i], list[j]) <=> j \in 1..(i - 1)
  BY NewerComeFirst
<1>3. ASSUME NEW u \in Newer(list, list[i]) PROVE \E j \in 1..(i - 1) : f[j] = u
  <2>1. PICK j \in 1..n : u = list[j] /\ IsNewer(list[i], u) BY <1>1 DEF Newer
  <2>2. QED BY <1>2, <2>1
<1>4. ASSUME NEW j \in 1..(i - 1) PROVE f[j] \in Newer(list, list[i])
  BY <1>1, <1>2 DEF Newer
<1>5. ASSUME NEW j \in 1..(i - 1), NEW k \in 1..(i - 1), f[j] = f[k] PROVE j = k
  BY <1>1, <1>5 DEF Distinct
<1>6. f \in Bijection(1..(i - 1), Newer(list, list[i]))
  <2>1. f \in [1..(i - 1) -> Newer(list, list[i])] BY <1>4
  <2>2. \A j, k \in 1..(i - 1) : f[j] = f[k] => j = k BY <1>5
  <2>3. \A u \in Newer(list, list[i]) : \E j \in 1..(i - 1) : f[j] = u BY <1>3
  <2> HIDE DEF f
  <2>4. QED
    BY <2>1, <2>2, <2>3 DEF Bijection, Injection, Surjection, IsInjective
<1>7. IsFiniteSet(1..(i - 1)) /\ Cardinality(1..(i - 1)) = i - 1
  BY FS_Interval
<1>8. QED BY <1>6, <1>7, FS_Bijection DEF ExistsBijection

(* rollback.go:24-26: the versions reach sort.Slice in the order in which Go *)
(* walks a map, another one each time, and the sort is not stable.  All the  *)
(* same what is shown depends on the versions alone: two lists of the same   *)
(* versions, sorted newest first and with none listed twice, are equal.      *)
THEOREM ListIsDetermined ==
  ASSUME NEW n \in Nat, NEW list \in [1..n -> Version], NewestFirst(list), Distinct(list),
         NEW m \in Nat, NEW other \in [1..m -> Version], NewestFirst(other), Distinct(other),
         {list[j] : j \in 1..n} = {other[j] : j \in 1..m}
  PROVE  list = other
<1>1. DOMAIN list = 1..n /\ DOMAIN other = 1..m OBVIOUS
<1>2. \A v : Newer(list, v) = Newer(other, v) BY <1>1 DEF Newer
<1>3. ASSUME NEW i \in 1..n PROVE i \in 1..m /\ other[i] = list[i]
  <2>1. PICK k \in 1..m : list[i] = other[k] OBVIOUS
  <2>2. i - 1 = k - 1 BY <1>2, <2>1, Place
  <2>3. i = k BY <2>2
  <2>4. QED BY <2>1, <2>3
<1>4. ASSUME NEW i \in 1..m PROVE i \in 1..n
  <2>1. PICK k \in 1..n : list[k] = other[i] OBVIOUS
  <2>2. i - 1 = k - 1 BY <1>2, <2>1, Place
  <2>3. QED BY <2>2
<1>5. 1..n = 1..m BY <1>3, <1>4
<1>6. QED BY <1>3, <1>5

(* downgrade.go:24 and :51 promise a release strictly below the installed   *)
(* one.  The test keeps just the others: no candidate is older than what    *)
(* is installed, and every release that is older is passed over.            *)
THEOREM PreviousIsNeverOlder ==
  ASSUME NEW released \in SUBSET Version, NEW current \in Version,
         NEW v \in released
  PROVE v \in PreviousCandidates(released, current) <=>
          v = current \/ IsNewer(current, v)
BY IsNewerIsAnOrder DEF PreviousCandidates
=============================================================================
