--------------------------- MODULE SettingsProofs ---------------------------
(* Proofs about Settings, for any handlers and users.                        *)
EXTENDS Settings, SequenceTheorems, TLAPS

(***************************************************************************)
(* The inductive invariant of handlers that come one after the other: the  *)
(* todo list of the one at work fits the state (Fits).  It is at most two  *)
(* steps, and none but the first changes memory (One, Two).  What it is    *)
(* going to write is what memory holds; what memory, UCI, flash and the    *)
(* runner do not agree on it takes care of (Covers).                       *)
(***************************************************************************)
One(s) ==
  /\ s.option \in AllOptions
  /\ s.do \in {"clearAwait", "toggle", "set", "add", "snapshot", "save", "commit",
               "push", "signal"}
  /\ s.do = "snapshot" => s.option = "admins"
Two(s, r) ==
  /\ s.option \in AllOptions /\ r.option \in AllOptions
  /\ \/ s.do = "clearAwait" /\ r.do \in {"set", "add"}
     \/ s.do \in {"save", "commit"} /\ r.do \in {"push", "signal"}

Agree(o) == IF o = "label" THEN uci[o] = "named" <=> mem[o] = "named"
                           ELSE uci[o] = mem[o]

nil == step("none", "none", 0)   \* no step

Covers(s, r) ==
  /\ s.do = "save" => s.value = mem[s.option]
  /\ s.do = "push" => s.value = mem.keep
  /\ r.do = "push" => r.value = mem.keep
  /\ \A o \in AllOptions : Agree(o) \/ (s.do \in {"save", "snapshot"} /\ s.option = o)
  /\ runner = mem.keep \/ "push" \in {s.do, r.do}
  /\ "kill" \notin scenario.ends => flash = uci \/ s.do = "commit"

Fits(t) ==
  \/ t = <<>> /\ Covers(nil, nil)
  \/ t = <<t[1]>> /\ One(t[1]) /\ Covers(t[1], nil)
  \/ t = <<t[1], t[2]>> /\ Two(t[1], t[2]) /\ Covers(t[1], t[2])

Stored == /\ DOMAIN mem = AllOptions /\ DOMAIN uci = AllOptions /\ DOMAIN flash = AllOptions
          /\ DOMAIN todo = Handlers /\ scenario \in Scenarios
          /\ awaiting \in {"none", "label", "admins"}

Following ==
  OneByOne => /\ \A h \in scenario.handlers : Fits(todo[h])
              /\ scenario.handlers = {} => Covers(nil, nil)

IInv == Stored /\ Following

-----------------------------------------------------------------------------

LEMMA Lists ==
  ASSUME NEW a, NEW b
  PROVE  /\ Head(<<a>>) = a /\ Tail(<<a>>) = <<>>
         /\ Head(<<a, b>>) = a /\ Tail(<<a, b>>) = <<b>>
         /\ <<a>> \o <<>> = <<a>> /\ <<a, b>> \o <<>> = <<a, b>>
         /\ <<a>> \o <<b>> = <<a, b>>
         /\ <<a>> # <<>> /\ <<a, b>> # <<>>
<1>1. Head(<<a>>) = a /\ Head(<<a, b>>) = a OBVIOUS
<1>2. Tail(<<a>>) = <<>> OBVIOUS
<1>3. Tail(<<a, b>>) = <<b>> OBVIOUS
<1>4. <<a>> \o <<>> = <<a>> OBVIOUS
<1>5. <<a, b>> \o <<>> = <<a, b>> OBVIOUS
<1>6. <<a>> \o <<b>> = <<a, b>>
  <2>1. <<a>> \in Seq({a, b}) /\ <<b>> \in Seq({a, b}) /\ <<a, b>> \in Seq({a, b})
    OBVIOUS
  <2>2. <<a>> \o <<b>> \in Seq({a, b}) /\ Len(<<a>> \o <<b>>) = 2 BY <2>1
  <2>3. (<<a>> \o <<b>>)[1] = a /\ (<<a>> \o <<b>>)[2] = b BY <2>1
  <2>4. \A i \in 1..2 : (<<a>> \o <<b>>)[i] = <<a, b>>[i] BY <2>3
  <2>5. Len(<<a, b>>) = 2 OBVIOUS
  <2>6. QED BY <2>1, <2>2, <2>4, <2>5, SeqEqual
<1>7. <<a>> # <<>> /\ <<a, b>> # <<>> OBVIOUS
<1>8. QED BY <1>1, <1>2, <1>3, <1>4, <1>5, <1>6, <1>7

(* The steps that follow the change of an option. *)
LEMMA Follows ==
  ASSUME NEW o \in AllOptions, NEW v
  PROVE  \/ o \in {"auto", "self", "label"} /\ After(o, v) = <<step("save", o, v)>>
         \/ o = "hours" /\ After(o, v) = <<step("save", o, v), step("signal", o, v)>>
         \/ o = "keep" /\ After(o, v) = <<step("save", o, v), step("push", o, v)>>
         \/ o = "admins" /\ After(o, v) = <<step("snapshot", o, v)>>
<1>1. CASE o \in {"auto", "self", "label"} BY <1>1 DEF After
<1>2. CASE o = "hours" BY <1>2 DEF After
<1>3. CASE o = "keep" BY <1>3 DEF After
<1>4. CASE o = "admins" BY <1>4 DEF After
<1>5. QED BY <1>1, <1>2, <1>3, <1>4 DEF AllOptions

(* How a list that begins with some step goes on. *)
LEMMA Beginning ==
  ASSUME NEW t, Fits(t), t # <<>>
  PROVE  \/ t = <<Head(t)>> /\ Tail(t) = <<>> /\ One(Head(t)) /\ Covers(Head(t), nil)
         \/ \E r : t = <<Head(t), r>> /\ Tail(t) = <<r>> /\ Two(Head(t), r)
                   /\ Covers(Head(t), r)
<1>1. CASE \E s : t = <<s>> /\ One(s) /\ Covers(s, nil)
  <2>1. PICK s : t = <<s>> /\ One(s) /\ Covers(s, nil) BY <1>1
  <2>2. Head(t) = s /\ Tail(t) = <<>> BY <2>1, Lists
  <2>3. QED BY <2>1, <2>2
<1>2. CASE \E s, r : t = <<s, r>> /\ Two(s, r) /\ Covers(s, r)
  <2>1. PICK s, r : t = <<s, r>> /\ Two(s, r) /\ Covers(s, r) BY <1>2
  <2>2. Head(t) = s /\ Tail(t) = <<r>> BY <2>1, Lists
  <2>3. QED BY <2>1, <2>2
<1>3. QED BY <1>1, <1>2 DEF Fits

LEMMA InitIInv == Init => IInv
<1> SUFFICES ASSUME Init PROVE IInv OBVIOUS
<1>1. Stored BY DEF Init, Stored, Default, Loaded, AllOptions
<1>2. Covers(nil, nil)
  BY DEF Init, Covers, Agree, Default, Loaded, AllOptions, nil, step
<1>3. \A h \in scenario.handlers : todo[h] = <<>>
  BY SettingsAssumption DEF Init, Scenario
<1>4. QED BY <1>1, <1>2, <1>3 DEF IInv, Following, Fits

LEMMA StoredStep == ASSUME Stored, [Next]_vars PROVE Stored' /\ scenario' = scenario
<1> USE DEF Stored, copies, clock, input
<1>1. ASSUME NEW h \in scenario.handlers, Arrive(h) PROVE Stored' /\ scenario' = scenario
  BY <1>1 DEF Arrive, ClearAdmins, Cancel, Text, Toggle, Choose, Prompt, Begin
<1>2. ASSUME NEW h \in scenario.handlers, Work(h) PROVE Stored' /\ scenario' = scenario
  BY <1>2
  DEF Work, ClearAwait, ReadToggle, DoSet, AddAdmin, Snapshot, Save, Commit, Push, Signal,
      Done, DoneThen
<1>3. CASE Receive \/ Reset \/ Fire \/ Checked \/ UNCHANGED vars
  BY <1>3 DEF Receive, Reset, Fire, Checked, vars
<1>4. CASE Restart BY <1>4 DEF Restart, Start, Loaded
<1>5. QED BY <1>1, <1>2, <1>3, <1>4 DEF Next

(* An update arrives for a handler that has nothing to do. *)
LEMMA ArriveFits ==
  ASSUME Stored, NEW h \in scenario.handlers, Fits(todo[h]), Arrive(h)
  PROVE  Fits(todo[h])'
<1> USE DEF Stored, copies, clock, input
<1>1. h \in Handlers BY SettingsAssumption DEF Scenario
<1>2. UNCHANGED <<mem, copies, clock, scenario>> /\ todo[h] = <<>>
  BY DEF Arrive, ClearAdmins, Cancel, Text, Toggle, Choose, Prompt, Begin, Idle
<1>3. Covers(nil, nil) BY <1>2 DEF Fits
<1>4. ASSUME NEW s, s.do \in {"toggle", "set"}, s.option \in AllOptions, Begin(h, <<s>>)
      PROVE  Fits(todo[h])'
  <2>1. todo'[h] = <<s>> /\ UNCHANGED input BY <1>1, <1>4 DEF Begin
  <2>2. Covers(s, nil)' BY <1>2, <1>3, <1>4, <2>1 DEF Covers, Agree, nil, step
  <2>3. QED BY <1>4, <2>1, <2>2 DEF Fits, One
<1>5. ASSUME NEW o \in scenario.options, Toggle(h, o) PROVE Fits(todo[h])'
  <2>1. o \in AllOptions BY <1>5 DEF Toggle, AllOptions
  <2>2. Begin(h, <<step("toggle", o, 0)>>) BY <1>5 DEF Toggle
  <2>3. QED BY <1>4, <2>1, <2>2 DEF step
<1>6. ASSUME NEW o \in scenario.options, Choose(h, o) PROVE Fits(todo[h])'
  <2>1. o \in AllOptions BY <1>6 DEF Choose, AllOptions
  <2>2. PICK v \in Values[o] : Begin(h, <<Set(o, v)>>) BY <1>6 DEF Choose
  <2>3. QED BY <1>4, <2>1, <2>2 DEF step, Set
<1>7. CASE ClearAdmins(h)
  <2>1. Begin(h, <<Set("admins", {})>>) BY <1>7 DEF ClearAdmins
  <2>2. Set("admins", {}).do = "set" /\ Set("admins", {}).option \in AllOptions
    BY DEF step, Set, AllOptions
  <2>3. QED BY <1>4, <2>1, <2>2
<1>8. ASSUME (\E o \in scenario.options : Prompt(h, o)) \/ Cancel(h) PROVE Fits(todo[h])'
  <2>1. todo'[h] = <<>> BY <1>2, <1>8 DEF Prompt, Cancel
  <2>2. Covers(nil, nil)' BY <1>2, <1>3, <2>1 DEF Covers, Agree, nil, step
  <2>3. QED BY <2>1, <2>2 DEF Fits
<1>9. CASE Text(h)
  <2> PICK c : c = step("clearAwait", awaiting, 0) OBVIOUS
  <2>1. PICK use \in Uses(awaiting) : todo'[h] = <<c>> \o use
    BY <1>1, <1>9 DEF Text
  <2>2. awaiting \in {"label", "admins"} BY <1>9 DEF Text
  <2>3. c.do = "clearAwait" /\ Covers(c, nil)'
    BY <1>2, <1>3 DEF Covers, Agree, nil, step
  <2>4. c.option \in AllOptions BY <2>2 DEF step, AllOptions
  <2>5. \/ use = <<>>
        \/ \E s : use = <<s>> /\ s.do \in {"set", "add"} /\ s.option \in AllOptions
    BY <2>2 DEF Uses, Named, Added, Set, step, AllOptions
  <2>6. CASE use = <<>>
    <3>1. todo'[h] = <<c>> BY <2>1, <2>6, Lists
    <3>2. One(c) BY <2>3, <2>4, <3>1 DEF One
    <3>3. QED BY <2>3, <3>1, <3>2 DEF Fits
  <2>7. ASSUME NEW s, use = <<s>>, s.do \in {"set", "add"}, s.option \in AllOptions
        PROVE  Fits(todo[h])'
    <3>1. todo'[h] = <<c, s>> BY <2>1, <2>7, Lists
    <3>2. Two(c, s) BY <2>3, <2>4, <2>7 DEF Two
    <3>3. Covers(c, s)' BY <2>3, <2>7 DEF Covers, nil, step
    <3>4. QED BY <3>1, <3>2, <3>3 DEF Fits
  <2>8. QED BY <2>5, <2>6, <2>7
<1>10. QED BY <1>5, <1>6, <1>7, <1>8, <1>9 DEF Arrive

(* A handler left with one step, or with two, that fit. *)
LEMMA FitsOne ==
  ASSUME NEW h, NEW s, todo'[h] = <<s>>, One(s), Covers(s, nil)'
  PROVE  Fits(todo[h])'
BY DEF Fits
LEMMA FitsTwo ==
  ASSUME NEW h, NEW s, NEW r, todo'[h] = <<s, r>>, Two(s, r), Covers(s, r)'
  PROVE  Fits(todo[h])'
BY DEF Fits

(* An option changes: mem[o] becomes w, and what follows is to be done. *)
Changes(h, o, v, w) ==
  /\ todo'[h] = After(o, v) \o <<>> /\ (o = "admins" \/ v = w)
  /\ mem' = [mem EXCEPT ![o] = w]
  /\ UNCHANGED <<copies, input, scenario>>

LEMMA ChangeFits ==
  ASSUME Stored, NEW h \in scenario.handlers, NEW s, s.do \in {"set", "add"},
         Covers(s, nil), NEW o \in AllOptions, NEW v, NEW w, Changes(h, o, v, w)
  PROVE  Fits(todo[h])'
<1> USE DEF Changes, Stored, copies, input
<1> PICK save : save = step("save", o, v) OBVIOUS
<1>1. /\ mem'[o] = w /\ \A p \in AllOptions \ {o} : mem'[p] = mem[p]
  OBVIOUS
<1>2. \A p \in AllOptions \ {o} : Agree(p)' BY <1>1 DEF Covers, Agree
<1>3. CASE o \in {"auto", "self", "label"}
  <2>1. todo'[h] = <<save>> BY <1>1, <1>3, Follows, Lists
  <2>2. One(save) BY DEF One, step
  <2>3. Covers(save, nil)'
    BY <1>1, <1>2, <1>3 DEF Covers, nil, step, AllOptions
  <2>4. QED BY <2>1, <2>2, <2>3, FitsOne
<1>4. CASE o \in {"hours", "keep"}
  <2> PICK n : n = step(IF o = "hours" THEN "signal" ELSE "push", o, v) OBVIOUS
  <2>1. todo'[h] = <<save, n>>
    <3>1. After(o, v) = <<save, n>> BY <1>4, Follows
    <3>2. <<save, n>> \o <<>> = <<save, n>> BY Lists
    <3>3. QED BY <1>1, <3>1, <3>2
  <2>2. Two(save, n) BY <1>4 DEF Two, step
  <2>3. Covers(save, n)'
    BY <1>1, <1>2, <1>4 DEF Covers, nil, step, AllOptions
  <2>4. QED BY <2>1, <2>2, <2>3, FitsTwo
<1>5. CASE o = "admins"
  <2> PICK n : n = step("snapshot", o, v) OBVIOUS
  <2>1. todo'[h] = <<n>> BY <1>1, <1>5, Follows, Lists
  <2>2. One(n) BY <1>5 DEF One, step
  <2>3. Covers(n, nil)'
    BY <1>1, <1>2, <1>5 DEF Covers, nil, step, AllOptions
  <2>4. QED BY <2>1, <2>2, <2>3, FitsOne
<1>6. QED BY <1>3, <1>4, <1>5 DEF AllOptions

(* Each step of a handler leaves to the others what it has not done itself.  *)
LEMMA WorkFits ==
  ASSUME Stored, NEW h \in scenario.handlers, Fits(todo[h]), Work(h)
  PROVE  Fits(todo[h])'
<1> USE DEF Stored, copies, clock, input
<1>1. PICK t, s : t = todo[h] /\ s = Head(t) OBVIOUS
<1>2. h \in Handlers /\ t # <<>>
  BY <1>1, SettingsAssumption
  DEF Scenario, Work, ClearAwait, ReadToggle, DoSet, AddAdmin, Snapshot, Save, Commit,
      Push, Signal, Does, Idle
<1>3. \/ t = <<s>> /\ Tail(t) = <<>> /\ One(s) /\ Covers(s, nil)
      \/ \E r : t = <<s, r>> /\ Tail(t) = <<r>> /\ Two(s, r) /\ Covers(s, r)
  BY <1>1, <1>2, Beginning
<1>4. CASE ClearAwait(h)
  <2>1. /\ s.do = "clearAwait" /\ todo'[h] = Tail(t)
        /\ UNCHANGED <<mem, copies, scenario>>
    BY <1>1, <1>2, <1>4 DEF ClearAwait, Done, Does, Now
  <2>2. CASE Tail(t) = <<>> /\ Covers(s, nil)
    <3>1. Covers(nil, nil)' BY <2>1, <2>2 DEF Covers, Agree, nil, step
    <3>2. QED BY <2>1, <2>2, <3>1 DEF Fits
  <2>3. ASSUME NEW r, Tail(t) = <<r>>, Two(s, r), Covers(s, r) PROVE Fits(todo[h])'
    <3>1. One(r) BY <2>1, <2>3 DEF Two, One
    <3>2. Covers(r, nil)' BY <2>1, <2>3, <3>1 DEF Covers, Agree, Two, nil, step
    <3>3. todo'[h] = <<r>> BY <2>1, <2>3
    <3>4. QED BY <3>1, <3>2, <3>3 DEF Fits
  <2>4. QED BY <1>3, <2>2, <2>3
<1>5. ASSUME s.do \in {"toggle", "set", "add", "snapshot"}
      PROVE  Tail(t) = <<>> /\ One(s) /\ Covers(s, nil)
  BY <1>3, <1>5 DEF Two
<1>6. CASE ReadToggle(h)
  <2> PICK n : n = Set(s.option, ~mem[s.option]) OBVIOUS
  <2>1. /\ s.do = "toggle" /\ todo'[h] = <<n>> \o Tail(t)
        /\ UNCHANGED <<mem, copies, input, scenario>>
    BY <1>1, <1>2, <1>6 DEF ReadToggle, DoneThen, Does, Now
  <2>2. todo'[h] = <<n>> BY <1>5, <2>1, Lists
  <2>3. n.do = "set" /\ One(n) BY <1>5, <2>1 DEF Set, step, One
  <2>4. Covers(n, nil)' BY <1>5, <2>1, <2>3 DEF Covers, Agree, nil, step
  <2>5. QED BY <2>2, <2>3, <2>4 DEF Fits
<1>7. CASE DoSet(h)
  <2>1. /\ s.do = "set" /\ todo'[h] = After(s.option, s.value) \o Tail(t)
        /\ mem' = [mem EXCEPT ![s.option] = s.value]
        /\ UNCHANGED <<copies, input, scenario>>
    BY <1>1, <1>2, <1>7 DEF DoSet, DoneThen, Does, Now
  <2>2. s.option \in AllOptions /\ Tail(t) = <<>> BY <1>5, <2>1 DEF One
  <2>3. Changes(h, s.option, s.value, s.value) BY <2>1, <2>2 DEF Changes
  <2>4. Covers(s, nil) /\ s.do \in {"set", "add"} BY <1>5, <2>1
  <2>5. QED BY <2>2, <2>3, <2>4, ChangeFits
<1>8. CASE AddAdmin(h)
  <2> PICK w : w = mem.admins \cup s.value OBVIOUS
  <2>1. /\ s.do = "add" /\ todo'[h] = After("admins", s.value) \o Tail(t)
        /\ mem' = [mem EXCEPT !["admins"] = w]
        /\ UNCHANGED <<copies, input, scenario>>
    BY <1>1, <1>2, <1>8 DEF AddAdmin, DoneThen, Does, Now
  <2>2. "admins" \in AllOptions /\ Tail(t) = <<>> BY <1>5, <2>1 DEF AllOptions
  <2>3. Changes(h, "admins", s.value, w) BY <2>1, <2>2 DEF Changes
  <2>4. Covers(s, nil) /\ s.do \in {"set", "add"} BY <1>5, <2>1
  <2>5. QED BY <2>2, <2>3, <2>4, ChangeFits
<1>9. CASE Snapshot(h)
  <2> PICK n : n = step("save", "admins", mem.admins) OBVIOUS
  <2>1. /\ s.do = "snapshot" /\ todo'[h] = <<n>> \o Tail(t)
        /\ UNCHANGED <<mem, copies, input, scenario>>
    BY <1>1, <1>2, <1>9 DEF Snapshot, DoneThen, Does, Now
  <2>2. todo'[h] = <<n>> BY <1>5, <2>1, Lists
  <2>3. One(n) BY DEF step, One, AllOptions
  <2>4. s.option = "admins" BY <1>5, <2>1 DEF One
  <2>5. Covers(n, nil)' BY <1>5, <2>1, <2>4 DEF Covers, Agree, nil, step
  <2>6. QED BY <2>2, <2>3, <2>5 DEF Fits
<1>10. CASE Save(h)
  <2> PICK n : n = step("commit", s.option, 0) OBVIOUS
  <2>1. /\ s.do = "save" /\ todo'[h] = <<n>> \o Tail(t)
        /\ uci' = [uci EXCEPT ![s.option] = s.value]
        /\ UNCHANGED <<mem, runner, input, scenario>>
    BY <1>1, <1>2, <1>10 DEF Save, DoneThen, Does, Now
  <2>2. ASSUME s.option \in AllOptions, NEW r, Covers(s, r), r.do # "save"
        PROVE  Covers(n, r)'
    <3>1. ASSUME NEW o \in AllOptions PROVE Agree(o)'
      <4>1. CASE o = s.option
        <5>1. uci'[o] = mem'[o] BY <2>1, <2>2, <4>1 DEF Covers
        <5>2. QED BY <5>1 DEF Agree
      <4>2. CASE o # s.option BY <2>1, <2>2, <4>2 DEF Covers, Agree
      <4>3. QED BY <4>1, <4>2
    <3>2. QED BY <2>1, <2>2, <3>1 DEF Covers, step
  <2>3. CASE Tail(t) = <<>> /\ One(s) /\ Covers(s, nil)
    <3>1. todo'[h] = <<n>> BY <2>1, <2>3, Lists
    <3>2. One(n) BY <2>3 DEF One, step
    <3>3. Covers(n, nil)' BY <2>2, <2>3 DEF One, nil, step
    <3>4. QED BY <3>1, <3>2, <3>3 DEF Fits
  <2>4. ASSUME NEW r, Tail(t) = <<r>>, Two(s, r), Covers(s, r) PROVE Fits(todo[h])'
    <3>1. todo'[h] = <<n, r>>
      <4>1. todo'[h] = <<n>> \o <<r>> BY <2>1, <2>4
      <4>2. QED BY <4>1, Lists
    <3>2. Two(n, r) BY <2>1, <2>4 DEF Two, step
    <3>3. Covers(n, r)' BY <2>2, <2>4 DEF Two
    <3>4. QED BY <3>1, <3>2, <3>3 DEF Fits
  <2>5. QED BY <1>3, <2>3, <2>4
<1>11. CASE Commit(h)
  <2>1. /\ s.do = "commit" /\ todo'[h] = Tail(t) /\ flash' = uci
        /\ UNCHANGED <<mem, uci, runner, input, scenario>>
    BY <1>1, <1>2, <1>11 DEF Commit, Done, Does, Now
  <2>2. CASE Tail(t) = <<>> /\ Covers(s, nil)
    <3>1. Covers(nil, nil)' BY <2>1, <2>2 DEF Covers, Agree, nil, step
    <3>2. QED BY <2>1, <2>2, <3>1 DEF Fits
  <2>3. ASSUME NEW r, Tail(t) = <<r>>, Two(s, r), Covers(s, r) PROVE Fits(todo[h])'
    <3>1. One(r) BY <2>1, <2>3 DEF Two, One
    <3>2. Covers(r, nil)' BY <2>1, <2>3 DEF Covers, Agree, Two, nil, step
    <3>3. todo'[h] = <<r>> BY <2>1, <2>3
    <3>4. QED BY <3>1, <3>2, <3>3 DEF Fits
  <2>4. QED BY <1>3, <2>2, <2>3
<1>12. ASSUME s.do \in {"push", "signal"} PROVE Tail(t) = <<>> /\ Covers(s, nil)
  BY <1>3, <1>12 DEF Two
<1>13. CASE Push(h)
  <2>1. /\ s.do = "push" /\ todo'[h] = Tail(t) /\ runner' = s.value
        /\ UNCHANGED <<mem, uci, flash, input, scenario>>
    BY <1>1, <1>2, <1>13 DEF Push, Done, Does, Now
  <2>2. Covers(nil, nil)' BY <1>12, <2>1 DEF Covers, Agree, nil, step
  <2>3. QED BY <1>12, <2>1, <2>2 DEF Fits
<1>14. CASE Signal(h)
  <2>1. /\ s.do = "signal" /\ todo'[h] = Tail(t)
        /\ UNCHANGED <<mem, copies, input, scenario>>
    BY <1>1, <1>2, <1>14 DEF Signal, Done, Does, Now
  <2>2. Covers(nil, nil)' BY <1>12, <2>1 DEF Covers, Agree, nil, step
  <2>3. QED BY <1>12, <2>1, <2>2 DEF Fits
<1>15. QED
  BY <1>4, <1>6, <1>7, <1>8, <1>9, <1>10, <1>11, <1>13, <1>14 DEF Work

LEMMA IInvHolds == Spec => []IInv
<1>1. ASSUME IInv, [Next]_vars PROVE IInv'
  <2>1. Stored' /\ scenario' = scenario BY <1>1, StoredStep DEF IInv
  <2>2. SUFFICES ASSUME OneByOne PROVE Following'
    BY <2>1 DEF IInv, Following, OneByOne
  <2>3. Stored /\ (\A h \in scenario.handlers : Fits(todo[h]))
        /\ (scenario.handlers = {} => Covers(nil, nil))
    BY <1>1, <2>2 DEF IInv, Following
  <2>4. ASSUME NEW h \in scenario.handlers, Arrive(h) \/ Work(h) PROVE Following'
    <3>1. Fits(todo[h])' BY <2>3, <2>4, ArriveFits, WorkFits
    <3>2. \A k \in scenario.handlers : k = h BY <2>2 DEF OneByOne
    <3>3. QED BY <2>1, <3>1, <3>2 DEF Following
  <2>5. CASE Receive \/ Reset \/ Fire \/ Checked \/ UNCHANGED vars
    <3>1. UNCHANGED <<mem, copies, input, todo, scenario>>
      BY <2>5 DEF Receive, Reset, Fire, Checked, vars, copies, clock, input
    <3>2. QED BY <2>3, <3>1 DEF Following, Fits, Covers, Agree, copies, input
  <2>6. CASE Restart
    <3>1. PICK stored : /\ Start(stored) /\ flash' = flash
                        /\ \/ "kill" \in scenario.ends /\ stored = uci
                           \/ stored = flash
      BY <2>6 DEF Restart
    <3>2. \A h \in scenario.handlers : todo'[h] = <<>>
      BY <2>3, <3>1, SettingsAssumption DEF Start, Stored, Scenario
    <3>3. Covers(nil, nil)'
      BY <2>1, <2>3, <3>1
      DEF Start, Loaded, Covers, Agree, Stored, nil, step, AllOptions
    <3>4. QED BY <2>1, <3>2, <3>3 DEF Following, Fits
  <2>7. Following' BY <1>1, <2>4, <2>5, <2>6 DEF Next
  <2>8. QED BY <2>7
<1>2. QED BY InitIInv, <1>1, PTL DEF Spec

(* With no handler at work nothing is left to cover. *)
LEMMA QuietCovers == ASSUME IInv, OneByOne, Quiet PROVE Covers(nil, nil)
<1>1. CASE scenario.handlers = {} BY <1>1 DEF IInv, Following
<1>2. ASSUME NEW h \in scenario.handlers PROVE Covers(nil, nil)
  <2>1. todo[h] = <<>> /\ Fits(todo[h])
    BY SettingsAssumption DEF IInv, Following, Stored, Scenario, Quiet, Idle
  <2>2. QED BY <2>1, Lists DEF Fits
<1>3. QED BY <1>1, <1>2

(* settings.go's handlers, one update after another: what a start would load *)
(* from UCI is what memory holds, and the runner prunes to the limit that is *)
(* set, wherever the daemon was killed or the router lost power before.      *)
THEOREM CopiesAlwaysAgree == Spec => []CopiesAgree
<1>1. IInv => CopiesAgree
  <2>1. SUFFICES ASSUME IInv, OneByOne, Quiet
                 PROVE  /\ \A o \in AllOptions \ {"label"} : uci[o] = mem[o]
                        /\ uci.label = "named" <=> mem.label = "named"
                        /\ runner = mem.keep
    BY DEF CopiesAgree
  <2>2. Covers(nil, nil) BY <2>1, QuietCovers
  <2>3. QED BY <2>2 DEF Covers, Agree, nil, step, AllOptions
<1>2. QED BY <1>1, IInvHolds, PTL

(* setKey commits after each `uci set`: a power loss, whenever it comes,     *)
(* takes no setting back that a finished handler has changed.                *)
THEOREM RebootsKeepAll == Spec => []RebootKeepsAll
<1>1. IInv => RebootKeepsAll
  BY QuietCovers DEF RebootKeepsAll, Covers, nil, step
<1>2. QED BY <1>1, IInvHolds, PTL

-----------------------------------------------------------------------------
(***************************************************************************)
(* Types, for handlers that overlap in any way.  What a step is going to   *)
(* write is a value of its option (Valid); none writes the host's name,    *)
(* which only a start puts into memory.                                    *)
(***************************************************************************)
Texts == {"none", "named", "hostname"}
Any == BOOLEAN \cup Nat \cup Texts \cup SUBSET Users
Names == {"clearAwait", "toggle", "set", "add", "snapshot", "save", "commit", "push",
          "signal"}

Writable(o, v) == v \in Values[o] /\ (o = "label" => v # "hostname")
Valid(s) ==
  /\ s.do \in {"set", "save", "push", "signal"} => Writable(s.option, s.value)
  /\ s.do = "toggle" => s.option \in {"auto", "self"}
  /\ s.do = "add" => s.value \in SUBSET Users
  /\ s.do = "push" => s.option = "keep"
Steps == {s \in [do : Names, option : AllOptions, value : Any] : Valid(s)}

TypeInv == Stored /\ TypeOK /\ todo \in [Handlers -> Seq(Steps)]

LEMMA ValuesAre ==
  /\ Values["auto"] = BOOLEAN /\ Values["self"] = BOOLEAN
  /\ Values["hours"] = {1, 6} /\ Values["keep"] = {0, 5}
  /\ Values["label"] = Texts /\ Values["admins"] = SUBSET Users
BY DEF Values, Texts

LEMMA ValuesAreAny == \A o \in AllOptions : Values[o] \subseteq Any
BY ValuesAre DEF AllOptions, Any

LEMMA MakesStep ==
  ASSUME NEW d \in Names, NEW o \in AllOptions, NEW v \in Any,
         d \in {"set", "save", "push", "signal"} => Writable(o, v),
         d = "toggle" => o \in {"auto", "self"},
         d = "add" => v \in SUBSET Users, d = "push" => o = "keep"
  PROVE  step(d, o, v) \in Steps
BY DEF step, Steps, Valid

LEMMA ListOfSteps ==
  ASSUME NEW t \in Seq(Steps), t # <<>>, NEW s \in Seq(Steps)
  PROVE  Head(t) \in Steps /\ Tail(t) \in Seq(Steps) /\ s \o Tail(t) \in Seq(Steps)
<1>1. Head(t) \in Steps /\ Tail(t) \in Seq(Steps) OBVIOUS
<1>2. \A q \in Seq(Steps) : s \o q \in Seq(Steps) OBVIOUS
<1>3. QED BY <1>1, <1>2

LEMMA ShortLists ==
  ASSUME NEW a \in Steps PROVE <<a>> \in Seq(Steps) /\ \A b \in Steps : <<a, b>> \in Seq(Steps)
OBVIOUS

LEMMA AfterTyped ==
  ASSUME NEW o \in AllOptions, NEW v, Writable(o, v)
  PROVE  After(o, v) \in Seq(Steps)
<1>1. v \in Any BY ValuesAreAny DEF Writable
<1>2. step("save", o, v) \in Steps /\ step("snapshot", o, v) \in Steps
      /\ step("signal", o, v) \in Steps
  BY <1>1, MakesStep DEF Names
<1>3. o = "keep" => step("push", o, v) \in Steps BY <1>1, MakesStep DEF Names
<1>4. QED BY <1>2, <1>3, ShortLists, Follows

LEMMA ArriveTyped ==
  ASSUME TypeInv, NEW h \in scenario.handlers, Arrive(h) PROVE TypeInv'
<1> USE DEF copies, clock, input
<1>1. h \in Handlers /\ Idle(h) BY SettingsAssumption
  DEF TypeInv, Stored, Scenario, Arrive, ClearAdmins, Cancel, Text, Toggle, Choose, Prompt, Begin
<1>2. UNCHANGED <<mem, copies, clock, scenario>>
  BY DEF Arrive, ClearAdmins, Cancel, Text, Toggle, Choose, Prompt, Begin
<1>3. Stored' BY StoredStep DEF TypeInv, Next
<1>4. ASSUME {awaiting', asked'} \subseteq {"none", "label", "admins"},
             NEW s \in Seq(Steps), todo' = [todo EXCEPT ![h] = s]
      PROVE  TypeInv'
  <2>1. \A k \in Handlers \ scenario.handlers : Idle(k)'
    BY <1>4 DEF TypeInv, TypeOK, Idle
  <2>2. TypeOK' BY <1>2, <1>4, <2>1 DEF TypeInv, TypeOK
  <2>3. QED BY <1>1, <1>3, <1>4, <2>2 DEF TypeInv
<1>5. {awaiting, asked} \subseteq {"none", "label", "admins"} BY DEF TypeInv, TypeOK
<1>6. ASSUME NEW s \in Steps, Begin(h, <<s>>) PROVE TypeInv'
  BY <1>4, <1>5, <1>6, ShortLists DEF Begin
<1>7. ASSUME NEW o \in scenario.options, Toggle(h, o) PROVE TypeInv'
  <2>1. o \in AllOptions /\ 0 \in Any BY <1>7 DEF Toggle, AllOptions, Any
  <2>2. step("toggle", o, 0) \in Steps BY <1>7, <2>1, MakesStep DEF Toggle, Names
  <2>3. QED BY <1>6, <1>7, <2>2 DEF Toggle
<1>8. ASSUME NEW o \in AllOptions, NEW v \in Values[o], o # "label",
             Begin(h, <<Set(o, v)>>)
      PROVE  TypeInv'
  <2>1. v \in Any BY ValuesAreAny
  <2>2. Set(o, v) \in Steps BY <1>8, <2>1, MakesStep DEF Set, Names, Writable
  <2>3. QED BY <1>6, <1>8, <2>2
<1>9. ASSUME NEW o \in scenario.options, Choose(h, o) PROVE TypeInv'
  <2>1. o \in AllOptions /\ o # "label" BY <1>9 DEF Choose, AllOptions
  <2>2. QED BY <1>8, <1>9, <2>1 DEF Choose
<1>10. CASE ClearAdmins(h)
  <2>1. {} \in Values["admins"] BY ValuesAre
  <2>2. QED BY <1>8, <1>10, <2>1 DEF ClearAdmins, AllOptions
<1>11. ASSUME UNCHANGED todo, {awaiting', asked'} \subseteq {"none", "label", "admins"}
       PROVE  TypeInv'
  <2>1. todo' = [todo EXCEPT ![h] = todo[h]] /\ todo[h] \in Seq(Steps)
    BY <1>1, <1>11 DEF TypeInv
  <2>2. QED BY <1>4, <1>11, <2>1
<1>12. CASE (\E o \in scenario.options : Prompt(h, o)) \/ Cancel(h)
  BY <1>5, <1>11, <1>12 DEF Prompt, Cancel
<1>13. CASE Text(h)
  <2>1. awaiting \in {"label", "admins"} BY <1>5, <1>13 DEF Text
  <2>2. PICK c : c = step("clearAwait", awaiting, 0) OBVIOUS
  <2>3. c \in Steps BY <2>1, <2>2, MakesStep DEF Names, AllOptions, Any
  <2>4. PICK use \in Uses(awaiting) : todo' = [todo EXCEPT ![h] = <<c>> \o use]
    BY <1>13, <2>2 DEF Text
  <2>5. use \in Seq(Steps)
    <3>1. CASE use \in Named
      <4>1. PICK v \in {"none", "named"} : use = <<Set("label", v)>> BY <3>1 DEF Named
      <4>2. v \in Any /\ Writable("label", v) BY ValuesAre DEF Any, Texts, Writable
      <4>3. Set("label", v) \in Steps
        BY <4>2, MakesStep DEF Set, Names, AllOptions
      <4>4. QED BY <4>1, <4>3, ShortLists
    <3>2. CASE use \in Added
      <4>1. PICK u \in Users : use = <<step("add", "admins", {u})>> BY <3>2 DEF Added
      <4>2. {u} \in SUBSET Users /\ {u} \in Any BY DEF Any
      <4>3. step("add", "admins", {u}) \in Steps
        BY <4>2, MakesStep DEF Names, AllOptions
      <4>4. QED BY <4>1, <4>3, ShortLists
    <3>3. CASE use = <<>> BY <3>3
    <3>4. use \in Named \/ use \in Added \/ use = <<>> BY <2>4 DEF Uses
    <3>5. QED BY <3>1, <3>2, <3>3, <3>4
  <2>6. <<c>> \o use \in Seq(Steps)
    <3>1. <<c>> \in Seq(Steps) BY <2>3, ShortLists
    <3>2. \A a, b \in Seq(Steps) : a \o b \in Seq(Steps) OBVIOUS
    <3>3. QED BY <2>5, <3>1, <3>2
  <2>7. {awaiting', asked'} \subseteq {"none", "label", "admins"}
    BY <1>5, <1>13 DEF Text
  <2>8. QED BY <1>4, <2>4, <2>6, <2>7
<1>14. QED BY <1>7, <1>9, <1>10, <1>12, <1>13 DEF Arrive

LEMMA WorkTyped ==
  ASSUME TypeInv, NEW h \in scenario.handlers, Work(h) PROVE TypeInv'
<1> USE DEF copies, clock, input
<1>1. h \in Handlers /\ ~Idle(h)
  BY SettingsAssumption
  DEF TypeInv, Stored, Scenario, Work, ClearAwait, ReadToggle, DoSet, AddAdmin, Snapshot,
      Save, Commit, Push, Signal, Does
<1>2. PICK t, s : t = todo[h] /\ s = Now(h) OBVIOUS
<1>3. t \in Seq(Steps) /\ t # <<>> /\ s = Head(t) BY <1>1, <1>2 DEF TypeInv, Idle, Now
<1>4. s \in Steps BY <1>3, ListOfSteps
<1>5. s.option \in AllOptions /\ s.do \in Names /\ Valid(s) BY <1>4 DEF Steps
<1>6. Stored' /\ scenario' = scenario BY StoredStep DEF TypeInv, Next
<1>7. ASSUME Done(h) PROVE todo' \in [Handlers -> Seq(Steps)]
  <2>1. Tail(t) \in Seq(Steps) BY <1>3, ListOfSteps
  <2>2. QED BY <1>1, <1>2, <1>7, <2>1 DEF Done, TypeInv
<1>8. ASSUME NEW r \in Seq(Steps), DoneThen(h, r) PROVE todo' \in [Handlers -> Seq(Steps)]
  <2>1. r \o Tail(t) \in Seq(Steps) BY <1>3, ListOfSteps
  <2>2. QED BY <1>1, <1>2, <1>8, <2>1 DEF DoneThen, TypeInv
<1>9. /\ \A o \in AllOptions : {mem[o], uci[o], flash[o]} \subseteq Values[o]
      /\ "hostname" \notin {uci.label, flash.label}
      /\ runner \in Values.keep /\ signal \in BOOLEAN /\ armed \in Values.hours
      /\ timer \in {"waiting", "resetting", "checking"}
      /\ {awaiting, asked} \subseteq {"none", "label", "admins"} /\ scenario \in Scenarios
      /\ \A k \in Handlers \ scenario.handlers : Idle(k)
  BY DEF TypeInv, TypeOK
<1>10. ASSUME Done(h) \/ \E r : DoneThen(h, r)
       PROVE  \A k \in Handlers \ scenario'.handlers : Idle(k)'
  BY <1>1, <1>6, <1>9, <1>10 DEF Done, DoneThen, Idle, TypeInv
<1>11. ASSUME todo' \in [Handlers -> Seq(Steps)], Done(h) \/ \E r : DoneThen(h, r),
              \A o \in AllOptions : {mem'[o], uci'[o], flash'[o]} \subseteq Values[o],
              "hostname" \notin {uci'.label, flash'.label},
              runner' \in Values.keep, signal' \in BOOLEAN, UNCHANGED <<armed, timer>>,
              {awaiting', asked'} \subseteq {"none", "label", "admins"}
       PROVE  TypeInv'
  BY <1>6, <1>9, <1>10, <1>11 DEF TypeInv, TypeOK
<1>12. CASE ClearAwait(h) BY <1>7, <1>9, <1>11, <1>12 DEF ClearAwait
<1>13. CASE ReadToggle(h)
  <2>1. s.do = "toggle" /\ DoneThen(h, <<Set(s.option, ~mem[s.option])>>)
    BY <1>2, <1>13 DEF ReadToggle, Does
  <2>2. s.option \in {"auto", "self"} BY <1>5, <2>1 DEF Valid
  <2>3. PICK v : v = ~mem[s.option] OBVIOUS
  <2>4. v \in BOOLEAN BY <2>3
  <2>5. v \in Any /\ Writable(s.option, v) BY <2>2, <2>4, ValuesAre DEF Any, Writable
  <2>6. Set(s.option, v) \in Steps BY <1>5, <2>5, MakesStep DEF Set, Names
  <2>7. <<Set(s.option, v)>> \in Seq(Steps) BY <2>6, ShortLists
  <2>8. DoneThen(h, <<Set(s.option, v)>>) BY <2>1, <2>3
  <2>9. todo' \in [Handlers -> Seq(Steps)] BY <1>8, <2>7, <2>8
  <2>10. QED BY <1>9, <1>11, <1>13, <2>8, <2>9 DEF ReadToggle
<1>14. CASE DoSet(h)
  <2>1. /\ s.do = "set" /\ DoneThen(h, After(s.option, s.value))
        /\ mem' = [mem EXCEPT ![s.option] = s.value]
        /\ UNCHANGED <<copies, clock, input, scenario>>
    BY <1>2, <1>14 DEF DoSet, Does
  <2>2. Writable(s.option, s.value) BY <1>5, <2>1 DEF Valid
  <2>3. todo' \in [Handlers -> Seq(Steps)] BY <1>5, <1>8, <2>1, <2>2, AfterTyped
  <2>4. \A o \in AllOptions : mem'[o] \in Values[o]
    BY <1>9, <2>1, <2>2 DEF Writable, TypeInv, Stored
  <2>5. QED BY <1>9, <1>11, <2>1, <2>3, <2>4
<1>15. CASE AddAdmin(h)
  <2>1. /\ s.do = "add" /\ DoneThen(h, After("admins", s.value))
        /\ mem' = [mem EXCEPT !["admins"] = @ \cup s.value]
        /\ UNCHANGED <<copies, clock, input, scenario>>
    BY <1>2, <1>15 DEF AddAdmin, Does
  <2>2. s.value \in SUBSET Users BY <1>5, <2>1 DEF Valid
  <2>3. Writable("admins", s.value) /\ "admins" \in AllOptions
    BY <2>2, ValuesAre DEF Writable, AllOptions
  <2>4. todo' \in [Handlers -> Seq(Steps)] BY <1>8, <2>1, <2>3, AfterTyped
  <2>5. mem["admins"] \cup s.value \in Values["admins"] BY <1>9, <2>2, <2>3, ValuesAre
  <2>6. \A o \in AllOptions : mem'[o] \in Values[o]
    BY <1>9, <2>1, <2>5 DEF TypeInv, Stored
  <2>7. QED BY <1>9, <1>11, <2>1, <2>4, <2>6
<1>16. CASE Snapshot(h)
  <2>1. DoneThen(h, <<step("save", "admins", mem["admins"])>>) BY <1>16 DEF Snapshot
  <2>2. "admins" \in AllOptions BY DEF AllOptions
  <2>3. mem["admins"] \in Any /\ Writable("admins", mem["admins"])
    BY <1>9, <2>2, ValuesAre DEF Any, Writable
  <2>4. step("save", "admins", mem["admins"]) \in Steps
    BY <2>2, <2>3, MakesStep DEF Names
  <2>5. <<step("save", "admins", mem["admins"])>> \in Seq(Steps) BY <2>4, ShortLists
  <2>6. todo' \in [Handlers -> Seq(Steps)] BY <1>8, <2>1, <2>5
  <2>7. QED BY <1>9, <1>11, <1>16, <2>1, <2>6 DEF Snapshot
<1>17. CASE Save(h)
  <2>1. /\ s.do = "save" /\ DoneThen(h, <<step("commit", s.option, 0)>>)
        /\ uci' = [uci EXCEPT ![s.option] = s.value]
        /\ UNCHANGED <<mem, flash, runner, clock, input, scenario>>
    BY <1>2, <1>17 DEF Save, Does
  <2>2. Writable(s.option, s.value) BY <1>5, <2>1 DEF Valid
  <2>3. step("commit", s.option, 0) \in Steps BY <1>5, MakesStep DEF Names, Any
  <2>4. <<step("commit", s.option, 0)>> \in Seq(Steps) BY <2>3, ShortLists
  <2>5. todo' \in [Handlers -> Seq(Steps)] BY <1>8, <2>1, <2>4
  <2>6. \A o \in AllOptions : uci'[o] \in Values[o]
    BY <1>9, <2>1, <2>2 DEF Writable, TypeInv, Stored
  <2>7. uci'["label"] # "hostname"
    BY <1>9, <2>1, <2>2 DEF Writable, TypeInv, Stored, AllOptions
  <2>8. QED BY <1>9, <1>11, <2>1, <2>5, <2>6, <2>7
<1>18. CASE Commit(h) BY <1>7, <1>9, <1>11, <1>18 DEF Commit
<1>19. CASE Push(h)
  <2>1. s.do = "push" /\ runner' = s.value /\ Done(h)
    BY <1>2, <1>19 DEF Push, Does
  <2>2. s.value \in Values["keep"] BY <1>5, <2>1 DEF Valid, Writable
  <2>3. QED BY <1>7, <1>9, <1>11, <1>19, <2>1, <2>2 DEF Push
<1>20. CASE Signal(h) BY <1>7, <1>9, <1>11, <1>20 DEF Signal
<1>21. QED
  BY <1>12, <1>13, <1>14, <1>15, <1>16, <1>17, <1>18, <1>19, <1>20 DEF Work

LEMMA StartTyped ==
  ASSUME TypeInv, Stored', NEW stored \in {uci, flash}, Start(stored), flash' = flash,
         scenario' = scenario
  PROVE  TypeInv'
<1>1. /\ \A o \in AllOptions : stored[o] \in Values[o] /\ flash[o] \in Values[o]
      /\ stored.label # "hostname" /\ flash.label # "hostname"
      /\ DOMAIN stored = AllOptions /\ scenario \in Scenarios
  BY DEF TypeInv, TypeOK, Stored
<1>2. "keep" \in AllOptions /\ "hours" \in AllOptions /\ "label" \in AllOptions
  BY DEF AllOptions
<1>3. \A o \in AllOptions : mem'[o] \in Values[o]
  BY <1>1, <1>2, ValuesAre DEF Start, Loaded, Texts
<1>4. runner' \in Values.keep /\ armed' \in Values.hours BY <1>1, <1>2 DEF Start
<1>5. todo' \in [Handlers -> Seq(Steps)] /\ \A h \in Handlers : todo'[h] = <<>>
  BY DEF Start
<1>6. \A h \in Handlers : Idle(h)' BY <1>5 DEF Idle
<1>7. TypeOK' BY <1>1, <1>3, <1>4, <1>6 DEF TypeOK, Start
<1>8. QED BY <1>5, <1>7 DEF TypeInv

LEMMA TypeInvHolds == Spec => []TypeInv
<1>1. ASSUME Init PROVE TypeInv
  <2>1. Stored BY <1>1, InitIInv DEF IInv
  <2>2. \A o \in AllOptions : Default[o] \in Values[o]
    <3>1. /\ Default["auto"] = FALSE /\ Default["self"] = FALSE /\ Default["hours"] = 6
          /\ Default["keep"] = 0 /\ Default["label"] = "none" /\ Default["admins"] = {}
      BY DEF Default
    <3>2. Default["admins"] \in Values["admins"] BY <3>1, ValuesAre
    <3>3. Default["auto"] \in Values["auto"] /\ Default["self"] \in Values["self"]
      BY <3>1, ValuesAre
    <3>4. Default["hours"] \in Values["hours"] /\ Default["keep"] \in Values["keep"]
      BY <3>1, ValuesAre
    <3>5. Default["label"] \in Values["label"] BY <3>1, ValuesAre DEF Texts
    <3>6. QED BY <3>2, <3>3, <3>4, <3>5 DEF AllOptions
  <2>3. \A o \in AllOptions : Loaded(Default)[o] \in Values[o]
    BY <2>2, ValuesAre DEF Default, Loaded, AllOptions, Texts
  <2>4. 0 \in Values.keep /\ 6 \in Values.hours /\ Default.label # "hostname"
    BY ValuesAre DEF Default
  <2>5. todo \in [Handlers -> Seq(Steps)] /\ \A h \in Handlers : Idle(h)
    BY <1>1 DEF Init, Idle
  <2>6. TypeOK BY <1>1, <2>2, <2>3, <2>4, <2>5 DEF Init, TypeOK
  <2>7. QED BY <2>1, <2>5, <2>6 DEF TypeInv
<1>2. ASSUME TypeInv, [Next]_vars PROVE TypeInv'
  <2>1. Stored' /\ scenario' = scenario BY <1>2, StoredStep DEF TypeInv
  <2>2. CASE Restart BY <1>2, <2>1, <2>2, StartTyped DEF Restart
  <2>3. ASSUME UNCHANGED <<mem, copies, input, todo, scenario>>, signal' \in BOOLEAN,
               armed' \in Values.hours, timer' \in {"waiting", "resetting", "checking"}
        PROVE  TypeInv'
    <3>1. \A h \in Handlers : Idle(h)' <=> Idle(h) BY <2>3 DEF Idle
    <3>2. TypeOK' BY <1>2, <2>3, <3>1 DEF TypeInv, TypeOK, copies, input
    <3>3. QED BY <1>2, <2>1, <2>3, <3>2 DEF TypeInv
  <2>4. signal \in BOOLEAN /\ armed \in Values.hours /\ mem.hours \in Values.hours
        /\ timer \in {"waiting", "resetting", "checking"}
    BY <1>2 DEF TypeInv, TypeOK, AllOptions
  <2>5. CASE Receive \/ Reset \/ Fire \/ Checked \/ UNCHANGED vars
    BY <2>3, <2>4, <2>5
    DEF Receive, Reset, Fire, Checked, vars, copies, clock, input
  <2>6. QED BY <1>2, <2>2, <2>5, ArriveTyped, WorkTyped DEF Next
<1>3. QED BY <1>1, <1>2, PTL DEF Spec

(* Settings, for any handlers, however they overlap: memory, UCI, flash and  *)
(* the runner hold values of their options, whatever order the writes came   *)
(* in, and the name of the host, which stands in for an empty label in       *)
(* memory, is never written to UCI.                                          *)
THEOREM TypeCorrect == Spec => []TypeOK
<1>1. TypeInv => TypeOK BY DEF TypeInv
<1>2. QED BY <1>1, TypeInvHolds, PTL

-----------------------------------------------------------------------------
(* A prompt that is open and was not the last to be asked is about to be     *)
(* closed: some handler has yet to clear what it awaits.                     *)
Closing == \E h \in Handlers : Does(h, "clearAwait")
Answering == awaiting \in {"none", asked} \/ Closing

(* A step of one handler takes no other handler's clearAwait away, and its   *)
(* own only by taking it.                                                    *)
LEMMA StillClosing ==
  ASSUME TypeInv, Closing, NEW h \in Handlers,
         \A k \in Handlers \ {h} : todo'[k] = todo[k],
         ~Does(h, "clearAwait") \/ todo'[h] = todo[h]
  PROVE  Closing'
<1>1. PICK k \in Handlers : Does(k, "clearAwait") BY DEF Closing
<1>2. todo'[k] = todo[k] BY <1>1
<1>3. Does(k, "clearAwait")' BY <1>1, <1>2 DEF Does, Idle, Now
<1>4. QED BY <1>3 DEF Closing

LEMMA AnsweringStep == ASSUME TypeInv, Answering, [Next]_vars PROVE Answering'
<1> USE DEF copies, clock, input
<1>1. ASSUME NEW h \in scenario.handlers, Arrive(h) PROVE Answering'
  <2>1. h \in Handlers BY SettingsAssumption DEF TypeInv, Stored, Scenario
  <2>2. CASE (\E o \in scenario.options : Prompt(h, o)) \/ Cancel(h)
    BY <2>2 DEF Prompt, Cancel, Answering
  <2>3. CASE Text(h)
    <3>1. PICK c : c = step("clearAwait", awaiting, 0) OBVIOUS
    <3>2. PICK use \in Uses(awaiting) : todo'[h] = <<c>> \o use
      BY <2>1, <2>3, <3>1 DEF Text, TypeInv, Stored
    <3>3. use = <<>> \/ \E s : use = <<s>> BY <3>2 DEF Uses, Named, Added
    <3>4. todo'[h] = <<c>> \/ \E s : todo'[h] = <<c, s>>
      <4>1. CASE use = <<>> BY <3>2, <4>1, Lists
      <4>2. ASSUME NEW s, use = <<s>> PROVE todo'[h] = <<c, s>> BY <3>2, <4>2, Lists
      <4>3. QED BY <3>3, <4>1, <4>2
    <3>5. todo'[h] # <<>> /\ Head(todo'[h]) = c BY <3>4, Lists
    <3>6. Does(h, "clearAwait")' BY <3>1, <3>5 DEF Does, Idle, Now, step
    <3>7. QED BY <2>1, <3>6 DEF Answering, Closing
  <2>4. ASSUME NEW s, Begin(h, s) PROVE Answering'
    <3>1. Idle(h) /\ \A k \in Handlers \ {h} : todo'[k] = todo[k]
      BY <2>4 DEF Begin, TypeInv, Stored
    <3>2. ~Does(h, "clearAwait") BY <3>1 DEF Does
    <3>3. Closing => Closing' BY <2>1, <3>1, <3>2, StillClosing
    <3>4. UNCHANGED input BY <2>4 DEF Begin
    <3>5. QED BY <3>3, <3>4 DEF Answering
  <2>5. CASE ClearAdmins(h) \/ \E o \in scenario.options : Toggle(h, o) \/ Choose(h, o)
    <3>1. \E s : Begin(h, s) BY <2>5 DEF ClearAdmins, Toggle, Choose
    <3>2. QED BY <2>4, <3>1
  <2>6. QED BY <1>1, <2>2, <2>3, <2>5 DEF Arrive
<1>2. ASSUME NEW h \in scenario.handlers, Work(h) PROVE Answering'
  <2>1. h \in Handlers BY SettingsAssumption DEF TypeInv, Stored, Scenario
  <2>2. CASE ClearAwait(h) BY <2>2 DEF ClearAwait, Answering
  <2>3. CASE ~ClearAwait(h)
    <3>1. /\ UNCHANGED input /\ ~Does(h, "clearAwait")
          /\ \A k \in Handlers \ {h} : todo'[k] = todo[k]
      BY <1>2, <2>3
      DEF Work, ReadToggle, DoSet, AddAdmin, Snapshot, Save, Commit, Push, Signal, Does,
          Done, DoneThen, TypeInv, Stored
    <3>2. Closing => Closing' BY <2>1, <3>1, StillClosing
    <3>3. QED BY <3>1, <3>2 DEF Answering
  <2>4. QED BY <2>2, <2>3
<1>3. CASE Receive \/ Reset \/ Fire \/ Checked \/ UNCHANGED vars
  <2>1. UNCHANGED <<todo, input>> BY <1>3 DEF Receive, Reset, Fire, Checked, vars
  <2>2. QED BY <2>1 DEF Answering, Closing, Does, Idle, Now
<1>4. CASE Restart BY <1>4 DEF Restart, Start, Answering
<1>5. QED BY <1>1, <1>2, <1>3, <1>4 DEF Next

(* handleAwaitedInput and the prompts of settings.go, for any handlers that  *)
(* overlap in any way, and restarts: once they are done, a text is taken for *)
(* the prompt shown last, if no message has answered or cancelled that one,  *)
(* or for none.                                                              *)
THEOREM OnlyPromptsAwait == Spec => []AwaitsWhatWasAsked
<1>1. Init => Answering BY DEF Init, Answering
<1>2. TypeInv /\ Answering /\ [Next]_vars => Answering' BY AnsweringStep
<1>3. Answering => AwaitsWhatWasAsked
  BY DEF Answering, Closing, AwaitsWhatWasAsked, Quiet, Does
<1>4. QED BY <1>1, <1>2, <1>3, TypeInvHolds, PTL DEF Spec
=============================================================================
