----------------------------- MODULE MenuProofs -----------------------------
(* Proofs about Menu, for any handlers, messages and targets: its types and  *)
(* that a menu remains, however updates overlap; and its invariants when an  *)
(* update begins only once the one before it is handled.                     *)
EXTENDS Menu, SequenceTheorems, TLAPS

Unshared == ~overlapping

(* The handler at work, if no other one is, and the steps it has yet to take. *)
Alone == \A g, h \in Handlers : ~Idle(g) /\ ~Idle(h) => g = h
ahead == IF Quiet THEN <<>> ELSE todo[CHOOSE h \in Handlers : ~Idle(h)]
Has(i, names) == i \in 1..Len(ahead) /\ ahead[i].do \in names

Names == {"guard", "release", "adopt", "save", "delete", "track", "render",
          "announce", "stage", "act", "clear", "started", "put"}
Step == [do : Names, msg : Messages \cup {None}, screen : Screens \cup {Gone}]

(* A step has what it is about. *)
Aimed(s) ==
  /\ s.do = "adopt" => s.msg \in Messages
  /\ s.do = "stage" => s.screen.kind \in Kinds
  /\ s.do = "act" => s.screen.what = "confirm"

Lined == todo \in [Handlers -> Seq(Step)] /\ Alone /\ ahead \in Seq(Step)
Typed ==
  /\ shown \in [Messages -> Screens \cup {Gone}]
  /\ {tracked, saved} \subseteq Messages \cup {None}
  /\ staged \in [Kinds -> Targets \cup {None}]
  /\ Lined
  /\ \A i \in 1..Len(ahead) : Aimed(ahead[i])

(* An id is saved at once, by the step that comes next.  *)
SavedInv ==
  /\ saved = tracked \/ Has(1, {"save"})
  /\ \A i \in 1..Len(ahead) : ahead[i].do = "save" => i = 1 /\ ahead[1].msg = tracked

(* A message that is shown is the tracked one, is about to be, or is about  *)
(* to be deleted.  Deletes, resets of the tracked id and guards are at the  *)
(* beginning of what a handler does.                                        *)
Shown(m) == m \in Messages /\ shown[m] # Gone
TidyInv ==
  /\ \A m \in Messages : Shown(m) =>
       \/ m = tracked
       \/ \E i \in 1..2 : Has(i, {"delete"}) /\ ahead[i].msg = m
       \/ Has(1, {"track"}) /\ ahead[1].msg = m
  /\ \A i \in 1..Len(ahead) :
       /\ ahead[i].do = "delete" => i = 1 \/ (i = 2 /\ Has(1, {"save", "guard"}))
       /\ ahead[i].do = "guard" => i = 1 /\ \A m \in Messages : Shown(m) => m = tracked
       /\ ahead[i].do = "put" => i = 1 /\ ahead[1].msg = tracked
       /\ ahead[i].do = "track" =>
            \/ i = 1 /\ (ahead[1].msg = tracked \/ ~Shown(tracked))
            \/ i = 2 /\ Has(1, {"delete"}) /\ ahead[1].msg = tracked
            \/ i = 2 /\ Has(1, {"guard"}) /\ tracked = None
            \/ i = 3 /\ Has(1, {"guard"}) /\ Has(2, {"delete"}) /\ ahead[2].msg = tracked

(* What prompts show is staged, or nothing is, but while a new one is on    *)
(* its way to the chat.                                                     *)
Draws == {"render", "announce", "put"}
Match(s) == s.what = "confirm" => staged[s.kind] \in {s.target, None}
PromptInv ==
  /\ (\A m \in Messages : Match(shown[m])) \/ Has(1, Draws)
  /\ \A i \in 1..Len(ahead) :
       /\ ahead[i].do \in Draws =>
            \/ ahead[i].screen.what # "confirm"
            \/ i = 1 /\ Match(ahead[1].screen)
            \/ i > 1 /\ ahead[i - 1].do = "stage" /\ ahead[i - 1].screen = ahead[i].screen
       /\ ahead[i].do = "stage" => Has(i + 1, {"render"})
       /\ ahead[i].do = "act" => /\ Match(ahead[i].screen)
                                 /\ \A j \in 1..Len(ahead) : ahead[j].do # "stage"

(* A screen without buttons is soon followed by one that has some.          *)
Shows(i) == Has(i, {"render"}) /\ ahead[i].screen # working
Settles(i) == Shows(i) \/ (Has(i, {"stage"}) /\ Shows(i + 1))
BusyInv ==
  /\ \A i \in 1..Len(ahead) :
       ahead[i].do \in Draws /\ ahead[i].screen = working => Settles(i + 1)
  /\ \A m \in Messages : shown[m] = working =>
       \/ m = tracked /\ Settles(1)
       \/ m = tracked /\ Has(1, {"save"}) /\ Settles(2)
       \/ Has(1, {"track"}) /\ ahead[1].msg = m /\ Settles(2)
       \/ Has(1, {"put"}) /\ ahead[1].msg = m /\ ahead[1].screen # working

IInv ==
  /\ Typed /\ SavedInv
  /\ ~failing => BusyInv
  /\ ~failing /\ ~textCommands => TidyInv /\ PromptInv

-----------------------------------------------------------------------------
(* Lists *)

(* What a list u is when the first step of t is gone, has been replaced by  *)
(* another one, or by two.                                                  *)
Dropped(u, t) == /\ Len(u) = Len(t) - 1
                 /\ \A i \in 1..Len(u) : u[i] = t[i + 1]
Swapped(u, t, a) == /\ Len(u) = Len(t) /\ u[1] = a
                    /\ \A i \in 2..Len(u) : u[i] = t[i]
Grown(u, t, a, b) == /\ Len(u) = Len(t) + 1 /\ u[1] = a /\ u[2] = b
                     /\ \A i \in 3..Len(u) : u[i] = t[i - 1]

LEMMA Cat ==
  ASSUME NEW p \in Seq(Step), NEW q \in Seq(Step)
  PROVE  /\ p \o q \in Seq(Step) /\ Len(p \o q) = Len(p) + Len(q)
         /\ \A i \in 1..Len(p) : (p \o q)[i] = p[i]
         /\ \A i \in 1..Len(q) : (p \o q)[Len(p) + i] = q[i]
OBVIOUS

LEMMA Pair == ASSUME NEW a, NEW b PROVE <<a>> \o <<b>> = <<a, b>>
<1>1. <<a>> \in Seq({a, b}) /\ <<b>> \in Seq({a, b}) /\ <<a, b>> \in Seq({a, b})
  OBVIOUS
<1>2. <<a>> \o <<b>> \in Seq({a, b}) /\ Len(<<a>> \o <<b>>) = 2 BY <1>1
<1>3. (<<a>> \o <<b>>)[1] = a /\ (<<a>> \o <<b>>)[2] = b BY <1>1
<1>4. \A i \in 1..2 : (<<a>> \o <<b>>)[i] = <<a, b>>[i] BY <1>3
<1>5. Len(<<a, b>>) = 2 OBVIOUS
<1>6. QED BY <1>1, <1>2, <1>4, <1>5, SeqEqual

LEMMA Begins ==
  ASSUME NEW S, NEW t \in Seq(S), t # <<>>, NEW a \in S, NEW b \in S
  PROVE  /\ Len(t) \in Nat \ {0} /\ Head(t) = t[1] /\ Tail(t) \in Seq(S)
         /\ Dropped(Tail(t), t) /\ Dropped(<<>> \o Tail(t), t)
         /\ <<>> \o Tail(t) \in Seq(S)
         /\ <<a>> \o Tail(t) \in Seq(S) /\ Swapped(<<a>> \o Tail(t), t, a)
         /\ <<a, b>> \o Tail(t) \in Seq(S) /\ Grown(<<a, b>> \o Tail(t), t, a, b)
<1>1. Len(t) \in Nat \ {0} /\ Head(t) = t[1] OBVIOUS
<1>2. /\ Tail(t) \in Seq(S) /\ Len(Tail(t)) = Len(t) - 1
      /\ \A i \in 1..Len(Tail(t)) : Tail(t)[i] = t[i + 1]
  OBVIOUS
<1>3. PICK q \in Seq(S) : q = Tail(t) BY <1>2
<1>4. Len(q) \in Nat /\ Len(t) = Len(q) + 1 /\ \A i \in 1..Len(q) : q[i] = t[i + 1]
  BY <1>1, <1>2, <1>3
<1>5. <<>> \o q = q BY <1>3
<1>6. /\ <<a>> \o q \in Seq(S) /\ Len(<<a>> \o q) = 1 + Len(q) /\ (<<a>> \o q)[1] = a
      /\ \A i \in 1..Len(q) : (<<a>> \o q)[1 + i] = q[i]
  OBVIOUS
<1>7. /\ <<a, b>> \o q \in Seq(S) /\ Len(<<a, b>> \o q) = 2 + Len(q)
      /\ (<<a, b>> \o q)[1] = a /\ (<<a, b>> \o q)[2] = b
      /\ \A i \in 1..Len(q) : (<<a, b>> \o q)[2 + i] = q[i]
  OBVIOUS
<1>8. Swapped(<<a>> \o q, t, a)
  <2>1. ASSUME NEW i \in 2..Len(<<a>> \o q) PROVE (<<a>> \o q)[i] = t[i]
    <3>1. i - 1 \in 1..Len(q) /\ 1 + (i - 1) = i /\ (i - 1) + 1 = i BY <1>4, <1>6
    <3>2. (<<a>> \o q)[1 + (i - 1)] = q[i - 1] BY <1>6, <3>1
    <3>3. q[i - 1] = t[(i - 1) + 1] BY <1>4, <3>1
    <3>4. QED BY <3>1, <3>2, <3>3
  <2>2. QED BY <1>4, <1>6, <2>1 DEF Swapped
<1>9. Grown(<<a, b>> \o q, t, a, b)
  <2>1. ASSUME NEW i \in 3..Len(<<a, b>> \o q) PROVE (<<a, b>> \o q)[i] = t[i - 1]
    <3>1. i - 2 \in 1..Len(q) /\ 2 + (i - 2) = i /\ (i - 2) + 1 = i - 1 BY <1>4, <1>7
    <3>2. (<<a, b>> \o q)[2 + (i - 2)] = q[i - 2] BY <1>7, <3>1
    <3>3. q[i - 2] = t[(i - 2) + 1] BY <1>4, <3>1
    <3>4. QED BY <3>1, <3>2, <3>3
  <2>2. QED BY <1>4, <1>7, <2>1 DEF Grown
<1>10. QED BY <1>1, <1>2, <1>3, <1>5, <1>6, <1>7, <1>8, <1>9 DEF Dropped

-----------------------------------------------------------------------------
(* What each step of a handler does to the state and to what is ahead. *)

Passes ==
  /\ UNCHANGED <<shown, tracked, saved, staged>>
  /\ \/ Has(1, {"guard", "release", "started"}) /\ Dropped(ahead', ahead)
     \/ Has(1, {"guard"}) /\ ahead' = <<>>
     \/ failing /\ Has(1, {"put"}) /\ Dropped(ahead', ahead)
Adopts ==
  /\ Has(1, {"adopt"}) /\ tracked' = ahead[1].msg /\ UNCHANGED <<shown, saved, staged>>
  /\ \/ ahead[1].msg = tracked /\ Dropped(ahead', ahead)
     \/ /\ ahead[1].msg # tracked
        /\ \/ tracked = None /\ Swapped(ahead', ahead, Save(ahead[1].msg))
           \/ /\ tracked # None
              /\ Grown(ahead', ahead, Save(ahead[1].msg), Delete(tracked))
Tracks ==
  /\ Has(1, {"track"}) /\ tracked' = ahead[1].msg /\ UNCHANGED <<shown, saved, staged>>
  /\ \/ ahead[1].msg = tracked /\ Dropped(ahead', ahead)
     \/ ahead[1].msg # tracked /\ Swapped(ahead', ahead, Save(ahead[1].msg))
Saves ==
  /\ Has(1, {"save"}) /\ saved' = ahead[1].msg /\ UNCHANGED <<shown, tracked, staged>>
  /\ Dropped(ahead', ahead)
Deletes ==
  /\ Has(1, {"delete"}) /\ Dropped(ahead', ahead) /\ UNCHANGED <<tracked, saved, staged>>
  /\ \/ shown' = [shown EXCEPT ![ahead[1].msg] = Gone]
     \/ failing /\ UNCHANGED shown
Renders ==
  /\ Has(1, {"render", "announce"}) /\ UNCHANGED <<shown, tracked, saved, staged>>
  /\ Swapped(ahead', ahead, step("put", tracked, ahead[1].screen))
Puts ==
  /\ Has(1, {"put"}) /\ UNCHANGED <<tracked, saved, staged>>
  /\ \E m \in Messages :
       /\ shown' = [shown EXCEPT ![m] = ahead[1].screen]
       /\ Swapped(ahead', ahead, Track(m))
       /\ \/ m = ahead[1].msg /\ Shown(m)
          \/ (failing \/ ~Shown(ahead[1].msg)) /\ ~Shown(m) /\ m # tracked
Stages ==
  /\ Has(1, {"stage", "clear"}) /\ Dropped(ahead', ahead)
  /\ UNCHANGED <<shown, tracked, saved>>
  /\ staged' = [staged EXCEPT ![ahead[1].screen.kind] =
                  IF ahead[1].do = "stage" THEN ahead[1].screen.target ELSE None]
Acting ==
  /\ Has(1, {"act"}) /\ UNCHANGED <<shown, tracked, saved, staged>>
  /\ \/ Swapped(ahead', ahead, Render(menu))
     \/ Grown(ahead', ahead, Clear(ahead[1].screen), Render(menu))
     \/ Grown(ahead', ahead, Render(working), Render(menu))

Effect == \/ Passes \/ Adopts \/ Tracks \/ Saves \/ Deletes \/ Renders \/ Puts \/ Stages
          \/ Acting

LEMMA ScreensDiffer ==
  /\ menu \in Screens /\ working \in Screens /\ menu # working
  /\ menu.what = "menu" /\ working.what = "busy" /\ Gone.what = "gone"
  /\ \A s \in Screens : s # Gone
<1>1. menu.what = "menu" /\ working.what = "busy" /\ Gone.what = "gone"
  BY DEF menu, working, Gone, screen
<1>2. menu \in Screens /\ working \in Screens BY DEF Screens
<1>3. ASSUME NEW s \in Screens PROVE s.what # "gone"
  <2>1. s = menu \/ s = working \/ \E k \in Kinds, t \in Targets : s = prompt(k, t)
    BY DEF Screens
  <2>2. QED BY <1>1, <2>1 DEF prompt, screen
<1>4. QED BY <1>1, <1>2, <1>3

(* The list of the handler at work is the one that is ahead, and if it      *)
(* changes, or a handler begins when no other is at work, so does this one. *)
LEMMA AtWork ==
  ASSUME Alone, NEW h \in Handlers, ~Idle(h)
  PROVE  ahead = todo[h] /\ ahead # <<>>
<1>1. ~Quiet BY DEF Quiet
<1>2. PICK g \in Handlers : g = (CHOOSE n \in Handlers : ~Idle(n)) /\ ~Idle(g) OBVIOUS
<1>3. g = h BY <1>2 DEF Alone
<1>4. QED BY <1>1, <1>2, <1>3 DEF ahead, Idle

LEMMA LinesUp ==
  ASSUME NEW h \in Handlers, NEW u \in Seq(Step), todo' \in [Handlers -> Seq(Step)],
         todo'[h] = u, \A g \in Handlers \ {h} : todo'[g] = <<>>
  PROVE  Lined' /\ ahead' = u
<1>1. Alone' BY DEF Alone, Idle
<1>2. ahead' = u
  <2>1. CASE u = <<>>
    <3>1. Quiet' BY <2>1 DEF Quiet, Idle
    <3>2. QED BY <2>1, <3>1 DEF ahead
  <2>2. CASE u # <<>>
    <3>1. ~Quiet' BY <2>2 DEF Quiet, Idle
    <3>2. \A g \in Handlers : ~Idle(g)' <=> g = h BY <2>2 DEF Idle
    <3>3. PICK g \in Handlers : g = (CHOOSE n \in Handlers : ~Idle(n)') /\ ~Idle(g)'
      BY <3>2
    <3>4. g = h BY <3>2, <3>3
    <3>5. QED BY <3>1, <3>3, <3>4 DEF ahead
  <2>3. QED BY <2>1, <2>2
<1>3. QED BY <1>1, <1>2 DEF Lined

LEMMA Listed ==
  ASSUME Lined, NEW h \in Handlers, Quiet \/ ~Idle(h), NEW u \in Seq(Step),
         todo' = [todo EXCEPT ![h] = u]
  PROVE  Lined' /\ ahead' = u
<1>1. todo' \in [Handlers -> Seq(Step)] /\ todo'[h] = u BY DEF Lined
<1>2. \A g \in Handlers \ {h} : todo'[g] = <<>> BY DEF Lined, Alone, Quiet, Idle
<1>3. QED BY <1>1, <1>2, LinesUp

LEMMA Effects ==
  ASSUME Typed, NEW h \in Handlers, Work(h)
  PROVE  UNCHANGED environment /\ Lined' /\ Effect
<1> USE DEF environment
<1>1. /\ ahead \in Seq(Step) /\ ahead # <<>> /\ Len(ahead) \in Nat \ {0}
      /\ ahead = todo[h] /\ Now(h) = ahead[1] /\ ahead[1] \in Step
      /\ Head(ahead) = ahead[1] /\ Tail(ahead) \in Seq(Step) /\ ~Idle(h) /\ Lined
  <2>1. ~Idle(h)
    BY DEF Work, DoGuard, DoRelease, DoStarted, DoAdopt, DoTrack, DoSave, DoDelete,
      DoRender, DoEdit, DoSend, SendFailed, Sends, DoStage, DoClear, DoAct, Does
  <2>2. ahead = todo[h] /\ ahead # <<>> BY <2>1, AtWork DEF Typed, Lined
  <2>3. ahead \in Seq(Step) BY <2>2 DEF Typed, Lined
  <2>4. QED BY <2>1, <2>2, <2>3 DEF Now, Typed
<1>2. \A names : Does(h, names) => Has(1, names)
  BY <1>1 DEF Does, Has
<1>3. /\ Tail(ahead) \in Seq(Step) /\ Dropped(Tail(ahead), ahead)
      /\ \A a \in Step :
           /\ <<a>> \o Tail(ahead) \in Seq(Step)
           /\ Swapped(<<a>> \o Tail(ahead), ahead, a)
      /\ \A a, b \in Step :
           /\ <<a, b>> \o Tail(ahead) \in Seq(Step)
           /\ Grown(<<a, b>> \o Tail(ahead), ahead, a, b)
  BY <1>1, Begins
<1>4. ASSUME Done(h)
      PROVE  Lined' /\ Dropped(ahead', ahead)
  <2>1. todo' = [todo EXCEPT ![h] = Tail(ahead)] BY <1>1, <1>4 DEF Done
  <2>2. QED BY <1>1, <1>3, <2>1, Listed
<1>5. ASSUME DoneThen(h, <<>>)
      PROVE  Lined' /\ Dropped(ahead', ahead)
  <2>1. todo' = [todo EXCEPT ![h] = <<>> \o Tail(ahead)] BY <1>1, <1>5 DEF DoneThen
  <2>2. <<>> \o Tail(ahead) = Tail(ahead) BY <1>1
  <2>3. QED BY <1>1, <1>3, <2>1, <2>2, Listed
<1>6. ASSUME NEW a \in Step, DoneThen(h, <<a>>)
      PROVE  Lined' /\ Swapped(ahead', ahead, a)
  <2>1. todo' = [todo EXCEPT ![h] = <<a>> \o Tail(ahead)] BY <1>1, <1>6 DEF DoneThen
  <2>2. QED BY <1>1, <1>3, <2>1, Listed
<1>7. ASSUME NEW a \in Step, NEW b \in Step, DoneThen(h, <<a, b>>)
      PROVE  Lined' /\ Grown(ahead', ahead, a, b)
  <2>1. todo' = [todo EXCEPT ![h] = <<a, b>> \o Tail(ahead)] BY <1>1, <1>7 DEF DoneThen
  <2>2. QED BY <1>1, <1>3, <2>1, Listed
<1>8. ahead[1].msg \in Messages \cup {None} /\ ahead[1].screen \in Screens \cup {Gone}
  BY <1>1 DEF Step
<1>9. CASE DoGuard(h)
  <2>1. Has(1, {"guard"}) /\ UNCHANGED <<shown, tracked, saved, staged, environment>>
    BY <1>2, <1>9 DEF DoGuard
  <2>2. CASE busy
    <3>1. todo' = [todo EXCEPT ![h] = <<>>] BY <1>9, <2>2 DEF DoGuard
    <3>2. <<>> \in Seq(Step) OBVIOUS
    <3>3. QED BY <1>1, <2>1, <3>1, <3>2, Listed DEF Passes, Effect
  <2>3. CASE ~busy
    <3>1. Done(h) BY <1>9, <2>3 DEF DoGuard
    <3>2. Has(1, {"guard", "release", "started"}) BY <2>1 DEF Has
    <3>3. QED BY <1>4, <2>1, <3>1, <3>2 DEF Passes, Effect
  <2>4. QED BY <2>2, <2>3
<1>10. CASE DoRelease(h) \/ DoStarted(h)
  <2>1. Has(1, {"guard", "release", "started"})
    BY <1>2, <1>10 DEF DoRelease, DoStarted, Has
  <2>2. Done(h) /\ UNCHANGED <<shown, tracked, saved, staged, environment>>
    BY <1>10 DEF DoRelease, DoStarted
  <2>3. QED BY <1>4, <2>1, <2>2 DEF Passes, Effect
<1>11. CASE DoAdopt(h)
  <2>1. /\ Has(1, {"adopt"}) /\ tracked' = ahead[1].msg
        /\ UNCHANGED <<shown, saved, staged, environment>>
        /\ DoneThen(h, adoptMenuID(ahead[1].msg, tracked))
    BY <1>1, <1>2, <1>11 DEF DoAdopt
  <2>2. CASE ahead[1].msg = tracked
    <3>1. DoneThen(h, <<>>) BY <2>1, <2>2 DEF adoptMenuID
    <3>2. QED BY <1>5, <2>1, <2>2, <3>1 DEF Adopts, Effect
  <2>3. CASE ahead[1].msg # tracked /\ tracked = None
    <3>1. Save(ahead[1].msg) \in Step
      BY <1>8 DEF Save, step, Step, Names
    <3>2. <<Save(ahead[1].msg)>> \o <<>> = <<Save(ahead[1].msg)>> OBVIOUS
    <3>3. DoneThen(h, <<Save(ahead[1].msg)>>)
      BY <2>1, <2>3, <3>2 DEF adoptMenuID, Orphan
    <3>4. QED BY <1>6, <2>1, <2>3, <3>1, <3>3 DEF Adopts, Effect
  <2>4. CASE ahead[1].msg # tracked /\ tracked # None
    <3>1. Save(ahead[1].msg) \in Step /\ Delete(tracked) \in Step
      BY <1>8 DEF Save, Delete, step, Step, Names, Typed
    <3>2. <<Save(ahead[1].msg)>> \o <<Delete(tracked)>> =
            <<Save(ahead[1].msg), Delete(tracked)>>
      BY Pair
    <3>3. DoneThen(h, <<Save(ahead[1].msg), Delete(tracked)>>)
      BY <2>1, <2>4, <3>2 DEF adoptMenuID, Orphan
    <3>4. QED BY <1>7, <2>1, <2>4, <3>1, <3>3 DEF Adopts, Effect
  <2>5. QED BY <2>2, <2>3, <2>4
<1>12. CASE DoTrack(h)
  <2>1. /\ Has(1, {"track"}) /\ tracked' = ahead[1].msg
        /\ UNCHANGED <<shown, saved, staged, environment>>
        /\ DoneThen(h, setMenuID(ahead[1].msg, tracked))
    BY <1>1, <1>2, <1>12 DEF DoTrack
  <2>2. CASE ahead[1].msg = tracked
    <3>1. DoneThen(h, <<>>) BY <2>1, <2>2 DEF setMenuID
    <3>2. QED BY <1>5, <2>1, <2>2, <3>1 DEF Tracks, Effect
  <2>3. CASE ahead[1].msg # tracked
    <3>1. Save(ahead[1].msg) \in Step
      BY <1>8 DEF Save, step, Step, Names
    <3>2. DoneThen(h, <<Save(ahead[1].msg)>>) BY <2>1, <2>3 DEF setMenuID
    <3>3. QED BY <1>6, <2>1, <2>3, <3>1, <3>2 DEF Tracks, Effect
  <2>4. QED BY <2>2, <2>3
<1>13. CASE DoSave(h)
  BY <1>1, <1>2, <1>4, <1>13 DEF DoSave, Saves, Effect
<1>14. CASE DoDelete(h)
  BY <1>1, <1>2, <1>4, <1>14 DEF DoDelete, Deletes, Effect
<1>15. CASE DoRender(h)
  <2> PICK a : a = step("put", tracked, ahead[1].screen) OBVIOUS
  <2>1. a \in Step BY <1>8 DEF step, Step, Names, Typed
  <2>2. /\ Has(1, {"render", "announce"}) /\ DoneThen(h, <<a>>)
        /\ UNCHANGED <<shown, tracked, saved, staged, environment>>
    BY <1>1, <1>2, <1>15 DEF DoRender
  <2>3. QED BY <1>6, <2>1, <2>2 DEF Renders, Effect
<1>16. ASSUME NEW m \in Messages, Has(1, {"put"}), Put(h, m),
              \/ m = ahead[1].msg /\ Shown(m)
              \/ (failing \/ ~Shown(ahead[1].msg)) /\ ~Shown(m) /\ m # tracked
       PROVE  UNCHANGED environment /\ Lined' /\ Effect
  <2>1. Track(m) \in Step BY ScreensDiffer DEF Track, step, Step, Names
  <2>2. /\ shown' = [shown EXCEPT ![m] = ahead[1].screen] /\ DoneThen(h, <<Track(m)>>)
        /\ UNCHANGED <<tracked, saved, staged, environment>>
    BY <1>1, <1>16 DEF Put
  <2>3. Lined' /\ Swapped(ahead', ahead, Track(m))
    BY <1>6, <2>1, <2>2
  <2>4. QED BY <1>16, <2>2, <2>3 DEF Puts, Effect
<1>17. CASE DoEdit(h)
  <2>1. Has(1, {"put"}) /\ ahead[1].msg \in InChat /\ Put(h, ahead[1].msg)
    BY <1>1, <1>2, <1>17 DEF DoEdit
  <2>2. QED BY <1>16, <2>1 DEF InChat, Shown
<1>18. CASE DoSend(h)
  <2>1. /\ Has(1, {"put"}) /\ (failing \/ ahead[1].msg \notin InChat)
        /\ \E m \in Fresh : Put(h, m)
    BY <1>1, <1>2, <1>18 DEF DoSend, Sends
  <2>2. QED BY <1>16, <2>1 DEF InChat, Shown, Fresh
<1>19. CASE SendFailed(h)
  BY <1>2, <1>4, <1>19 DEF SendFailed, Sends, Passes, Effect
<1>20. CASE DoStage(h)
  <2>1. /\ Has(1, {"stage"}) /\ Done(h)
        /\ UNCHANGED <<shown, tracked, saved, environment>>
        /\ staged' = [staged EXCEPT ![ahead[1].screen.kind] = ahead[1].screen.target]
    BY <1>1, <1>2, <1>20 DEF DoStage, setTarget
  <2>2. Has(1, {"stage", "clear"}) /\ ahead[1].do = "stage" BY <2>1 DEF Has
  <2>3. QED BY <1>4, <2>1, <2>2 DEF Stages, Effect
<1>21. CASE DoClear(h)
  <2>1. /\ Has(1, {"clear"}) /\ Done(h)
        /\ UNCHANGED <<shown, tracked, saved, environment>>
        /\ staged' = [staged EXCEPT ![ahead[1].screen.kind] = None]
    BY <1>1, <1>2, <1>21 DEF DoClear, setTarget
  <2>2. Has(1, {"stage", "clear"}) /\ ahead[1].do # "stage" BY <2>1 DEF Has
  <2>3. QED BY <1>4, <2>1, <2>2 DEF Stages, Effect
<1>22. CASE DoAct(h)
  <2> PICK s : s = ahead[1].screen OBVIOUS
  <2>1. /\ Has(1, {"act"}) /\ UNCHANGED <<shown, tracked, saved, staged, environment>>
        /\ \/ DoneThen(h, <<Render(menu)>>)
           \/ DoneThen(h, <<Clear(s), Render(menu)>>)
           \/ DoneThen(h, Report)
    BY <1>1, <1>2, <1>22 DEF DoAct
  <2>2. Render(menu) \in Step /\ Clear(s) \in Step /\ Render(working) \in Step
    BY <1>8, ScreensDiffer DEF Render, Clear, step, Step, Names
  <2>3. CASE DoneThen(h, <<Render(menu)>>)
    BY <1>6, <2>1, <2>2, <2>3 DEF Acting, Effect
  <2>4. CASE DoneThen(h, <<Clear(s), Render(menu)>>)
    BY <1>7, <2>1, <2>2, <2>4 DEF Acting, Effect
  <2>5. CASE DoneThen(h, Report)
    BY <1>7, <2>1, <2>2, <2>5 DEF Acting, Effect, Report
  <2>6. QED BY <2>1, <2>3, <2>4, <2>5
<1>23. QED
  BY <1>9, <1>10, <1>11, <1>12, <1>13, <1>14, <1>15, <1>17, <1>18, <1>19, <1>20, <1>21,
     <1>22 DEF Work

-----------------------------------------------------------------------------
(* What is ahead when the first step is gone and k new ones have come. *)

Rest(k) == /\ Len(ahead') = Len(ahead) - 1 + k
           /\ \A i \in (k + 1)..Len(ahead') : ahead'[i] = ahead[i - k + 1]

Lists == ahead \in Seq(Step) /\ ahead' \in Seq(Step) /\ ahead # <<>>

LEMMA Rests ==
  ASSUME Lists
  PROVE  /\ Dropped(ahead', ahead) => Rest(0)
         /\ \A a : Swapped(ahead', ahead, a) => Rest(1)
         /\ \A a, b : Grown(ahead', ahead, a, b) => Rest(2)
<1>1. Len(ahead) \in Nat /\ Len(ahead') \in Nat BY DEF Lists
<1>2. ASSUME Dropped(ahead', ahead) PROVE Rest(0)
  BY <1>1, <1>2 DEF Dropped, Rest
<1>3. ASSUME NEW a, Swapped(ahead', ahead, a) PROVE Rest(1)
  <2>1. \A i \in 2..Len(ahead') : i - 1 + 1 = i BY <1>1
  <2>2. QED BY <1>1, <1>3, <2>1 DEF Swapped, Rest
<1>4. ASSUME NEW a, NEW b, Grown(ahead', ahead, a, b) PROVE Rest(2)
  <2>1. \A i \in 3..Len(ahead') : i - 2 + 1 = i - 1 BY <1>1
  <2>2. QED BY <1>1, <1>4, <2>1 DEF Grown, Rest
<1>5. QED BY <1>2, <1>3, <1>4

LEMMA Kept ==
  ASSUME Lists, NEW k \in 0..2, Rest(k), NEW i \in 1..Len(ahead'), i > k
  PROVE  \E j \in 2..Len(ahead) :
           /\ j = i - k + 1 /\ ahead'[i] = ahead[j] /\ (i = k + 1 <=> j = 2)
           /\ i > k + 1 => i - 1 \in 1..Len(ahead') /\ ahead'[i - 1] = ahead[j - 1]
           /\ \A n \in {1, 2} :
                j + n \in 1..Len(ahead) =>
                  i + n \in 1..Len(ahead') /\ ahead'[i + n] = ahead[j + n]
<1>1. Len(ahead) \in Nat /\ Len(ahead') \in Nat /\ Len(ahead') = Len(ahead) - 1 + k
  BY DEF Lists, Rest
<1>2. PICK j \in Int : j = i - k + 1 OBVIOUS
<1>3. j \in 2..Len(ahead) /\ (i = k + 1 <=> j = 2) BY <1>1, <1>2
<1>4. ahead'[i] = ahead[j] BY <1>1, <1>2 DEF Rest
<1>5. ASSUME i > k + 1 PROVE i - 1 \in 1..Len(ahead') /\ ahead'[i - 1] = ahead[j - 1]
  <2>1. i - 1 \in (k + 1)..Len(ahead') /\ (i - 1) - k + 1 = j - 1 BY <1>1, <1>2, <1>5
  <2>2. ahead'[i - 1] = ahead[(i - 1) - k + 1] BY <2>1 DEF Rest
  <2>3. QED BY <1>1, <2>1, <2>2
<1>6. ASSUME NEW n \in {1, 2}, j + n \in 1..Len(ahead)
      PROVE  i + n \in 1..Len(ahead') /\ ahead'[i + n] = ahead[j + n]
  <2>1. i + n \in (k + 1)..Len(ahead') /\ (i + n) - k + 1 = j + n BY <1>1, <1>2, <1>6
  <2>2. ahead'[i + n] = ahead[(i + n) - k + 1] BY <2>1 DEF Rest
  <2>3. QED BY <1>1, <2>1, <2>2
<1>7. QED BY <1>2, <1>3, <1>4, <1>5, <1>6

LEMMA Shifted ==
  ASSUME Lists, Rest(0), NEW i \in 1..Len(ahead')
  PROVE  i + 1 \in 2..Len(ahead) /\ ahead'[i] = ahead[i + 1]
<1>1. Len(ahead) \in Nat /\ Len(ahead') \in Nat /\ Len(ahead') = Len(ahead) - 1
  BY DEF Lists, Rest
<1>2. i \in 1..Len(ahead') /\ i - 0 + 1 = i + 1 BY <1>1
<1>3. ahead'[i] = ahead[i - 0 + 1] BY <1>1, <1>2 DEF Rest
<1>4. QED BY <1>1, <1>2, <1>3

(* The saved id. *)
LEMMA SavedStep ==
  ASSUME Lists, Effect, SavedInv
  PROVE  SavedInv'
<1> USE DEF Lists
<1>1. ASSUME NEW k \in 0..2, Rest(k), NEW i \in 1..Len(ahead'), i > k
      PROVE  ahead'[i].do # "save"
  <2>1. PICK j \in 2..Len(ahead) : ahead'[i] = ahead[j] BY <1>1, Kept
  <2>2. ahead[j].do # "save" BY <2>1 DEF SavedInv
  <2>3. QED BY <2>1, <2>2
<1>2. ASSUME Rest(0), ~Has(1, {"save"}) \/ saved' = ahead[1].msg, UNCHANGED tracked,
             UNCHANGED saved \/ Has(1, {"save"})
      PROVE  SavedInv'
  <2>1. \A i \in 1..Len(ahead') : ahead'[i].do # "save" BY <1>1, <1>2
  <2>2. saved' = tracked' BY <1>2 DEF SavedInv, Has
  <2>3. QED BY <2>1, <2>2 DEF SavedInv
<1>3. ASSUME NEW k \in 1..2, Rest(k), ~Has(1, {"save"}), UNCHANGED <<tracked, saved>>,
             \A i \in 1..k : ahead'[i].do # "save"
      PROVE  SavedInv'
  <2>1. \A i \in 1..Len(ahead') : ahead'[i].do # "save" BY <1>1, <1>3
  <2>2. saved' = tracked' BY <1>3 DEF SavedInv
  <2>3. QED BY <2>1, <2>2 DEF SavedInv
<1>4. ASSUME NEW k \in 1..2, Rest(k), ahead'[1] = Save(tracked'),
             \A i \in 2..k : ahead'[i].do # "save"
      PROVE  SavedInv'
  <2>1. Len(ahead') \in Nat /\ Len(ahead) \in Nat \ {0} /\ Len(ahead') = Len(ahead) - 1 + k
    BY <1>4 DEF Rest
  <2>2. \A i \in 2..Len(ahead') : ahead'[i].do # "save" BY <1>1, <1>4, <2>1
  <2>3. Has(1, {"save"})' /\ ahead'[1].msg = tracked'
    BY <1>4, <2>1 DEF Has, Save, step
  <2>4. QED BY <2>1, <2>2, <2>3 DEF SavedInv, Has
<1>5. CASE Passes
  <2>1. CASE ahead' = <<>>
    BY <1>5, <2>1 DEF Passes, SavedInv, Has
  <2>2. CASE Dropped(ahead', ahead)
    BY <1>2, <1>5, <2>2, Rests DEF Passes, Has
  <2>3. QED BY <1>5, <2>1, <2>2 DEF Passes
<1>6. CASE Adopts
  <2>1. CASE Dropped(ahead', ahead) /\ ahead[1].msg = tracked
    BY <1>2, <1>6, <2>1, Rests DEF Adopts, Has
  <2>2. CASE Swapped(ahead', ahead, Save(tracked'))
    <3>1. Rest(1) /\ ahead'[1] = Save(tracked') BY <2>2, Rests DEF Swapped
    <3>2. QED BY <1>4, <3>1
  <2>3. CASE Grown(ahead', ahead, Save(tracked'), Delete(tracked))
    <3>1. Rest(2) /\ ahead'[1] = Save(tracked') /\ ahead'[2] = Delete(tracked)
      BY <2>3, Rests DEF Grown
    <3>2. \A i \in 2..2 : ahead'[i].do # "save" BY <3>1 DEF Delete, step
    <3>3. QED BY <1>4, <3>1, <3>2
  <2>4. QED BY <1>6, <2>1, <2>2, <2>3 DEF Adopts
<1>7. CASE Tracks
  <2>1. CASE Dropped(ahead', ahead) /\ ahead[1].msg = tracked
    BY <1>2, <1>7, <2>1, Rests DEF Tracks, Has
  <2>2. CASE Swapped(ahead', ahead, Save(tracked'))
    <3>1. Rest(1) /\ ahead'[1] = Save(tracked') BY <2>2, Rests DEF Swapped
    <3>2. QED BY <1>4, <3>1
  <2>3. QED BY <1>7, <2>1, <2>2 DEF Tracks
<1>8. CASE Saves BY <1>2, <1>8, Rests DEF Saves
<1>9. CASE Deletes BY <1>2, <1>9, Rests DEF Deletes, Has
<1>10. CASE Stages BY <1>2, <1>10, Rests DEF Stages, Has
<1>11. CASE Renders
  <2>1. Rest(1) /\ ahead'[1].do = "put" BY <1>11, Rests DEF Renders, Swapped, step
  <2>2. QED BY <1>3, <1>11, <2>1 DEF Renders, Has
<1>12. CASE Puts
  <2>1. Rest(1) /\ ahead'[1].do = "track"
    BY <1>12, Rests DEF Puts, Swapped, Track, step
  <2>2. QED BY <1>3, <1>12, <2>1 DEF Puts, Has
<1>13. CASE Acting
  <2>1. CASE Swapped(ahead', ahead, Render(menu))
    <3>1. Rest(1) /\ ahead'[1].do = "render"
      BY <2>1, Rests DEF Swapped, Render, step
    <3>2. QED BY <1>3, <1>13, <3>1 DEF Acting, Has
  <2>2. ASSUME NEW a, NEW b, Grown(ahead', ahead, a, b), a.do # "save", b.do # "save"
        PROVE  SavedInv'
    <3>1. Rest(2) /\ \A i \in 1..2 : ahead'[i].do # "save" BY <2>2, Rests DEF Grown
    <3>2. QED BY <1>3, <1>13, <3>1 DEF Acting, Has
  <2>3. \A x : Render(x).do # "save" /\ Clear(x).do # "save" BY DEF Render, Clear, step
  <2>4. CASE Grown(ahead', ahead, Clear(ahead[1].screen), Render(menu))
    BY <2>2, <2>3, <2>4
  <2>5. CASE Grown(ahead', ahead, Render(working), Render(menu)) BY <2>2, <2>3, <2>5
  <2>6. QED BY <1>13, <2>1, <2>4, <2>5 DEF Acting
<1>14. QED
  BY <1>5, <1>6, <1>7, <1>8, <1>9, <1>10, <1>11, <1>12, <1>13 DEF Effect

(* The messages of the chat. *)
LEMMA TidyStep ==
  ASSUME Lists, Effect, Typed, ~failing, TidyInv
  PROVE  TidyInv'
<1> USE DEF Lists
<1> DEFINE Special == {"delete", "guard", "put", "track"}
<1>1. Len(ahead) \in Nat \ {0} /\ Len(ahead') \in Nat OBVIOUS
<1>2. ASSUME NEW k \in 0..2, Rest(k), NEW i \in 1..Len(ahead'), i > k,
             ahead[1].do \notin {"save", "guard", "delete"}
      PROVE  ahead'[i].do \notin Special
  <2>1. PICK j \in 2..Len(ahead) : ahead'[i] = ahead[j] BY <1>2, Kept
  <2>2. ahead[j].do \notin Special BY <1>2, <2>1 DEF TidyInv, Has
  <2>3. QED BY <2>1, <2>2
<1>3. ASSUME NEW m \in Messages, Shown(m),
             ahead[1].do \notin {"save", "guard", "delete", "track"}
      PROVE  m = tracked
  BY <1>3 DEF TidyInv, Has
<1>4. ASSUME NEW k \in 0..2, Rest(k), \A i \in 1..k : ahead'[i].do \notin Special,
             ahead[1].do \notin {"save", "guard", "delete", "track"},
             UNCHANGED <<shown, tracked>>
      PROVE  TidyInv'
  <2>1. \A i \in 1..Len(ahead') : ahead'[i].do \notin Special BY <1>2, <1>4
  <2>2. \A m \in Messages : Shown(m)' => m = tracked' BY <1>3, <1>4 DEF Shown
  <2>3. QED BY <2>1, <2>2 DEF TidyInv
<1>5. CASE Passes
  <2>1. UNCHANGED <<shown, tracked>> BY <1>5 DEF Passes
  <2>2. CASE Has(1, {"guard"})
    <3>1. \A m \in Messages : Shown(m)' => m = tracked'
      BY <2>1, <2>2 DEF TidyInv, Has, Shown
    <3>2. CASE ahead' = <<>> BY <3>1, <3>2 DEF TidyInv
    <3>3. CASE Dropped(ahead', ahead)
      <4>1. ASSUME NEW i \in 1..Len(ahead')
            PROVE  /\ ahead'[i].do = "delete" => i = 1
                   /\ ahead'[i].do # "guard" /\ ahead'[i].do # "put"
                   /\ ahead'[i].do = "track" =>
                        \/ i = 1 /\ tracked = None
                        \/ i = 2 /\ Has(2, {"delete"}) /\ ahead[2].msg = tracked
        <5>1. PICK j \in 2..Len(ahead) : j = i + 1 /\ ahead'[i] = ahead[j]
          <6>1. i > 0 /\ i - 0 + 1 = i + 1 /\ Rest(0) BY <3>3, Rests
          <6>2. QED BY <6>1, Kept
        <5>2. QED BY <2>2, <5>1 DEF TidyInv, Has
      <4>2. Has(2, {"delete"}) => Has(1, {"delete"})' /\ ahead'[1] = ahead[2]
        BY <1>1, <3>3 DEF Has, Dropped
      <4>3. tracked = None => ~Shown(tracked)'
        BY <2>1, MenuAssumption DEF Shown
      <4>4. QED BY <2>1, <3>1, <4>1, <4>2, <4>3 DEF TidyInv
    <3>4. QED BY <1>5, <2>2, <3>2, <3>3 DEF Passes, Has
  <2>3. CASE ~Has(1, {"guard"})
    BY <1>4, <1>5, <2>1, <2>3, Rests DEF Passes, Has
  <2>4. QED BY <2>2, <2>3
<1>6. CASE Adopts
  <2>1. /\ ahead[1].do \notin {"save", "guard", "delete", "track"} /\ UNCHANGED shown
        /\ tracked' = ahead[1].msg
    BY <1>6 DEF Adopts, Has
  <2>2. CASE Dropped(ahead', ahead) /\ tracked' = tracked
    BY <1>4, <2>1, <2>2, Rests
  <2>3. CASE tracked = None /\ Swapped(ahead', ahead, Save(ahead[1].msg))
    <3>1. Rest(1) /\ ahead'[1].do = "save"
      BY <2>3, Rests DEF Swapped, Save, step
    <3>2. \A i \in 1..Len(ahead') : ahead'[i].do \notin Special BY <1>2, <2>1, <3>1
    <3>3. \A m \in Messages : ~Shown(m)'
      BY <1>3, <2>1, <2>3, MenuAssumption DEF Shown
    <3>4. QED BY <3>2, <3>3 DEF TidyInv
  <2>4. CASE Grown(ahead', ahead, Save(ahead[1].msg), Delete(tracked))
    <3>1. /\ Rest(2) /\ ahead'[1].do = "save"
          /\ ahead'[2].do = "delete" /\ ahead'[2].msg = tracked
      BY <2>4, Rests DEF Grown, Save, Delete, step
    <3>2. Has(1, {"save", "guard"})' /\ Has(2, {"delete"})'
      BY <1>1, <3>1 DEF Rest, Has
    <3>3. \A i \in 1..Len(ahead') : ahead'[i].do \in Special => i = 2
      BY <1>2, <2>1, <3>1
    <3>4. \A m \in Messages : Shown(m)' => ahead'[2].msg = m
      BY <1>3, <2>1, <3>1 DEF Shown
    <3>5. QED BY <3>1, <3>2, <3>3, <3>4 DEF TidyInv
  <2>5. QED BY <1>6, <2>1, <2>2, <2>3, <2>4 DEF Adopts
<1>7. CASE Tracks
  <2>1. /\ ahead[1].do = "track" /\ Has(1, {"track"}) /\ UNCHANGED shown
        /\ tracked' = ahead[1].msg /\ 1 \in 1..Len(ahead)
    BY <1>7 DEF Tracks, Has
  <2>2. ASSUME NEW m \in Messages, Shown(m)' PROVE m = tracked'
    <3>1. Shown(m) BY <2>1, <2>2 DEF Shown
    <3>2. ahead[1].msg = tracked \/ ~Shown(tracked) BY <2>1 DEF TidyInv
    <3>3. m = tracked \/ ahead[1].msg = m BY <2>1, <3>1 DEF TidyInv, Has
    <3>4. QED BY <2>1, <3>1, <3>2, <3>3
  <2>3. \A i \in 1..Len(ahead') : ahead'[i].do \notin Special
    <3>1. CASE Dropped(ahead', ahead) BY <1>2, <2>1, <3>1, Rests
    <3>2. CASE Swapped(ahead', ahead, Save(ahead[1].msg))
      <4>1. Rest(1) /\ ahead'[1].do = "save"
        BY <3>2, Rests DEF Swapped, Save, step
      <4>2. QED BY <1>2, <2>1, <4>1
    <3>3. QED BY <1>7, <3>1, <3>2 DEF Tracks
  <2>4. QED BY <2>2, <2>3 DEF TidyInv
<1>8. CASE Saves
  <2>1. Has(1, {"save"}) /\ ahead[1].do = "save" /\ UNCHANGED <<shown, tracked>> /\ Rest(0)
    BY <1>8, Rests DEF Saves, Has
  <2>2. ASSUME NEW i \in 1..Len(ahead')
        PROVE  (ahead'[i].do = "delete" => i = 1)
               /\ ahead'[i].do \notin {"guard", "put", "track"}
    <3>1. PICK j \in 2..Len(ahead) : j = i + 1 /\ ahead'[i] = ahead[j]
      BY <2>1, Shifted
    <3>2. QED BY <2>1, <3>1 DEF TidyInv, Has
  <2>3. Has(2, {"delete"}) => Has(1, {"delete"})' /\ ahead'[1] = ahead[2]
    BY <1>1, <1>8 DEF Has, Dropped, Saves
  <2>4. ASSUME NEW m \in Messages, Shown(m)'
        PROVE  m = tracked' \/ (Has(1, {"delete"})' /\ ahead'[1].msg = m)
    <3>1. Shown(m) BY <2>1, <2>4 DEF Shown
    <3>2. m = tracked \/ (Has(2, {"delete"}) /\ ahead[2].msg = m)
      BY <2>1, <3>1 DEF TidyInv, Has
    <3>3. QED BY <2>1, <2>3, <3>2
  <2>5. QED BY <2>2, <2>4 DEF TidyInv
<1>9. CASE Deletes
  <2>1. /\ Has(1, {"delete"}) /\ ahead[1].do = "delete" /\ tracked' = tracked /\ Rest(0)
        /\ shown' = [shown EXCEPT ![ahead[1].msg] = Gone]
    BY <1>9, Rests DEF Deletes, Has
  <2>2. \A m \in Messages : Shown(m)' => Shown(m) /\ m # ahead[1].msg
    BY <2>1 DEF Shown, Typed
  <2>3. ASSUME NEW i \in 1..Len(ahead')
        PROVE  /\ ahead'[i].do \notin {"delete", "guard", "put"}
               /\ ahead'[i].do = "track" => i = 1 /\ ahead[1].msg = tracked
    <3>1. PICK j \in 2..Len(ahead) : j = i + 1 /\ ahead'[i] = ahead[j]
      BY <2>1, Shifted
    <3>2. QED BY <2>1, <3>1 DEF TidyInv, Has
  <2>4. ahead[1].msg = tracked => ~Shown(tracked)' BY <2>1, <2>2 DEF Shown
  <2>5. ASSUME NEW m \in Messages, Shown(m)' PROVE m = tracked'
    <3>1. Shown(m) /\ m # ahead[1].msg BY <2>2, <2>5
    <3>2. QED BY <2>1, <3>1 DEF TidyInv, Has
  <2>6. QED BY <2>1, <2>3, <2>4, <2>5 DEF TidyInv
<1>10. CASE Renders
  <2>1. /\ ahead[1].do \notin {"save", "guard", "delete", "track"}
        /\ UNCHANGED <<shown, tracked>>
        /\ Rest(1) /\ ahead'[1].do = "put" /\ ahead'[1].msg = tracked
    BY <1>10, Rests DEF Renders, Swapped, Has, step
  <2>2. \A i \in 1..Len(ahead') : ahead'[i].do \in Special => i = 1 BY <1>2, <2>1
  <2>3. \A m \in Messages : Shown(m)' => m = tracked' BY <1>3, <2>1 DEF Shown
  <2>4. QED BY <2>1, <2>2, <2>3 DEF TidyInv
<1>11. CASE Puts
  <2>1. Has(1, {"put"}) /\ ahead[1].do = "put" /\ tracked' = tracked
    BY <1>11 DEF Puts, Has
  <2>2. ahead[1].msg = tracked BY <2>1 DEF TidyInv, Has
  <2>3. PICK m \in Messages :
          /\ shown' = [shown EXCEPT ![m] = ahead[1].screen]
          /\ Swapped(ahead', ahead, Track(m))
          /\ m = tracked \/ (~Shown(tracked) /\ m # tracked)
    BY <1>11, <2>2 DEF Puts
  <2>4. Rest(1) /\ ahead'[1].do = "track" /\ ahead'[1].msg = m
    BY <2>3, Rests DEF Swapped, Track, step
  <2>5. Has(1, {"track"})' BY <1>1, <2>4 DEF Rest, Has
  <2>6. \A i \in 1..Len(ahead') : ahead'[i].do \in Special => i = 1
    BY <1>2, <2>1, <2>4
  <2>7. m = tracked \/ ~Shown(tracked)'
    BY <2>1, <2>3 DEF Shown, Typed
  <2>8. ASSUME NEW x \in Messages, Shown(x)' PROVE x = tracked' \/ x = m
    <3>1. CASE x # m
      <4>1. Shown(x) BY <2>3, <2>8, <3>1 DEF Shown, Typed
      <4>2. QED BY <1>3, <2>1, <4>1
    <3>2. QED BY <3>1
  <2>9. QED BY <2>1, <2>4, <2>5, <2>6, <2>7, <2>8 DEF TidyInv
<1>12. CASE Stages
  BY <1>4, <1>12, Rests DEF Stages, Has
<1>13. CASE Acting
  <2>1. ahead[1].do = "act" /\ UNCHANGED <<shown, tracked>> BY <1>13 DEF Acting, Has
  <2>2. CASE Swapped(ahead', ahead, Render(menu))
    <3>1. Rest(1) /\ ahead'[1].do = "render"
      BY <2>2, Rests DEF Swapped, Render, step
    <3>2. QED BY <1>4, <2>1, <3>1
  <2>3. ASSUME NEW a, NEW b, Grown(ahead', ahead, a, b), a.do \notin Special,
               b.do \notin Special
        PROVE  TidyInv'
    <3>1. Rest(2) /\ \A i \in 1..2 : ahead'[i].do \notin Special
      BY <2>3, Rests DEF Grown
    <3>2. QED BY <1>4, <2>1, <3>1
  <2>4. \A x : Render(x).do = "render" /\ Clear(x).do = "clear"
    BY DEF Render, Clear, step
  <2>5. QED BY <1>13, <2>2, <2>3, <2>4 DEF Acting
<1>14. QED
  BY <1>5, <1>6, <1>7, <1>8, <1>9, <1>10, <1>11, <1>12, <1>13 DEF Effect

(* The prompts. *)
LEMMA PromptStep ==
  ASSUME Lists, Effect, Typed, ~failing, TidyInv, PromptInv
  PROVE  PromptInv'
<1> USE DEF Lists
<1>1. Len(ahead) \in Nat \ {0} /\ Len(ahead') \in Nat OBVIOUS
<1>2. ASSUME NEW k \in 0..2, Rest(k), NEW i \in 1..Len(ahead'), i > k
      PROVE  /\ ahead'[i].do \in Draws =>
                  \/ ahead'[i].screen.what # "confirm"
                  \/ i = k + 1 /\ ahead[1].do = "stage" /\ ahead[1].screen = ahead'[i].screen
                  \/ i > k + 1 /\ ahead'[i - 1].do = "stage"
                               /\ ahead'[i - 1].screen = ahead'[i].screen
             /\ ahead'[i].do = "stage" => Has(i + 1, {"render"})'
             /\ ahead'[i].do = "act" => Match(ahead'[i].screen) /\ ahead[1].do # "stage"
  <2>1. PICK j \in 2..Len(ahead) :
          /\ ahead'[i] = ahead[j] /\ (i = k + 1 <=> j = 2)
          /\ i > k + 1 => ahead'[i - 1] = ahead[j - 1]
          /\ j + 1 \in 1..Len(ahead) =>
               i + 1 \in 1..Len(ahead') /\ ahead'[i + 1] = ahead[j + 1]
    BY <1>2, Kept
  <2>2. j \in 1..Len(ahead) /\ j # 1 /\ 1 \in 1..Len(ahead) /\ (j = 2 => j - 1 = 1)
    BY <1>1, <2>1
  <2>3. ahead'[i].do \in Draws => \/ ahead[j].screen.what # "confirm"
                                  \/ /\ ahead[j - 1].do = "stage"
                                     /\ ahead[j - 1].screen = ahead[j].screen
    BY <2>1, <2>2 DEF PromptInv
  <2>4. ahead'[i].do = "stage" => Has(j + 1, {"render"}) BY <2>1, <2>2 DEF PromptInv
  <2>5. ahead'[i].do = "act" => Match(ahead[j].screen) /\ ahead[1].do # "stage"
    BY <2>1, <2>2 DEF PromptInv
  <2>6. i > k + 1 \/ i = k + 1 BY <1>2
  <2>7. QED BY <2>1, <2>2, <2>3, <2>4, <2>5, <2>6 DEF Has
<1>3. ASSUME NEW k \in 0..2, Rest(k), NEW i \in 1..Len(ahead'), i > k, ahead'[i].do = "act"
      PROVE  \A n \in 1..Len(ahead') : n > k => ahead'[n].do # "stage"
  <2>1. PICK j \in 2..Len(ahead) : ahead'[i] = ahead[j] BY <1>3, Kept
  <2>2. \A n \in 1..Len(ahead) : ahead[n].do # "stage" BY <1>3, <2>1 DEF PromptInv
  <2>3. ASSUME NEW n \in 1..Len(ahead'), n > k PROVE ahead'[n].do # "stage"
    <3>1. PICK l \in 2..Len(ahead) : ahead'[n] = ahead[l] BY <1>3, <2>3, Kept
    <3>2. QED BY <2>2, <3>1
  <2>4. QED BY <2>3
<1>4. ASSUME NEW k \in 0..2, Rest(k), ahead[1].do # "stage",
             \A s \in Screens \cup {Gone} : Match(s) => Match(s)',
             \A i \in 1..Len(ahead') : i <= k =>
               /\ ahead'[i].do \notin {"stage", "act"}
               /\ ahead'[i].do \in Draws =>
                    ahead'[i].screen.what # "confirm" \/ (i = 1 /\ Match(ahead[i].screen)'),
             (\A m \in Messages : Match(shown[m])') \/ Has(1, Draws)'
      PROVE  PromptInv'
  <2>1. ASSUME NEW i \in 1..Len(ahead'), ahead'[i].do \in Draws
        PROVE  \/ ahead'[i].screen.what # "confirm"
               \/ i = 1 /\ Match(ahead[1].screen)'
               \/ i > 1 /\ ahead'[i - 1].do = "stage" /\ ahead'[i - 1].screen = ahead'[i].screen
    <3>1. CASE i <= k BY <1>4, <2>1, <3>1
    <3>2. CASE i > k BY <1>2, <1>4, <2>1, <3>2
    <3>3. QED BY <3>1, <3>2
  <2>2. ASSUME NEW i \in 1..Len(ahead'), ahead'[i].do = "stage"
        PROVE  Has(i + 1, {"render"})'
    BY <1>2, <1>4, <2>2
  <2>3. ASSUME NEW i \in 1..Len(ahead'), ahead'[i].do = "act"
        PROVE  /\ Match(ahead[i].screen)'
               /\ \A n \in 1..Len(ahead') : ahead'[n].do # "stage"
    <3>1. i > k BY <1>4, <2>3
    <3>2. Match(ahead'[i].screen) BY <1>2, <1>4, <2>3, <3>1
    <3>3. ahead'[i] \in Step BY <2>3
    <3>4. PICK s \in Screens \cup {Gone} : s = ahead'[i].screen BY <3>3 DEF Step
    <3>5. Match(s)' BY <1>4, <3>2, <3>4
    <3>6. \A n \in 1..Len(ahead') : n > k => ahead'[n].do # "stage"
      BY <1>3, <1>4, <2>3, <3>1
    <3>7. \A n \in 1..Len(ahead') : n <= k => ahead'[n].do # "stage" BY <1>4
    <3>8. \A n \in 1..Len(ahead') : n > k \/ n <= k OBVIOUS
    <3>9. Match(ahead[i].screen)' BY <3>4, <3>5 DEF Match
    <3>10. QED BY <3>6, <3>7, <3>8, <3>9
  <2>4. QED BY <1>4, <2>1, <2>2, <2>3 DEF PromptInv
<1>5. UNCHANGED staged => \A s \in Screens \cup {Gone} : Match(s) => Match(s)'
  BY DEF Match
<1>6. ahead[1].do \notin Draws => \A m \in Messages : Match(shown[m])
  BY DEF PromptInv, Has
<1>7. ASSUME ahead[1].do \notin Draws \cup {"stage"}, UNCHANGED <<shown, staged>>,
             \/ Dropped(ahead', ahead)
             \/ \E a : /\ a.do \notin {"stage", "act"} /\ Swapped(ahead', ahead, a)
                       /\ a.do \in Draws => a.screen.what # "confirm"
             \/ \E a, b : /\ {a.do, b.do} \cap {"stage", "act"} = {} /\ Grown(ahead', ahead, a, b)
                          /\ a.do \in Draws => a.screen.what # "confirm"
                          /\ b.do \in Draws => b.screen.what # "confirm"
      PROVE  PromptInv'
  <2>1. \A m \in Messages : Match(shown[m])' BY <1>6, <1>7 DEF Match
  <2>2. CASE Dropped(ahead', ahead)
    <3>1. Rest(0) BY <2>2, Rests
    <3>2. \A i \in 1..Len(ahead') : ~(i <= 0) OBVIOUS
    <3>3. QED BY <1>4, <1>5, <1>7, <2>1, <3>1, <3>2
  <2>3. ASSUME NEW a, a.do \notin {"stage", "act"}, Swapped(ahead', ahead, a),
               a.do \in Draws => a.screen.what # "confirm"
        PROVE  PromptInv'
    <3>1. Rest(1) /\ ahead'[1] = a BY <2>3, Rests DEF Swapped
    <3>2. \A i \in 1..Len(ahead') : i <= 1 => i = 1 OBVIOUS
    <3>3. QED BY <1>4, <1>5, <1>7, <2>1, <2>3, <3>1, <3>2
  <2>4. ASSUME NEW a, NEW b, {a.do, b.do} \cap {"stage", "act"} = {},
               Grown(ahead', ahead, a, b),
               a.do \in Draws => a.screen.what # "confirm",
               b.do \in Draws => b.screen.what # "confirm"
        PROVE  PromptInv'
    <3>1. Rest(2) /\ ahead'[1] = a /\ ahead'[2] = b BY <2>4, Rests DEF Grown
    <3>2. \A i \in 1..Len(ahead') : i <= 2 => i = 1 \/ i = 2 OBVIOUS
    <3>3. \A i \in 1..Len(ahead') : i <= 2 =>
            /\ ahead'[i].do \notin {"stage", "act"}
            /\ ahead'[i].do \in Draws => ahead'[i].screen.what # "confirm"
      BY <2>4, <3>1, <3>2
    <3>4. QED BY <1>4, <1>5, <1>7, <2>1, <3>1, <3>3
  <2>5. QED BY <1>7, <2>2, <2>3, <2>4
<1>8. CASE Passes
  <2>1. /\ ahead[1].do \notin Draws \cup {"stage"} /\ UNCHANGED <<shown, staged>>
        /\ ahead' = <<>> \/ Dropped(ahead', ahead)
    BY <1>8 DEF Passes, Has, Draws
  <2>2. CASE ahead' = <<>>
    <3>1. \A m \in Messages : Match(shown[m])' BY <1>6, <2>1 DEF Match
    <3>2. QED BY <2>2, <3>1 DEF PromptInv
  <2>3. QED BY <1>7, <2>1, <2>2
<1>9. CASE Adopts
  <2>1. \A m : Save(m).do = "save" /\ Delete(m).do = "delete" BY DEF Save, Delete, step
  <2>2. ahead[1].do \notin Draws \cup {"stage"} /\ UNCHANGED <<shown, staged>>
    BY <1>9 DEF Adopts, Has, Draws
  <2>3. QED BY <1>7, <1>9, <2>1, <2>2 DEF Adopts, Draws
<1>10. CASE Tracks
  <2>1. \A m : Save(m).do = "save" BY DEF Save, step
  <2>2. ahead[1].do \notin Draws \cup {"stage"} /\ UNCHANGED <<shown, staged>>
    BY <1>10 DEF Tracks, Has, Draws
  <2>3. QED BY <1>7, <1>10, <2>1, <2>2 DEF Tracks, Draws
<1>11. CASE Saves BY <1>7, <1>11 DEF Saves, Has, Draws
<1>12. CASE Deletes
  <2>1. /\ ahead[1].do = "delete" /\ UNCHANGED staged /\ Rest(0)
        /\ shown' = [shown EXCEPT ![ahead[1].msg] = Gone]
    BY <1>12, Rests DEF Deletes, Has
  <2>2. ahead[1].do \notin Draws \cup {"stage"} BY <2>1 DEF Draws
  <2>3. \A m \in Messages : Match(shown[m])'
    BY <1>6, <2>1, <2>2, ScreensDiffer DEF Match, Typed
  <2>4. \A i \in 1..Len(ahead') : ~(i <= 0) OBVIOUS
  <2>5. QED BY <1>4, <1>5, <2>1, <2>2, <2>3, <2>4
<1>13. CASE Renders
  <2>1. /\ Has(1, {"render", "announce"}) /\ UNCHANGED <<shown, staged>> /\ Rest(1)
        /\ ahead'[1].do = "put" /\ ahead'[1].screen = ahead[1].screen
    BY <1>13, Rests DEF Renders, Swapped, step
  <2>2. ahead[1].do \in Draws /\ ahead[1].do # "stage" /\ 1 \in 1..Len(ahead)
    BY <2>1 DEF Has, Draws
  <2>3. ahead[1].screen.what # "confirm" \/ Match(ahead[1].screen)
    BY <2>2 DEF PromptInv
  <2>4. ahead'[1].screen.what # "confirm" \/ Match(ahead[1].screen)'
    BY <2>1, <2>3 DEF Match
  <2>5. Has(1, Draws)' BY <1>1, <2>1 DEF Rest, Has, Draws
  <2>6. \A i \in 1..Len(ahead') : i <= 1 => i = 1 OBVIOUS
  <2>7. QED BY <1>4, <1>5, <2>1, <2>2, <2>4, <2>5, <2>6
<1>14. CASE Puts
  <2>1. Has(1, {"put"}) /\ ahead[1].do = "put" /\ 1 \in 1..Len(ahead)
        /\ UNCHANGED <<tracked, staged>>
    BY <1>14 DEF Puts, Has
  <2>2. ahead[1].msg = tracked BY <2>1 DEF TidyInv
  <2>3. PICK m \in Messages :
          /\ shown' = [shown EXCEPT ![m] = ahead[1].screen]
          /\ Swapped(ahead', ahead, Track(m))
          /\ m = tracked \/ ~Shown(tracked)
    BY <1>14, <2>2 DEF Puts
  <2>4. Rest(1) /\ ahead'[1].do = "track"
    BY <2>3, Rests DEF Swapped, Track, step
  <2>5. Match(ahead[1].screen) BY <2>1 DEF PromptInv, Draws, Match
  <2>6. ASSUME NEW x \in Messages PROVE Match(shown[x])'
    <3>1. CASE x = m BY <2>1, <2>3, <2>5, <3>1 DEF Match, Typed
    <3>2. CASE x # m
      <4>1. Shown(x) => x = tracked BY <2>1 DEF TidyInv, Has
      <4>2. shown[x] = Gone BY <2>3, <3>2, <4>1 DEF Shown
      <4>3. shown'[x] = Gone BY <2>3, <3>2, <4>2 DEF Typed
      <4>4. QED BY <4>3, ScreensDiffer DEF Match
    <3>3. QED BY <3>1, <3>2
  <2>7. \A i \in 1..Len(ahead') : i <= 1 => i = 1 OBVIOUS
  <2>8. ahead[1].do # "stage" /\ ahead'[1].do \notin Draws \cup {"stage", "act"}
    BY <2>1, <2>4 DEF Draws
  <2>9. QED BY <1>4, <1>5, <2>1, <2>4, <2>6, <2>7, <2>8
<1>15. CASE Stages
  <2>1. Rest(0) /\ UNCHANGED shown /\ 1 \in 1..Len(ahead) BY <1>15, Rests DEF Stages, Has
  <2>2. ASSUME NEW s \in Screens, s.what = "confirm" PROVE s.kind \in Kinds
    <3>1. s = menu \/ s = working \/ \E k \in Kinds, t \in Targets : s = prompt(k, t)
      BY DEF Screens
    <3>2. QED BY <2>2, <3>1, ScreensDiffer DEF prompt, screen
  <2>3. CASE ahead[1].do # "stage"
    <3>1. staged' = [staged EXCEPT ![ahead[1].screen.kind] = None]
          /\ ahead[1].do \notin Draws
      BY <1>15, <2>3 DEF Stages, Has, Draws
    <3>2. ASSUME NEW s \in Screens \cup {Gone}, Match(s) PROVE Match(s)'
      <4>1. CASE s.what # "confirm" BY <4>1 DEF Match
      <4>2. CASE s.what = "confirm"
        <5>1. s.kind \in Kinds BY <2>2, <4>2, ScreensDiffer
        <5>2. staged[s.kind] \in {s.target, None} BY <3>2, <4>2 DEF Match
        <5>3. staged'[s.kind] \in {s.target, None} BY <3>1, <5>1, <5>2 DEF Typed
        <5>4. QED BY <5>3 DEF Match
      <4>3. QED BY <4>1, <4>2
    <3>3. \A m \in Messages : Match(shown[m])'
      <4>1. ASSUME NEW m \in Messages PROVE Match(shown[m])'
        <5>1. shown[m] \in Screens \cup {Gone} /\ Match(shown[m]) /\ shown'[m] = shown[m]
          BY <1>6, <2>1, <3>1 DEF Typed
        <5>2. PICK s \in Screens \cup {Gone} : s = shown[m] BY <5>1
        <5>3. Match(s)' BY <3>2, <5>1, <5>2
        <5>4. QED BY <5>1, <5>2, <5>3 DEF Match
      <4>2. QED BY <4>1
    <3>4. \A i \in 1..Len(ahead') : ~(i <= 0) OBVIOUS
    <3>5. QED BY <1>4, <2>1, <2>3, <3>2, <3>3, <3>4
  <2>4. CASE ahead[1].do = "stage"
    <3> PICK s : s = ahead[1].screen OBVIOUS
    <3>1. s.kind \in Kinds /\ staged' = [staged EXCEPT ![s.kind] = s.target]
      BY <1>15, <2>1, <2>4 DEF Stages, Typed, Aimed
    <3>2. Match(s)' BY <3>1 DEF Match, Typed
    <3>3. Has(2, {"render"}) BY <2>1, <2>4 DEF PromptInv
    <3>4. Has(1, Draws)'
      <4>1. 1 \in 1..Len(ahead') /\ ahead'[1] = ahead[2]
        BY <1>1, <2>1, <3>3 DEF Has, Rest
      <4>2. QED BY <3>3, <4>1 DEF Has, Draws
    <3>5. \A i \in 1..Len(ahead') :
            /\ ahead'[i].do \in Draws =>
                 \/ ahead'[i].screen.what # "confirm"
                 \/ i = 1 /\ ahead'[i].screen = s
                 \/ i > 1 /\ ahead'[i - 1].do = "stage"
                          /\ ahead'[i - 1].screen = ahead'[i].screen
            /\ ahead'[i].do = "stage" => Has(i + 1, {"render"})'
            /\ ahead'[i].do # "act"
      BY <1>2, <2>1, <2>4
    <3>6. QED BY <3>2, <3>4, <3>5 DEF PromptInv
  <2>5. QED BY <2>3, <2>4
<1>16. CASE Acting
  <2>1. /\ \A x : Render(x).do = "render" /\ Clear(x).do = "clear"
        /\ Render(menu).screen.what # "confirm" /\ Render(working).screen.what # "confirm"
    BY ScreensDiffer DEF Render, Clear, step
  <2>2. ahead[1].do \notin Draws \cup {"stage"} /\ UNCHANGED <<shown, staged>>
    BY <1>16 DEF Acting, Has, Draws
  <2>3. CASE Swapped(ahead', ahead, Render(menu)) BY <1>7, <2>1, <2>2, <2>3
  <2>4. CASE Grown(ahead', ahead, Clear(ahead[1].screen), Render(menu))
    BY <1>7, <2>1, <2>2, <2>4 DEF Draws
  <2>5. CASE Grown(ahead', ahead, Render(working), Render(menu))
    BY <1>7, <2>1, <2>2, <2>5
  <2>6. QED BY <1>16, <2>3, <2>4, <2>5 DEF Acting
<1>17. QED
  BY <1>8, <1>9, <1>10, <1>11, <1>12, <1>13, <1>14, <1>15, <1>16 DEF Effect

(* The screens without buttons. *)
LEMMA BusyStep ==
  ASSUME Lists, Effect, Typed, ~failing, BusyInv
  PROVE  BusyInv'
<1> USE DEF Lists
<1> DEFINE Bare(s) == s.do \in Draws /\ s.screen = working
<1>1. Len(ahead) \in Nat \ {0} /\ Len(ahead') \in Nat OBVIOUS
<1>2. ASSUME NEW k \in 0..2, Rest(k), NEW j \in 2..(Len(ahead) + 1), Settles(j)
      PROVE  Settles(j - 1 + k)'
  <2>1. PICK i \in 1..Len(ahead') : i = j - 1 + k /\ i > k
    <3>1. j \in 2..Len(ahead) BY <1>2 DEF Settles, Shows, Has
    <3>2. Len(ahead') = Len(ahead) - 1 + k BY <1>2 DEF Rest
    <3>3. j - 1 + k \in 1..Len(ahead') /\ j - 1 + k > k BY <1>1, <1>2, <3>1, <3>2
    <3>4. QED BY ONLY <3>3
  <2>2. PICK l \in 2..Len(ahead) :
          /\ l = i - k + 1 /\ ahead'[i] = ahead[l]
          /\ l + 1 \in 1..Len(ahead) =>
               i + 1 \in 1..Len(ahead') /\ ahead'[i + 1] = ahead[l + 1]
    BY <1>2, <2>1, Kept
  <2>3. l = j BY <1>1, <2>1, <2>2
  <2>4. QED BY <1>2, <2>1, <2>2, <2>3 DEF Settles, Shows, Has
<1>3. ASSUME NEW k \in 0..2, Rest(k), NEW i \in 1..Len(ahead'), i > k, Bare(ahead'[i])
      PROVE  Settles(i + 1)'
  <2>1. PICK j \in 2..Len(ahead) : j = i - k + 1 /\ ahead'[i] = ahead[j] BY <1>3, Kept
  <2>2. Settles(j + 1) BY <1>3, <2>1 DEF BusyInv
  <2>3. j + 1 \in 2..(Len(ahead) + 1) /\ (j + 1) - 1 + k = i + 1 BY <1>1, <2>1
  <2>4. Settles((j + 1) - 1 + k)' BY <1>2, <1>3, <2>2, <2>3
  <2>5. QED BY <2>3, <2>4
<1>4. ASSUME NEW m \in Messages, shown[m] = working
      PROVE  \/ m = tracked /\ ahead[1].do = "render" /\ ahead[1].screen # working
             \/ m = tracked /\ ahead[1].do = "stage" /\ Shows(2)
             \/ m = tracked /\ ahead[1].do = "save" /\ Settles(2)
             \/ m = ahead[1].msg /\ ahead[1].do = "track" /\ Settles(2)
             \/ m = ahead[1].msg /\ ahead[1].do = "put" /\ ahead[1].screen # working
  BY <1>4 DEF BusyInv, Settles, Shows, Has
<1>5. ASSUME NEW k \in 0..2, Rest(k),
             ahead[1].do \notin {"render", "stage", "save", "track", "put"},
             \A m \in Messages : shown'[m] = working => shown[m] = working,
             \A i \in 1..Len(ahead') : i <= k /\ Bare(ahead'[i]) => Settles(i + 1)'
      PROVE  BusyInv'
  <2>1. \A m \in Messages : shown'[m] # working BY <1>4, <1>5
  <2>2. ASSUME NEW i \in 1..Len(ahead'), Bare(ahead'[i]) PROVE Settles(i + 1)'
    <3>1. i <= k \/ i > k BY <1>5
    <3>2. QED BY <1>3, <1>5, <2>2, <3>1
  <2>3. QED BY <2>1, <2>2 DEF BusyInv
<1>6. CASE Passes
  <2>1. /\ ahead[1].do \notin {"render", "stage", "save", "track", "put"}
        /\ UNCHANGED shown /\ (ahead' = <<>> \/ Dropped(ahead', ahead))
    BY <1>6 DEF Passes, Has
  <2>2. CASE ahead' = <<>>
    <3>1. \A m \in Messages : shown'[m] # working BY <1>4, <2>1
    <3>2. QED BY <2>2, <3>1 DEF BusyInv
  <2>3. CASE Dropped(ahead', ahead)
    <3>1. Rest(0) /\ \A i \in 1..Len(ahead') : ~(i <= 0) BY <2>3, Rests
    <3>2. QED BY <1>5, <2>1, <3>1
  <2>4. QED BY <2>1, <2>2, <2>3
<1>7. CASE Adopts
  <2>1. /\ \A m : Save(m).do \notin Draws /\ Delete(m).do \notin Draws
        /\ ahead[1].do \notin {"render", "stage", "save", "track", "put"}
        /\ UNCHANGED shown
    BY <1>7 DEF Adopts, Has, Save, Delete, step, Draws
  <2>2. CASE Dropped(ahead', ahead)
    <3>1. Rest(0) /\ \A i \in 1..Len(ahead') : ~(i <= 0) BY <2>2, Rests
    <3>2. QED BY <1>5, <2>1, <3>1
  <2>3. ASSUME NEW a, Swapped(ahead', ahead, a), a.do \notin Draws PROVE BusyInv'
    <3>1. Rest(1) /\ ahead'[1] = a /\ \A i \in 1..Len(ahead') : i <= 1 => i = 1
      BY <2>3, Rests DEF Swapped
    <3>2. QED BY <1>5, <2>1, <2>3, <3>1
  <2>4. ASSUME NEW a, NEW b, Grown(ahead', ahead, a, b), a.do \notin Draws, b.do \notin Draws
        PROVE  BusyInv'
    <3>1. /\ Rest(2) /\ ahead'[1] = a /\ ahead'[2] = b
          /\ \A i \in 1..Len(ahead') : i <= 2 => i = 1 \/ i = 2
      BY <2>4, Rests DEF Grown
    <3>2. \A i \in 1..Len(ahead') : i <= 2 => ~Bare(ahead'[i]) BY <2>4, <3>1
    <3>3. QED BY <1>5, <2>1, <3>1, <3>2
  <2>5. QED BY <1>7, <2>1, <2>2, <2>3, <2>4 DEF Adopts
<1>8. CASE Tracks
  <2>1. ahead[1].do = "track" /\ UNCHANGED shown /\ tracked' = ahead[1].msg
    BY <1>8 DEF Tracks, Has
  <2>2. CASE Dropped(ahead', ahead)
    <3>1. Rest(0) /\ \A i \in 1..Len(ahead') : i > 0 BY <2>2, Rests
    <3>2. \A i \in 1..Len(ahead') : Bare(ahead'[i]) => Settles(i + 1)' BY <1>3, <3>1
    <3>3. Settles(2) => Settles(1)'
      <4>1. 2 \in 2..(Len(ahead) + 1) /\ 2 - 1 + 0 = 1 BY <1>1
      <4>2. Settles(2) => Settles(2 - 1 + 0)' BY <1>2, <3>1, <4>1
      <4>3. QED BY <4>1, <4>2
    <3>4. \A m \in Messages : shown'[m] = working => m = tracked' /\ Settles(1)'
      BY <1>4, <2>1, <3>3
    <3>5. QED BY <3>2, <3>4 DEF BusyInv
  <2>3. CASE Swapped(ahead', ahead, Save(ahead[1].msg))
    <3>1. Rest(1) /\ ahead'[1].do = "save"
      BY <2>3, Rests DEF Swapped, Save, step
    <3>2. ASSUME NEW i \in 1..Len(ahead'), Bare(ahead'[i]) PROVE Settles(i + 1)'
      <4>1. i > 1 BY <3>1, <3>2 DEF Draws
      <4>2. QED BY <1>3, <3>1, <3>2, <4>1
    <3>3. Settles(2) => Settles(2)'
      <4>1. 2 \in 2..(Len(ahead) + 1) /\ 2 - 1 + 1 = 2 BY <1>1
      <4>2. Settles(2) => Settles(2 - 1 + 1)' BY <1>2, <3>1, <4>1
      <4>3. QED BY <4>1, <4>2
    <3>4. Has(1, {"save"})' BY <1>1, <3>1 DEF Rest, Has
    <3>5. \A m \in Messages : shown'[m] = working => m = tracked' /\ Settles(2)'
      BY <1>4, <2>1, <3>3
    <3>6. QED BY <3>2, <3>4, <3>5 DEF BusyInv
  <2>4. QED BY <1>8, <2>2, <2>3 DEF Tracks
<1>9. CASE Saves
  <2>1. ahead[1].do = "save" /\ UNCHANGED <<shown, tracked>> /\ Dropped(ahead', ahead)
    BY <1>9 DEF Saves, Has
  <2>2. Rest(0) /\ \A i \in 1..Len(ahead') : i > 0 BY <2>1, Rests
  <2>3. \A i \in 1..Len(ahead') : Bare(ahead'[i]) => Settles(i + 1)' BY <1>3, <2>2
  <2>4. Settles(2) => Settles(1)'
    <3>1. 2 \in 2..(Len(ahead) + 1) /\ 2 - 1 + 0 = 1 BY <1>1
    <3>2. Settles(2) => Settles(2 - 1 + 0)' BY <1>2, <2>2, <3>1
    <3>3. QED BY <3>1, <3>2
  <2>5. \A m \in Messages : shown'[m] = working => m = tracked' /\ Settles(1)'
    BY <1>4, <2>1, <2>4
  <2>6. QED BY <2>3, <2>5 DEF BusyInv
<1>10. CASE Deletes
  <2>1. /\ ahead[1].do \notin {"render", "stage", "save", "track", "put"}
        /\ shown' = [shown EXCEPT ![ahead[1].msg] = Gone]
    BY <1>10 DEF Deletes, Has
  <2>2. \A m \in Messages : shown'[m] = working => shown[m] = working
    BY <2>1, ScreensDiffer DEF Typed
  <2>3. Rest(0) /\ \A i \in 1..Len(ahead') : ~(i <= 0) BY <1>10, Rests DEF Deletes
  <2>4. QED BY <1>5, <2>1, <2>2, <2>3
<1>11. CASE Renders
  <2>1. /\ Has(1, {"render", "announce"}) /\ UNCHANGED <<shown, tracked>> /\ Rest(1)
        /\ ahead'[1].do = "put" /\ ahead'[1].screen = ahead[1].screen
        /\ ahead'[1].msg = tracked
    BY <1>11, Rests DEF Renders, Swapped, step
  <2>2. ahead[1].do \in {"render", "announce"} /\ 1 \in 1..Len(ahead) /\ Has(1, {"put"})'
    BY <1>1, <2>1 DEF Has, Rest
  <2>3. ASSUME NEW i \in 1..Len(ahead'), Bare(ahead'[i]) PROVE Settles(i + 1)'
    <3>1. CASE i = 1
      <4>1. Bare(ahead[1]) BY <2>1, <2>2, <2>3, <3>1 DEF Draws
      <4>2. Settles(1 + 1) BY <2>2, <4>1 DEF BusyInv
      <4>3. 1 + 1 \in 2..(Len(ahead) + 1) /\ (1 + 1) - 1 + 1 = i + 1 BY <1>1, <3>1
      <4>4. Settles((1 + 1) - 1 + 1)' BY <1>2, <2>1, <4>2, <4>3
      <4>5. QED BY <4>3, <4>4
    <3>2. CASE i # 1
      <4>1. i > 1 BY <3>2
      <4>2. QED BY <1>3, <2>1, <2>3, <4>1
    <3>3. QED BY <3>1, <3>2
  <2>4. ASSUME NEW m \in Messages, shown'[m] = working
        PROVE  ahead'[1].msg = m /\ ahead'[1].screen # working
    BY <1>4, <2>1, <2>2, <2>4
  <2>5. QED BY <2>2, <2>3, <2>4 DEF BusyInv
<1>12. CASE Puts
  <2>1. Has(1, {"put"}) /\ ahead[1].do = "put" /\ 1 \in 1..Len(ahead)
    BY <1>12 DEF Puts, Has
  <2>2. PICK m \in Messages :
          /\ shown' = [shown EXCEPT ![m] = ahead[1].screen]
          /\ Swapped(ahead', ahead, Track(m))
          /\ m = ahead[1].msg \/ ~Shown(ahead[1].msg)
    BY <1>12 DEF Puts
  <2>3. Rest(1) /\ ahead'[1].do = "track" /\ ahead'[1].msg = m
    BY <2>2, Rests DEF Swapped, Track, step
  <2>4. Has(1, {"track"})' BY <1>1, <2>3 DEF Rest, Has
  <2>5. ASSUME NEW i \in 1..Len(ahead'), Bare(ahead'[i]) PROVE Settles(i + 1)'
    <3>1. i > 1 BY <2>3, <2>5 DEF Draws
    <3>2. QED BY <1>3, <2>3, <2>5, <3>1
  <2>6. Settles(2) => Settles(2)'
    <3>1. 2 \in 2..(Len(ahead) + 1) /\ 2 - 1 + 1 = 2 BY <1>1
    <3>2. Settles(2) => Settles(2 - 1 + 1)' BY <1>2, <2>3, <3>1
    <3>3. QED BY <3>1, <3>2
  <2>7. ASSUME NEW x \in Messages, shown'[x] = working PROVE x = m /\ Settles(2)'
    <3>1. x = m
      <4>1. SUFFICES ASSUME x # m PROVE FALSE OBVIOUS
      <4>2. shown[x] = working BY <2>2, <2>7, <4>1 DEF Typed
      <4>3. x = ahead[1].msg BY <1>4, <2>1, <4>2
      <4>4. Shown(x) BY <4>2, ScreensDiffer DEF Shown
      <4>5. QED BY <2>2, <4>1, <4>3, <4>4
    <3>2. ahead[1].screen = working BY <2>2, <2>7, <3>1 DEF Typed
    <3>3. Settles(1 + 1) BY <2>1, <3>2 DEF BusyInv, Draws
    <3>4. QED BY <2>6, <3>1, <3>3
  <2>8. QED BY <2>3, <2>4, <2>5, <2>7 DEF BusyInv
<1>13. CASE Stages
  <2>1. /\ UNCHANGED <<shown, tracked>> /\ ahead[1].do \in {"stage", "clear"}
        /\ Dropped(ahead', ahead)
    BY <1>13 DEF Stages, Has
  <2>2. Rest(0) /\ \A i \in 1..Len(ahead') : i > 0 BY <2>1, Rests
  <2>3. \A i \in 1..Len(ahead') : Bare(ahead'[i]) => Settles(i + 1)' BY <1>3, <2>2
  <2>4. Shows(2) => Settles(1)'
    <3>1. 2 \in 2..(Len(ahead) + 1) /\ 2 - 1 + 0 = 1 BY <1>1
    <3>2. Settles(2) => Settles(2 - 1 + 0)' BY <1>2, <2>2, <3>1
    <3>3. QED BY <3>1, <3>2 DEF Settles
  <2>5. \A m \in Messages : shown'[m] = working => m = tracked' /\ Settles(1)'
    BY <1>4, <2>1, <2>4
  <2>6. QED BY <2>3, <2>5 DEF BusyInv
<1>14. CASE Acting
  <2>1. /\ \A x : /\ Render(x).do = "render" /\ Clear(x).do = "clear"
                  /\ Render(x).screen = x
        /\ ahead[1].do \notin {"render", "stage", "save", "track", "put"}
        /\ UNCHANGED shown
    BY <1>14 DEF Acting, Has, Render, Clear, step
  <2>2. CASE Swapped(ahead', ahead, Render(menu))
    <3>1. /\ Rest(1) /\ ahead'[1] = Render(menu)
          /\ \A i \in 1..Len(ahead') : i <= 1 => i = 1
      BY <2>2, Rests DEF Swapped
    <3>2. ~Bare(ahead'[1]) BY <2>1, <3>1, ScreensDiffer
    <3>3. QED BY <1>5, <2>1, <3>1, <3>2
  <2>3. ASSUME NEW a, Grown(ahead', ahead, a, Render(menu)) PROVE BusyInv'
    <3>1. /\ Rest(2) /\ ahead'[2] = Render(menu)
          /\ \A i \in 1..Len(ahead') : i <= 2 => i = 1 \/ i = 2
      BY <2>3, Rests DEF Grown
    <3>2. ~Bare(ahead'[2]) BY <2>1, <3>1, ScreensDiffer
    <3>3. Settles(2)'
      <4>1. 2 \in 1..Len(ahead') BY <1>1, <3>1 DEF Rest
      <4>2. QED BY <2>1, <3>1, <4>1, ScreensDiffer DEF Settles, Shows, Has
    <3>4. \A i \in 1..Len(ahead') : i <= 2 /\ Bare(ahead'[i]) => i = 1
      BY <3>1, <3>2
    <3>5. QED BY <1>5, <2>1, <3>1, <3>3, <3>4
  <2>4. QED BY <1>14, <2>2, <2>3 DEF Acting
<1>15. QED
  BY <1>6, <1>7, <1>8, <1>9, <1>10, <1>11, <1>12, <1>13, <1>14 DEF Effect

(* The types. *)
LEMMA TypedStep ==
  ASSUME Lists, Effect, Typed, Lined'
  PROVE  Typed'
<1> USE DEF Lists
<1>1. 1 \in 1..Len(ahead) /\ Len(ahead') \in Nat OBVIOUS
<1>2. ahead[1].msg \in Messages \cup {None} /\ ahead[1].screen \in Screens \cup {Gone}
  <2>1. ahead[1] \in Step BY <1>1
  <2>2. QED BY <2>1 DEF Step
<1>3. \A s \in Screens \cup {Gone} : s.target \in Targets \cup {None}
  BY DEF Screens, menu, working, prompt, screen, Gone
<1>4. tracked' \in Messages \cup {None} /\ saved' \in Messages \cup {None}
  BY <1>2 DEF Effect, Passes, Adopts, Tracks, Saves, Deletes, Renders, Puts, Stages, Acting,
    Typed
<1>5. staged' \in [Kinds -> Targets \cup {None}]
  <2>1. CASE Stages BY <1>2, <1>3, <2>1 DEF Stages, Typed
  <2>2. CASE UNCHANGED staged BY <2>2 DEF Typed
  <2>3. QED
    BY <2>1, <2>2 DEF Effect, Passes, Adopts, Tracks, Saves, Deletes, Renders, Puts, Acting
<1>6. shown' \in [Messages -> Screens \cup {Gone}]
  <2>1. CASE Puts BY <1>2, <2>1 DEF Puts, Typed
  <2>2. CASE Deletes BY <2>2 DEF Deletes, Typed
  <2>3. CASE UNCHANGED shown BY <2>3 DEF Typed
  <2>4. QED
    BY <2>1, <2>2, <2>3
    DEF Effect, Passes, Adopts, Tracks, Saves, Renders, Stages, Acting
<1>7. ASSUME NEW k \in 0..2, Rest(k),
             \A i \in 1..Len(ahead') : i <= k => ahead'[i].do \notin {"adopt", "stage", "act"},
             NEW i \in 1..Len(ahead')
      PROVE  Aimed(ahead'[i])
  <2>1. CASE i <= k BY <1>7, <2>1 DEF Aimed
  <2>2. CASE i > k
    <3>1. PICK j \in 2..Len(ahead) : ahead'[i] = ahead[j] BY <1>7, <2>2, Kept
    <3>2. QED BY <3>1 DEF Typed
  <2>3. QED BY <2>1, <2>2
<1>8. \A m, s : /\ Save(m).do = "save" /\ Delete(m).do = "delete" /\ Track(m).do = "track"
                /\ Render(s).do = "render" /\ Clear(s).do = "clear"
                /\ step("put", m, s).do = "put"
  BY DEF Save, Delete, Track, Render, Clear, step
<1>9. \/ ahead' = <<>> \/ Dropped(ahead', ahead)
      \/ \E a : a.do \notin {"adopt", "stage", "act"} /\ Swapped(ahead', ahead, a)
      \/ \E a, b : /\ {a.do, b.do} \cap {"adopt", "stage", "act"} = {}
                   /\ Grown(ahead', ahead, a, b)
  BY <1>8 DEF Effect, Passes, Adopts, Tracks, Saves, Deletes, Renders, Puts, Stages, Acting
<1>10. \A i \in 1..Len(ahead') : Aimed(ahead'[i])
  <2>1. CASE ahead' = <<>> BY <2>1
  <2>2. CASE Dropped(ahead', ahead)
    <3>1. Rest(0) /\ \A i \in 1..Len(ahead') : ~(i <= 0) BY <2>2, Rests
    <3>2. \A i \in 1..Len(ahead') : i <= 0 => ahead'[i].do \notin {"adopt", "stage", "act"}
      BY <3>1
    <3>3. QED BY ONLY <1>7, <3>1, <3>2
  <2>3. ASSUME NEW a, a.do \notin {"adopt", "stage", "act"}, Swapped(ahead', ahead, a)
        PROVE  \A i \in 1..Len(ahead') : Aimed(ahead'[i])
    <3>1. Rest(1) /\ \A i \in 1..Len(ahead') : i <= 1 => ahead'[i] = a
      BY <2>3, Rests DEF Swapped
    <3>2. QED BY <1>7, <2>3, <3>1
  <2>4. ASSUME NEW a, NEW b, {a.do, b.do} \cap {"adopt", "stage", "act"} = {},
               Grown(ahead', ahead, a, b)
        PROVE  \A i \in 1..Len(ahead') : Aimed(ahead'[i])
    <3>1. Rest(2) /\ \A i \in 1..Len(ahead') : i <= 2 => ahead'[i] = a \/ ahead'[i] = b
      BY <2>4, Rests DEF Grown
    <3>2. \A i \in 1..Len(ahead') : i <= 2 => ahead'[i].do \notin {"adopt", "stage", "act"}
      BY <2>4, <3>1
    <3>3. QED BY <1>7, <3>1, <3>2
  <2>5. QED BY <1>9, <2>1, <2>2, <2>3, <2>4
<1>11. \A i \in 1..Len(ahead') : Aimed(ahead[i])' BY <1>10 DEF Aimed
<1>12. QED BY <1>4, <1>5, <1>6, <1>11 DEF Typed

LEMMA WorkStep ==
  ASSUME IInv, NEW h \in Handlers, Work(h)
  PROVE  IInv'
<1>1. UNCHANGED environment /\ Lined' /\ Effect
  BY Effects DEF IInv
<1>2. Lists
  <2>1. ahead \in Seq(Step) /\ ahead' \in Seq(Step)
    BY <1>1 DEF IInv, Typed, Lined
  <2>2. Len(ahead) \in Nat /\ 1 \in 1..Len(ahead)
    BY <1>1, <2>1 DEF Effect, Passes, Adopts, Tracks, Saves, Deletes, Renders, Puts, Stages,
      Acting, Has
  <2>3. QED BY <2>1, <2>2 DEF Lists
<1>3. Typed' /\ SavedInv'
  BY <1>1, <1>2, TypedStep, SavedStep DEF IInv
<1>4. ~failing => BusyInv' BY <1>1, <1>2, BusyStep DEF IInv
<1>5. ~failing /\ ~textCommands => TidyInv' /\ PromptInv'
  BY <1>1, <1>2, TidyStep, PromptStep DEF IInv
<1>6. QED BY <1>1, <1>3, <1>4, <1>5 DEF IInv, environment

-----------------------------------------------------------------------------
(* Updates that arrive, and releases that are found. *)

(* What a handler may begin with when no other one is at work.  *)
Orderly(u) ==
  \A i \in 1..Len(u) :
    /\ u[i].do \notin {"save", "put"} /\ Aimed(u[i])
    /\ u[i].do \in Draws /\ u[i].screen.what = "confirm" =>
         i > 1 /\ u[i - 1].do = "stage" /\ u[i - 1].screen = u[i].screen
    /\ u[i].do \in Draws /\ u[i].screen = working =>
         /\ i < Len(u)
         /\ \/ u[i + 1].do = "stage"
            \/ u[i + 1].do = "render" /\ u[i + 1].screen # working
    /\ u[i].do = "stage" =>
         i < Len(u) /\ u[i + 1].do = "render" /\ u[i + 1].screen # working
    /\ u[i].do = "act" =>
         /\ ~failing /\ ~textCommands => Match(u[i].screen)
         /\ \A j \in 1..Len(u) : u[j].do # "stage"
    /\ ~textCommands =>
         /\ u[i].do = "guard" => i = 1
         /\ u[i].do = "delete" =>
              u[i].msg = tracked /\ (i = 1 \/ (i = 2 /\ u[1].do = "guard"))
         /\ u[i].do = "track" =>
              \/ i = 1 /\ tracked = None
              \/ i = 2 /\ u[1].do = "delete"
              \/ i = 2 /\ u[1].do = "guard" /\ tracked = None
              \/ i = 3 /\ u[1].do = "guard" /\ u[2].do = "delete"

LEMMA BeginFits ==
  ASSUME IInv, Unshared, ahead = <<>>, NEW u \in Seq(Step), Orderly(u), ahead' = u,
         Lined',
         UNCHANGED <<shown, tracked, saved, staged, environment>>
  PROVE  IInv'
<1>1. Len(u) \in Nat /\ Len(ahead') = Len(u) /\ Len(ahead) = 0 OBVIOUS
<1>2. \A m \in Messages : ~failing => shown[m] # working
  BY <1>1 DEF IInv, BusyInv, Settles, Shows, Has
<1>3. /\ saved = tracked
      /\ ~failing /\ ~textCommands => /\ \A m \in Messages : Shown(m) => m = tracked
                                      /\ \A m \in Messages : Match(shown[m])
  BY <1>1 DEF IInv, SavedInv, TidyInv, PromptInv, Has
<1>4. Typed' BY <1>1 DEF IInv, Typed, Orderly, Aimed
<1>5. SavedInv' BY <1>1, <1>3 DEF SavedInv, Orderly
<1>7. ASSUME ~failing PROVE BusyInv'
  <2>1. ASSUME NEW i \in 1..Len(u), u[i].do = "stage" PROVE Settles(i)'
    BY <1>1, <2>1 DEF Orderly, Settles, Shows, Has
  <2>2. ASSUME NEW i \in 1..Len(u), u[i].do \in Draws, u[i].screen = working
        PROVE  Settles(i + 1)'
    <3>1. i + 1 \in 1..Len(u) BY <1>1, <2>2 DEF Orderly
    <3>2. CASE u[i + 1].do = "stage" BY <2>1, <3>1, <3>2
    <3>3. CASE u[i + 1].do = "render" /\ u[i + 1].screen # working
      BY <1>1, <3>1, <3>3 DEF Settles, Shows, Has
    <3>4. QED BY <2>2, <3>2, <3>3 DEF Orderly
  <2>3. QED BY <1>2, <1>7, <2>2 DEF BusyInv
<1>8. ASSUME ~failing, ~textCommands PROVE TidyInv'
  <2>1. \A m \in Messages : Shown(m)' => m = tracked' BY <1>3, <1>8 DEF Shown
  <2>2. tracked = None => ~Shown(tracked)' BY MenuAssumption DEF Shown
  <2>3. ASSUME NEW i \in 1..Len(u)
        PROVE  /\ u[i].do = "delete" => i = 1 \/ (i = 2 /\ Has(1, {"save", "guard"})')
               /\ u[i].do = "guard" => i = 1
               /\ u[i].do # "put"
               /\ u[i].do = "track" =>
                    \/ i = 1 /\ tracked = None
                    \/ i = 2 /\ Has(1, {"delete"})' /\ u[1].msg = tracked
                    \/ i = 2 /\ Has(1, {"guard"})' /\ tracked = None
                    \/ i = 3 /\ Has(1, {"guard"})' /\ Has(2, {"delete"})'
                             /\ u[2].msg = tracked
    BY <1>1, <1>8, <2>3 DEF Orderly, Has
  <2>4. QED BY <1>1, <2>1, <2>2, <2>3 DEF TidyInv
<1>9. ASSUME ~failing, ~textCommands PROVE PromptInv'
  <2>1. \A m \in Messages : Match(shown[m])' BY <1>3, <1>9 DEF Match
  <2>2. \A i \in 1..Len(u) : Match(u[i].screen) => Match(ahead[i].screen)'
    BY DEF Match
  <2>3. \A i \in 1..Len(u) : u[i].do = "stage" => Has(i + 1, {"render"})'
    BY <1>1 DEF Orderly, Has
  <2>4. QED BY <1>1, <1>9, <2>1, <2>2, <2>3 DEF PromptInv, Orderly
<1>10. QED
  BY <1>4, <1>5, <1>7, <1>8, <1>9 DEF IInv, environment

LEMMA Framed ==
  ASSUME NEW p \in Seq(Step), NEW q \in Seq(Step), NEW r \in Seq(Step)
  PROVE  /\ (p \o q) \o r \in Seq(Step) /\ Len((p \o q) \o r) = Len(p) + Len(q) + Len(r)
         /\ \A i \in 1..Len(p) : ((p \o q) \o r)[i] = p[i]
         /\ \A i \in 1..Len(q) : ((p \o q) \o r)[Len(p) + i] = q[i]
         /\ \A i \in 1..Len(r) : ((p \o q) \o r)[Len(p) + Len(q) + i] = r[i]
<1>1. Len(p) \in Nat /\ Len(q) \in Nat /\ Len(r) \in Nat OBVIOUS
<1>2. PICK pq \in Seq(Step) : pq = p \o q BY Cat
<1>3. /\ Len(pq) = Len(p) + Len(q)
      /\ \A i \in 1..Len(p) : pq[i] = p[i]
      /\ \A i \in 1..Len(q) : pq[Len(p) + i] = q[i]
  BY <1>2, Cat
<1>4. /\ pq \o r \in Seq(Step) /\ Len(pq \o r) = Len(pq) + Len(r)
      /\ \A i \in 1..Len(pq) : (pq \o r)[i] = pq[i]
      /\ \A i \in 1..Len(r) : (pq \o r)[Len(pq) + i] = r[i]
  BY Cat
<1>5. /\ \A i \in 1..Len(p) : i \in 1..Len(pq)
      /\ \A i \in 1..Len(q) : Len(p) + i \in 1..Len(pq)
  BY <1>1, <1>3
<1>6. QED BY <1>1, <1>2, <1>3, <1>4, <1>5

LEMMA Joined ==
  ASSUME NEW p \in Seq(Step), NEW q \in Seq(Step), NEW u, u = p \o q
  PROVE  /\ u \in Seq(Step) /\ Len(u) = Len(p) + Len(q)
         /\ \A i \in 1..Len(p) : u[i] = p[i]
         /\ \A i \in 1..Len(q) : u[Len(p) + i] = q[i]
BY ONLY u = p \o q, Cat, p \in Seq(Step), q \in Seq(Step), Zenon

LEMMA JoinedThrice ==
  ASSUME NEW p \in Seq(Step), NEW q \in Seq(Step), NEW r \in Seq(Step), NEW u,
         u = (p \o q) \o r
  PROVE  /\ u \in Seq(Step) /\ Len(u) = Len(p) + Len(q) + Len(r)
         /\ \A i \in 1..Len(p) : u[i] = p[i]
         /\ \A i \in 1..Len(q) : u[Len(p) + i] = q[i]
         /\ \A i \in 1..Len(r) : u[Len(p) + Len(q) + i] = r[i]
<1>1. /\ (p \o q) \o r \in Seq(Step) /\ Len((p \o q) \o r) = Len(p) + Len(q) + Len(r)
      /\ \A i \in 1..Len(p) : ((p \o q) \o r)[i] = p[i]
      /\ \A i \in 1..Len(q) : ((p \o q) \o r)[Len(p) + i] = q[i]
      /\ \A i \in 1..Len(r) : ((p \o q) \o r)[Len(p) + Len(q) + i] = r[i]
  BY ONLY Framed, p \in Seq(Step), q \in Seq(Step), r \in Seq(Step)
<1>2. QED BY ONLY <1>1, u = (p \o q) \o r, Zenon

LEMMA Fields ==
  /\ Guard \in Step /\ Guard.do = "guard" /\ Release \in Step /\ Release.do = "release"
  /\ Forget \in Step /\ Forget.do = "track" /\ Started \in Step /\ Started.do = "started"
  /\ \A m \in Messages : Adopt(m) \in Step /\ Adopt(m).do = "adopt" /\ Adopt(m).msg = m
  /\ \A m \in Messages : Delete(m) \in Step /\ Delete(m).do = "delete" /\ Delete(m).msg = m
  /\ \A s \in Screens :
       /\ Render(s) \in Step /\ Render(s).do = "render" /\ Render(s).screen = s
       /\ Announce(s) \in Step /\ Announce(s).do = "announce" /\ Announce(s).screen = s
       /\ Act(s) \in Step /\ Act(s).do = "act" /\ Act(s).screen = s
  /\ \A k \in Kinds, t \in Targets :
       /\ prompt(k, t) \in Screens /\ prompt(k, t).kind = k /\ prompt(k, t) # working
       /\ Stage(k, t) \in Step /\ Stage(k, t).do = "stage"
       /\ Stage(k, t).screen = prompt(k, t)
<1>1. \A k \in Kinds, t \in Targets :
        /\ prompt(k, t) \in Screens /\ prompt(k, t).kind = k
        /\ prompt(k, t).what = "confirm"
  BY DEF Screens, prompt, screen
<1>2. \A k \in Kinds, t \in Targets : prompt(k, t) # working BY <1>1, ScreensDiffer
<1>3. QED
  BY <1>1, <1>2
  DEF Guard, Release, Forget, Started, Adopt, Delete, Render, Announce, Act, Stage, step,
    Step, Names

LEMMA Worked ==
  ASSUME NEW w \in Results
  PROVE  /\ w \in Seq(Step)
         /\ \/ Len(w) = 1 /\ w[1] = Render(menu)
            \/ Len(w) = 2 /\ w[1] = Render(working) /\ w[2] = Render(menu)
            \/ \E t \in Targets : /\ Len(w) = 3 /\ w[1] = Render(working)
                                  /\ w[2] = Stage("rollback", t)
                                  /\ w[3] = Render(prompt("rollback", t))
<1>1. "rollback" \in Kinds BY DEF Kinds
<1>2. CASE w = <<Render(menu)>> BY <1>2, Fields, ScreensDiffer
<1>3. CASE w = Report BY <1>3, Fields, ScreensDiffer DEF Report
<1>4. ASSUME NEW t \in Targets,
             w = <<Render(working), Stage("rollback", t), Render(prompt("rollback", t))>>
      PROVE  /\ w \in Seq(Step) /\ Len(w) = 3 /\ w[1] = Render(working)
             /\ w[2] = Stage("rollback", t) /\ w[3] = Render(prompt("rollback", t))
  BY <1>1, <1>4, Fields, ScreensDiffer
<1>5. QED BY <1>2, <1>3, <1>4 DEF Results

LEMMA BeginStep ==
  ASSUME IInv, Unshared, NEW h \in Handlers, NEW u \in Seq(Step), Begin(h, u), Orderly(u)
  PROVE  IInv'
<1>1. todo' = [todo EXCEPT ![h] = u] /\ Quiet /\ ahead = <<>>
      /\ UNCHANGED <<shown, tracked, saved, staged, environment>>
  BY DEF Begin, Unshared, ahead
<1>2. Lined' /\ ahead' = u BY <1>1, Listed DEF IInv, Typed
<1>3. QED BY <1>1, <1>2, BeginFits

LEMMA ClickMenuStep ==
  ASSUME IInv, Unshared, NEW h \in Handlers, NEW m \in Messages, ClickMenu(h, m)
  PROVE  IInv'
<1> USE Fields, ScreensDiffer
<1>1. PICK w \in {<<Render(menu)>>, Report} : Begin(h, <<Adopt(m)>> \o w)
  BY DEF ClickMenu
<1>2. CASE w = <<Render(menu)>>
  <2>1. PICK u : u = <<Adopt(m)>> \o w OBVIOUS
  <2>2. u = <<Adopt(m), Render(menu)>> BY <1>2, <2>1, Pair
  <2>3. u \in Seq(Step) /\ Orderly(u) BY <2>2 DEF Orderly, Aimed, Draws
  <2>4. QED BY <1>1, <2>1, <2>3, BeginStep
<1>3. CASE w = Report
  <2>1. PICK u : u = <<Adopt(m)>> \o w OBVIOUS
  <2>2. w \in Seq(Step) /\ Len(w) = 2 /\ w[1] = Render(working) /\ w[2] = Render(menu)
    BY <1>3 DEF Report
  <2>3. <<Adopt(m)>> \in Seq(Step) /\ Len(<<Adopt(m)>>) = 1 OBVIOUS
  <2>4. /\ u \in Seq(Step) /\ Len(u) = 3 /\ u[1] = Adopt(m) /\ u[2] = Render(working)
        /\ u[3] = Render(menu)
    <3>1. /\ u \in Seq(Step) /\ Len(u) = 3 /\ u[1] = Adopt(m)
          /\ \A i \in 1..2 : u[1 + i] = w[i]
      <4>1. PICK p : p = <<Adopt(m)>> OBVIOUS
      <4>2. p \in Seq(Step) /\ Len(p) = 1 /\ p[1] = Adopt(m) BY <4>1
      <4>3. /\ u \in Seq(Step) /\ Len(u) = Len(p) + Len(w)
            /\ \A i \in 1..Len(p) : u[i] = p[i]
            /\ \A i \in 1..Len(w) : u[Len(p) + i] = w[i]
        <5>1. u = p \o w BY <2>1, <4>1
        <5>2. p \in Seq(Step) /\ w \in Seq(Step) BY <2>2, <4>2
        <5>3. QED BY ONLY <5>1, <5>2, Joined, SMTT(30)
      <4>4. QED BY <2>2, <4>2, <4>3
    <3>2. QED BY <2>2, <3>1
  <2>5. \A i \in 1..Len(u) : i = 1 \/ i = 2 \/ i = 3 BY <2>4
  <2>6. Orderly(u) BY <2>4, <2>5 DEF Orderly, Aimed, Draws
  <2>7. QED BY <1>1, <2>1, <2>4, <2>6, BeginStep
<1>4. QED BY <1>1, <1>2, <1>3

LEMMA ClickTargetStep ==
  ASSUME IInv, Unshared, NEW h \in Handlers, NEW m \in Messages, NEW k \in Kinds, NEW t \in Targets,
         ClickTarget(h, m, k, t)
  PROVE  IInv'
<1> USE Fields, ScreensDiffer
<1>1. PICK u : u = <<Adopt(m), Stage(k, t), Render(prompt(k, t))>> OBVIOUS
<1>2. u \in Seq(Step) BY <1>1
<1>3. /\ Len(u) = 3 /\ u[1] = Adopt(m) /\ u[2] = Stage(k, t)
      /\ u[3] = Render(prompt(k, t))
  BY <1>1
<1>4. \A i \in 1..Len(u) : i = 1 \/ i = 2 \/ i = 3 BY <1>3
<1>5. Orderly(u) BY <1>3, <1>4 DEF Orderly, Aimed, Draws
<1>6. Begin(h, u) BY <1>1 DEF ClickTarget
<1>7. QED BY <1>2, <1>5, <1>6, BeginStep

LEMMA ClickConfirmStep ==
  ASSUME IInv, Unshared, NEW h \in Handlers, NEW m \in Messages, ClickConfirm(h, m)
  PROVE  IInv'
<1> USE Fields, ScreensDiffer
<1>1. PICK s \in Screens : s = shown[m]
  BY DEF ClickConfirm, InChat, IInv, Typed
<1> s.what = "confirm" BY <1>1 DEF ClickConfirm
<1>2. ~failing /\ ~textCommands => Match(s)
  <2>1. ahead = <<>>
    BY DEF ClickConfirm, Begin, Unshared, ahead
  <2>2. ~Has(1, Draws) BY <2>1 DEF Has
  <2>3. QED BY <1>1, <2>2 DEF IInv, PromptInv
<1>3. CASE s.kind = "delete"
  <2>1. PICK u : u = <<Adopt(m), Act(s)>> OBVIOUS
  <2>2. u \in Seq(Step) /\ Orderly(u) BY <1>2, <2>1 DEF Orderly, Aimed, Draws
  <2>3. Begin(h, u) BY <1>1, <1>3, <2>1 DEF ClickConfirm
  <2>4. QED BY <2>2, <2>3, BeginStep
<1>4. CASE s.kind # "delete"
  <2>1. PICK u : u = <<Guard, Adopt(m), Act(s), Release>> OBVIOUS
  <2>2. u \in Seq(Step) BY <2>1
  <2>3. /\ Len(u) = 4 /\ u[1] = Guard /\ u[2] = Adopt(m) /\ u[3] = Act(s)
        /\ u[4] = Release
    BY <2>1
  <2>4. \A i \in 1..Len(u) : i = 1 \/ i = 2 \/ i = 3 \/ i = 4 BY <2>3
  <2>5. Orderly(u) BY <1>2, <2>3, <2>4 DEF Orderly, Aimed, Draws
  <2>6. Begin(h, u) BY <1>1, <1>4, <2>1 DEF ClickConfirm
  <2>7. QED BY <2>2, <2>5, <2>6, BeginStep
<1>5. QED BY <1>3, <1>4

LEMMA ClickHeavyStep ==
  ASSUME IInv, Unshared, NEW h \in Handlers, NEW m \in Messages, ClickHeavy(h, m)
  PROVE  IInv'
<1> USE Fields, ScreensDiffer
<1>1. PICK w \in Results : Begin(h, <<Guard, Adopt(m)>> \o w \o <<Release>>)
  BY DEF ClickHeavy
<1>2. PICK u : u = <<Guard, Adopt(m)>> \o w \o <<Release>> OBVIOUS
<1>3. PICK p, r : p = <<Guard, Adopt(m)>> /\ r = <<Release>> OBVIOUS
<1>4. /\ p \in Seq(Step) /\ Len(p) = 2 /\ p[1] = Guard /\ p[2] = Adopt(m)
      /\ r \in Seq(Step) /\ Len(r) = 1 /\ r[1] = Release
      /\ 1 \in 1..Len(p) /\ 2 \in 1..Len(p) /\ 1 \in 1..Len(r)
  BY <1>3
<1>5. w \in Seq(Step) /\ Len(w) \in Nat BY Worked
<1>6. /\ u \in Seq(Step) /\ Len(u) = Len(w) + 3 /\ u[1] = Guard /\ u[2] = Adopt(m)
      /\ \A i \in 1..Len(w) : u[2 + i] = w[i]
      /\ u[Len(w) + 3] = Release
  BY <1>2, <1>3, <1>4, <1>5, Framed
<1>7. CASE Len(w) = 1 /\ w[1] = Render(menu)
  <2>1. Len(u) = 4 /\ u[3] = Render(menu) /\ u[4] = Release BY <1>6, <1>7
  <2>2. \A i \in 1..Len(u) : i = 1 \/ i = 2 \/ i = 3 \/ i = 4 BY <2>1
  <2>3. Orderly(u) BY <1>6, <2>1, <2>2 DEF Orderly, Aimed, Draws
  <2>4. QED BY <1>1, <1>2, <1>6, <2>3, BeginStep
<1>8. CASE Len(w) = 2 /\ w[1] = Render(working) /\ w[2] = Render(menu)
  <2>1. Len(u) = 5 /\ u[3] = Render(working) /\ u[4] = Render(menu) /\ u[5] = Release
    BY <1>6, <1>8
  <2>2. \A i \in 1..Len(u) : i = 1 \/ i = 2 \/ i = 3 \/ i = 4 \/ i = 5 BY <2>1
  <2>3. Orderly(u) BY <1>6, <2>1, <2>2 DEF Orderly, Aimed, Draws
  <2>4. QED BY <1>1, <1>2, <1>6, <2>3, BeginStep
<1>9. ASSUME NEW t \in Targets, Len(w) = 3, w[1] = Render(working),
             w[2] = Stage("rollback", t), w[3] = Render(prompt("rollback", t))
      PROVE  IInv'
  <2>1. /\ Len(u) = 6 /\ u[3] = Render(working) /\ u[4] = Stage("rollback", t)
        /\ u[5] = Render(prompt("rollback", t)) /\ u[6] = Release
    BY <1>6, <1>9
  <2>2. \A i \in 1..Len(u) : i = 1 \/ i = 2 \/ i = 3 \/ i = 4 \/ i = 5 \/ i = 6
    BY <2>1
  <2>3. "rollback" \in Kinds BY DEF Kinds
  <2>4. Orderly(u) BY <1>6, <2>1, <2>2, <2>3 DEF Orderly, Aimed, Draws
  <2>5. QED BY <1>1, <1>2, <1>6, <2>4, BeginStep
<1>10. QED BY <1>7, <1>8, <1>9, Worked

LEMMA TextCommandStep ==
  ASSUME IInv, Unshared, NEW h \in Handlers, TextCommand(h)
  PROVE  IInv'
<1> USE Fields, ScreensDiffer
<1>1. PICK w : /\ \/ w = <<Render(menu)>> \/ w = Report
                  \/ w = <<Guard>> \o Report \o <<Release>>
               /\ Begin(h, <<Forget>> \o w)
  BY DEF TextCommand
<1>2. PICK u : u = <<Forget>> \o w OBVIOUS
<1>3. <<Forget>> \in Seq(Step) /\ Len(<<Forget>>) = 1 /\ textCommands
  BY DEF TextCommand
<1>4. Report \in Seq(Step) /\ Len(Report) = 2 /\ Report[1] = Render(working)
      /\ Report[2] = Render(menu)
  BY DEF Report
<1>5. CASE w = <<Render(menu)>>
  <2>1. u = <<Forget, Render(menu)>> BY <1>2, <1>5, Pair
  <2>2. u \in Seq(Step) /\ Orderly(u) BY <1>3, <2>1 DEF Orderly, Aimed, Draws
  <2>3. QED BY <1>1, <1>2, <2>2, BeginStep
<1>6. CASE w = Report
  <2>1. /\ u \in Seq(Step) /\ Len(u) = 3 /\ u[1] = Forget /\ u[2] = Render(working)
        /\ u[3] = Render(menu)
    <3>1. PICK e, q : e = <<Forget>> /\ q = Report OBVIOUS
    <3>2. /\ e \in Seq(Step) /\ Len(e) = 1 /\ e[1] = Forget
          /\ q \in Seq(Step) /\ Len(q) = 2 /\ q[1] = Render(working)
          /\ q[2] = Render(menu)
      BY <1>4, <3>1
    <3>3. /\ u \in Seq(Step) /\ Len(u) = Len(e) + Len(q)
          /\ \A i \in 1..Len(e) : u[i] = e[i]
          /\ \A i \in 1..Len(q) : u[Len(e) + i] = q[i]
      <4>1. u = e \o q BY <1>2, <1>6, <3>1
      <4>2. e \in Seq(Step) /\ q \in Seq(Step) BY <3>2
      <4>3. QED BY ONLY <4>1, <4>2, Joined, SMTT(30)
    <3>4. QED BY <3>2, <3>3
  <2>2. \A i \in 1..Len(u) : i = 1 \/ i = 2 \/ i = 3 BY <2>1
  <2>3. Orderly(u) BY <1>3, <2>1, <2>2 DEF Orderly, Aimed, Draws
  <2>4. QED BY <1>1, <1>2, <2>1, <2>3, BeginStep
<1>7. CASE w = <<Guard>> \o Report \o <<Release>>
  <2>1. PICK p, q, r : p = <<Guard>> /\ q = Report /\ r = <<Release>> OBVIOUS
  <2>2. /\ p \in Seq(Step) /\ Len(p) = 1 /\ p[1] = Guard
        /\ r \in Seq(Step) /\ Len(r) = 1 /\ r[1] = Release
    BY <2>1
  <2>3. /\ w \in Seq(Step) /\ Len(w) = 4 /\ w[1] = Guard /\ w[2] = Render(working)
        /\ w[3] = Render(menu) /\ w[4] = Release
    <3>1. q \in Seq(Step) /\ Len(q) = 2 /\ q[1] = Render(working) /\ q[2] = Render(menu)
      BY <1>4, <2>1
    <3>2. /\ w \in Seq(Step) /\ Len(w) = 4 /\ \A i \in 1..1 : w[i] = p[i]
          /\ \A i \in 1..2 : w[1 + i] = q[i]
          /\ \A i \in 1..1 : w[1 + 2 + i] = r[i]
      <4>1. /\ w \in Seq(Step) /\ Len(w) = Len(p) + Len(q) + Len(r)
            /\ \A i \in 1..Len(p) : w[i] = p[i]
            /\ \A i \in 1..Len(q) : w[Len(p) + i] = q[i]
            /\ \A i \in 1..Len(r) : w[Len(p) + Len(q) + i] = r[i]
        <5>1. w = (p \o q) \o r BY <1>7, <2>1
        <5>2. p \in Seq(Step) /\ q \in Seq(Step) /\ r \in Seq(Step) BY <2>2, <3>1
        <5>3. QED BY ONLY <5>1, <5>2, JoinedThrice, SMTT(30)
      <4>2. QED BY <2>2, <3>1, <4>1
    <3>3. QED BY <2>2, <3>1, <3>2
  <2>4. /\ u \in Seq(Step) /\ Len(u) = 5 /\ u[1] = Forget /\ u[2] = Guard
        /\ u[3] = Render(working) /\ u[4] = Render(menu) /\ u[5] = Release
    <3>1. /\ u \in Seq(Step) /\ Len(u) = 5 /\ u[1] = Forget
          /\ \A i \in 1..4 : u[1 + i] = w[i]
      <4>1. PICK e : e = <<Forget>> OBVIOUS
      <4>2. e \in Seq(Step) /\ Len(e) = 1 /\ e[1] = Forget BY <4>1
      <4>3. /\ u \in Seq(Step) /\ Len(u) = Len(e) + Len(w)
            /\ \A i \in 1..Len(e) : u[i] = e[i]
            /\ \A i \in 1..Len(w) : u[Len(e) + i] = w[i]
        <5>1. u = e \o w BY <1>2, <4>1
        <5>2. e \in Seq(Step) /\ w \in Seq(Step) BY <2>3, <4>2
        <5>3. QED BY ONLY <5>1, <5>2, Joined, SMTT(30)
      <4>4. QED BY <2>3, <4>2, <4>3
    <3>2. QED BY <2>3, <3>1
  <2>5. \A i \in 1..Len(u) : i = 1 \/ i = 2 \/ i = 3 \/ i = 4 \/ i = 5 BY <2>4
  <2>6. Orderly(u) BY <1>3, <2>4, <2>5 DEF Orderly, Aimed, Draws
  <2>7. QED BY <1>1, <1>2, <2>4, <2>6, BeginStep
<1>8. QED BY <1>1, <1>5, <1>6, <1>7

LEMMA PeriodicNotifyStep ==
  ASSUME IInv, Unshared, PeriodicNotify
  PROVE  IInv'
<1> USE Fields, ScreensDiffer
<1>1. PICK u : u = Orphan(tracked) \o <<Forget, Announce(menu)>> OBVIOUS
<1>2. Begin(Main, u) BY <1>1 DEF PeriodicNotify
<1>3. PICK q : q = <<Forget, Announce(menu)>> OBVIOUS
<1>4. q \in Seq(Step) /\ Len(q) = 2 /\ q[1] = Forget /\ q[2] = Announce(menu)
  BY <1>3
<1>5. CASE tracked = None
  <2>1. u = q BY <1>1, <1>3, <1>4, <1>5 DEF Orphan
  <2>2. \A i \in 1..Len(u) : i = 1 \/ i = 2
    <3>1. Len(u) = 2 BY <1>4, <2>1
    <3>2. QED BY ONLY <3>1
  <2>3. Orderly(u) BY <1>4, <1>5, <2>1, <2>2 DEF Orderly, Aimed, Draws
  <2>4. QED BY <1>2, <1>4, <2>1, <2>3, BeginStep, MenuAssumption
<1>6. CASE tracked # None
  <2>1. PICK p : p = <<Delete(tracked)>> OBVIOUS
  <2>2. tracked \in Messages BY <1>6 DEF IInv, Typed
  <2>3. p \in Seq(Step) /\ Len(p) = 1 /\ p[1] = Delete(tracked) BY <2>1, <2>2
  <2>4. u = p \o q BY <1>1, <1>3, <1>6, <2>1 DEF Orphan
  <2>5. /\ u \in Seq(Step) /\ Len(u) = Len(p) + Len(q)
        /\ \A i \in 1..Len(p) : u[i] = p[i]
        /\ \A i \in 1..Len(q) : u[Len(p) + i] = q[i]
    <3>1. p \in Seq(Step) /\ q \in Seq(Step) BY <1>4, <2>3
    <3>2. QED BY ONLY <2>4, <3>1, Joined, SMTT(30)
  <2>6. Len(u) = 3 /\ u[1] = Delete(tracked) /\ u[2] = Forget /\ u[3] = Announce(menu)
    BY <1>4, <2>3, <2>5
  <2>7. \A i \in 1..Len(u) : i = 1 \/ i = 2 \/ i = 3 BY <2>6
  <2>8. Orderly(u) BY <2>2, <2>6, <2>7 DEF Orderly, Aimed, Draws
  <2>9. QED BY <1>2, <2>5, <2>8, BeginStep, MenuAssumption
<1>7. QED BY <1>5, <1>6

(* What an installation leaves ahead once the new message is announced.  *)
LEMMA Reported ==
  ASSUME NEW w \in Results
  PROVE  /\ Tail(w) \in Seq(Step)
         /\ \/ Len(Tail(w)) = 0 /\ Head(w).screen = menu
            \/ /\ Head(w).screen = working
               /\ Len(Tail(w)) = 1 /\ Tail(w)[1] = Render(menu)
            \/ /\ Head(w).screen = working
               /\ \E t \in Targets : /\ Len(Tail(w)) = 2
                                     /\ Tail(w)[1] = Stage("rollback", t)
                                     /\ Tail(w)[2] = Render(prompt("rollback", t))
<1> USE Fields, ScreensDiffer
<1>1. PICK v : v = w OBVIOUS
<1>2. /\ v \in Seq(Step)
      /\ \/ Len(v) = 1 /\ v[1] = Render(menu)
         \/ Len(v) = 2 /\ v[1] = Render(working) /\ v[2] = Render(menu)
         \/ \E t \in Targets : /\ Len(v) = 3 /\ v[1] = Render(working)
                               /\ v[2] = Stage("rollback", t)
                               /\ v[3] = Render(prompt("rollback", t))
  BY ONLY <1>1, Worked, w \in Results
<1>3. v # <<>> BY <1>2
<1>4. /\ Head(v) = v[1] /\ Tail(v) \in Seq(Step) /\ Len(Tail(v)) = Len(v) - 1
      /\ \A i \in 1..Len(Tail(v)) : Tail(v)[i] = v[i + 1]
  BY ONLY <1>2, <1>3
<1>5. CASE Len(v) = 1 /\ v[1] = Render(menu) BY <1>1, <1>4, <1>5
<1>6. ASSUME Len(v) = 2, v[1] = Render(working), v[2] = Render(menu)
      PROVE  Head(v).screen = working /\ Len(Tail(v)) = 1 /\ Tail(v)[1] = Render(menu)
  <2>1. Head(v).screen = working /\ Len(Tail(v)) = 1 BY <1>4, <1>6
  <2>2. PICK q : q = Tail(v) OBVIOUS
  <2>3. Len(q) = 1 /\ \A i \in 1..Len(q) : q[i] = v[i + 1] BY <1>4, <2>1, <2>2
  <2>4. q[1] = v[2] BY ONLY <2>3
  <2>5. QED BY ONLY <1>6, <2>1, <2>2, <2>4
<1>7. ASSUME NEW t \in Targets, Len(v) = 3, v[1] = Render(working),
             v[2] = Stage("rollback", t), v[3] = Render(prompt("rollback", t))
      PROVE  /\ Head(v).screen = working /\ Len(Tail(v)) = 2
             /\ Tail(v)[1] = Stage("rollback", t)
             /\ Tail(v)[2] = Render(prompt("rollback", t))
  <2>1. Head(v).screen = working /\ Len(Tail(v)) = 2 BY <1>4, <1>7
  <2>2. PICK q : q = Tail(v) OBVIOUS
  <2>3. Len(q) = 2 /\ \A i \in 1..Len(q) : q[i] = v[i + 1] BY <1>4, <2>1, <2>2
  <2>4. q[1] = v[2] /\ q[2] = v[3] BY ONLY <2>3
  <2>5. QED BY ONLY <1>7, <2>1, <2>2, <2>4
<1>8. QED BY <1>1, <1>2, <1>4, <1>5, <1>6, <1>7

(* How the installation begins: the guard, the end of the menu it read, the *)
(* reset of its id and the announcement.                                    *)
LEMMA Opened ==
  ASSUME tracked \in Messages \cup {None}, NEW s \in Screens, NEW p,
         p = <<Guard>> \o Orphan(tracked) \o <<Forget, Announce(s)>>
  PROVE  /\ p \in Seq(Step) /\ p[1] = Guard
         /\ \/ tracked = None /\ Len(p) = 3 /\ p[2] = Forget /\ p[3] = Announce(s)
            \/ /\ tracked \in Messages /\ Len(p) = 4 /\ p[2] = Delete(tracked)
               /\ p[3] = Forget /\ p[4] = Announce(s)
<1> USE Fields, ScreensDiffer
<1>1. PICK g, q : g = <<Guard>> /\ q = <<Forget, Announce(s)>> OBVIOUS
<1>2. /\ g \in Seq(Step) /\ Len(g) = 1 /\ g[1] = Guard
      /\ q \in Seq(Step) /\ Len(q) = 2 /\ q[1] = Forget /\ q[2] = Announce(s)
  BY <1>1
<1>3. PICK o : o = Orphan(tracked) OBVIOUS
<1>4. /\ o \in Seq(Step)
      /\ \/ tracked = None /\ Len(o) = 0
         \/ tracked \in Messages /\ Len(o) = 1 /\ o[1] = Delete(tracked)
  BY <1>3 DEF Orphan
<1>5. p = (g \o o) \o q BY <1>1, <1>3
<1>6. /\ p \in Seq(Step) /\ Len(p) = Len(g) + Len(o) + Len(q)
      /\ \A i \in 1..Len(g) : p[i] = g[i]
      /\ \A i \in 1..Len(o) : p[Len(g) + i] = o[i]
      /\ \A i \in 1..Len(q) : p[Len(g) + Len(o) + i] = q[i]
  <2>1. g \in Seq(Step) /\ o \in Seq(Step) /\ q \in Seq(Step) BY <1>2, <1>4
  <2>2. QED BY ONLY <1>5, <2>1, JoinedThrice, SMTT(30)
<1>7. /\ p[1] = g[1] /\ p[1 + Len(o) + 1] = q[1] /\ p[1 + Len(o) + 2] = q[2]
      /\ Len(o) = 1 => p[2] = o[1]
  <2>1. Len(g) = 1 /\ Len(q) = 2 /\ Len(o) \in {0, 1} BY <1>2, <1>4
  <2>2. p[1] = g[1] BY ONLY <1>6, <2>1
  <2>3. p[1 + Len(o) + 1] = q[1] /\ p[1 + Len(o) + 2] = q[2] BY ONLY <1>6, <2>1
  <2>4. Len(o) = 1 => p[1 + 1] = o[1] BY ONLY <1>6, <2>1
  <2>5. QED BY ONLY <2>2, <2>3, <2>4
<1>8. CASE tracked = None /\ Len(o) = 0 BY ONLY <1>2, <1>6, <1>7, <1>8
<1>9. CASE tracked \in Messages /\ Len(o) = 1 /\ o[1] = Delete(tracked)
  BY ONLY <1>2, <1>6, <1>7, <1>9
<1>10. QED BY ONLY <1>4, <1>6, <1>8, <1>9

LEMMA PeriodicUpdateStep ==
  ASSUME IInv, Unshared, PeriodicUpdate
  PROVE  IInv'
<1> USE Fields, ScreensDiffer
<1>1. PICK w \in Results :
        Begin(Main, <<Guard>> \o Orphan(tracked) \o <<Forget, Announce(Head(w).screen)>>
                      \o Tail(w) \o <<Release>>)
  BY DEF PeriodicUpdate
<1>2. PICK s, q : s = Head(w).screen /\ q = Tail(w) OBVIOUS
<1>3. /\ q \in Seq(Step)
      /\ \/ Len(q) = 0 /\ s = menu
         \/ s = working /\ Len(q) = 1 /\ q[1] = Render(menu)
         \/ s = working /\ \E t \in Targets : /\ Len(q) = 2 /\ q[1] = Stage("rollback", t)
                                              /\ q[2] = Render(prompt("rollback", t))
  BY ONLY <1>2, Reported, w \in Results
<1>4. s \in Screens BY ONLY <1>3, ScreensDiffer
<1>5. PICK p : p = <<Guard>> \o Orphan(tracked) \o <<Forget, Announce(s)>> OBVIOUS
<1>6. /\ p \in Seq(Step) /\ p[1] = Guard
      /\ \/ tracked = None /\ Len(p) = 3 /\ p[2] = Forget /\ p[3] = Announce(s)
         \/ /\ tracked \in Messages /\ Len(p) = 4 /\ p[2] = Delete(tracked)
            /\ p[3] = Forget /\ p[4] = Announce(s)
  <2>1. tracked \in Messages \cup {None} BY DEF IInv, Typed
  <2>2. QED BY ONLY <1>4, <1>5, <2>1, Opened
<1>7. PICK r : r = <<Release>> OBVIOUS
<1>8. r \in Seq(Step) /\ Len(r) = 1 /\ r[1] = Release BY <1>7
<1>9. PICK u : u = (p \o q) \o r OBVIOUS
<1>10. Begin(Main, u) BY ONLY <1>1, <1>2, <1>5, <1>7, <1>9
<1>11. /\ u \in Seq(Step) /\ Len(u) = Len(p) + Len(q) + Len(r)
       /\ \A i \in 1..Len(p) : u[i] = p[i]
       /\ \A i \in 1..Len(q) : u[Len(p) + i] = q[i]
       /\ \A i \in 1..Len(r) : u[Len(p) + Len(q) + i] = r[i]
  <2>1. p \in Seq(Step) /\ q \in Seq(Step) /\ r \in Seq(Step) BY <1>3, <1>6, <1>8
  <2>2. QED BY ONLY <1>9, <2>1, JoinedThrice, SMTT(30)
<1>12. /\ \A i \in 1..4 : i <= Len(p) => u[i] = p[i]
       /\ \A i \in 1..2 : i <= Len(q) => u[Len(p) + i] = q[i]
       /\ u[Len(p) + Len(q) + 1] = Release
  BY <1>3, <1>6, <1>8, <1>11
<1>13. u[1] = Guard /\ Len(u) = Len(p) + Len(q) + 1 BY <1>6, <1>8, <1>11, <1>12
<1>14. CASE tracked = None /\ Len(p) = 3 /\ p[2] = Forget /\ p[3] = Announce(s)
  <2>1. u[2] = Forget /\ u[3] = Announce(s) BY <1>12, <1>14
  <2>2. CASE Len(q) = 0 /\ s = menu
    <3>1. Len(u) = 4 /\ u[4] = Release BY <1>12, <1>13, <1>14, <2>2
    <3>2. \A i \in 1..Len(u) : i = 1 \/ i = 2 \/ i = 3 \/ i = 4 BY <3>1
    <3>3. Orderly(u) BY <1>13, <1>14, <2>1, <2>2, <3>1, <3>2 DEF Orderly, Aimed, Draws
    <3>4. QED BY <1>10, <1>11, <3>3, BeginStep, MenuAssumption
  <2>3. CASE s = working /\ Len(q) = 1 /\ q[1] = Render(menu)
    <3>1. Len(u) = 5 /\ u[4] = Render(menu) /\ u[5] = Release
      BY <1>12, <1>13, <1>14, <2>3
    <3>2. \A i \in 1..Len(u) : i = 1 \/ i = 2 \/ i = 3 \/ i = 4 \/ i = 5 BY <3>1
    <3>3. Orderly(u) BY <1>13, <1>14, <2>1, <2>3, <3>1, <3>2 DEF Orderly, Aimed, Draws
    <3>4. QED BY <1>10, <1>11, <3>3, BeginStep, MenuAssumption
  <2>4. ASSUME s = working, NEW t \in Targets, Len(q) = 2, q[1] = Stage("rollback", t),
               q[2] = Render(prompt("rollback", t))
        PROVE  IInv'
    <3>1. /\ Len(u) = 6 /\ u[4] = Stage("rollback", t)
          /\ u[5] = Render(prompt("rollback", t)) /\ u[6] = Release
      BY <1>12, <1>13, <1>14, <2>4
    <3>2. \A i \in 1..Len(u) : i = 1 \/ i = 2 \/ i = 3 \/ i = 4 \/ i = 5 \/ i = 6
      BY <3>1
    <3>3. "rollback" \in Kinds BY DEF Kinds
    <3>4. Orderly(u) BY <1>13, <1>14, <2>1, <2>4, <3>1, <3>2, <3>3 DEF Orderly, Aimed, Draws
    <3>5. QED BY <1>10, <1>11, <3>4, BeginStep, MenuAssumption
  <2>5. QED BY ONLY <1>3, <2>2, <2>3, <2>4
<1>15. CASE /\ tracked \in Messages /\ Len(p) = 4 /\ p[2] = Delete(tracked)
            /\ p[3] = Forget /\ p[4] = Announce(s)
  <2>1. u[2] = Delete(tracked) /\ u[3] = Forget /\ u[4] = Announce(s)
    BY <1>12, <1>15
  <2>2. CASE Len(q) = 0 /\ s = menu
    <3>1. Len(u) = 5 /\ u[5] = Release BY <1>12, <1>13, <1>15, <2>2
    <3>2. \A i \in 1..Len(u) : i = 1 \/ i = 2 \/ i = 3 \/ i = 4 \/ i = 5 BY <3>1
    <3>3. Orderly(u) BY <1>13, <1>15, <2>1, <2>2, <3>1, <3>2 DEF Orderly, Aimed, Draws
    <3>4. QED BY <1>10, <1>11, <3>3, BeginStep, MenuAssumption
  <2>3. CASE s = working /\ Len(q) = 1 /\ q[1] = Render(menu)
    <3>1. Len(u) = 6 /\ u[5] = Render(menu) /\ u[6] = Release
      BY <1>12, <1>13, <1>15, <2>3
    <3>2. \A i \in 1..Len(u) : i = 1 \/ i = 2 \/ i = 3 \/ i = 4 \/ i = 5 \/ i = 6
      BY <3>1
    <3>3. Orderly(u) BY <1>13, <1>15, <2>1, <2>3, <3>1, <3>2 DEF Orderly, Aimed, Draws
    <3>4. QED BY <1>10, <1>11, <3>3, BeginStep, MenuAssumption
  <2>4. ASSUME s = working, NEW t \in Targets, Len(q) = 2, q[1] = Stage("rollback", t),
               q[2] = Render(prompt("rollback", t))
        PROVE  IInv'
    <3>1. /\ Len(u) = 7 /\ u[5] = Stage("rollback", t)
          /\ u[6] = Render(prompt("rollback", t)) /\ u[7] = Release
      BY <1>12, <1>13, <1>15, <2>4
    <3>2. \A i \in 1..Len(u) :
            i = 1 \/ i = 2 \/ i = 3 \/ i = 4 \/ i = 5 \/ i = 6 \/ i = 7
      BY <3>1
    <3>3. "rollback" \in Kinds BY DEF Kinds
    <3>4. Orderly(u) BY <1>13, <1>15, <2>1, <2>4, <3>1, <3>2, <3>3 DEF Orderly, Aimed, Draws
    <3>5. QED BY <1>10, <1>11, <3>4, BeginStep, MenuAssumption
  <2>5. QED BY ONLY <1>3, <2>2, <2>3, <2>4
<1>16. QED BY <1>6, <1>14, <1>15

-----------------------------------------------------------------------------
(* A start, and the invariant *)

LEMMA StartLines ==
  ASSUME todo = Startup, NEW u \in Seq(Step), u = <<Render(menu), Started>>
  PROVE  Lined /\ ahead = u
<1>1. todo \in [Handlers -> Seq(Step)] /\ todo[Main] = u /\ u # <<>>
      /\ \A h \in Handlers \ {Main} : todo[h] = <<>>
  BY MenuAssumption DEF Startup
<1>2. Alone /\ ~Idle(Main) BY <1>1 DEF Alone, Idle
<1>3. QED BY <1>1, <1>2, AtWork, MenuAssumption DEF Lined

LEMMA StartFits ==
  ASSUME NEW u, u = <<Render(menu), Started>>
  PROVE  /\ u \in Seq(Step) /\ Len(u) = 2 /\ u[1] = Render(menu) /\ u[2] = Started
         /\ \A i \in 1..Len(u) : u[i].do \in {"render", "started"}
BY Fields, ScreensDiffer

LEMMA InitStep == ASSUME Init PROVE IInv
<1> USE Fields, ScreensDiffer
<1>1. PICK u : u = <<Render(menu), Started>> OBVIOUS
<1>2. /\ u \in Seq(Step) /\ Len(u) = 2 /\ u[1] = Render(menu) /\ u[2] = Started
      /\ \A i \in 1..Len(u) : u[i].do \in {"render", "started"}
  BY <1>1, StartFits
<1>3. Lined /\ ahead = u
  BY <1>1, <1>2, StartLines DEF Init
<1>4. \A i \in 1..Len(ahead) : ahead[i].do \in {"render", "started"} BY <1>2, <1>3
<1>5. Typed BY <1>3, <1>4 DEF Init, Typed, Aimed
<1>6. SavedInv BY <1>4 DEF Init, SavedInv
<1>7. \A m \in Messages : shown[m] = Gone /\ ~Shown(m) BY DEF Init, Shown
<1>8. \A i \in 1..Len(ahead) : ahead[i].screen # working /\ ahead[i].screen.what # "confirm"
  <2>1. \A i \in 1..Len(u) : i = 1 \/ i = 2 BY <1>2
  <2>2. Started.screen = Gone BY DEF Started, step
  <2>3. Gone # working /\ menu.what # "confirm" /\ Gone.what # "confirm" OBVIOUS
  <2>4. Render(menu).screen = menu OBVIOUS
  <2>5. u[1].screen = menu /\ u[2].screen = Gone BY <1>2, <2>2, <2>4
  <2>6. QED BY ONLY <1>3, <2>1, <2>3, <2>5, ScreensDiffer
<1>9. BusyInv BY <1>7, <1>8 DEF BusyInv
<1>10. TidyInv BY <1>4, <1>7 DEF TidyInv
<1>11. PromptInv BY <1>4, <1>7, <1>8 DEF PromptInv, Match
<1>12. QED BY <1>5, <1>6, <1>9, <1>10, <1>11 DEF IInv

LEMMA RestartStep == ASSUME IInv, Restart PROVE IInv'
<1> USE Fields
<1>1. PICK u : u = <<Render(menu), Started>> OBVIOUS
<1>2. /\ u \in Seq(Step) /\ Len(u) = 2
      /\ \A i \in 1..Len(u) : u[i].do \in {"render", "started"}
  BY <1>1, StartFits
<1>3. Lined' /\ ahead' = u
  <2>1. /\ todo' \in [Handlers -> Seq(Step)] /\ todo'[Main] = u
        /\ \A h \in Handlers \ {Main} : todo'[h] = <<>>
    BY <1>1, <1>2, MenuAssumption DEF Restart, Startup
  <2>2. QED BY <1>2, <2>1, LinesUp, MenuAssumption
<1>4. \A i \in 1..Len(ahead') : ahead'[i].do \in {"render", "started"} BY <1>2, <1>3
<1>5. /\ UNCHANGED shown /\ tracked' = saved /\ saved' = saved
      /\ staged' = [k \in Kinds |-> None] /\ failing /\ failing' = failing
  BY DEF Restart, environment
<1>6. Typed'
  <2>1. \A i \in 1..Len(ahead') : Aimed(ahead'[i]) BY <1>4 DEF Aimed
  <2>2. \A i \in 1..Len(ahead') : Aimed(ahead[i])' BY <2>1 DEF Aimed
  <2>3. /\ shown' \in [Messages -> Screens \cup {Gone}]
        /\ {tracked', saved'} \subseteq Messages \cup {None}
    BY <1>5 DEF IInv, Typed
  <2>4. staged' \in [Kinds -> Targets \cup {None}] BY <1>5
  <2>5. QED BY <1>3, <2>2, <2>3, <2>4 DEF Typed
<1>7. SavedInv' BY <1>4, <1>5 DEF SavedInv
<1>8. QED BY <1>5, <1>6, <1>7 DEF IInv

LEMMA NextStep == ASSUME IInv, Unshared, [Next]_vars PROVE IInv'
<1>1. CASE UNCHANGED vars
  <2>1. UNCHANGED <<shown, tracked, saved, staged, todo, environment>>
    BY <1>1 DEF vars
  <2>2. UNCHANGED ahead /\ Lined' BY <2>1 DEF ahead, Quiet, Idle, IInv, Typed, Lined, Alone
  <2>3. Typed' BY <2>1, <2>2 DEF IInv, Typed, Aimed
  <2>4. SavedInv' BY <2>1, <2>2 DEF IInv, SavedInv, Has
  <2>5. ~failing => BusyInv'
    BY <2>1, <2>2 DEF IInv, BusyInv, Settles, Shows, Has
  <2>6. ~failing /\ ~textCommands => TidyInv' /\ PromptInv'
    BY <2>1, <2>2 DEF IInv, TidyInv, PromptInv, Shown, Match, Has
  <2>7. QED BY <2>1, <2>3, <2>4, <2>5, <2>6 DEF IInv, environment
<1>2. ASSUME NEW h \in Handlers, Work(h) PROVE IInv'
  BY <1>2, WorkStep
<1>3. ASSUME NEW h \in Handlers, Arrive(h) PROVE IInv'
  <2>1. ASSUME NEW m \in Messages,
               \/ ClickMenu(h, m) \/ ClickConfirm(h, m) \/ ClickHeavy(h, m)
               \/ \E k \in Kinds, t \in Targets : ClickTarget(h, m, k, t)
        PROVE  IInv'
    BY <1>3, <2>1, ClickMenuStep, ClickConfirmStep, ClickHeavyStep, ClickTargetStep
  <2>2. CASE TextCommand(h) BY <1>3, <2>2, TextCommandStep
  <2>3. QED BY <1>3, <2>1, <2>2 DEF Arrive
<1>4. QED
  BY <1>1, <1>2, <1>3, PeriodicNotifyStep, PeriodicUpdateStep, RestartStep DEF Next

LEMMA IInvHolds == Spec => [](Unshared => IInv)
<1>1. Init => (Unshared => IInv) BY InitStep
<1>2. (Unshared => IInv) /\ [Next]_vars => (Unshared => IInv)'
  <2>1. ASSUME [Next]_vars PROVE UNCHANGED overlapping
    <3>1. \A h \in Handlers : \A u : Begin(h, u) => UNCHANGED overlapping
      BY DEF Begin, environment
    <3>2. ASSUME NEW h \in Handlers, Arrive(h) PROVE UNCHANGED overlapping
      BY <3>1, <3>2 DEF Arrive, ClickMenu, ClickConfirm, ClickHeavy, ClickTarget, TextCommand
    <3>3. ASSUME NEW h \in Handlers, Work(h) PROVE UNCHANGED overlapping
      BY <3>3 DEF Work, DoGuard, DoRelease, DoStarted, DoAdopt, DoTrack, DoSave, DoDelete,
        DoRender, DoEdit, DoSend, SendFailed, Put, DoStage, DoClear, DoAct, environment
    <3>4. CASE PeriodicNotify \/ PeriodicUpdate \/ Restart
      BY <3>1, <3>4, MenuAssumption DEF PeriodicNotify, PeriodicUpdate, Restart, environment
    <3>5. QED BY <2>1, <3>2, <3>3, <3>4 DEF Next, vars, environment
  <2>2. QED BY <2>1, NextStep DEF Unshared
<1>3. QED BY <1>1, <1>2, PTL DEF Spec

-----------------------------------------------------------------------------
(* Updates that do not overlap: with two handlers at work at once none of   *)
(* this is so.                                                              *)

LEMMA Resting == ASSUME Quiet PROVE ahead = <<>> /\ \A i, names : ~Has(i, names)
<1>1. ahead = <<>> BY DEF ahead
<1>2. Len(ahead) = 0 BY <1>1
<1>3. QED BY <1>1, <1>2 DEF Has

(* state.go:49-51: if an update begins only when the one before it is       *)
(* handled, the id in UCI is that of the tracked message whenever no        *)
(* handler is at work, whatever failed and whenever the daemon restarted.   *)
THEOREM SavedStaysTracked == Spec => []SavedIsTracked
<1>1. (Unshared => IInv) => SavedIsTracked
  BY Resting DEF IInv, SavedInv, SavedIsTracked, Unshared
<1>2. QED BY <1>1, IInvHolds, PTL

(* status.go:147-149, bot.go:252-256: if updates do not overlap and calls    *)
(* to Telegram succeed, a handler never leaves a screen without buttons,    *)
(* slash commands included.                                                 *)
THEOREM BusyAlwaysEnds == Spec => []BusyEnds
<1>1. ASSUME IInv, ~failing, Quiet PROVE \A m \in Messages : shown[m] # working
  BY <1>1, Resting DEF IInv, BusyInv, Settles, Shows
<1>2. (Unshared => IInv) => BusyEnds BY <1>1 DEF BusyEnds, Unshared
<1>3. QED BY <1>2, IInvHolds, PTL

(* rollback.go:241, backup.go:155: if updates do not overlap, no slash      *)
(* command was sent and no call failed, what is confirmed is what the       *)
(* prompt shows, or nothing.                                                *)
THEOREM PromptsStayCurrent == Spec => []PromptsAreCurrent
<1>1. ASSUME IInv, ~textCommands, ~failing,
             NEW h \in Handlers, Does(h, {"act"}), NEW s, s = Now(h).screen
      PROVE  staged[s.kind] \in {s.target, None}
  <2>1. ahead \in Seq(Step) /\ ahead = todo[h] /\ ahead # <<>>
    BY <1>1, AtWork DEF IInv, Typed, Lined, Does
  <2>2. Head(ahead).do = "act" /\ s = Head(ahead).screen
    BY <1>1, <2>1 DEF Does, Now
  <2>3. 1 \in 1..Len(ahead) /\ ahead[1].do = "act" /\ s = ahead[1].screen
    BY <2>1, <2>2
  <2>4. Match(s) BY <1>1, <2>3 DEF IInv, PromptInv
  <2>5. s.what = "confirm" BY <1>1, <2>3 DEF IInv, Typed, Aimed
  <2>6. QED BY <2>4, <2>5 DEF Match
<1>2. (Unshared => IInv) => PromptsAreCurrent
  BY <1>1 DEF PromptsAreCurrent, ActsOnWhatIsShown, Unshared
<1>3. QED BY <1>2, IInvHolds, PTL

-----------------------------------------------------------------------------
(* Types, for handlers that overlap in any way.  Every step that is ahead of *)
(* a handler is about what it needs: a message to delete or to adopt, a      *)
(* prompt to stage, to act on or to clear, a screen to render.               *)

Prompts == {prompt(k, t) : k \in Kinds, t \in Targets}
ValidStep ==
  [do : {"guard", "release", "started", "track", "save"},
   msg : Messages \cup {None}, screen : {Gone}]
    \cup [do : {"adopt", "delete"}, msg : Messages, screen : {Gone}]
    \cup [do : {"stage", "act", "clear"}, msg : {None}, screen : Prompts]
    \cup [do : {"render", "announce", "put"},
          msg : Messages \cup {None}, screen : Screens]

TypeInv ==
  /\ shown \in [Messages -> Screens \cup {Gone}]
  /\ tracked \in Messages \cup {None} /\ saved \in Messages \cup {None}
  /\ staged \in [Kinds -> Targets \cup {None}]
  /\ busy \in BOOLEAN
  /\ {textCommands, failing, overlapping} \subseteq BOOLEAN /\ updates \in Nat
  /\ todo \in [Handlers -> Seq(ValidStep)]

LEMMA PromptScreens ==
  /\ Prompts \subseteq Screens
  /\ \A s \in Prompts : s.kind \in Kinds /\ s.target \in Targets
  /\ \A s \in Screens \cup {Gone} : s.what = "confirm" => s \in Prompts
<1>1. \A k \in Kinds, t \in Targets : prompt(k, t).kind = k /\ prompt(k, t).target = t
  BY DEF prompt, screen
<1>2. \A s \in Prompts : s.kind \in Kinds /\ s.target \in Targets
  BY <1>1 DEF Prompts
<1>3. Prompts \subseteq Screens BY DEF Prompts, Screens
<1>4. \A s \in Screens \cup {Gone} : s = menu \/ s = working \/ s = Gone \/ s \in Prompts
  BY DEF Screens, Prompts
<1>5. QED BY <1>2, <1>3, <1>4, ScreensDiffer

LEMMA ValidSteps ==
  /\ Guard \in ValidStep /\ Release \in ValidStep /\ Started \in ValidStep
  /\ Forget \in ValidStep
  /\ \A m \in Messages \cup {None} : Track(m) \in ValidStep /\ Save(m) \in ValidStep
  /\ \A m \in Messages : Adopt(m) \in ValidStep /\ Delete(m) \in ValidStep
  /\ \A s \in Prompts : Act(s) \in ValidStep /\ Clear(s) \in ValidStep
  /\ \A k \in Kinds, t \in Targets : Stage(k, t) \in ValidStep
  /\ \A s \in Screens : Render(s) \in ValidStep /\ Announce(s) \in ValidStep
  /\ \A m \in Messages \cup {None}, s \in Screens : step("put", m, s) \in ValidStep
<1>1. \A k \in Kinds, t \in Targets : prompt(k, t) \in Prompts BY DEF Prompts
<1>2. \A k \in Kinds, t \in Targets : Stage(k, t) \in ValidStep
  BY <1>1 DEF Stage, step, ValidStep
<1>3. Guard \in ValidStep /\ Release \in ValidStep /\ Started \in ValidStep
  BY DEF Guard, Release, Started, step, ValidStep
<1>4. Forget \in ValidStep
  BY DEF Forget, step, ValidStep
<1>5. \A m \in Messages \cup {None} : Track(m) \in ValidStep /\ Save(m) \in ValidStep
  BY DEF Track, Save, step, ValidStep
<1>6. \A m \in Messages : Adopt(m) \in ValidStep /\ Delete(m) \in ValidStep
  BY DEF Adopt, Delete, step, ValidStep
<1>7. \A s \in Prompts : Act(s) \in ValidStep /\ Clear(s) \in ValidStep
  BY DEF Act, Clear, step, ValidStep
<1>8. \A s \in Screens : Render(s) \in ValidStep /\ Announce(s) \in ValidStep
  BY DEF Render, Announce, step, ValidStep
<1>9. \A m \in Messages \cup {None}, s \in Screens : step("put", m, s) \in ValidStep
  BY DEF step, ValidStep
<1>10. QED BY <1>2, <1>3, <1>4, <1>5, <1>6, <1>7, <1>8, <1>9

(* What a step is about *)
LEMMA StepsAreAbout ==
  ASSUME NEW s \in ValidStep
  PROVE  /\ s.msg \in Messages \cup {None} /\ s.screen \in Screens \cup {Gone}
         /\ s.do \in {"adopt", "delete"} => s.msg \in Messages
         /\ s.do \in {"stage", "act", "clear"} => s.screen \in Prompts
         /\ s.do \in {"render", "announce", "put"} => s.screen \in Screens
BY PromptScreens DEF ValidStep

LEMMA Continued ==
  ASSUME TypeInv, NEW h \in Handlers, ~Idle(h)
  PROVE  /\ Now(h) \in ValidStep /\ Tail(todo[h]) \in Seq(ValidStep)
         /\ Done(h) => todo' \in [Handlers -> Seq(ValidStep)]
         /\ \A u \in Seq(ValidStep) :
              DoneThen(h, u) => todo' \in [Handlers -> Seq(ValidStep)]
<1>1. todo[h] \in Seq(ValidStep) /\ todo[h] # <<>> BY DEF TypeInv, Idle
<1>2. Now(h) \in ValidStep /\ Tail(todo[h]) \in Seq(ValidStep) BY <1>1 DEF Now
<1>3. ASSUME NEW u \in Seq(ValidStep) PROVE u \o Tail(todo[h]) \in Seq(ValidStep)
  BY <1>2
<1>4. Done(h) => todo' \in [Handlers -> Seq(ValidStep)]
  BY <1>2 DEF Done, TypeInv
<1>5. ASSUME NEW u \in Seq(ValidStep), DoneThen(h, u)
      PROVE  todo' \in [Handlers -> Seq(ValidStep)]
  BY <1>3, <1>5 DEF DoneThen, TypeInv
<1>6. QED BY <1>2, <1>4, <1>5

(* Lists that the steps are put together from *)
LEMMA ValidLists ==
  /\ Report \in Seq(ValidStep) /\ <<Render(menu)>> \in Seq(ValidStep)
  /\ <<Release>> \in Seq(ValidStep) /\ <<Guard>> \in Seq(ValidStep)
  /\ <<Forget>> \in Seq(ValidStep)
  /\ \A m \in Messages : <<Adopt(m)>> \in Seq(ValidStep)
  /\ \A m \in Messages \cup {None} : Orphan(m) \in Seq(ValidStep)
<1> USE ValidSteps, ScreensDiffer
<1>1. Report \in Seq(ValidStep) BY DEF Report
<1>2. \A m \in Messages \cup {None} : Orphan(m) \in Seq(ValidStep) BY DEF Orphan
<1>3. QED BY <1>1, <1>2

LEMMA ValidResults ==
  ASSUME NEW w \in Results
  PROVE  /\ w \in Seq(ValidStep) /\ Tail(w) \in Seq(ValidStep)
         /\ Head(w).screen \in Screens
<1> USE ValidSteps, ValidLists, ScreensDiffer
<1>1. \A k \in Kinds, t \in Targets : prompt(k, t) \in Screens BY DEF Screens
<1>2. \A t \in Targets : Stage("rollback", t) \in ValidStep
                         /\ Render(prompt("rollback", t)) \in ValidStep
  BY <1>1 DEF Kinds
<1>3. w \in Seq(ValidStep) /\ w # <<>>
  <2>1. CASE w = <<Render(menu)>> BY <2>1
  <2>2. CASE w = Report BY <2>2 DEF Report
  <2>3. ASSUME NEW t \in Targets,
               w = <<Render(working), Stage("rollback", t), Render(prompt("rollback", t))>>
        PROVE  w \in Seq(ValidStep) /\ w # <<>>
    <3>1. /\ Render(working) \in ValidStep /\ Stage("rollback", t) \in ValidStep
          /\ Render(prompt("rollback", t)) \in ValidStep
      BY <1>2
    <3>2. QED BY ONLY <2>3, <3>1
  <2>4. QED BY <2>1, <2>2, <2>3 DEF Results
<1>4. Tail(w) \in Seq(ValidStep) BY <1>3
<1>5. Head(w).screen \in Screens BY Reported
<1>6. QED BY <1>3, <1>4, <1>5

LEMMA TypesBegin ==
  ASSUME TypeInv, NEW h \in Handlers, NEW u \in Seq(ValidStep), Begin(h, u)
  PROVE  TypeInv'
BY DEF TypeInv, Begin, environment

LEMMA TypesArrive ==
  ASSUME TypeInv, NEW h \in Handlers, Arrive(h)
  PROVE  TypeInv'
<1> USE ValidLists, ValidSteps
<1>1. ASSUME NEW m \in Messages, ClickMenu(h, m) PROVE TypeInv'
  <2>1. PICK work \in {<<Render(menu)>>, Report} : Begin(h, <<Adopt(m)>> \o work)
    BY <1>1 DEF ClickMenu
  <2>2. <<Adopt(m)>> \in Seq(ValidStep) /\ work \in Seq(ValidStep) OBVIOUS
  <2>3. <<Adopt(m)>> \o work \in Seq(ValidStep) BY ONLY <2>2
  <2>4. QED BY <2>1, <2>3, TypesBegin
<1>2. ASSUME NEW m \in Messages, ClickConfirm(h, m) PROVE TypeInv'
  <2>1. shown[m] \in Prompts BY <1>2, PromptScreens DEF ClickConfirm, TypeInv
  <2>2. /\ Adopt(m) \in ValidStep /\ Act(shown[m]) \in ValidStep
        /\ Guard \in ValidStep /\ Release \in ValidStep
    BY <2>1
  <2>3. /\ <<Adopt(m), Act(shown[m])>> \in Seq(ValidStep)
        /\ <<Guard, Adopt(m), Act(shown[m]), Release>> \in Seq(ValidStep)
    BY ONLY <2>2
  <2>4. \E u \in Seq(ValidStep) : Begin(h, u) BY <1>2, <2>3 DEF ClickConfirm
  <2>5. QED BY <2>4, TypesBegin
<1>3. ASSUME NEW m \in Messages, ClickHeavy(h, m) PROVE TypeInv'
  <2>1. PICK work \in Results : Begin(h, <<Guard, Adopt(m)>> \o work \o <<Release>>)
    BY <1>3 DEF ClickHeavy
  <2>2. <<Guard, Adopt(m)>> \in Seq(ValidStep) OBVIOUS
  <2>3. work \in Seq(ValidStep) /\ <<Release>> \in Seq(ValidStep) BY ValidResults
  <2>4. <<Guard, Adopt(m)>> \o work \o <<Release>> \in Seq(ValidStep)
    BY ONLY <2>2, <2>3
  <2>5. QED BY <2>1, <2>4, TypesBegin
<1>4. ASSUME NEW m \in Messages, NEW k \in Kinds, NEW t \in Targets,
             ClickTarget(h, m, k, t)
      PROVE  TypeInv'
  <2>1. prompt(k, t) \in Screens BY DEF Screens
  <2>2. /\ Adopt(m) \in ValidStep /\ Stage(k, t) \in ValidStep
        /\ Render(prompt(k, t)) \in ValidStep
    BY <2>1
  <2>3. <<Adopt(m), Stage(k, t), Render(prompt(k, t))>> \in Seq(ValidStep)
    BY ONLY <2>2
  <2>4. QED BY <1>4, <2>3, TypesBegin DEF ClickTarget
<1>5. ASSUME TextCommand(h) PROVE TypeInv'
  <2>1. PICK work \in {<<Render(menu)>>, Report, <<Guard>> \o Report \o <<Release>>} :
          Begin(h, <<Forget>> \o work)
    BY <1>5 DEF TextCommand
  <2>2. /\ Report \in Seq(ValidStep) /\ <<Release>> \in Seq(ValidStep)
        /\ <<Guard>> \in Seq(ValidStep) /\ <<Forget>> \in Seq(ValidStep)
        /\ <<Render(menu)>> \in Seq(ValidStep)
    OBVIOUS
  <2>3. <<Guard>> \o Report \o <<Release>> \in Seq(ValidStep) BY ONLY <2>2
  <2>4. work \in Seq(ValidStep) BY <2>1, <2>2, <2>3
  <2>5. <<Forget>> \o work \in Seq(ValidStep) BY ONLY <2>2, <2>4
  <2>6. QED BY <2>1, <2>5, TypesBegin
<1>6. QED BY <1>1, <1>2, <1>3, <1>4, <1>5 DEF Arrive

LEMMA TypesPeriodic ==
  ASSUME TypeInv, PeriodicNotify \/ PeriodicUpdate
  PROVE  TypeInv'
<1>1. Main \in Handlers BY MenuAssumption
<1>2. /\ Orphan(tracked) \in Seq(ValidStep) /\ <<Guard>> \in Seq(ValidStep)
      /\ <<Release>> \in Seq(ValidStep)
  BY ValidLists DEF TypeInv
<1>3. \A s \in Screens : <<Forget, Announce(s)>> \in Seq(ValidStep) BY ValidSteps
<1>4. CASE PeriodicNotify
  <2>1. <<Forget, Announce(menu)>> \in Seq(ValidStep) BY <1>3, ScreensDiffer
  <2>2. Orphan(tracked) \o <<Forget, Announce(menu)>> \in Seq(ValidStep)
    BY ONLY <1>2, <2>1
  <2>3. QED BY <1>1, <1>4, <2>2, TypesBegin DEF PeriodicNotify
<1>5. CASE PeriodicUpdate
  <2>1. PICK w \in Results :
          Begin(Main, <<Guard>> \o Orphan(tracked) \o <<Forget, Announce(Head(w).screen)>>
                        \o Tail(w) \o <<Release>>)
    BY <1>5 DEF PeriodicUpdate
  <2>2. Tail(w) \in Seq(ValidStep) /\ Head(w).screen \in Screens BY ValidResults
  <2>3. <<Forget, Announce(Head(w).screen)>> \in Seq(ValidStep) BY <1>3, <2>2
  <2>4. <<Guard>> \o Orphan(tracked) \o <<Forget, Announce(Head(w).screen)>>
          \o Tail(w) \o <<Release>> \in Seq(ValidStep)
    BY ONLY <1>2, <2>2, <2>3
  <2>5. QED BY <1>1, <2>1, <2>4, TypesBegin
<1>6. QED BY <1>4, <1>5

LEMMA TypesWork ==
  ASSUME TypeInv, NEW h \in Handlers, Work(h)
  PROVE  TypeInv'
<1>1. ~Idle(h)
  BY DEF Work, Does, DoGuard, DoRelease, DoStarted, DoAdopt, DoTrack, DoSave, DoDelete,
         DoRender, DoEdit, DoSend, SendFailed, Sends, DoStage, DoClear, DoAct
<1>2. PICK s \in ValidStep : s = Now(h) BY <1>1, Continued
<1>3. /\ s.msg \in Messages \cup {None} /\ s.screen \in Screens \cup {Gone}
      /\ s.do \in {"adopt", "delete"} => s.msg \in Messages
      /\ s.do \in {"stage", "act", "clear"} => s.screen \in Prompts
      /\ s.do \in {"render", "announce", "put"} => s.screen \in Screens
  BY StepsAreAbout
<1>4. \A names : Does(h, names) => s.do \in names BY <1>2 DEF Does
<1>5. Done(h) => todo' \in [Handlers -> Seq(ValidStep)] BY <1>1, Continued
<1>6. \A u \in Seq(ValidStep) : DoneThen(h, u) => todo' \in [Handlers -> Seq(ValidStep)]
  BY <1>1, Continued
<1>7. \A m, old \in Messages \cup {None} : setMenuID(m, old) \in Seq(ValidStep)
  BY ValidSteps DEF setMenuID
<1>8. \A m \in Messages, old \in Messages \cup {None} :
        adoptMenuID(m, old) \in Seq(ValidStep)
  <2>1. ASSUME NEW m \in Messages, NEW old \in Messages \cup {None}
        PROVE  <<Save(m)>> \o Orphan(old) \in Seq(ValidStep)
    <3>1. <<Save(m)>> \in Seq(ValidStep) /\ Orphan(old) \in Seq(ValidStep)
      BY ValidSteps, ValidLists
    <3>2. QED BY ONLY <3>1
  <2>2. QED BY <2>1 DEF adoptMenuID
<1>9. CASE DoGuard(h)
  <2>1. todo' \in [Handlers -> Seq(ValidStep)]
    <3>1. CASE busy /\ todo' = [todo EXCEPT ![h] = <<>>] BY <3>1 DEF TypeInv
    <3>2. QED BY <1>5, <1>9, <3>1 DEF DoGuard
  <2>2. QED BY <1>9, <2>1 DEF DoGuard, TypeInv, environment
<1>10. CASE DoRelease(h) \/ DoStarted(h)
  BY <1>5, <1>10 DEF DoRelease, DoStarted, TypeInv, environment
<1>11. CASE DoAdopt(h)
  <2>1. s.msg \in Messages BY <1>3, <1>4, <1>11 DEF DoAdopt
  <2>2. todo' \in [Handlers -> Seq(ValidStep)]
    BY <1>2, <1>6, <1>8, <1>11, <2>1 DEF DoAdopt, TypeInv
  <2>3. QED BY <1>2, <1>11, <2>1, <2>2 DEF DoAdopt, TypeInv, environment
<1>12. CASE DoTrack(h)
  <2>1. todo' \in [Handlers -> Seq(ValidStep)]
    BY <1>2, <1>3, <1>6, <1>7, <1>12 DEF DoTrack, TypeInv
  <2>2. QED BY <1>2, <1>3, <1>12, <2>1 DEF DoTrack, TypeInv, environment
<1>13. CASE DoSave(h)
  BY <1>2, <1>3, <1>5, <1>13 DEF DoSave, TypeInv, environment
<1>14. CASE DoDelete(h)
  BY <1>5, <1>14 DEF DoDelete, TypeInv, environment
<1>15. CASE DoRender(h)
  <2>1. s.screen \in Screens BY <1>3, <1>4, <1>15 DEF DoRender
  <2>2. <<step("put", tracked, s.screen)>> \in Seq(ValidStep)
    BY <2>1, ValidSteps DEF TypeInv
  <2>3. QED BY <1>2, <1>6, <1>15, <2>2 DEF DoRender, TypeInv, environment
<1>16. ASSUME NEW m \in Messages, Put(h, m) PROVE TypeInv'
  <2>1. <<Track(m)>> \in Seq(ValidStep) BY ValidSteps
  <2>2. todo' \in [Handlers -> Seq(ValidStep)] BY <1>6, <1>16, <2>1 DEF Put
  <2>3. shown' \in [Messages -> Screens \cup {Gone}]
    BY <1>2, <1>3, <1>16 DEF Put, TypeInv
  <2>4. QED BY <1>16, <2>2, <2>3 DEF Put, TypeInv, environment
<1>17. CASE DoEdit(h) \/ DoSend(h)
  BY <1>16, <1>17 DEF DoEdit, DoSend, InChat, Fresh
<1>18. CASE SendFailed(h) BY <1>5, <1>18 DEF SendFailed, TypeInv, environment
<1>19. CASE DoStage(h) \/ DoClear(h)
  <2>1. s.screen \in Prompts BY <1>3, <1>4, <1>19 DEF DoStage, DoClear
  <2>2. s.screen.kind \in Kinds /\ s.screen.target \in Targets BY <2>1, PromptScreens
  <2>3. staged' \in [Kinds -> Targets \cup {None}]
    BY <1>2, <1>19, <2>2 DEF DoStage, DoClear, setTarget, TypeInv
  <2>4. QED BY <1>5, <1>19, <2>3 DEF DoStage, DoClear, TypeInv, environment
<1>20. CASE DoAct(h)
  <2>1. s.screen \in Prompts BY <1>3, <1>4, <1>20 DEF DoAct
  <2>2. /\ <<Render(menu)>> \in Seq(ValidStep) /\ Report \in Seq(ValidStep)
        /\ <<Clear(s.screen), Render(menu)>> \in Seq(ValidStep)
    BY <2>1, ValidSteps, ValidLists, ScreensDiffer
  <2>3. \E u \in Seq(ValidStep) : DoneThen(h, u) BY <1>2, <1>20, <2>2 DEF DoAct
  <2>4. todo' \in [Handlers -> Seq(ValidStep)] BY <1>6, <2>3
  <2>5. QED BY <1>20, <2>4 DEF DoAct, TypeInv, environment
<1>21. QED BY <1>9, <1>10, <1>11, <1>12, <1>13, <1>14, <1>15, <1>17, <1>18, <1>19, <1>20
       DEF Work

LEMMA StartupIsValid == Startup \in [Handlers -> Seq(ValidStep)]
<1>1. Render(menu) \in ValidStep /\ Started \in ValidStep BY ValidSteps, ScreensDiffer
<1>2. <<Render(menu), Started>> \in Seq(ValidStep) /\ <<>> \in Seq(ValidStep) BY <1>1
<1>3. QED BY <1>2 DEF Startup

LEMMA TypesStep == ASSUME TypeInv, [Next]_vars PROVE TypeInv'
<1>1. CASE UNCHANGED vars BY <1>1 DEF vars, environment, TypeInv
<1>2. CASE Restart BY <1>2, StartupIsValid DEF Restart, environment, TypeInv
<1>3. ASSUME NEW h \in Handlers, Arrive(h) \/ Work(h) PROVE TypeInv'
  BY <1>3, TypesArrive, TypesWork
<1>4. QED BY <1>1, <1>2, <1>3, TypesPeriodic DEF Next

(* Whatever handlers are at work together and whatever is deleted, restarted *)
(* or fails: a handler adopts or deletes a message, never 0, and what is     *)
(* staged is a target of the list that was offered, or nothing.              *)
THEOREM TypeCorrect == Spec => []TypeOK
<1>1. Init => TypeInv
  BY StartupIsValid, MenuAssumption DEF Init, TypeInv
<1>2. TypeInv /\ [Next]_vars => TypeInv' BY TypesStep
<1>3. TypeInv => TypeOK
  <2>1. ASSUME TypeInv, NEW h \in Handlers, NEW i \in DOMAIN todo[h]
        PROVE  /\ todo[h][i].msg \in Messages \cup {None}
               /\ todo[h][i].screen \in Screens \cup {Gone}
               /\ todo[h][i].do \in {"adopt", "delete"} => todo[h][i].msg # None
    <3>1. todo[h] \in Seq(ValidStep) BY <2>1 DEF TypeInv
    <3>2. todo[h][i] \in ValidStep BY <2>1, <3>1
    <3>3. QED BY <3>2, StepsAreAbout, MenuAssumption
  <2>2. QED BY <2>1 DEF TypeInv, TypeOK
<1>4. QED BY <1>1, <1>2, <1>3, PTL DEF Spec

-----------------------------------------------------------------------------
(* A menu remains, however handlers overlap.  Steps that may take the last  *)
(* screen with buttons away are followed by one that shows such a screen,   *)
(* and no guard that is refused lies between them.                          *)

Mends(s) == s.do = "act" \/ (s.do \in Draws /\ s.screen # working)
Risks(s) == s.do \in {"adopt", "delete"} \/ (s.do \in Draws /\ s.screen = working)

Between(t, i, j) == \A n \in i..j : t[n].do # "guard"
Mending(t) == \E j \in 1..Len(t) : Mends(t[j]) /\ Between(t, 1, j)
Covered(t) == \A i \in 1..Len(t) : Risks(t[i]) =>
                \E j \in (i + 1)..Len(t) : Mends(t[j]) /\ Between(t, i + 1, j)

RemainInv ==
  ~failing => /\ \A h \in Handlers : Covered(todo[h])
              /\ \/ \E m \in Messages : Usable(m)
                 \/ \E h \in Handlers : Mending(todo[h])

LEMMA TailCovered ==
  ASSUME NEW t \in Seq(ValidStep), t # <<>>, Covered(t)
  PROVE  /\ Covered(Tail(t))
         /\ Risks(Head(t)) => Mending(Tail(t))
         /\ Mending(t) /\ ~Mends(Head(t)) => Mending(Tail(t)) /\ Head(t).do # "guard"
<1> PICK q : q = Tail(t) OBVIOUS
<1>1. q = Tail(t) /\ q \in Seq(ValidStep) OBVIOUS
<1>2. /\ Len(t) = Len(q) + 1 /\ Len(q) \in Nat /\ Head(t) = t[1]
      /\ \A i \in 1..Len(q) : q[i] = t[i + 1]
  OBVIOUS
<1>3. ASSUME NEW i \in 1..Len(t), NEW j \in (i + 1)..Len(t), Mends(t[j]), Between(t, i + 1, j)
      PROVE  j - 1 \in i..Len(q) /\ Mends(q[j - 1]) /\ Between(q, i, j - 1)
  <2>1. j - 1 \in i..Len(q) /\ j - 1 \in 1..Len(q) /\ (j - 1) + 1 = j BY <1>2
  <2>2. Mends(q[j - 1]) BY <1>2, <1>3, <2>1
  <2>3. ASSUME NEW n \in i..(j - 1) PROVE q[n].do # "guard"
    <3>1. n \in 1..Len(q) /\ n + 1 \in (i + 1)..j BY <1>2, <2>1
    <3>2. QED BY <1>2, <1>3, <3>1 DEF Between
  <2>4. QED BY <2>1, <2>2, <2>3 DEF Between
<1>4. Covered(q)
  <2>1. ASSUME NEW i \in 1..Len(q), Risks(q[i])
        PROVE  \E j \in (i + 1)..Len(q) : Mends(q[j]) /\ Between(q, i + 1, j)
    <3>1. i + 1 \in 1..Len(t) /\ Risks(t[i + 1]) BY <1>2, <2>1
    <3>2. PICK j \in ((i + 1) + 1)..Len(t) : Mends(t[j]) /\ Between(t, (i + 1) + 1, j)
      BY <3>1 DEF Covered
    <3>3. QED BY <1>3, <3>1, <3>2
  <2>2. QED BY <2>1 DEF Covered
<1>5. ASSUME Risks(t[1]) PROVE Mending(q)
  <2>1. 1 \in 1..Len(t) BY <1>2
  <2>2. PICK j \in (1 + 1)..Len(t) : Mends(t[j]) /\ Between(t, 1 + 1, j)
    BY <1>5, <2>1 DEF Covered
  <2>3. QED BY <1>3, <2>1, <2>2 DEF Mending
<1>6. ASSUME Mending(t), ~Mends(t[1]) PROVE Mending(q) /\ t[1].do # "guard"
  <2>1. PICK j \in 1..Len(t) : Mends(t[j]) /\ Between(t, 1, j) BY <1>6 DEF Mending
  <2>2. j # 1 BY <1>6, <2>1
  <2>3. 1 \in 1..Len(t) /\ j \in (1 + 1)..Len(t) /\ Between(t, 1 + 1, j) /\ t[1].do # "guard"
    BY <1>2, <2>1, <2>2 DEF Between
  <2>4. QED BY <1>3, <2>1, <2>3 DEF Mending
<1>7. QED BY <1>1, <1>2, <1>4, <1>5, <1>6

(* p is followed by q: what p risks is mended in p, or by q. *)
LEMMA CatCovered ==
  ASSUME NEW p \in Seq(ValidStep), NEW q \in Seq(ValidStep), Covered(q),
         \/ Covered(p)
         \/ /\ Mending(q)
            /\ \A i \in 1..Len(p) : Risks(p[i]) => Between(p, i + 1, Len(p))
  PROVE  p \o q \in Seq(ValidStep) /\ Covered(p \o q)
<1> PICK u : u = p \o q OBVIOUS
<1>1. u = p \o q /\ u \in Seq(ValidStep) OBVIOUS
<1>2. /\ Len(u) = Len(p) + Len(q) /\ Len(p) \in Nat /\ Len(q) \in Nat
      /\ \A i \in 1..Len(p) : u[i] = p[i]
      /\ \A i \in 1..Len(q) : u[Len(p) + i] = q[i]
  OBVIOUS
<1>3. ASSUME NEW a \in 1..(Len(q) + 1), NEW j \in a..Len(q), Mends(q[j]), Between(q, a, j)
      PROVE  /\ Len(p) + j \in 1..Len(u) /\ Mends(u[Len(p) + j])
             /\ Between(u, Len(p) + a, Len(p) + j)
  <2>1. ASSUME NEW n \in (Len(p) + a)..(Len(p) + j) PROVE u[n].do # "guard"
    <3>1. n - Len(p) \in a..j /\ n - Len(p) \in 1..Len(q) /\ Len(p) + (n - Len(p)) = n
      BY <1>2
    <3>2. u[Len(p) + (n - Len(p))] = q[n - Len(p)] BY <1>2, <3>1
    <3>3. QED BY <1>3, <3>1, <3>2 DEF Between
  <2>2. QED BY <1>2, <1>3, <2>1 DEF Between
<1>4. ASSUME NEW i \in 1..Len(u), Risks(u[i])
      PROVE  \E j \in (i + 1)..Len(u) : Mends(u[j]) /\ Between(u, i + 1, j)
  <2>1. CASE i \in 1..Len(p) /\ Covered(p)
    <3>1. PICK j \in (i + 1)..Len(p) : Mends(p[j]) /\ Between(p, i + 1, j)
      BY <1>2, <1>4, <2>1 DEF Covered
    <3>2. j \in (i + 1)..Len(u) /\ Mends(u[j]) BY <1>2, <2>1, <3>1
    <3>3. \A n \in (i + 1)..j : n \in 1..Len(p) BY <1>2, <2>1
    <3>4. QED BY <1>2, <3>1, <3>2, <3>3 DEF Between
  <2>2. CASE i \in 1..Len(p) /\ ~Covered(p)
    <3>1. PICK j \in 1..Len(q) : Mends(q[j]) /\ Between(q, 1, j) BY <2>2 DEF Mending
    <3>2. /\ Len(p) + j \in 1..Len(u) /\ Mends(u[Len(p) + j])
          /\ Between(u, Len(p) + 1, Len(p) + j)
      BY <1>2, <1>3, <3>1
    <3>3. Between(p, i + 1, Len(p)) BY <1>2, <1>4, <2>2
    <3>4. ASSUME NEW n \in (i + 1)..(Len(p) + j) PROVE u[n].do # "guard"
      <4>1. CASE n <= Len(p)
        <5>1. n \in (i + 1)..Len(p) /\ n \in 1..Len(p) BY <1>2, <2>2, <3>1, <4>1
        <5>2. QED BY <1>2, <3>3, <5>1 DEF Between
      <4>2. CASE n > Len(p) BY <1>2, <2>2, <3>2, <4>2 DEF Between
      <4>3. QED BY <1>2, <2>2, <4>1, <4>2
    <3>5. Len(p) + j \in (i + 1)..Len(u) BY <1>2, <2>2, <3>2
    <3>6. QED BY <3>2, <3>4, <3>5 DEF Between
  <2>3. CASE i \notin 1..Len(p)
    <3>1. PICK a \in 1..Len(q) : i = Len(p) + a BY <1>2, <2>3
    <3>2. Risks(q[a]) BY <1>2, <1>4, <3>1
    <3>3. PICK j \in (a + 1)..Len(q) : Mends(q[j]) /\ Between(q, a + 1, j)
      BY <3>2 DEF Covered
    <3>4. a + 1 \in 1..(Len(q) + 1) /\ Len(p) + (a + 1) = i + 1 BY <1>2, <3>1
    <3>5. /\ Len(p) + j \in 1..Len(u) /\ Mends(u[Len(p) + j])
          /\ Between(u, Len(p) + (a + 1), Len(p) + j)
      BY <1>3, <3>3, <3>4
    <3>6. Len(p) + j \in (i + 1)..Len(u) BY <1>2, <3>1, <3>3, <3>5
    <3>7. QED BY <3>4, <3>5, <3>6
  <2>4. QED BY <2>1, <2>2, <2>3
<1>5. QED BY <1>1, <1>4 DEF Covered

LEMMA CatMending ==
  ASSUME NEW p \in Seq(ValidStep), NEW q \in Seq(ValidStep),
         \/ Mending(p)
         \/ Mending(q) /\ Between(p, 1, Len(p))
  PROVE  Mending(p \o q)
<1> PICK u : u = p \o q OBVIOUS
<1>1. u = p \o q /\ u \in Seq(ValidStep) OBVIOUS
<1>2. /\ Len(u) = Len(p) + Len(q) /\ Len(p) \in Nat /\ Len(q) \in Nat
      /\ \A i \in 1..Len(p) : u[i] = p[i]
      /\ \A i \in 1..Len(q) : u[Len(p) + i] = q[i]
  OBVIOUS
<1>3. CASE Mending(p)
  <2>1. PICK j \in 1..Len(p) : Mends(p[j]) /\ Between(p, 1, j) BY <1>3 DEF Mending
  <2>2. j \in 1..Len(u) /\ \A n \in 1..j : n \in 1..Len(p) BY <1>2
  <2>3. QED BY <1>1, <1>2, <2>1, <2>2 DEF Mending, Between
<1>4. CASE Mending(q) /\ Between(p, 1, Len(p))
  <2>1. PICK j \in 1..Len(q) : Mends(q[j]) /\ Between(q, 1, j) BY <1>4 DEF Mending
  <2>2. ASSUME NEW n \in 1..(Len(p) + j) PROVE u[n].do # "guard"
    <3>1. CASE n <= Len(p) BY <1>2, <1>4, <3>1 DEF Between
    <3>2. CASE n > Len(p)
      <4>1. n - Len(p) \in 1..j /\ n - Len(p) \in 1..Len(q) /\ Len(p) + (n - Len(p)) = n
        BY <1>2, <3>2
      <4>2. u[Len(p) + (n - Len(p))] = q[n - Len(p)] BY <1>2, <4>1
      <4>3. QED BY <2>1, <4>1, <4>2 DEF Between
    <3>3. QED BY <1>2, <3>1, <3>2
  <2>3. Len(p) + j \in 1..Len(u) /\ Mends(u[Len(p) + j]) BY <1>2, <2>1
  <2>4. QED BY <1>1, <2>2, <2>3 DEF Mending, Between
<1>5. QED BY <1>3, <1>4

(* A list without guards after its first step that ends, as to the screen,  *)
(* with its step n.                                                         *)
LEMMA Closing ==
  ASSUME NEW u \in Seq(ValidStep), NEW n \in 1..Len(u), Mends(u[n]),
         \A i \in 1..Len(u) : (i > 1 => u[i].do # "guard") /\ (Risks(u[i]) => i < n)
  PROVE  Covered(u) /\ (u[1].do # "guard" => Mending(u))
<1>1. Len(u) \in Nat /\ n \in Nat OBVIOUS
<1>2. \A i \in 1..Len(u) : Between(u, i + 1, n) BY <1>1 DEF Between
<1>3. ASSUME NEW i \in 1..Len(u), Risks(u[i])
      PROVE  \E j \in (i + 1)..Len(u) : Mends(u[j]) /\ Between(u, i + 1, j)
  <2>1. i < n /\ n \in (i + 1)..Len(u) BY <1>1, <1>3
  <2>2. QED BY <1>2, <2>1
<1>4. u[1].do # "guard" => Between(u, 1, n) BY <1>1 DEF Between
<1>5. QED BY <1>3, <1>4 DEF Covered, Mending

LEMMA StepsDo ==
  /\ \A s : Mends(s) => s.do # "guard" /\ ~Risks(s)
  /\ Guard.do = "guard"
  /\ \A s \in {Guard, Release, Started, Forget} : ~Risks(s) /\ ~Mends(s)
  /\ \A s \in {Release, Started, Forget} : s.do # "guard"
  /\ \A m : /\ Adopt(m).do # "guard" /\ ~Mends(Adopt(m))
            /\ Delete(m).do # "guard" /\ ~Mends(Delete(m))
            /\ Save(m).do # "guard" /\ ~Risks(Save(m))
            /\ Track(m).do # "guard" /\ ~Risks(Track(m))
  /\ \A x : /\ Act(x).do # "guard" /\ Mends(Act(x))
            /\ Clear(x).do # "guard" /\ ~Risks(Clear(x))
            /\ Render(x).do # "guard" /\ Announce(x).do # "guard"
            /\ x # working => Mends(Render(x)) /\ Mends(Announce(x))
            /\ x = working => ~Mends(Announce(x))
  /\ \A k, t : Stage(k, t).do # "guard" /\ ~Risks(Stage(k, t))
BY DEF Mends, Risks, Draws, Guard, Release, Started, Forget, Adopt, Delete, Save, Track, Act,
  Clear, Render, Announce, Stage, step

LEMMA ShortLists ==
  /\ \A s \in ValidStep : ~Risks(s) => Covered(<<s>>)
  /\ \A s \in ValidStep : Between(<<s>>, 1 + 1, 1) /\ (s.do # "guard" => Between(<<s>>, 1, 1))
  /\ Covered(<<>>) /\ Between(<<>>, 1, 0)
BY DEF Covered, Between

(* What commands, checks and installations show at the end is a screen with *)
(* buttons.                                                                 *)
LEMMA ResultsMend ==
  /\ \A w \in Results : Covered(w) /\ Mending(w)
  /\ {<<Render(menu)>>, Report} \subseteq Results
<1> USE StepsDo, ScreensDiffer
<1>1. ASSUME NEW w \in Results PROVE Covered(w) /\ Mending(w)
  <2>1. w \in Seq(ValidStep) BY ValidResults
  <2>2. CASE Len(w) = 1 /\ w[1] = Render(menu)
    <3>1. Mends(w[1]) /\ ~Risks(w[1]) /\ w[1].do # "guard" BY <2>2
    <3>2. 1 \in 1..Len(w) /\ \A i \in 1..Len(w) : i = 1 BY <2>2
    <3>3. QED BY ONLY <2>1, <3>1, <3>2, Closing
  <2>3. CASE Len(w) = 2 /\ w[1] = Render(working) /\ w[2] = Render(menu)
    <3>1. Mends(w[2]) /\ ~Risks(w[2]) /\ w[1].do # "guard" /\ w[2].do # "guard" BY <2>3
    <3>2. 2 \in 1..Len(w) /\ \A i \in 1..Len(w) : i = 1 \/ i = 2 BY <2>3
    <3>3. QED BY ONLY <2>1, <3>1, <3>2, Closing
  <2>4. ASSUME NEW t \in Targets, Len(w) = 3, w[1] = Render(working),
               w[2] = Stage("rollback", t), w[3] = Render(prompt("rollback", t))
        PROVE  Covered(w) /\ Mending(w)
    <3>1. prompt("rollback", t) # working BY Fields DEF Kinds
    <3>2. /\ Mends(w[3]) /\ ~Risks(w[3]) /\ ~Risks(w[2])
          /\ w[1].do # "guard" /\ w[2].do # "guard" /\ w[3].do # "guard"
      BY <2>4, <3>1
    <3>3. 3 \in 1..Len(w) /\ \A i \in 1..Len(w) : i = 1 \/ i = 2 \/ i = 3 BY <2>4
    <3>4. QED BY ONLY <2>1, <3>2, <3>3, Closing
  <2>5. QED BY <2>2, <2>3, <2>4, Worked
<1>2. QED BY <1>1 DEF Results

-----------------------------------------------------------------------------
(* Every step keeps it. *)

LEMMA RemainBegins ==
  ASSUME RemainInv, NEW h \in Handlers, NEW u \in Seq(ValidStep), Begin(h, u),
         todo \in [Handlers -> Seq(ValidStep)], ~failing => Covered(u)
  PROVE  RemainInv'
<1>1. todo' = [todo EXCEPT ![h] = u] /\ UNCHANGED <<shown, failing>> /\ Idle(h)
  BY DEF Begin, environment
<1>2. ASSUME ~failing, NEW g \in Handlers, Mending(todo[g]) PROVE g # h
  BY <1>1, <1>2 DEF Mending, Idle
<1>3. ASSUME ~failing PROVE \A g \in Handlers : Covered(todo'[g])
  BY <1>1, <1>3 DEF RemainInv
<1>4. ASSUME ~failing, NEW g \in Handlers, Mending(todo[g]) PROVE Mending(todo'[g])
  BY <1>1, <1>2, <1>4
<1>5. ASSUME ~failing, NEW m \in Messages, Usable(m) PROVE Usable(m)'
  BY <1>1, <1>5 DEF Usable
<1>6. QED BY <1>1, <1>3, <1>4, <1>5 DEF RemainInv

LEMMA RemainArrives ==
  ASSUME TypeInv, RemainInv, NEW h \in Handlers, Arrive(h)
  PROVE  RemainInv'
<1> USE StepsDo, ScreensDiffer, ValidLists, ValidSteps
<1> todo \in [Handlers -> Seq(ValidStep)] BY DEF TypeInv
<1>1. ASSUME NEW m \in Messages, ClickMenu(h, m) PROVE RemainInv'
  <2>1. PICK work \in {<<Render(menu)>>, Report} : Begin(h, <<Adopt(m)>> \o work)
    BY <1>1 DEF ClickMenu
  <2>2. PICK p : p = <<Adopt(m)>> OBVIOUS
  <2>3. p \in Seq(ValidStep) /\ Len(p) = 1 BY <2>2
  <2>4. work \in Seq(ValidStep) /\ Covered(work) /\ Mending(work)
    BY <2>1, ResultsMend, ValidResults
  <2>5. \A i \in 1..Len(p) : Between(p, i + 1, Len(p)) BY <2>3 DEF Between
  <2>6. p \o work \in Seq(ValidStep) /\ Covered(p \o work)
    BY ONLY <2>3, <2>4, <2>5, CatCovered
  <2>7. QED BY <2>1, <2>2, <2>6, RemainBegins
<1>2. ASSUME NEW m \in Messages, ClickConfirm(h, m) PROVE RemainInv'
  <2>1. PICK s \in Prompts : s = shown[m] BY <1>2, PromptScreens DEF ClickConfirm, TypeInv
  <2>2. CASE s.kind = "delete"
    <3>1. PICK u : u = <<Adopt(m), Act(s)>> OBVIOUS
    <3>2. u \in Seq(ValidStep) /\ Len(u) = 2 /\ u[1] = Adopt(m) /\ u[2] = Act(s)
      BY <2>1, <3>1
    <3>3. Covered(u)
      <4>1. 2 \in 1..Len(u) /\ \A i \in 1..Len(u) : i = 1 \/ i = 2 BY <3>2
      <4>2. Mends(u[2]) /\ ~Risks(u[2]) /\ u[1].do # "guard" /\ u[2].do # "guard" BY <3>2
      <4>3. QED BY ONLY <3>2, <4>1, <4>2, Closing
    <3>4. Begin(h, u) BY <1>2, <2>1, <2>2, <3>1 DEF ClickConfirm
    <3>5. QED BY <3>2, <3>3, <3>4, RemainBegins
  <2>3. CASE s.kind # "delete"
    <3>1. PICK u : u = <<Guard, Adopt(m), Act(s), Release>> OBVIOUS
    <3>2. /\ u \in Seq(ValidStep) /\ Len(u) = 4 /\ u[1] = Guard /\ u[2] = Adopt(m)
          /\ u[3] = Act(s) /\ u[4] = Release
      BY <2>1, <3>1
    <3>3. Covered(u)
      <4>1. 3 \in 1..Len(u) /\ \A i \in 1..Len(u) : i = 1 \/ i = 2 \/ i = 3 \/ i = 4
        BY <3>2
      <4>2. /\ Mends(u[3]) /\ ~Risks(u[1]) /\ ~Risks(u[3]) /\ ~Risks(u[4])
            /\ u[2].do # "guard" /\ u[3].do # "guard" /\ u[4].do # "guard"
        BY <3>2
      <4>3. QED BY ONLY <3>2, <4>1, <4>2, Closing
    <3>4. Begin(h, u) BY <1>2, <2>1, <2>3, <3>1 DEF ClickConfirm
    <3>5. QED BY <3>2, <3>3, <3>4, RemainBegins
  <2>4. QED BY <2>2, <2>3
<1>3. ASSUME NEW m \in Messages, ClickHeavy(h, m) PROVE RemainInv'
  <2>1. PICK work \in Results : Begin(h, <<Guard, Adopt(m)>> \o work \o <<Release>>)
    BY <1>3 DEF ClickHeavy
  <2>2. PICK p, r : p = <<Guard, Adopt(m)>> /\ r = <<Release>> OBVIOUS
  <2>3. /\ p \in Seq(ValidStep) /\ Len(p) = 2 /\ p[1] = Guard /\ p[2] = Adopt(m)
        /\ r \in Seq(ValidStep) /\ Covered(r)
    BY <2>2, ShortLists
  <2>4. work \in Seq(ValidStep) /\ Covered(work) /\ Mending(work)
    BY ResultsMend, ValidResults
  <2>5. \A i \in 1..Len(p) : Between(p, i + 1, Len(p)) BY <2>3 DEF Between
  <2>6. p \o work \in Seq(ValidStep) /\ Covered(p \o work)
    BY ONLY <2>3, <2>4, <2>5, CatCovered
  <2>7. (p \o work) \o r \in Seq(ValidStep) /\ Covered((p \o work) \o r)
    BY ONLY <2>3, <2>6, CatCovered
  <2>8. QED BY <2>1, <2>2, <2>7, RemainBegins
<1>4. ASSUME NEW m \in Messages, NEW k \in Kinds, NEW t \in Targets, ClickTarget(h, m, k, t)
      PROVE  RemainInv'
  <2>1. PICK u : u = <<Adopt(m), Stage(k, t), Render(prompt(k, t))>> OBVIOUS
  <2>2. prompt(k, t) \in Screens /\ prompt(k, t) # working BY Fields
  <2>3. /\ u \in Seq(ValidStep) /\ Len(u) = 3 /\ u[1] = Adopt(m) /\ u[2] = Stage(k, t)
        /\ u[3] = Render(prompt(k, t))
    BY <2>1, <2>2
  <2>4. Covered(u)
    <3>1. 3 \in 1..Len(u) /\ \A i \in 1..Len(u) : i = 1 \/ i = 2 \/ i = 3 BY <2>3
    <3>2. /\ Mends(u[3]) /\ ~Risks(u[3]) /\ ~Risks(u[2])
          /\ u[1].do # "guard" /\ u[2].do # "guard" /\ u[3].do # "guard"
      BY <2>2, <2>3
    <3>3. QED BY ONLY <2>3, <3>1, <3>2, Closing
  <2>5. QED BY <1>4, <2>1, <2>3, <2>4, RemainBegins DEF ClickTarget
<1>5. ASSUME TextCommand(h) PROVE RemainInv'
  <2>1. PICK work \in {<<Render(menu)>>, Report, <<Guard>> \o Report \o <<Release>>} :
          Begin(h, <<Forget>> \o work)
    BY <1>5 DEF TextCommand
  <2>2. PICK f, g, q, r : f = <<Forget>> /\ g = <<Guard>> /\ q = Report /\ r = <<Release>>
    OBVIOUS
  <2>3. /\ f \in Seq(ValidStep) /\ g \in Seq(ValidStep) /\ r \in Seq(ValidStep)
        /\ Covered(f) /\ Covered(g) /\ Covered(r)
    BY <2>2, ShortLists
  <2>4. q \in Seq(ValidStep) /\ Covered(q) BY <2>2, ResultsMend
  <2>5. g \o q \in Seq(ValidStep) /\ Covered(g \o q) BY ONLY <2>3, <2>4, CatCovered
  <2>6. (g \o q) \o r \in Seq(ValidStep) /\ Covered((g \o q) \o r)
    BY ONLY <2>3, <2>5, CatCovered
  <2>7. work \in Seq(ValidStep) /\ Covered(work) BY <2>1, <2>2, <2>4, <2>6, ResultsMend
  <2>8. f \o work \in Seq(ValidStep) /\ Covered(f \o work)
    BY ONLY <2>3, <2>7, CatCovered
  <2>9. QED BY <2>1, <2>2, <2>8, RemainBegins
<1>6. QED BY <1>1, <1>2, <1>3, <1>4, <1>5 DEF Arrive

LEMMA RemainPeriodic ==
  ASSUME TypeInv, RemainInv, PeriodicNotify \/ PeriodicUpdate
  PROVE  RemainInv'
<1> USE StepsDo, ScreensDiffer, ValidLists, ValidSteps
<1>1. todo \in [Handlers -> Seq(ValidStep)] /\ Main \in Handlers
      /\ tracked \in Messages \cup {None}
  BY MenuAssumption DEF TypeInv
<1>2. CASE PeriodicNotify
  <2>1. PICK o, q : o = Orphan(tracked) /\ q = <<Forget, Announce(menu)>> OBVIOUS
  <2>2. /\ q \in Seq(ValidStep) /\ Len(q) = 2 /\ q[1] = Forget /\ q[2] = Announce(menu)
        /\ o \in Seq(ValidStep) /\ Len(o) \in {0, 1}
    BY <1>1, <2>1 DEF Orphan
  <2>3. Covered(q) /\ Mending(q)
    <3>1. 2 \in 1..Len(q) /\ \A i \in 1..Len(q) : i = 1 \/ i = 2 BY <2>2
    <3>2. Mends(q[2]) /\ ~Risks(q[1]) /\ ~Risks(q[2]) /\ q[1].do # "guard" /\ q[2].do # "guard"
      BY <2>2
    <3>3. QED BY ONLY <2>2, <3>1, <3>2, Closing
  <2>4. \A i \in 1..Len(o) : Between(o, i + 1, Len(o)) BY <2>2 DEF Between
  <2>5. o \o q \in Seq(ValidStep) /\ Covered(o \o q)
    BY ONLY <2>2, <2>3, <2>4, CatCovered
  <2>6. QED BY <1>1, <1>2, <2>1, <2>5, RemainBegins DEF PeriodicNotify
<1>3. CASE PeriodicUpdate
  <2>1. PICK w \in Results :
          Begin(Main, <<Guard>> \o Orphan(tracked) \o <<Forget, Announce(Head(w).screen)>>
                        \o Tail(w) \o <<Release>>)
    BY <1>3 DEF PeriodicUpdate
  <2>2. PICK s, q : s = Head(w).screen /\ q = Tail(w) OBVIOUS
  <2>3. s \in Screens /\ q \in Seq(ValidStep) BY <2>2, ValidResults
  <2>4. PICK p, r : /\ p = <<Guard>> \o Orphan(tracked) \o <<Forget, Announce(s)>>
                    /\ r = <<Release>>
    OBVIOUS
  <2>5. /\ p[1] = Guard
        /\ \/ Len(p) = 3 /\ p[2] = Forget /\ p[3] = Announce(s)
           \/ Len(p) = 4 /\ p[2] = Delete(tracked) /\ p[3] = Forget /\ p[4] = Announce(s)
    BY ONLY <1>1, <2>3, <2>4, Opened
  <2>6. p \in Seq(ValidStep) /\ r \in Seq(ValidStep) /\ Covered(r)
    <3>1. PICK g, o, a : g = <<Guard>> /\ o = Orphan(tracked) /\ a = <<Forget, Announce(s)>>
      OBVIOUS
    <3>2. g \in Seq(ValidStep) /\ o \in Seq(ValidStep) /\ a \in Seq(ValidStep)
      BY <1>1, <2>3, <3>1
    <3>3. (g \o o) \o a \in Seq(ValidStep) BY ONLY <3>2
    <3>4. QED BY <2>4, <3>1, <3>3, ShortLists
  <2>7. \A i \in 1..Len(p) : i > 1 => p[i].do # "guard"
    <3>1. Len(p) = 3 \/ Len(p) = 4 BY ONLY <2>5
    <3>2. \A i \in 1..Len(p) : i = 1 \/ i = 2 \/ i = 3 \/ i = 4
      <4>1. CASE Len(p) = 3 BY ONLY <4>1
      <4>2. CASE Len(p) = 4 BY ONLY <4>2
      <4>3. QED BY ONLY <3>1, <4>1, <4>2
    <3>3. QED BY <2>5, <3>2
  <2>8. p \o q \in Seq(ValidStep) /\ Covered(p \o q)
    <3>1. CASE Len(q) = 0 /\ s = menu
      <4>1. PICK n \in {3, 4} : Len(p) = n /\ p[n] = Announce(menu) BY <2>5, <3>1
      <4>2. Mends(p[n]) /\ ~Risks(p[n]) /\ n \in 1..Len(p) BY <4>1
      <4>3. \A i \in 1..Len(p) : i = n \/ i < n BY <4>1
      <4>4. Covered(p) BY ONLY <2>6, <2>7, <4>2, <4>3, Closing
      <4>5. Covered(q) BY <3>1 DEF Covered
      <4>6. QED BY ONLY <2>3, <2>6, <4>4, <4>5, CatCovered
    <3>2. CASE Mending(q) /\ Covered(q)
      <4>1. Len(p) \in Nat BY <2>6
      <4>2. \A i \in 1..Len(p) : Between(p, i + 1, Len(p)) BY <2>7, <4>1 DEF Between
      <4>3. QED BY ONLY <2>3, <2>6, <3>2, <4>2, CatCovered
    <3>3. Covered(w) /\ Mending(w) /\ w \in Seq(ValidStep) BY ResultsMend, ValidResults
    <3>4. ASSUME s = working, Len(q) # 0 PROVE Mending(q) /\ Covered(q)
      <4>1. PICK v : v = w OBVIOUS
      <4>2. /\ v \in Seq(ValidStep) /\ v[1] = Render(working) /\ v # <<>>
            /\ Covered(v) /\ Mending(v)
        BY <2>2, <3>3, <3>4, <4>1, Worked, Fields
      <4>3. Head(v) = Render(working) BY ONLY <4>2
      <4>4. ~Mends(Head(v)) BY <4>3 DEF Mends, Render, step
      <4>5. Mending(Tail(v)) /\ Covered(Tail(v)) BY ONLY <4>2, <4>4, TailCovered
      <4>6. QED BY ONLY <2>2, <4>1, <4>5
    <3>5. QED BY ONLY <2>2, <3>1, <3>2, <3>4, Reported, w \in Results
  <2>9. (p \o q) \o r \in Seq(ValidStep) /\ Covered((p \o q) \o r)
    BY ONLY <2>6, <2>8, CatCovered
  <2>10. QED BY <1>1, <2>1, <2>2, <2>4, <2>9, RemainBegins
<1>4. QED BY <1>2, <1>3

(* A step of a handler that replaces its first step by u, and shows s in m, *)
(* or changes no screen if m is None.                                       *)
LEMMA RemainContinues ==
  ASSUME TypeInv, RemainInv, ~failing, UNCHANGED failing, NEW h \in Handlers, ~Idle(h),
         NEW u \in Seq(ValidStep), DoneThen(h, u),
         \A i \in 1..Len(u) : u[i].do # "guard",
         \/ Covered(u)
         \/ Risks(Now(h)),
         \/ UNCHANGED shown
         \/ \E m \in Messages : Usable(m)'
         \/ Risks(Now(h)),
         Mends(Now(h)) => Mending(u) \/ \E m \in Messages : Usable(m)'
  PROVE  RemainInv'
<1> PICK q : q = Tail(todo[h]) OBVIOUS
<1>1. /\ todo[h] \in Seq(ValidStep) /\ todo[h] # <<>> /\ Now(h) = Head(todo[h])
      /\ q \in Seq(ValidStep) /\ Covered(todo[h]) /\ todo \in [Handlers -> Seq(ValidStep)]
  BY Continued DEF TypeInv, RemainInv, Idle, Now
<1>2. /\ Covered(q) /\ (Risks(Now(h)) => Mending(q))
      /\ Mending(todo[h]) /\ ~Mends(Now(h)) => Mending(q)
  <2>1. PICK t, s : t = todo[h] /\ s = Now(h) OBVIOUS
  <2>2. /\ t \in Seq(ValidStep) /\ t # <<>> /\ Covered(t) /\ s = Head(t) /\ q = Tail(t)
    BY <1>1, <2>1
  <2>3. /\ Covered(Tail(t)) /\ (Risks(Head(t)) => Mending(Tail(t)))
        /\ Mending(t) /\ ~Mends(Head(t)) => Mending(Tail(t))
    BY ONLY <2>2, TailCovered
  <2>4. QED BY ONLY <2>1, <2>2, <2>3
<1>3. todo' = [todo EXCEPT ![h] = u \o q] BY DEF DoneThen
<1>4. Between(u, 1, Len(u)) /\ \A i \in 1..Len(u) : Between(u, i + 1, Len(u))
  <2>1. Len(u) \in Nat OBVIOUS
  <2>2. QED BY <2>1 DEF Between
<1>5. Covered(u \o q)
  <2>1. u \in Seq(ValidStep) /\ (Covered(u) \/ Mending(q)) BY <1>2
  <2>2. QED BY ONLY <1>1, <1>2, <1>4, <2>1, CatCovered
<1>6. Mending(q) \/ Mending(u) => Mending(u \o q) BY <1>1, <1>4, CatMending
<1>7. \A g \in Handlers : Covered(todo'[g]) BY <1>1, <1>3, <1>5 DEF RemainInv
<1>8. (\E m \in Messages : Usable(m)') \/ \E g \in Handlers : Mending(todo'[g])
  <2>1. CASE Mending(u \o q) BY <1>1, <1>3, <2>1
  <2>2. CASE ~Mending(u \o q) /\ ~\E m \in Messages : Usable(m)'
    <3>1. ~Mending(q) /\ ~Mending(u) BY <1>6, <2>2
    <3>2. ~Risks(Now(h)) /\ ~Mends(Now(h)) BY <1>2, <2>2, <3>1
    <3>3. ~Mending(todo[h]) /\ UNCHANGED shown BY <1>2, <2>2, <3>1, <3>2
    <3>4. ~\E m \in Messages : Usable(m) BY <2>2, <3>3 DEF Usable
    <3>5. PICK g \in Handlers : Mending(todo[g]) BY <3>4 DEF RemainInv
    <3>6. g # h /\ todo'[g] = todo[g] BY <1>1, <1>3, <3>3, <3>5
    <3>7. QED BY <3>5, <3>6
  <2>3. QED BY <2>1, <2>2
<1>9. QED BY <1>7, <1>8 DEF RemainInv

LEMMA RemainWork ==
  ASSUME TypeInv, RemainInv, NEW h \in Handlers, Work(h)
  PROVE  RemainInv'
<1> USE StepsDo, ScreensDiffer
<1>1. ~Idle(h) /\ UNCHANGED failing
  BY DEF Work, Does, DoGuard, DoRelease, DoStarted, DoAdopt, DoTrack, DoSave, DoDelete,
         DoRender, DoEdit, DoSend, SendFailed, Sends, Put, DoStage, DoClear, DoAct, environment
<1>2. CASE failing BY <1>1, <1>2 DEF RemainInv
<1>3. SUFFICES ASSUME ~failing PROVE RemainInv'
  BY <1>2
<1>4. PICK s \in ValidStep : s = Now(h) BY <1>1, Continued
<1>5. /\ s.msg \in Messages \cup {None} /\ s.screen \in Screens \cup {Gone}
      /\ s.do \in {"adopt", "delete"} => s.msg \in Messages
      /\ s.do \in {"stage", "act", "clear"} => s.screen \in Prompts
      /\ s.do \in {"render", "announce", "put"} => s.screen \in Screens
  BY StepsAreAbout
<1>6. \A names : Does(h, names) => s.do \in names BY <1>4 DEF Does
<1>7. ASSUME Done(h), ~Mends(s), UNCHANGED shown \/ Risks(s) PROVE RemainInv'
  <2>1. Tail(todo[h]) \in Seq(ValidStep) BY <1>1, Continued
  <2>2. DoneThen(h, <<>>)
    <3>1. <<>> \o Tail(todo[h]) = Tail(todo[h]) BY <2>1
    <3>2. QED BY <1>7, <3>1 DEF Done, DoneThen
  <2>3. <<>> \in Seq(ValidStep) /\ Covered(<<>>) /\ \A i \in 1..Len(<<>>) : <<>>[i].do # "guard"
    BY ShortLists
  <2>4. QED BY <1>1, <1>3, <1>4, <1>7, <2>2, <2>3, RemainContinues
<1>8. ASSUME NEW u \in Seq(ValidStep), DoneThen(h, u), UNCHANGED shown, ~Mends(s),
             \A i \in 1..Len(u) : u[i].do # "guard", Covered(u) \/ Risks(s)
      PROVE  RemainInv'
  BY <1>1, <1>3, <1>4, <1>8, RemainContinues
<1>9. CASE DoGuard(h)
  <2>1. s.do = "guard" /\ ~Mends(s) /\ UNCHANGED shown
    BY <1>6, <1>9 DEF DoGuard, Mends, Draws
  <2>2. CASE ~busy BY <1>7, <1>9, <2>1, <2>2 DEF DoGuard
  <2>3. CASE busy
    <3>1. todo' = [todo EXCEPT ![h] = <<>>] BY <1>9, <2>3 DEF DoGuard
    <3>2. todo[h] \in Seq(ValidStep) /\ todo[h] # <<>> /\ Covered(todo[h])
          /\ Head(todo[h]) = s /\ todo \in [Handlers -> Seq(ValidStep)]
      BY <1>1, <1>3, <1>4 DEF TypeInv, RemainInv, Idle, Now
    <3>3. ~Mending(todo[h])
      <4>1. PICK t : t = todo[h] OBVIOUS
      <4>2. t \in Seq(ValidStep) /\ t # <<>> /\ Covered(t) /\ Head(t) = s BY <3>2, <4>1
      <4>3. ~Mending(t) BY ONLY <2>1, <4>2, TailCovered
      <4>4. QED BY ONLY <4>1, <4>3
    <3>4. \A g \in Handlers : Covered(todo'[g])
      BY <1>3, <3>1, <3>2, ShortLists DEF RemainInv
    <3>5. \A g \in Handlers : Mending(todo[g]) => Mending(todo'[g]) BY <3>1, <3>2, <3>3
    <3>6. \A m \in Messages : Usable(m) => Usable(m)' BY <2>1 DEF Usable
    <3>7. QED BY <1>3, <3>4, <3>5, <3>6 DEF RemainInv
  <2>4. QED BY <2>2, <2>3
<1>10. CASE DoRelease(h) \/ DoStarted(h) \/ DoSave(h) \/ DoStage(h) \/ DoClear(h)
  <2>1. /\ s.do \in {"release", "started", "save", "stage", "clear"}
        /\ Done(h) /\ UNCHANGED shown
    BY <1>6, <1>10 DEF DoRelease, DoStarted, DoSave, DoStage, DoClear
  <2>2. ~Mends(s) BY <2>1 DEF Mends, Draws
  <2>3. QED BY <1>7, <2>1, <2>2
<1>11. CASE DoDelete(h)
  <2>1. s.do = "delete" /\ Done(h) BY <1>6, <1>11 DEF DoDelete
  <2>2. ~Mends(s) /\ Risks(s) BY <2>1 DEF Mends, Risks, Draws
  <2>3. QED BY <1>7, <2>1, <2>2
<1>12. CASE DoAdopt(h)
  <2>1. s.do = "adopt" /\ s.msg \in Messages /\ UNCHANGED shown
    BY <1>5, <1>6, <1>12 DEF DoAdopt
  <2>2. PICK u : u = adoptMenuID(s.msg, tracked) OBVIOUS
  <2>3. DoneThen(h, u) BY <1>4, <1>12, <2>2 DEF DoAdopt
  <2>4. u \in Seq(ValidStep) /\ \A i \in 1..Len(u) : u[i].do # "guard"
    <3>1. CASE u = <<>> BY <3>1
    <3>2. CASE u = <<Save(s.msg)>> BY <2>1, <3>2, ValidSteps
    <3>3. CASE tracked \in Messages /\ u = <<Save(s.msg), Delete(tracked)>>
      BY <2>1, <3>3, ValidSteps
    <3>4. <<Save(s.msg)>> \o <<Delete(tracked)>> = <<Save(s.msg), Delete(tracked)>> BY Pair
    <3>5. <<Save(s.msg)>> \o <<>> = <<Save(s.msg)>> OBVIOUS
    <3>6. QED BY <2>2, <3>1, <3>2, <3>3, <3>4, <3>5 DEF adoptMenuID, Orphan, TypeInv
  <2>5. ~Mends(s) /\ Risks(s) BY <2>1 DEF Mends, Risks, Draws
  <2>6. QED BY <1>8, <2>1, <2>3, <2>4, <2>5
<1>13. CASE DoTrack(h)
  <2>1. s.do = "track" /\ UNCHANGED shown BY <1>6, <1>13 DEF DoTrack
  <2>2. PICK u : u = setMenuID(s.msg, tracked) OBVIOUS
  <2>3. DoneThen(h, u) BY <1>4, <1>13, <2>2 DEF DoTrack
  <2>4. Save(s.msg) \in ValidStep BY <1>5, ValidSteps
  <2>5. /\ u \in Seq(ValidStep) /\ Covered(u)
        /\ \A i \in 1..Len(u) : u[i].do # "guard"
    BY <2>2, <2>4, ShortLists DEF setMenuID
  <2>6. ~Mends(s) BY <2>1 DEF Mends, Draws
  <2>7. QED BY <1>8, <2>1, <2>3, <2>5, <2>6
<1>14. CASE DoRender(h)
  <2>1. s.do \in {"render", "announce"} /\ s.screen \in Screens /\ UNCHANGED shown
    BY <1>5, <1>6, <1>14 DEF DoRender
  <2>2. PICK a : a = step("put", tracked, s.screen) OBVIOUS
  <2>3. /\ a \in ValidStep /\ a.do = "put" /\ a.screen = s.screen
        /\ DoneThen(h, <<a>>)
    BY <1>4, <1>14, <2>1, <2>2, ValidSteps DEF DoRender, TypeInv, step
  <2>4. <<a>> \in Seq(ValidStep) /\ Len(<<a>>) = 1 /\ \A i \in 1..Len(<<a>>) : <<a>>[i].do # "guard"
    BY <2>3
  <2>5. CASE s.screen = working
    <3>1. Risks(s) /\ ~Mends(s) BY <2>1, <2>5 DEF Risks, Mends, Draws
    <3>2. QED BY <1>8, <2>1, <2>3, <2>4, <3>1
  <2>6. CASE s.screen # working
    <3>1. Mends(a) /\ ~Risks(a) BY <2>3, <2>6 DEF Mends, Risks, Draws
    <3>2. Covered(<<a>>) BY <2>3, <3>1, ShortLists
    <3>3. Mending(<<a>>) BY <2>4, <3>1 DEF Mending, Between
    <3>4. QED BY <1>1, <1>3, <1>4, <2>1, <2>3, <2>4, <3>2, <3>3, RemainContinues
  <2>7. QED BY <2>5, <2>6
<1>15. ASSUME NEW m \in Messages, Put(h, m), s.do = "put" PROVE RemainInv'
  <2>1. <<Track(m)>> \in Seq(ValidStep) /\ Covered(<<Track(m)>>)
    BY ValidSteps, ShortLists
  <2>2. Len(<<Track(m)>>) = 1 /\ \A i \in 1..Len(<<Track(m)>>) : <<Track(m)>>[i].do # "guard"
    OBVIOUS
  <2>3. DoneThen(h, <<Track(m)>>) /\ shown' = [shown EXCEPT ![m] = s.screen]
    BY <1>4, <1>15 DEF Put
  <2>4. s.screen # working => Usable(m)'
    BY <1>5, <1>15, <2>3 DEF Usable, TypeInv
  <2>5. s.screen = working => Risks(s) /\ ~Mends(s) BY <1>15 DEF Risks, Mends, Draws
  <2>6. QED BY <1>1, <1>3, <1>4, <2>1, <2>2, <2>3, <2>4, <2>5, RemainContinues
<1>16. CASE DoEdit(h) \/ DoSend(h)
  <2>1. s.do = "put" /\ \E m \in Messages : Put(h, m)
    BY <1>6, <1>16 DEF DoEdit, DoSend, Sends, InChat, Fresh
  <2>2. QED BY <1>15, <2>1
<1>17. CASE SendFailed(h) BY <1>3, <1>17 DEF SendFailed
<1>18. CASE DoAct(h)
  <2>1. s.do = "act" /\ s.screen \in Prompts /\ UNCHANGED shown
    BY <1>5, <1>6, <1>18 DEF DoAct
  <2>2. PICK u \in {<<Render(menu)>>, <<Clear(s.screen), Render(menu)>>, Report} :
          DoneThen(h, u)
    BY <1>4, <1>18 DEF DoAct
  <2>3. /\ u \in Seq(ValidStep) /\ Covered(u) /\ Mending(u)
        /\ \A i \in 1..Len(u) : u[i].do # "guard"
    <3>1. Render(menu) \in ValidStep /\ Render(working) \in ValidStep
          /\ Clear(s.screen) \in ValidStep
      BY <2>1, ValidSteps
    <3>2. CASE u = <<Render(menu)>> BY <3>1, <3>2, ResultsMend
    <3>3. CASE u = Report BY <3>1, <3>3, ResultsMend DEF Report
    <3>4. CASE u = <<Clear(s.screen), Render(menu)>>
      <4>1. u \in Seq(ValidStep) /\ Len(u) = 2 /\ u[1] = Clear(s.screen) /\ u[2] = Render(menu)
        BY <3>1, <3>4
      <4>2. 2 \in 1..Len(u) /\ \A i \in 1..Len(u) : i = 1 \/ i = 2 BY <4>1
      <4>3. /\ Mends(u[2]) /\ ~Risks(u[1]) /\ ~Risks(u[2])
            /\ u[1].do # "guard" /\ u[2].do # "guard"
        BY <4>1
      <4>4. QED BY ONLY <4>1, <4>2, <4>3, Closing
    <3>5. QED BY <3>2, <3>3, <3>4
  <2>4. QED BY <1>1, <1>3, <1>4, <2>1, <2>2, <2>3, RemainContinues
<1>19. QED BY <1>9, <1>10, <1>11, <1>12, <1>13, <1>14, <1>16, <1>17, <1>18 DEF Work

(* handlers.go:163-165, bot.go:220-225: whichever updates overlap and       *)
(* whichever guards are refused, once no handler is at work a message with  *)
(* buttons is in the chat, if the calls to Telegram succeed.                *)
THEOREM AMenuRemains == Spec => []MenuRemains
<1>1. Init => TypeInv /\ RemainInv
  <2>1. ASSUME Init PROVE \A h \in Handlers : Covered(todo[h]) /\ Mending(todo[Main])
    <3>1. PICK u : u = <<Render(menu), Started>> OBVIOUS
    <3>2. u \in Seq(ValidStep) /\ Len(u) = 2 /\ u[1] = Render(menu) /\ u[2] = Started
      BY <3>1, ValidSteps, ScreensDiffer
    <3>3. 1 \in 1..Len(u) /\ \A i \in 1..Len(u) : i = 1 \/ i = 2 BY <3>2
    <3>4. /\ Mends(u[1]) /\ ~Risks(u[1]) /\ ~Risks(u[2])
          /\ u[1].do # "guard" /\ u[2].do # "guard"
      BY <3>2, StepsDo, ScreensDiffer
    <3>5. Covered(u) /\ Mending(u) BY ONLY <3>2, <3>3, <3>4, Closing
    <3>6. QED BY <2>1, <3>1, <3>5, ShortLists, MenuAssumption DEF Init, Startup
  <2>2. Init => TypeInv BY StartupIsValid, MenuAssumption DEF Init, TypeInv
  <2>3. QED BY <2>1, <2>2, MenuAssumption DEF RemainInv
<1>2. ASSUME TypeInv, RemainInv, [Next]_vars PROVE RemainInv'
  <2>1. CASE UNCHANGED vars BY <1>2, <2>1 DEF vars, environment, RemainInv, Usable
  <2>2. CASE Restart BY <2>2 DEF Restart, environment, RemainInv
  <2>3. ASSUME NEW h \in Handlers, Arrive(h) \/ Work(h) PROVE RemainInv'
    BY <1>2, <2>3, RemainArrives, RemainWork
  <2>4. QED BY <1>2, <2>1, <2>2, <2>3, RemainPeriodic DEF Next
<1>3. TypeInv /\ [Next]_vars => TypeInv' BY TypesStep
<1>4. RemainInv => MenuRemains
  <2>1. ASSUME Quiet, NEW h \in Handlers PROVE ~Mending(todo[h])
    BY <2>1 DEF Quiet, Idle, Mending
  <2>2. QED BY <2>1 DEF RemainInv, MenuRemains
<1>5. QED BY <1>1, <1>2, <1>3, <1>4, PTL DEF Spec
=============================================================================
