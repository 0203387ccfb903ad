--------------------------- MODULE AddressRefresh ---------------------------
(***************************************************************************)
(* The refresh of the addresses that PinnedDialer dials: a goroutine does  *)
(* it once a day (runEmergencyIPRefresh), the settings button at any time. *)
(* A refresh asks resolvers (transport.Discover), merges what it may use   *)
(* with the compiled-in addresses, swaps the pinned set and saves the same *)
(* set to UCI, from where the next start of the daemon takes it.  What the *)
(* resolvers answer, and what the owner wrote to UCI, is arbitrary.        *)
(***************************************************************************)
EXTENDS PinnedDialer

CONSTANTS Timer,       \* the goroutine of runEmergencyIPRefresh
          Buttons,     \* goroutines that handle the settings button
          Defaults,    \* defaultEmergencyIPs
          InRange,     \* addresses in the known ranges of Telegram
          MaxRestarts, \* bound: restarts of the daemon
          Scenarios    \* who is at work in a behaviour

Refreshers == {Timer} \cup Buttons

(* A scenario: the dialers and refreshers at work, whether writes to UCI may    *)
(* fail and the daemon may restart, the addresses that may ever work, and   *)
(* emergency_ips as it was before the daemon first ran.                     *)
Scenario ==
  [dialers : SUBSET Dialers, refreshers : SUBSET Refreshers, fails : BOOLEAN,
   restarts : BOOLEAN, reachable : SUBSET Addresses, owner : SUBSET Addresses]

ASSUME RefreshAssumption ==
  /\ Defaults # {} /\ Defaults \subseteq InRange /\ InRange \subseteq Addresses
  /\ Timer \notin Buttons /\ MaxRestarts \in Nat
  /\ Scenarios \subseteq Scenario

VARIABLES
  uci,       \* emergency_ips, empty when it is not set
  pc,        \* per refresh: "idle", "asking", "applying", "saving"
  found,     \* per refresh: the set it applies and saves
  restarts,  \* restarts so far
  scenario   \* environment: one of Scenarios

refresh == <<pc, found>>
refreshVars == <<live, ips, marks, dial, uci, refresh, restarts, scenario>>

RefreshTypeOK ==
  /\ DialTypeOK
  /\ uci \in SUBSET Addresses
  /\ pc \in [Refreshers -> {"idle", "asking", "applying", "saving"}]
  /\ found \in [Refreshers -> SUBSET Addresses]
  /\ restarts \in 0..MaxRestarts /\ scenario \in Scenarios

(* config.Load and runDaemon: without a saved set the compiled-in one. *)
startIPs(saved) == IF saved = {} THEN Defaults ELSE saved

RefreshInit ==
  /\ scenario \in Scenarios
  /\ live \in SUBSET scenario.reachable
  /\ uci = scenario.owner
  /\ ips = startIPs(uci) /\ marks = <<>> /\ NoDial
  /\ pc = [r \in Refreshers |-> "idle"] /\ found = [r \in Refreshers |-> {}]
  /\ restarts = 0

-----------------------------------------------------------------------------

Go(r, from, to) == pc[r] = from /\ pc' = [pc EXCEPT ![r] = to]
Forget(r) == found' = [found EXCEPT ![r] = {}]

Begin(r) ==
  /\ r \in scenario.refreshers
  /\ Go(r, "idle", "asking")
  /\ UNCHANGED <<live, ips, marks, dial, uci, found, restarts, scenario>>

(* Discover keeps what the resolvers that answered name in Telegram's       *)
(* ranges; finding none is an error.                                        *)
Usable_Any(answers) == answers   \* mutant: the ranges are not looked at
Usable(answers) == answers \cap InRange

mergeIPs(discovered) == Defaults \cup discovered

Discover(r, answers) ==
  /\ Usable(answers) # {}
  /\ Go(r, "asking", "applying")
  /\ found' = [found EXCEPT ![r] = mergeIPs(Usable(answers))]
  /\ UNCHANGED <<live, ips, marks, dial, uci, restarts, scenario>>

DiscoverNone(r) ==
  /\ Go(r, "asking", "idle")
  /\ UNCHANGED <<live, ips, marks, dial, uci, found, restarts, scenario>>

(* SetEmergencyIPs, then SaveEmergencyIPs, whose failure is only logged.    *)
Apply_Never(r) ==   \* mutant: the set is saved for the next start only
  /\ Go(r, "applying", "saving")
  /\ UNCHANGED <<live, ips, marks, dial, uci, found, restarts, scenario>>
Apply(r) ==
  /\ Go(r, "applying", "saving")
  /\ setIPs(found[r])
  /\ UNCHANGED <<live, dial, uci, found, restarts, scenario>>

Save_Appends(r) ==   \* mutant: what was saved before is kept
  /\ Go(r, "saving", "idle") /\ Forget(r)
  /\ uci' = uci \cup found[r]
  /\ UNCHANGED <<live, ips, marks, dial, restarts, scenario>>
Save(r) ==
  /\ Go(r, "saving", "idle") /\ Forget(r)
  /\ (uci' = found[r] \/ (scenario.fails /\ uci' = uci))
  /\ UNCHANGED <<live, ips, marks, dial, restarts, scenario>>

(* The daemon stops or is killed anywhere, and starts again.                *)
Restart ==
  /\ scenario.restarts /\ restarts < MaxRestarts /\ restarts' = restarts + 1
  /\ ips' = startIPs(uci) /\ marks' = <<>>
  /\ walk' = [d \in Dialers |-> <<>>] /\ state' = [d \in Dialers |-> "idle"]
  /\ steadfast' = [d \in Dialers |-> {}] /\ known' = steadfast'
  /\ pc' = [r \in Refreshers |-> "idle"] /\ found' = [r \in Refreshers |-> {}]
  /\ UNCHANGED <<live, uci, scenario>>

Refresh(r) ==
  \/ Begin(r) \/ DiscoverNone(r) \/ Apply(r) \/ Save(r)
  \/ \E answers \in SUBSET Addresses : Discover(r, answers)
Dialing(d) ==
  d \in scenario.dialers /\ DialStep(d) /\ UNCHANGED <<uci, refresh, restarts, scenario>>
Network ==
  /\ \E ip \in scenario.reachable : Die(ip) \/ Revive(ip)
  /\ UNCHANGED <<uci, refresh, restarts, scenario>>

RefreshNext ==
  \/ \E r \in Refreshers : Refresh(r)
  \/ \E d \in Dialers : Dialing(d)
  \/ Network \/ Restart

(* A timer fires, a request to a resolver and a handshake end, and clients *)
(* keep sending.                                                           *)
RefreshSpec ==
  /\ RefreshInit /\ [][RefreshNext]_refreshVars
  /\ \A r \in Refreshers : WF_refreshVars(Refresh(r))
  /\ \A d \in Dialers : WF_refreshVars(Dialing(d))

-----------------------------------------------------------------------------

(* transport.go:264-265, DESIGN.md:82-83: the path heals.  If a compiled-in *)
(* address works for good and resolvers are reached now and then, dials     *)
(* stop failing, whatever set the owner or an earlier life left in UCI,     *)
(* whatever else resolvers name, and however refreshes and restarts meet.   *)
PathHeals ==
  \A ip \in Defaults :
    (/\ <>[](ip \in live)
     /\ []<><<\E a \in SUBSET Addresses : Discover(Timer, a)>>_refreshVars)
      => \A d \in Dialers : <>[][state'[d] = "failed" => UNCHANGED state[d]]_refreshVars

(* discovery.go:69-72: what is dialed is what the owner wrote, or addresses *)
(* of Telegram and never none: no answer of a resolver gets into the set    *)
(* or, by way of UCI, into that of a later life.                            *)
PinnedIsTrusted ==
  ips # {} /\ (ips \subseteq InRange \/ ips = scenario.owner)

(* main.go:226-227: what is applied in memory is what future starts use.   *)
(* It holds between refreshes as long as they do not overlap and UCI can be *)
(* written, also after a restart that came between the two steps.           *)
SavedIsPinned ==
  (scenario.refreshers \subseteq {Timer} /\ ~scenario.fails /\ pc[Timer] # "saving")
     => ips = startIPs(uci)
=============================================================================
