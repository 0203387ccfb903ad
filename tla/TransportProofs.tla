--------------------------- MODULE TransportProofs ---------------------------
(* Proofs about the transport: Watchdog and the TieredTransport it extends,  *)
(* for any number of tiers and of clients; AddressRefresh and its dialer,    *)
(* for any addresses, dialers, buttons and number of restarts.               *)
EXTENDS Watchdog, AddressRefresh, FiniteSetTheorems, TLAPS

(***************************************************************************)
(* FailsOnlyAfterAll is not inductive: it says nothing of a request that   *)
(* is still walking the cascade.  The walk invariant does: the tiers a     *)
(* request has tried are exactly those closer to its start, counted        *)
(* cyclically, than the number of attempts it made.                        *)
(***************************************************************************)
Distance(s, i) == IF i >= s THEN i - s ELSE i + N - s

Walk(c) ==
  /\ \A i \in Tiers : i \in tried[c] <=> Distance(start[c], i) < offset[c]
  /\ phase[c] = "trying" => offset[c] < N
  /\ phase[c] = "failed" => offset[c] = N

IInv == TypeOK /\ \A c \in Clients : Walk(c)

(* The tier at cyclic distance k from s, which Current computes. *)
At(s, k) == IF s + k < N THEN s + k ELSE s + k - N

(* The cascade is a cycle: every distance below N leads to one tier. *)
LEMMA Cycle ==
  ASSUME NEW s \in Tiers, NEW k \in 0..(N - 1)
  PROVE  /\ At(s, k) \in Tiers
         /\ \A i \in Tiers : Distance(s, i) = k <=> i = At(s, k)
BY TransportAssumption DEF Tiers, Distance, At

LEMMA DistanceBound ==
  ASSUME NEW s \in Tiers, NEW i \in Tiers
  PROVE  Distance(s, i) \in 0..(N - 1)
BY TransportAssumption DEF Tiers, Distance

LEMMA CurrentIsTier ==
  ASSUME TypeOK, NEW c \in Clients, phase[c] = "trying", offset[c] < N
  PROVE  /\ Current(c) \in Tiers /\ Current(c) = At(start[c], offset[c])
         /\ start[c] \in Tiers /\ offset[c] \in 0..(N - 1)
<1>1. start[c] \in Tiers BY DEF TypeOK
<1>2. offset[c] \in 0..(N - 1)
  <2>1. offset[c] \in 0..N BY DEF TypeOK
  <2>2. QED BY <2>1, TransportAssumption
<1>3. Current(c) = At(start[c], offset[c]) BY DEF Current, At
<1>4. QED BY <1>1, <1>2, <1>3, Cycle

-----------------------------------------------------------------------------

LEMMA InitIInv == Init => IInv
<1> SUFFICES ASSUME Init PROVE IInv
  OBVIOUS
<1>1. 0 \in Tiers /\ 0 \in 0..N BY TransportAssumption DEF Tiers
<1>2. degraded \in BOOLEAN /\ fresh \in BOOLEAN BY DEF Init
<1>3. TypeOK BY <1>1, <1>2 DEF Init, TypeOK, Tiers
<1>4. ASSUME NEW c \in Clients PROVE Walk(c)
  <2>1. offset[c] = 0 /\ tried[c] = {} /\ start[c] = 0 /\ phase[c] = "idle"
    BY DEF Init
  <2>2. \A i \in Tiers : ~(Distance(0, i) < 0)
    BY <1>1, DistanceBound, TransportAssumption
  <2>3. QED BY <2>1, <2>2 DEF Walk
<1>5. QED BY <1>3, <1>4 DEF IInv

(* A step of one client leaves the walks of the others alone. *)
LEMMA OthersWalk ==
  ASSUME NEW c \in Clients, NEW d \in Clients, Walk(d),
         phase'[d] = phase[d], start'[d] = start[d],
         offset'[d] = offset[d], tried'[d] = tried[d]
  PROVE  Walk(d)'
BY DEF Walk

LEMMA SendStep ==
  ASSUME IInv, NEW c \in Clients, Send(c) PROVE IInv'
<1>1. TypeOK BY DEF IInv
<1>2. idx \in Tiers BY <1>1 DEF TypeOK
<1>3. 0 \in 0..N BY TransportAssumption
<1>4. TypeOK' BY <1>1, <1>2, <1>3 DEF Send, TypeOK, network
<1>5. ASSUME NEW d \in Clients PROVE Walk(d)'
  <2>1. CASE d = c
    <3>1. /\ offset'[c] = 0 /\ tried'[c] = {} /\ start'[c] = idx
          /\ phase'[c] = "trying"
      BY <1>1 DEF Send, TypeOK
    <3>2. \A i \in Tiers : ~(Distance(idx, i) < 0)
      BY <1>2, DistanceBound, TransportAssumption
    <3>3. 0 < N BY TransportAssumption
    <3>4. QED BY <2>1, <3>1, <3>2, <3>3 DEF Walk
  <2>2. CASE d # c
    <3>1. /\ phase'[d] = phase[d] /\ start'[d] = start[d]
          /\ offset'[d] = offset[d] /\ tried'[d] = tried[d]
      BY <1>1, <2>2 DEF Send, TypeOK
    <3>2. QED BY <3>1, OthersWalk DEF IInv
  <2>3. QED BY <2>1, <2>2
<1>6. QED BY <1>4, <1>5 DEF IInv

LEMMA SucceedStep ==
  ASSUME IInv, NEW c \in Clients, Succeed(c) PROVE IInv'
<1>1. TypeOK /\ phase[c] = "trying" /\ Walk(c) BY DEF IInv, Succeed
<1>2. Current(c) \in Tiers BY <1>1, CurrentIsTier DEF Walk
<1>3. degraded' \in BOOLEAN /\ fresh' \in BOOLEAN BY DEF Succeed, Record
<1>4. 0 \in Tiers /\ 0 \in 0..N BY TransportAssumption DEF Tiers
<1>5. TypeOK' BY <1>1, <1>2, <1>3, <1>4 DEF Succeed, Record, TypeOK, network
<1>6. ASSUME NEW d \in Clients PROVE Walk(d)'
  <2>1. CASE d = c
    <3>1. /\ offset'[c] = 0 /\ tried'[c] = {} /\ start'[c] = 0
          /\ phase'[c] = "idle"
      BY <1>1 DEF Succeed, TypeOK
    <3>2. \A i \in Tiers : ~(Distance(0, i) < 0)
      BY <1>4, DistanceBound, TransportAssumption
    <3>3. QED BY <2>1, <3>1, <3>2 DEF Walk
  <2>2. CASE d # c
    <3>1. /\ phase'[d] = phase[d] /\ start'[d] = start[d]
          /\ offset'[d] = offset[d] /\ tried'[d] = tried[d]
      BY <1>1, <2>2 DEF Succeed, TypeOK
    <3>2. QED BY <3>1, OthersWalk DEF IInv
  <2>3. QED BY <2>1, <2>2
<1>7. QED BY <1>5, <1>6 DEF IInv

LEMMA FailStep ==
  ASSUME IInv, NEW c \in Clients, Fail(c) PROVE IInv'
<1>1. TypeOK /\ phase[c] = "trying" /\ Walk(c) BY DEF IInv, Fail
<1>2. /\ Current(c) \in Tiers /\ Current(c) = At(start[c], offset[c])
      /\ start[c] \in Tiers /\ offset[c] \in 0..(N - 1)
  BY <1>1, CurrentIsTier DEF Walk
<1>3. offset[c] + 1 \in 0..N BY <1>2, TransportAssumption
<1>4. TypeOK'
  <2>1. offset' \in [Clients -> 0..N] BY <1>1, <1>3 DEF Fail, TypeOK
  <2>2. tried' \in [Clients -> SUBSET Tiers] BY <1>1, <1>2 DEF Fail, TypeOK
  <2>3. phase' \in [Clients -> {"idle", "trying", "failed"}]
    BY <1>1 DEF Fail, TypeOK
  <2>4. late' \in [Clients -> BOOLEAN]
    <3>1. (~GiveUpAt(c) /\ (late[c] \/ Current(c) \in hanging)) \in BOOLEAN
      OBVIOUS
    <3>2. QED BY <1>1, <3>1, Zenon DEF Fail, TypeOK
  <2>5. QED BY <1>1, <2>1, <2>2, <2>3, <2>4 DEF Fail, TypeOK, network
<1>5. ASSUME NEW d \in Clients PROVE Walk(d)'
  <2>1. CASE d = c
    <3>1. /\ offset'[c] = offset[c] + 1 /\ start'[c] = start[c]
          /\ tried'[c] = tried[c] \cup {At(start[c], offset[c])}
          /\ phase'[c] = IF offset[c] + 1 = N THEN "failed" ELSE phase[c]
      BY <1>1, <1>2 DEF Fail, GiveUpAt, TypeOK
    <3>2. ASSUME NEW i \in Tiers
          PROVE  i \in tried'[c] <=> Distance(start[c], i) < offset[c] + 1
      <4>1. i \in tried[c] <=> Distance(start[c], i) < offset[c]
        BY <1>1 DEF Walk
      <4>2. Distance(start[c], i) = offset[c] <=> i = At(start[c], offset[c])
        BY <1>2, Cycle
      <4>3. Distance(start[c], i) \in 0..(N - 1) BY <1>2, DistanceBound
      <4>4. Distance(start[c], i) < offset[c] + 1 <=>
              Distance(start[c], i) < offset[c]
                \/ Distance(start[c], i) = offset[c]
        BY <1>2, <4>3, TransportAssumption
      <4>5. QED BY <3>1, <4>1, <4>2, <4>4
    <3>3. phase'[c] = "trying" => offset'[c] < N
      BY <1>2, <3>1, TransportAssumption
    <3>4. phase'[c] = "failed" => offset'[c] = N BY <1>1, <3>1
    <3>5. QED BY <2>1, <3>1, <3>2, <3>3, <3>4 DEF Walk
  <2>2. CASE d # c
    <3>1. /\ phase'[d] = phase[d] /\ start'[d] = start[d]
          /\ offset'[d] = offset[d] /\ tried'[d] = tried[d]
      BY <1>1, <2>2 DEF Fail, TypeOK
    <3>2. QED BY <3>1, OthersWalk DEF IInv
  <2>3. QED BY <2>1, <2>2
<1>6. QED BY <1>4, <1>5 DEF IInv

(* The nudge, time and the network touch no request. *)
LEMMA OtherSteps ==
  ASSUME IInv,
         ResetSticky \/ GrowStale \/ (\E i \in Tiers : Toggle(i))
                     \/ UNCHANGED vars
  PROVE  IInv'
<1>1. TypeOK BY DEF IInv
<1>2. UNCHANGED request
  BY DEF ResetSticky, GrowStale, Toggle, vars
<1>3. 0 \in Tiers BY TransportAssumption DEF Tiers
<1>4. /\ reachable' \in SUBSET Tiers /\ idx' \in Tiers
      /\ hanging' \in SUBSET Tiers /\ hanging' \cap reachable' = {}
  BY <1>1, <1>3 DEF ResetSticky, GrowStale, Toggle, vars, network, TypeOK
<1>5. degraded' \in BOOLEAN /\ fresh' \in BOOLEAN
  BY <1>1 DEF ResetSticky, GrowStale, Toggle, vars, TypeOK
<1>6. TypeOK' BY <1>1, <1>2, <1>4, <1>5 DEF TypeOK, request
<1>7. \A d \in Clients : Walk(d)' BY <1>2 DEF IInv, Walk, request
<1>8. QED BY <1>6, <1>7 DEF IInv

LEMMA IInvStep == IInv /\ [Next]_vars => IInv'
BY SendStep, SucceedStep, FailStep, OtherSteps DEF Next, ClientStep

LEMMA Invariance == Spec => []IInv
BY InitIInv, IInvStep, PTL DEF Spec

(* The variables keep their types in every behaviour of TieredTransport. *)
THEOREM TypeCorrect == Spec => []TypeOK
<1>1. IInv => TypeOK BY DEF IInv
<1>2. QED BY <1>1, Invariance, PTL

(* RoundTrip gives up only after it called every tier, for any number of   *)
(* tiers, of concurrent requests and of moves of the sticky index.         *)
THEOREM Exhaustive == Spec => []FailsOnlyAfterAll
<1>1. IInv => FailsOnlyAfterAll
  <2> SUFFICES ASSUME IInv, NEW c \in Clients, phase[c] = "failed"
               PROVE  tried[c] = Tiers
    BY DEF FailsOnlyAfterAll
  <2>1. offset[c] = N /\ start[c] \in Tiers /\ tried[c] \in SUBSET Tiers
    BY DEF IInv, TypeOK, Walk
  <2>2. \A i \in Tiers : Distance(start[c], i) < N
    BY <2>1, DistanceBound, TransportAssumption
  <2>3. \A i \in Tiers : i \in tried[c] BY <2>1, <2>2 DEF IInv, Walk
  <2>4. QED BY <2>1, <2>3
<1>2. QED BY <1>1, Invariance, PTL

-----------------------------------------------------------------------------

(* The health flag moves only with a success, to say which tier it used;   *)
(* the nudge of the sticky index never makes the watchdog see a recovery.  *)
THEOREM HealthIsTruth == Spec => DegradedFollowsSuccess
<1>1. ASSUME Next, degraded' # degraded
      PROVE  \E c \in Clients : Succeed(c) /\ degraded' = (Current(c) # 0)
  <2>1. ~ResetSticky /\ ~GrowStale /\ \A i \in Tiers : ~Toggle(i)
    BY <1>1 DEF ResetSticky, GrowStale, Toggle
  <2>2. \A c \in Clients : ~Send(c) /\ ~Fail(c) BY <1>1 DEF Send, Fail
  <2>3. PICK c \in Clients : Succeed(c)
    BY <1>1, <2>1, <2>2 DEF Next, ClientStep
  <2>4. degraded' = (Current(c) # 0) BY <2>3 DEF Succeed, Record
  <2>5. QED BY <2>3, <2>4
<1>2. [Next]_vars =>
        [degraded' # degraded =>
          \E c \in Clients : Succeed(c) /\ degraded' = (Current(c) # 0)]_vars
  BY <1>1 DEF vars
<1>3. QED BY <1>2, PTL DEF Spec, DegradedFollowsSuccess

-----------------------------------------------------------------------------
(* The watchdog *)

(* What the watchdog does to the transport any client may do: it is one of  *)
(* the clients of TieredTransport.                                          *)
LEMMA WatchStep == ASSUME [WatchNext]_allVars PROVE [Next]_vars
<1> USE WatchdogAssumption DEF Next, ClientStep, Reachable
<1>1. CASE TickFresh BY <1>1 DEF TickFresh
<1>2. CASE TickStale BY <1>2 DEF TickStale
<1>3. CASE Probed BY <1>3 DEF Probed
<1>4. CASE Unreachable BY <1>4 DEF Unreachable
<1>5. CASE RestoredSent BY <1>5 DEF RestoredSent
<1>6. CASE Enter BY <1>6 DEF Enter
<1>7. CASE Recover BY <1>7 DEF Recover
<1>8. CASE Steady BY <1>8 DEF Steady
<1>9. CASE EnterSent BY <1>9 DEF EnterSent
<1>10. CASE RecoverSent BY <1>10 DEF RecoverSent
<1>11. CASE Succeed(Watch) \/ Fail(Watch) BY <1>11
<1>12. ASSUME NEW c \in Clients \ {Watch}, Others(c) PROVE [Next]_vars
  BY <1>12 DEF Others
<1>13. CASE Nudge BY <1>13 DEF Nudge
<1>14. CASE World BY <1>14 DEF World
<1>15. CASE UNCHANGED allVars BY <1>15 DEF allVars
<1>16. QED
  BY <1>1, <1>2, <1>3, <1>4, <1>5, <1>6, <1>7, <1>8, <1>9, <1>10, <1>11, <1>12,
     <1>13, <1>14, <1>15 DEF WatchNext, Watching

THEOREM WatchImplementsTransport == WatchSpec => Spec
<1>1. WatchInit => Init BY DEF WatchInit
<1>2. QED BY <1>1, WatchStep, PTL DEF WatchSpec, Spec

(***************************************************************************)
(* The chat believes in a degradation at least from the delivery of its    *)
(* alert until its recovery was delivered; the recovery on its way is      *)
(* announced once.                                                         *)
(***************************************************************************)
Believes ==
  /\ degradeAlerted => told
  /\ wpc = "recover" => told /\ ~degradeAlerted

LEMMA BelievesStep == ASSUME Believes, [WatchNext]_allVars PROVE Believes'
<1> USE DEF Believes
<1>1. CASE TickFresh BY <1>1 DEF TickFresh, Reachable
<1>2. CASE TickStale BY <1>2 DEF TickStale
<1>3. CASE Probed BY <1>3 DEF Probed, Reachable
<1>4. CASE Unreachable BY <1>4 DEF Unreachable
<1>5. CASE RestoredSent BY <1>5 DEF RestoredSent
<1>6. CASE Enter BY <1>6 DEF Enter
<1>7. CASE Recover BY <1>7 DEF Recover
<1>8. CASE Steady BY <1>8 DEF Steady
<1>9. CASE EnterSent
  <2>1. wpc' = "wait" BY <1>9 DEF EnterSent
  <2>2. PICK delivered \in Outcomes :
          degradeAlerted' = delivered /\ told' = (told \/ delivered)
    BY <1>9, Zenon DEF EnterSent
  <2>3. delivered \in BOOLEAN BY DEF Outcomes
  <2>4. degradeAlerted' => told' BY <2>2, <2>3, Zenon
  <2>5. QED BY <2>1, <2>4
<1>10. CASE RecoverSent
  <2>1. ~degradeAlerted' /\ wpc' # "recover" BY <1>10 DEF RecoverSent
  <2>2. QED BY <2>1
<1>11. CASE UNCHANGED watchVars BY <1>11 DEF watchVars
<1>12. QED
  BY <1>1, <1>2, <1>3, <1>4, <1>5, <1>6, <1>7, <1>8, <1>9, <1>10, <1>11
  DEF WatchNext, Watching, Others, Nudge, World, allVars

(* transportWatch announces a recovery only to a chat that was told of the  *)
(* degradation, whatever becomes of the messages.                           *)
THEOREM RecoveriesFollow == WatchSpec => []RecoveryFollowsAlert
<1>1. WatchInit => Believes BY DEF WatchInit, Believes
<1>2. Believes => RecoveryFollowsAlert BY DEF Believes, RecoveryFollowsAlert
<1>3. QED BY <1>1, <1>2, BelievesStep, PTL DEF WatchSpec

LEMMA WatchTypesStep ==
  ASSUME TypeOK, TypeOK', WatchTypeOK, [WatchNext]_allVars
  PROVE  WatchTypeOK'
<1>1. UNCHANGED environment =>
        solid' \subseteq Tiers /\ hangs' \in BOOLEAN /\ rejects' \in BOOLEAN
  BY DEF WatchTypeOK, environment
<1>2. wpc' \in {"wait", "probe", "restored", "sample", "enter", "recover"}
  BY DEF WatchTypeOK, WatchNext, Watching, TickFresh, TickStale, Probed, Unreachable,
     RestoredSent, Reachable, Enter, Recover, Steady, EnterSent, RecoverSent, Others,
     Nudge, World, watchVars, allVars
<1>3. outage' \in BOOLEAN /\ degradedSeen' \in BOOLEAN
  BY DEF WatchTypeOK, WatchNext, Watching, TickFresh, TickStale, Probed, Unreachable,
     RestoredSent, Reachable, Enter, Recover, Steady, EnterSent, RecoverSent, Others,
     Nudge, World, watchVars, allVars
<1>4. degradeAlerted' \in BOOLEAN /\ told' \in BOOLEAN
  <2>1. Outcomes \subseteq BOOLEAN BY DEF Outcomes
  <2>2. CASE EnterSent BY <2>1, <2>2, Zenon DEF EnterSent
  <2>3. CASE RecoverSent
    <3>1. told' \in BOOLEAN BY <2>3, Zenon DEF RecoverSent
    <3>2. degradeAlerted' = degradeAlerted BY <2>3 DEF RecoverSent
    <3>3. QED BY <3>1, <3>2 DEF WatchTypeOK
  <2>4. CASE ~EnterSent /\ ~RecoverSent
    BY <2>4 DEF WatchTypeOK, WatchNext, Watching, TickFresh, TickStale, Probed,
       Unreachable, RestoredSent, Reachable, Enter, Recover, Steady, Others, Nudge,
       World, watchVars, allVars
  <2>5. QED BY <2>2, <2>3, <2>4
<1>5. UNCHANGED environment
  BY DEF WatchNext, Watching, TickFresh, TickStale, Probed, Unreachable, RestoredSent,
     Enter, Recover, Steady, EnterSent, RecoverSent, Others, Nudge, World, allVars
<1>6. QED BY <1>1, <1>2, <1>3, <1>4, <1>5 DEF WatchTypeOK

(* The watchdog, its episodes and the transport under it have their types,  *)
(* for any number of tiers and clients.                                     *)
THEOREM WatchTypeCorrect == WatchSpec => []WatchTypeOK
<1>1. WatchSpec => []TypeOK BY WatchImplementsTransport, TypeCorrect, PTL
<1>2. WatchInit => WatchTypeOK
  <2>1. Init => TypeOK BY InitIInv DEF IInv
  <2>2. QED BY <2>1 DEF WatchInit, WatchTypeOK
<1>3. QED BY <1>1, <1>2, WatchTypesStep, PTL DEF WatchSpec

(* transportWatch declares an outage only after its probe was called on     *)
(* every tier, or was turned down by Telegram: what the transport promises  *)
(* of each request it promises of the probe.                                *)
LEMMA OutageStep ==
  ASSUME FailsOnlyAfterAll, [WatchNext]_allVars, outage', ~outage
  PROVE  rejects \/ tried[Watch] = Tiers
<1>1. CASE Unreachable
  <2>1. rejects \/ phase[Watch] = "failed" BY <1>1 DEF Unreachable
  <2>2. QED BY <2>1, WatchdogAssumption DEF FailsOnlyAfterAll
<1>2. CASE ~Unreachable
  <2>1. UNCHANGED outage \/ outage' = FALSE
    BY <1>2 DEF WatchNext, Watching, TickFresh, TickStale, Probed, RestoredSent,
       Reachable, Enter, Recover, Steady, EnterSent, RecoverSent, Others, Nudge,
       World, watchVars, allVars
  <2>2. QED BY <2>1
<1>3. QED BY <1>1, <1>2

THEOREM OutagesAreConfirmed == WatchSpec => OutageIsConfirmed
<1>1. WatchSpec => []FailsOnlyAfterAll BY WatchImplementsTransport, Exhaustive, PTL
<1>2. FailsOnlyAfterAll /\ [WatchNext]_allVars
        => [outage' /\ ~outage => rejects \/ tried[Watch] = Tiers]_allVars
  BY OutageStep
<1>3. QED BY <1>1, <1>2, PTL DEF WatchSpec, OutageIsConfirmed

-----------------------------------------------------------------------------
(* The dialer and the refresh of its addresses. *)

(***************************************************************************)
(* What a refresh is about to apply or to save was filtered and merged     *)
(* (FoundIsTrusted), so UCI holds that or what the owner wrote             *)
(* (UciIsTrusted).  When only the timer refreshes and UCI can be written,  *)
(* the set in memory is that of UCI but between SetEmergencyIPs and        *)
(* SaveEmergencyIPs, when it is the one to be saved (OneSet).              *)
(***************************************************************************)
Shape ==
  /\ pc \in [Refreshers -> {"idle", "asking", "applying", "saving"}]
  /\ DOMAIN found = Refreshers /\ scenario \in Scenarios

FoundIsTrusted ==
  \A r \in Refreshers : pc[r] \in {"applying", "saving"} =>
     found[r] # {} /\ found[r] \subseteq InRange

UciIsTrusted == uci \subseteq InRange \/ uci = scenario.owner

Alone == scenario.refreshers \subseteq {Timer} /\ ~scenario.fails

OneSet ==
  Alone =>
    /\ \A r \in Refreshers \ {Timer} : pc[r] = "idle"
    /\ ips = IF pc[Timer] = "saving" THEN found[Timer] ELSE startIPs(uci)

RefreshInv == Shape /\ FoundIsTrusted /\ UciIsTrusted /\ PinnedIsTrusted /\ OneSet

LEMMA InitRefreshInv == RefreshInit => RefreshInv
BY RefreshAssumption
DEF RefreshInit, RefreshInv, Shape, FoundIsTrusted, UciIsTrusted, PinnedIsTrusted, OneSet,
    startIPs, Refreshers

(* What is merged contains the compiled-in addresses and no strangers. *)
LEMMA Merged ==
  ASSUME NEW answers
  PROVE  /\ mergeIPs(Usable(answers)) # {}
         /\ mergeIPs(Usable(answers)) \subseteq InRange
BY RefreshAssumption DEF mergeIPs, Usable

LEMMA RefreshInvStep == ASSUME RefreshInv, [RefreshNext]_refreshVars PROVE RefreshInv'
<1> USE RefreshAssumption
    DEF RefreshInv, Shape, FoundIsTrusted, UciIsTrusted, PinnedIsTrusted, OneSet, Alone,
        Refreshers
<1>1. ASSUME NEW r \in Refreshers, Begin(r) PROVE RefreshInv' BY <1>1 DEF Begin, Go
<1>2. ASSUME NEW r \in Refreshers, NEW answers, Discover(r, answers) PROVE RefreshInv'
  BY <1>2, Merged DEF Discover, Go
<1>3. ASSUME NEW r \in Refreshers, DiscoverNone(r) PROVE RefreshInv'
  BY <1>3 DEF DiscoverNone, Go
<1>4. ASSUME NEW r \in Refreshers, Apply(r) PROVE RefreshInv'
  BY <1>4 DEF Apply, Go, setIPs
<1>5. ASSUME NEW r \in Refreshers, Save(r) PROVE RefreshInv'
  BY <1>5 DEF Save, Go, Forget, startIPs
<1>6. ASSUME NEW d \in Dialers, Dialing(d) PROVE RefreshInv'
  BY <1>6 DEF Dialing, DialStep, Dial, Connect, Skip, refresh
<1>7. CASE Network BY <1>7 DEF Network, Die, Revive, refresh
<1>8. CASE Restart BY <1>8 DEF Restart, startIPs
<1>9. CASE UNCHANGED refreshVars BY <1>9 DEF refreshVars, refresh
<1>10. QED
  BY <1>1, <1>2, <1>3, <1>4, <1>5, <1>6, <1>7, <1>8, <1>9 DEF RefreshNext, Refresh

LEMMA RefreshInvHolds == RefreshSpec => []RefreshInv
<1>1. QED BY InitRefreshInv, RefreshInvStep, PTL DEF RefreshSpec

(* Discover and refreshEmergencyIPsOnce: no answer of a resolver outside    *)
(* Telegram's ranges is ever dialed, in this life or, by way of UCI, in a   *)
(* later one.                                                               *)
THEOREM DialsOnlyTrusted == RefreshSpec => []PinnedIsTrusted
<1>1. RefreshInv => PinnedIsTrusted BY DEF RefreshInv
<1>2. QED BY <1>1, RefreshInvHolds, PTL

(* refreshEmergencyIPsOnce with one refresher: the set in memory is the one *)
(* that the next start takes from UCI, wherever a restart comes.            *)
THEOREM MemoryIsSaved == RefreshSpec => []SavedIsPinned
<1>1. RefreshInv => SavedIsPinned BY DEF RefreshInv, OneSet, Alone, SavedIsPinned
<1>2. QED BY <1>1, RefreshInvHolds, PTL

-----------------------------------------------------------------------------
(***************************************************************************)
(* The walk of a dial.  An address of its copy that has been live since it *)
(* began is still ahead of it (SteadfastIsAhead), and of those ahead the   *)
(* ones that were healthy when it was sorted come first (KnownIsAhead).    *)
(***************************************************************************)
WalkOK ==
  /\ walk \in [Dialers -> Seq(Addresses)]
  /\ state \in [Dialers -> {"idle", "dialing", "failed"}]
  /\ DOMAIN steadfast = Dialers /\ DOMAIN known = Dialers
  /\ \A d \in Dialers : /\ state[d] = "dialing" => walk[d] # <<>>
                        /\ IsInjective(walk[d])

SteadfastIsAhead ==
  \A d \in Dialers :
    /\ steadfast[d] \subseteq live
    /\ IF state[d] = "dialing" THEN steadfast[d] \subseteq Range(walk[d])
                               ELSE steadfast[d] = {}

KnownIsAhead ==
  \A d \in Dialers : \A i, j \in DOMAIN walk[d] :
    i < j /\ walk[d][j] \in known[d] => walk[d][i] \in known[d]

WalkInv == WalkOK /\ SteadfastIsAhead /\ KnownIsAhead

(* orderedIPs: what it returns has each address of the set once, and the     *)
(* healthy ones first.                                                       *)
LEMMA OrdersAreWalks ==
  ASSUME NEW s \in SUBSET Addresses, NEW w \in Orders(s)
  PROVE  /\ w \in Seq(Addresses) /\ IsInjective(w) /\ Range(w) = s
         /\ s # {} => w # <<>>
         /\ \A i, j \in DOMAIN w : i < j /\ w[j] \in Healthy => w[i] \in Healthy
<1> DEFINE n == Cardinality(s)
<1>1. IsFiniteSet(s)
  <2>1. IPs \in Seq(Addresses) BY DialerAssumption DEF Addresses
  <2>2. IPs \in Surjection(1..Len(IPs), Addresses)
    BY <2>1 DEF Surjection, Addresses, Range
  <2>3. IsFiniteSet(1..Len(IPs)) BY <2>1, FS_Interval
  <2>4. IsFiniteSet(Addresses) BY <2>2, <2>3, FS_Surjection
  <2>5. QED BY <2>4, FS_Subset
<1>2. n \in Nat /\ (s # {} => n # 0) BY <1>1, FS_CardinalityType, FS_EmptySet
<1>3. w \in [1..n -> s] /\ \A i, j \in 1..n : i # j => w[i] # w[j]
  BY DEF Orders, SetToSeqs
<1>4. w \in Seq(Addresses) /\ Len(w) = n
  <2>1. w \in [1..n -> Addresses] BY <1>3
  <2>2. QED BY <1>2, <2>1
<1>5. w \in Injection(1..n, s) BY <1>3 DEF Injection, IsInjective
<1>6. IsFiniteSet(1..n) /\ Cardinality(1..n) = n BY <1>2, FS_Interval
<1>7. w \in Surjection(1..n, s) BY <1>1, <1>5, <1>6, FS_Injection
<1>8. IsInjective(w) /\ Range(w) = s BY <1>3, <1>7 DEF IsInjective, Surjection, Range
<1>9. s # {} => w # <<>> BY <1>2, <1>4
<1>10. ASSUME NEW i \in DOMAIN w, NEW j \in DOMAIN w, i < j, w[j] \in Healthy
       PROVE  w[i] \in Healthy
  <2>1. Before(w[i], w[j]) BY <1>10 DEF Orders
  <2>2. rank(w[j]) = 0 BY <1>10 DEF rank
  <2>3. rank(w[i]) = 0 BY <2>1, <2>2 DEF Before, rank
  <2>4. QED BY <2>3 DEF rank
<1>11. QED BY <1>4, <1>8, <1>9, <1>10

LEMMA InitWalkInv == RefreshInit => WalkInv
BY RefreshAssumption
DEF RefreshInit, NoDial, startIPs, WalkInv, WalkOK, SteadfastIsAhead, KnownIsAhead,
    IsInjective, Scenario

LEMMA WalkStep == ASSUME RefreshInv, WalkInv, [RefreshNext]_refreshVars PROVE WalkInv'
<1> USE DEF WalkInv, WalkOK, SteadfastIsAhead, KnownIsAhead, dial
<1>1. ASSUME NEW d \in Dialers, Dial(d) PROVE WalkInv'
  <2>1. ips \in SUBSET Addresses
    BY RefreshAssumption DEF RefreshInv, Shape, PinnedIsTrusted, Scenario
  <2>2. PICK w \in Orders(ips) : walk' = [walk EXCEPT ![d] = w]
    BY <1>1 DEF Dial
  <2>3. /\ w \in Seq(Addresses) /\ IsInjective(w) /\ Range(w) = ips
        /\ ips # {} => w # <<>>
        /\ \A i, j \in DOMAIN w : i < j /\ w[j] \in Healthy => w[i] \in Healthy
    BY <2>1, OrdersAreWalks
  <2>4. \A i \in DOMAIN w : w[i] \in ips BY <2>3 DEF Range
  <2>5. WalkOK' BY <1>1, <2>2, <2>3 DEF Dial
  <2>6. SteadfastIsAhead' BY <1>1, <2>2, <2>3 DEF Dial
  <2>7. KnownIsAhead' BY <1>1, <2>2, <2>3, <2>4 DEF Dial
  <2>8. QED BY <2>5, <2>6, <2>7
<1>2. ASSUME NEW d \in Dialers, Connect(d) PROVE WalkInv'
  BY <1>2 DEF Connect, IsInjective
<1>3. ASSUME NEW d \in Dialers, Skip(d) PROVE WalkInv'
  <2> DEFINE w == walk[d]
             rest == Tail(w)
  <2>1. w \in Seq(Addresses) /\ w # <<>> /\ Head(w) \notin live BY <1>3 DEF Skip
  <2>2. /\ rest \in Seq(Addresses) /\ Len(rest) = Len(w) - 1 /\ Len(w) \in Nat
        /\ DOMAIN rest = 1..Len(rest) /\ DOMAIN w = 1..Len(w) /\ 1 \in DOMAIN w
        /\ Head(w) = w[1] /\ \A i \in DOMAIN rest : i + 1 \in DOMAIN w /\ rest[i] = w[i + 1]
    BY <2>1
  <2> HIDE DEF rest, w
  <2>3. IsInjective(rest)
    <3>1. IsInjective(w) BY DEF w
    <3>2. QED BY <2>2, <3>1 DEF IsInjective
  <2>4. Range(w) = {Head(w)} \cup Range(rest)
    <3>1. ASSUME NEW i \in DOMAIN w, i # 1
          PROVE  i - 1 \in DOMAIN rest /\ rest[i - 1] = w[i]
      <4>1. i - 1 \in DOMAIN rest /\ (i - 1) + 1 = i BY <2>2, <3>1
      <4>2. QED BY <2>2, <4>1
    <3>2. Range(w) \subseteq {Head(w)} \cup Range(rest)
      <4>1. ASSUME NEW i \in DOMAIN w PROVE w[i] = Head(w) \/ w[i] \in Range(rest)
        BY <2>2, <3>1 DEF Range
      <4>2. QED BY <4>1 DEF Range
    <3>3. Head(w) \in Range(w) BY <2>2 DEF Range
    <3>4. Range(rest) \subseteq Range(w) BY <2>2 DEF Range
    <3>5. QED BY <3>2, <3>3, <3>4
  <2>5. /\ walk' = [walk EXCEPT ![d] = rest]
        /\ state' = [state EXCEPT ![d] = IF Len(w) = 1 THEN "failed" ELSE @]
        /\ known' = [known EXCEPT ![d] = @ \ {Head(w)}]
        /\ state[d] = "dialing" /\ UNCHANGED <<live, ips, steadfast>>
    BY <1>3 DEF Skip, w, rest
  <2>6. WalkOK' BY <2>2, <2>3, <2>5
  <2>7. steadfast[d] \subseteq Range(rest) BY <2>1, <2>4, <2>5 DEF w
  <2>8. Len(w) = 1 => Range(rest) = {} BY <2>2 DEF Range
  <2>9. SteadfastIsAhead' BY <2>5, <2>7, <2>8
  <2>10. KnownIsAhead'
    <3>1. ASSUME NEW i \in DOMAIN rest, NEW j \in DOMAIN rest, i < j,
                 rest[j] \in known[d] \ {Head(w)}
          PROVE  rest[i] \in known[d] \ {Head(w)}
      <4>1. w[i + 1] \in known[d] BY <2>2, <3>1 DEF w
      <4>2. w[i + 1] # w[1]
        <5>1. IsInjective(w) /\ i + 1 # 1 BY <2>2 DEF w
        <5>2. QED BY <2>2, <5>1 DEF IsInjective
      <4>3. QED BY <2>2, <4>1, <4>2
    <3>2. QED BY <2>5, <3>1
  <2>11. QED BY <2>6, <2>9, <2>10
<1>4. CASE Network BY <1>4 DEF Network, Die, Revive
<1>5. CASE Restart BY <1>5 DEF Restart, IsInjective
<1>6. ASSUME NEW r \in Refreshers, Refresh(r) PROVE WalkInv'
  <2>1. UNCHANGED <<live, dial>>
    BY <1>6 DEF Refresh, Begin, Discover, DiscoverNone, Apply, Save
  <2>2. QED BY <2>1
<1>7. CASE UNCHANGED refreshVars BY <1>7 DEF refreshVars
<1>8. QED BY <1>1, <1>2, <1>3, <1>4, <1>5, <1>6, <1>7 DEF RefreshNext, Dialing, DialStep

LEMMA WalkInvHolds == RefreshSpec => []WalkInv
<1>1. RefreshInv /\ WalkInv /\ [RefreshNext]_refreshVars => WalkInv' BY WalkStep
<1>2. QED BY InitWalkInv, <1>1, RefreshInvHolds, PTL DEF RefreshSpec

(* dialTLS: a dial fails only if each address of its copy was dead at some   *)
(* moment of the walk, for any number of dials that record outcomes, and     *)
(* refreshes that swap the set, meanwhile.                                   *)
THEOREM LiveIsFound == RefreshSpec => []SteadfastIsFound
<1>1. WalkInv => SteadfastIsFound BY DEF WalkInv, SteadfastIsAhead, SteadfastIsFound
<1>2. QED BY <1>1, WalkInvHolds, PTL

(* orderedIPs and dialTLS: no address is tried before all that were healthy  *)
(* when the dial began, whatever the health map says since.                  *)
THEOREM HealthyGoFirst == RefreshSpec => []KnownGoodFirst
<1>1. WalkInv => KnownGoodFirst
  <2>1. SUFFICES ASSUME WalkInv, NEW d \in Dialers, state[d] = "dialing",
                        Head(walk[d]) \notin known[d]
                 PROVE  Range(walk[d]) \cap known[d] = {}
    BY DEF KnownGoodFirst
  <2>2. walk[d] \in Seq(Addresses) /\ walk[d] # <<>> BY <2>1 DEF WalkInv, WalkOK
  <2>3. 1 \in DOMAIN walk[d] /\ Head(walk[d]) = walk[d][1] BY <2>2
  <2>4. ASSUME NEW j \in DOMAIN walk[d] PROVE walk[d][j] \notin known[d]
    <3>1. j = 1 \/ 1 < j BY <2>2
    <3>2. QED BY <2>1, <2>3, <3>1 DEF WalkInv, KnownIsAhead
  <2>5. QED BY <2>4 DEF Range
<1>2. QED BY <1>1, WalkInvHolds, PTL
=============================================================================
