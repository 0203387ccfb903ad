-------------------------- MODULE TieredTransport --------------------------
(***************************************************************************)
(* transport.TieredTransport: an HTTP round trip is tried on the sticky    *)
(* tier first and then on every other tier in cascade order; a success     *)
(* makes its tier the sticky one.  Several goroutines (the long poll, the  *)
(* handlers, the checks) share the transport: each reads the sticky index  *)
(* under the mutex when it starts, performs its attempts without it, and   *)
(* takes the mutex again to record a success.  A periodic nudge            *)
(* (runStickyReset) moves the index back to tier 0.  Whether a tier        *)
(* carries traffic, refuses it at once or hangs is up to the network.  All *)
(* the attempts of a request share one deadline, that of its context: the  *)
(* client's 75 s, the probe's 15 s.  A tier that hangs uses it up.         *)
(***************************************************************************)
EXTENDS Integers, FiniteSets

CONSTANTS Clients,   \* goroutines that send requests
          N          \* number of tiers: 2 with SOCKS5 configured, else 1

ASSUME TransportAssumption == N \in Nat \ {0}

Tiers == 0..(N - 1)

VARIABLES
  reachable,  \* the tiers that answer in time at the moment
  hanging,    \* of the others, those where an attempt lasts until the deadline
  idx,        \* sticky index
  degraded,   \* the last success used a tier other than 0
  fresh,      \* lastSuccessAt is recent enough for the watchdog
  phase,      \* what a client is doing: "idle", "trying", "failed"
  start,      \* the sticky index its request began with
  offset,     \* how many tiers its request has tried
  late,       \* the deadline of its request has passed
  tried       \* history: which tiers it has called, in time or late

network == <<reachable, hanging>>
request == <<phase, start, offset, late, tried>>
vars == <<network, idx, degraded, fresh, request>>

TypeOK ==
  /\ reachable \in SUBSET Tiers
  /\ hanging \in SUBSET Tiers /\ hanging \cap reachable = {}
  /\ idx \in Tiers
  /\ degraded \in BOOLEAN
  /\ fresh \in BOOLEAN
  /\ phase \in [Clients -> {"idle", "trying", "failed"}]
  /\ start \in [Clients -> Tiers]
  /\ offset \in [Clients -> 0..N]
  /\ late \in [Clients -> BOOLEAN]
  /\ tried \in [Clients -> SUBSET Tiers]

(* The transport assumes it is healthy when it is built. *)
Init ==
  /\ reachable = Tiers /\ hanging = {}
  /\ idx = 0 /\ degraded = FALSE /\ fresh = TRUE
  /\ phase = [c \in Clients |-> "idle"]
  /\ start = [c \in Clients |-> 0]
  /\ offset = [c \in Clients |-> 0]
  /\ late = [c \in Clients |-> FALSE]
  /\ tried = [c \in Clients |-> {}]

-----------------------------------------------------------------------------

(* RoundTrip begins: the sticky index is read; the deadline is ahead. *)
Send(c) ==
  /\ phase[c] # "trying"
  /\ phase' = [phase EXCEPT ![c] = "trying"]
  /\ start' = [start EXCEPT ![c] = idx]
  /\ offset' = [offset EXCEPT ![c] = 0]
  /\ late' = [late EXCEPT ![c] = FALSE]
  /\ tried' = [tried EXCEPT ![c] = {}]
  /\ UNCHANGED <<network, idx, degraded, fresh>>

(* The tier a request is trying, (start + offset) % n: the cascade wraps    *)
(* around.                                                                  *)
Current_NoWrap(c) ==   \* mutant: the tiers before the sticky one are skipped
  IF start[c] + offset[c] < N THEN start[c] + offset[c] ELSE N - 1
Current(c) == IF start[c] + offset[c] < N THEN start[c] + offset[c]
                                          ELSE start[c] + offset[c] - N

(* What a success records, under the mutex. *)
Record(i) ==
  /\ idx' = i
  /\ degraded' = (i # 0)
  /\ fresh' = TRUE

(* A tier that works answers a call made before the deadline; the locals of *)
(* the request are gone.                                                    *)
Succeed(c) ==
  /\ phase[c] = "trying" /\ Current(c) \in reachable /\ ~late[c]
  /\ Record(Current(c))
  /\ phase' = [phase EXCEPT ![c] = "idle"]
  /\ start' = [start EXCEPT ![c] = 0]
  /\ offset' = [offset EXCEPT ![c] = 0]
  /\ tried' = [tried EXCEPT ![c] = {}]
  /\ UNCHANGED <<network, late>>

(* A tier failed: the next one is called, or the request has failed.  After *)
(* its deadline every call fails at once, that of a tier that works too.    *)
GiveUpAt_Early(c) == offset[c] + 2 >= N   \* mutant: the loop ends one short
GiveUpAt(c) == offset[c] + 1 = N
Fail(c) ==
  /\ phase[c] = "trying" /\ (Current(c) \notin reachable \/ late[c])
  /\ late' = [late EXCEPT ![c] = ~GiveUpAt(c) /\ (@ \/ Current(c) \in hanging)]
  /\ offset' = [offset EXCEPT ![c] = @ + 1]
  /\ tried' = [tried EXCEPT ![c] = @ \cup {Current(c)}]
  /\ phase' = [phase EXCEPT ![c] = IF GiveUpAt(c) THEN "failed" ELSE @]
  /\ UNCHANGED <<network, idx, degraded, fresh, start>>

(* runStickyReset, once per stickyResetInterval *)
ResetSticky_Health ==   \* mutant: the nudge also clears the health flag
  /\ idx # 0 /\ idx' = 0 /\ degraded' = FALSE
  /\ UNCHANGED <<network, fresh, request>>
ResetSticky ==
  /\ idx # 0 /\ idx' = 0
  /\ UNCHANGED <<network, degraded, fresh, request>>

(* More time than watchLivenessStale passes without a success. *)
GrowStale ==
  /\ fresh /\ fresh' = FALSE
  /\ UNCHANGED <<network, idx, degraded, request>>

(* The network: a tier breaks, so that it refuses or hangs, or recovers. *)
Toggle(i) ==
  /\ \/ /\ i \in reachable /\ reachable' = reachable \ {i}
        /\ hanging' \in {hanging, hanging \cup {i}}
     \/ /\ i \notin reachable /\ reachable' = reachable \cup {i}
        /\ hanging' = hanging \ {i}
  /\ UNCHANGED <<idx, degraded, fresh, request>>

ClientStep(c) == Send(c) \/ Succeed(c) \/ Fail(c)

Next == \/ \E c \in Clients : ClientStep(c)
        \/ ResetSticky \/ GrowStale
        \/ \E i \in Tiers : Toggle(i)

Spec == Init /\ [][Next]_vars

(* Every attempt ends (at the deadline of its request at last), clients     *)
(* keep sending (the long poll never stops), and the reset ticker ticks.    *)
Fairness == /\ \A c \in Clients : WF_vars(ClientStep(c))
            /\ WF_vars(ResetSticky)
FairSpec == Spec /\ Fairness

-----------------------------------------------------------------------------

(* RoundTrip reports failure only after it called every tier, the sticky    *)
(* one and those before and after it in the cascade, wherever it started    *)
(* and however the index moved in the meantime; those it called after its   *)
(* deadline could not answer any more.                                      *)
FailsOnlyAfterAll == \A c \in Clients : phase[c] = "failed" => tried[c] = Tiers

(* transport.go:135-139: the health flag is about the last success; neither *)
(* the nudge of ResetSticky nor a failure moves it.                         *)
DegradedFollowsSuccess ==
  [][degraded' # degraded =>
       \E c \in Clients : Succeed(c) /\ degraded' = (Current(c) # 0)]_vars

(* Once some tier works for good and none hangs any more, requests stop     *)
(* failing, whatever indexes and deadlines were left by the time before.    *)
Carries(i) == <>[](i \in reachable /\ hanging = {})
AnyTierSuffices ==
  \A i \in Tiers : Carries(i) =>
    \A c \in Clients : <>[][phase'[c] = "failed" => UNCHANGED phase[c]]_vars

(* transport.go:165-167, README.md:23: without the second condition it does *)
(* not hold: each nudge sends requests to a first tier that hangs, and the  *)
(* tier that works is called after their deadline.                          *)
FallsBack ==
  \A i \in Tiers : <>[](i \in reachable) =>
    \A c \in Clients : <>[][phase'[c] = "failed" => UNCHANGED phase[c]]_vars

(* transport.go:112-113: once the primary path recovered for good, traffic  *)
(* is not pinned to another tier: requests start on tier 0 again.  It does  *)
(* not hold: a late success on another tier can undo every nudge.           *)
PrimaryIsReclaimed ==
  <>[](0 \in reachable) =>
    []<>(\E c \in Clients : phase[c] = "trying" /\ start[c] = 0)
=============================================================================
