------------------------------ MODULE Watchdog ------------------------------
(***************************************************************************)
(* Bot.transportWatch: every 30 seconds one goroutine samples the health   *)
(* of the transport and tells the chat when the path degrades, breaks or   *)
(* recovers.  Its probe (getMe) and its alerts are requests like any other *)
(* and go through the same TieredTransport as the requests of the other    *)
(* clients, so sampling changes what is sampled.  `told' is what the chat  *)
(* was last told about the primary path.                                   *)
(***************************************************************************)
EXTENDS TieredTransport

CONSTANTS Watch   \* the watchdog's goroutine, one of Clients

ASSUME WatchdogAssumption == Watch \in Clients

VARIABLES
  wpc,             \* where the loop is: waiting for a tick, sending, sampling
  outage,          \* an outage episode is open
  degradedSeen,    \* the local `degraded': a degradation episode is open
  degradeAlerted,  \* its alert was delivered
  told,            \* the chat: FALSE after "recovered", TRUE after "degraded"
  solid,           \* environment: tiers that never break
  hangs,           \* environment: tiers that break may hang
  rejects          \* environment: Telegram may answer with an error (429, ...)

watchVars == <<wpc, outage, degradedSeen, degradeAlerted, told>>
environment == <<solid, hangs, rejects>>
allVars == <<vars, watchVars, environment>>

WatchTypeOK ==
  /\ TypeOK
  /\ wpc \in {"wait", "probe", "restored", "sample", "enter", "recover"}
  /\ {outage, degradedSeen, degradeAlerted, told} \subseteq BOOLEAN
  /\ solid \subseteq Tiers /\ hangs \in BOOLEAN /\ rejects \in BOOLEAN

WatchInit ==
  /\ Init
  /\ wpc = "wait" /\ outage = FALSE
  /\ degradedSeen = FALSE /\ degradeAlerted = FALSE /\ told = FALSE
  /\ solid \in SUBSET Tiers /\ hangs \in BOOLEAN /\ rejects \in BOOLEAN

-----------------------------------------------------------------------------

(* Telegram can be reached: an open outage ends with a message, which is    *)
(* sent once, whatever becomes of it; else the tier is sampled.             *)
Reachable_StaysOut ==   \* mutant: the episode is reported but not closed
  IF outage
    THEN /\ wpc' = "restored" /\ Send(Watch) /\ UNCHANGED outage
    ELSE /\ wpc' = "sample" /\ UNCHANGED <<outage, vars>>
Reachable ==
  IF outage
    THEN /\ outage' = FALSE /\ wpc' = "restored" /\ Send(Watch)
    ELSE /\ wpc' = "sample" /\ UNCHANGED <<outage, vars>>

(* A tick finds that the last success is recent, or starts the probe, which *)
(* has a deadline of its own for all tiers together.                        *)
TickFresh ==
  /\ wpc = "wait" /\ fresh
  /\ Reachable
  /\ UNCHANGED <<degradedSeen, degradeAlerted, told, environment>>

TickStale_NoProbe ==   \* mutant: staleness alone is taken for an outage
  /\ wpc = "wait" /\ ~fresh
  /\ outage' = TRUE
  /\ UNCHANGED <<vars, wpc, degradedSeen, degradeAlerted, told, environment>>
TickStale ==
  /\ wpc = "wait" /\ ~fresh
  /\ Send(Watch) /\ wpc' = "probe"
  /\ UNCHANGED <<outage, degradedSeen, degradeAlerted, told, environment>>

(* The probe's answer: getMe succeeds, every tier failed, be it that the    *)
(* first used up the time, or Telegram answered with an error, which counts *)
(* as unreachable too.                                                      *)
Probed ==
  /\ wpc = "probe" /\ phase[Watch] = "idle"
  /\ Reachable
  /\ UNCHANGED <<degradedSeen, degradeAlerted, told, environment>>

Unreachable ==
  /\ wpc = "probe"
  /\ phase[Watch] \in (IF rejects THEN {"failed", "idle"} ELSE {"failed"})
  /\ outage' = TRUE /\ wpc' = "wait"
  /\ UNCHANGED <<vars, degradedSeen, degradeAlerted, told, environment>>

RestoredSent ==
  /\ wpc = "restored" /\ phase[Watch] # "trying"
  /\ wpc' = "sample"
  /\ UNCHANGED <<vars, outage, degradedSeen, degradeAlerted, told, environment>>

-----------------------------------------------------------------------------

(* The degradation episode: Degraded() is sampled, an edge sends an alert.  *)
Enter ==
  /\ wpc = "sample" /\ degraded /\ ~degradedSeen
  /\ degradedSeen' = TRUE
  /\ Send(Watch) /\ wpc' = "enter"
  /\ UNCHANGED <<outage, degradeAlerted, told, environment>>

Recover_Silent ==   \* mutant: the flag is cleared before it is read
  /\ wpc = "sample" /\ ~degraded /\ degradedSeen
  /\ degradedSeen' = FALSE /\ degradeAlerted' = FALSE
  /\ wpc' = "wait"
  /\ UNCHANGED <<vars, outage, told, environment>>
Recover_Always ==   \* mutant: the recovery is announced in any case
  /\ wpc = "sample" /\ ~degraded /\ degradedSeen
  /\ degradedSeen' = FALSE
  /\ degradeAlerted' = FALSE
  /\ Send(Watch) /\ wpc' = "recover"
  /\ UNCHANGED <<outage, told, environment>>
Recover ==
  /\ wpc = "sample" /\ ~degraded /\ degradedSeen
  /\ degradedSeen' = FALSE
  /\ degradeAlerted' = FALSE
  /\ IF degradeAlerted THEN Send(Watch) /\ wpc' = "recover"
                       ELSE wpc' = "wait" /\ UNCHANGED vars
  /\ UNCHANGED <<outage, told, environment>>

Steady ==
  /\ wpc = "sample" /\ degraded = degradedSeen
  /\ wpc' = "wait"
  /\ UNCHANGED <<vars, outage, degradedSeen, degradeAlerted, told, environment>>

(* What SendMessage reported: the round trip failed, Telegram refused the   *)
(* message, or it was posted.                                               *)
Outcomes == IF phase[Watch] = "failed" THEN {FALSE}
            ELSE IF rejects THEN BOOLEAN ELSE {TRUE}

EnterSent ==
  /\ wpc = "enter" /\ phase[Watch] # "trying"
  /\ \E delivered \in Outcomes :
       /\ degradeAlerted' = delivered
       /\ told' = (told \/ delivered)
  /\ wpc' = "wait"
  /\ UNCHANGED <<vars, outage, degradedSeen, environment>>

RecoverSent ==
  /\ wpc = "recover" /\ phase[Watch] # "trying"
  /\ \E delivered \in Outcomes : told' = (told /\ ~delivered)
  /\ wpc' = "wait"
  /\ UNCHANGED <<vars, outage, degradedSeen, degradeAlerted, environment>>

Watching ==
  \/ TickFresh \/ TickStale \/ Probed \/ Unreachable \/ RestoredSent
  \/ Enter \/ Recover \/ Steady \/ EnterSent \/ RecoverSent
  \/ (Succeed(Watch) \/ Fail(Watch)) /\ UNCHANGED <<watchVars, environment>>

Others(c) == ClientStep(c) /\ UNCHANGED <<watchVars, environment>>
Nudge == ResetSticky /\ UNCHANGED <<watchVars, environment>>
World == /\ \/ GrowStale
            \/ \E i \in Tiers \ solid : Toggle(i) /\ (hanging' # {} => hangs)
         /\ UNCHANGED <<watchVars, environment>>

WatchNext ==
  \/ Watching
  \/ \E c \in Clients \ {Watch} : Others(c)
  \/ Nudge \/ World

(* The ticker ticks and every request ends; nothing is asked of the network. *)
WatchSpec ==
  /\ WatchInit /\ [][WatchNext]_allVars
  /\ WF_allVars(Watching) /\ WF_allVars(Nudge)
  /\ \A c \in Clients \ {Watch} : WF_allVars(Others(c))

-----------------------------------------------------------------------------

(* The chat is told that the primary path recovered only if it believes it  *)
(* to be down: a recovery never comes before its degradation.               *)
RecoveryFollowsAlert == wpc = "recover" => told

(* An outage is declared only after the probe was called on every tier and  *)
(* failed, in time or at its deadline, unless Telegram turned it down.      *)
OutageIsConfirmed ==
  [][outage' /\ ~outage => rejects \/ tried[Watch] = Tiers]_allVars

(* Once a tier works for good and none hangs any more, the outage episode   *)
(* ends and none opens, unless Telegram keeps turning probes down.          *)
OutageEnds ==
  ~rejects => \A i \in Tiers : Carries(i) => <>[]~outage

(* watchdog.go:40-43: when the health of the primary path settles, so does  *)
(* what the chat was told about it, provided that an alert gets through: a  *)
(* tier never breaks, none hangs and Telegram accepts the message.          *)
ChatKnowsHealth ==
  (solid # {} /\ ~hangs /\ ~rejects) =>
    /\ <>[]degraded => <>[]told
    /\ <>[]~degraded => <>[]~told
=============================================================================
