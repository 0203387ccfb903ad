---------------------------- MODULE PinnedDialer ----------------------------
(***************************************************************************)
(* transport.pinnedTransport: the dialer that replaces the pinned host by  *)
(* one of a set of known IPs.  A dial takes a copy of the set, sorted by   *)
(* the health recorded for each IP, then walks it without the lock and     *)
(* records each outcome.  Several dials overlap, and the IP refresh swaps  *)
(* the set (setIPs) under them.  An IP is live while a TLS handshake with  *)
(* it succeeds, which is up to the network.                                *)
(***************************************************************************)
EXTENDS Naturals, Sequences, SequencesExt

CONSTANTS Dialers,  \* goroutines that open a connection
          IPs       \* addresses, a sequence in the order of their spelling

ASSUME DialerAssumption == IPs \in Seq(Range(IPs)) /\ IsInjective(IPs)

Addresses == Range(IPs)

VARIABLES
  live,      \* addresses that complete a handshake at the moment
  ips,       \* the pinned set; its order is that of IPs
  marks,     \* the health map: the last outcome recorded for each address,
             \* in the order of their times
  walk,      \* per dialer: the addresses it has yet to try, in order
  state,     \* per dialer: "idle", "dialing", "failed"
  steadfast, \* history: addresses of its copy that have been live since it began
  known      \* history: addresses yet to try that were healthy when it was sorted

dial == <<walk, state, steadfast, known>>

Outcome == [ip : Addresses, ok : BOOLEAN]
Recorded == {marks[i].ip : i \in DOMAIN marks}

DialTypeOK ==
  /\ live \in SUBSET Addresses
  /\ ips \in SUBSET Addresses
  /\ marks \in Seq(Outcome) /\ \A i, j \in DOMAIN marks : marks[i].ip = marks[j].ip => i = j
  /\ walk \in [Dialers -> Seq(Addresses)]
  /\ state \in [Dialers -> {"idle", "dialing", "failed"}]
  /\ \A d \in Dialers :
       IsInjective(walk[d]) /\ (state[d] = "dialing" <=> walk[d] # <<>>)
  /\ steadfast \in [Dialers -> SUBSET Addresses]
  /\ known \in [Dialers -> SUBSET Addresses]

NoDial ==
  /\ walk = [d \in Dialers |-> <<>>]
  /\ state = [d \in Dialers |-> "idle"]
  /\ steadfast = [d \in Dialers |-> {}]
  /\ known = [d \in Dialers |-> {}]

-----------------------------------------------------------------------------

(* What the record of an address says of it.  Only the last outcome counts: *)
(* a success after a failure makes it healthy, as of that success, and vice *)
(* versa.                                                                   *)
Healthy == {ip \in Recorded : \E i \in DOMAIN marks : marks[i].ip = ip /\ marks[i].ok}
rank(ip) == IF ip \in Healthy THEN 0 ELSE IF ip \in Recorded THEN 2 ELSE 1
MarkedAt(ip) == CHOOSE i \in DOMAIN marks : marks[i].ip = ip
Place(ip) == CHOOSE i \in DOMAIN IPs : IPs[i] = ip

(* orderedIPs: healthy addresses, the latest success first, then those      *)
(* without a record, in the order of the set, then failed ones, the         *)
(* stalest first.                                                           *)
Before_FailedFirst(a, b) ==   \* mutant: the ranks are compared backwards
  \/ rank(a) > rank(b)
  \/ rank(a) = 0 /\ rank(b) = 0 /\ MarkedAt(a) > MarkedAt(b)
  \/ rank(a) = 1 /\ rank(b) = 1 /\ Place(a) < Place(b)
  \/ rank(a) = 2 /\ rank(b) = 2 /\ MarkedAt(a) < MarkedAt(b)
Before(a, b) ==
  \/ rank(a) < rank(b)
  \/ rank(a) = 0 /\ rank(b) = 0 /\ MarkedAt(a) > MarkedAt(b)
  \/ rank(a) = 1 /\ rank(b) = 1 /\ Place(a) < Place(b)
  \/ rank(a) = 2 /\ rank(b) = 2 /\ MarkedAt(a) < MarkedAt(b)
Orders(s) == {w \in SetToSeqs(s) : \A i, j \in DOMAIN w : i < j => Before(w[i], w[j])}

(* dialTLS begins: it takes its copy; an empty set is an error. *)
Dial(d) ==
  /\ state[d] # "dialing"
  /\ \E w \in Orders(ips) : walk' = [walk EXCEPT ![d] = w]
  /\ state' = [state EXCEPT ![d] = IF ips = {} THEN "failed" ELSE "dialing"]
  /\ steadfast' = [steadfast EXCEPT ![d] = ips \cap live]
  /\ known' = [known EXCEPT ![d] = ips \cap Healthy]
  /\ UNCHANGED <<live, ips, marks>>

(* mark: the outcome of an attempt is recorded, for an address that may     *)
(* have left the set since the copy was taken.                              *)
mark(ip, ok) ==
  marks' = Append(SelectSeq(marks, LAMBDA m : m.ip # ip), [ip |-> ip, ok |-> ok])

(* The handshake with the next address succeeds: the dial is over. *)
Connect(d) ==
  /\ state[d] = "dialing" /\ Head(walk[d]) \in live
  /\ mark(Head(walk[d]), TRUE)
  /\ state' = [state EXCEPT ![d] = "idle"]
  /\ walk' = [walk EXCEPT ![d] = <<>>]
  /\ steadfast' = [steadfast EXCEPT ![d] = {}] /\ known' = [known EXCEPT ![d] = {}]
  /\ UNCHANGED <<live, ips>>

(* It fails: the next address is tried, after the last the dial has failed. *)
Skip_Two(d) ==   \* mutant: the address after a dead one is skipped too
  /\ state[d] = "dialing" /\ Head(walk[d]) \notin live
  /\ mark(Head(walk[d]), FALSE)
  /\ walk' = [walk EXCEPT ![d] = SubSeq(@, 3, Len(@))]
  /\ state' = [state EXCEPT ![d] = IF Len(walk[d]) <= 2 THEN "failed" ELSE @]
  /\ known' = [known EXCEPT ![d] = @ \ {Head(walk[d])}]
  /\ UNCHANGED <<live, ips, steadfast>>
Skip(d) ==
  /\ state[d] = "dialing" /\ Head(walk[d]) \notin live
  /\ mark(Head(walk[d]), FALSE)
  /\ walk' = [walk EXCEPT ![d] = Tail(@)]
  /\ state' = [state EXCEPT ![d] = IF Len(walk[d]) = 1 THEN "failed" ELSE @]
  /\ known' = [known EXCEPT ![d] = @ \ {Head(walk[d])}]
  /\ UNCHANGED <<live, ips, steadfast>>

(* SetEmergencyIPs: the set is swapped, records of other addresses are     *)
(* dropped.                                                                *)
setIPs(s) ==
  /\ ips' = s
  /\ marks' = SelectSeq(marks, LAMBDA m : m.ip \in s)

Die(ip) ==
  /\ ip \in live /\ live' = live \ {ip}
  /\ steadfast' = [d \in Dialers |-> steadfast[d] \ {ip}]
  /\ UNCHANGED <<ips, marks, walk, state, known>>

Revive(ip) ==
  /\ ip \notin live /\ live' = live \cup {ip}
  /\ UNCHANGED <<ips, marks, dial>>

DialStep(d) == Dial(d) \/ Connect(d) \/ Skip(d)

-----------------------------------------------------------------------------

(* transport.go:264-265: the path stays up as long as one pinned IP works.  *)
(* A dial fails only if every IP of its copy was dead at some moment of the *)
(* walk, whatever other dials record and setIPs swaps meanwhile.            *)
SteadfastIsFound == \A d \in Dialers : state[d] = "failed" => steadfast[d] = {}

(* transport.go:336-338: a dial does not touch an IP that was not known to  *)
(* be good before it tried all that were.                                   *)
KnownGoodFirst ==
  \A d \in Dialers : state[d] = "dialing" /\ Head(walk[d]) \notin known[d] =>
     Range(walk[d]) \cap known[d] = {}

(* transport.go:284: health holds only IPs of the current set.  It does     *)
(* not hold: a dial records an IP of the copy it took before a swap.        *)
HealthIsPruned == Recorded \subseteq ips
=============================================================================
