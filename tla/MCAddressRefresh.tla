-------------------------- MODULE MCAddressRefresh --------------------------
(* A small instance of AddressRefresh: a compiled-in address, one that only  *)
(* resolvers know, and one that is not Telegram's.  Two dials race over all  *)
(* three, two dials race with the timer, and one dial meets the timer, a     *)
(* button, a restart and failing writes.                                     *)
EXTENDS AddressRefresh
CONSTANTS default, moved, foreign, dial1, dial2, timer, button
MCIPs == <<moved, default, foreign>>
MCScenarios ==
  {[dialers |-> {dial1, dial2}, refreshers |-> {}, fails |-> FALSE,
    restarts |-> FALSE, reachable |-> Addresses, owner |-> Addresses],
   [dialers |-> {dial1, dial2}, refreshers |-> {timer}, fails |-> FALSE,
    restarts |-> FALSE, reachable |-> {default, moved}, owner |-> {}],
   [dialers |-> {dial1}, refreshers |-> {timer}, fails |-> FALSE,
    restarts |-> TRUE, reachable |-> {default, moved}, owner |-> {foreign}],
   [dialers |-> {dial1}, refreshers |-> {timer, button}, fails |-> TRUE,
    restarts |-> TRUE, reachable |-> {default}, owner |-> {}]}
=============================================================================
