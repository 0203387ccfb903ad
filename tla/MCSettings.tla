----------------------------- MODULE MCSettings -----------------------------
(* A small instance of Settings: what one handler after another edits, with *)
(* kills or power losses; intervals and prompts of two handlers at once.     *)
EXTENDS Settings
CONSTANTS h1, h2
MCHandlers == {h1, h2}
Alone(options, end) == [handlers |-> {h1}, options |-> options, ends |-> {end}]
MCScenarios ==
  {Alone({"auto", "self", "hours"}, "kill"), Alone({"keep", "label", "admins"}, "kill"),
   Alone({"auto", "hours"}, "reboot"), Alone({"label", "admins"}, "reboot"),
   [handlers |-> {h1, h2}, options |-> {"hours"}, ends |-> {}],
   [handlers |-> {h1, h2}, options |-> {"label", "admins"}, ends |-> {"kill"}]}
=============================================================================
