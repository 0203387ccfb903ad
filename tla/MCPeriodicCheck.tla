--------------------------- MODULE MCPeriodicCheck ---------------------------
(* A small instance of PeriodicCheck: notifications with the check buttons   *)
(* and a crash, with failing requests and a crash, with messages that get    *)
(* lost, and undisturbed; automatic updates of either product, of the        *)
(* updater with its button, and of both with a crash; and everything else    *)
(* that moves the cache.                                                     *)
EXTENDS PeriodicCheck, TLC
(* Releases whose segments and whose spelling order differently, the first   *)
(* one at the limit of rollbacks.                                            *)
MCTags == 0 :> <<0, 0, 0>> @@ 1 :> <<0, 7, 0>> @@ 2 :> <<0, 10, 0>> @@ 3 :> <<1, 0, 0>>
Both == [released |-> Products, auto |-> {}, commands |-> {}, early |-> TRUE,
         fails |-> FALSE, unsent |-> FALSE, releases |-> 2, crashes |-> 0]
Late == [Both EXCEPT !.early = FALSE]
Podkop == [Late EXCEPT !.released = {"podkop"}]
Self == [Late EXCEPT !.released = {"self"}]
MCScenarios ==
  {[Both EXCEPT !.commands = {"check"}, !.crashes = 1],
   [Both EXCEPT !.fails = TRUE, !.crashes = 1],
   [Both EXCEPT !.releases = 3],
   [Both EXCEPT !.unsent = TRUE, !.crashes = 1],
   [Both EXCEPT !.auto = Products, !.crashes = 1],
   [Self EXCEPT !.auto = {"self"}, !.commands = {"check"}, !.early = TRUE],
   [Late EXCEPT !.auto = {"podkop"}],
   [Self EXCEPT !.auto = {"self"}],
   [Podkop EXCEPT !.commands = {"update", "rollback"}],
   [Podkop EXCEPT !.auto = {"podkop"}, !.commands = {"rollback"}],
   [Podkop EXCEPT !.commands = {"update"}, !.fails = TRUE],
   [Self EXCEPT !.commands = {"update"}, !.fails = TRUE]}
=============================================================================
