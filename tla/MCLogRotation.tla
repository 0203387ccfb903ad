--------------------------- MODULE MCLogRotation ---------------------------
(* The lock alone among three processes; the log with two goroutines and    *)
(* install.sh over several lives; the same with a file system that fills.   *)
EXTENDS LogRotation
CONSTANTS p1, p2, p3
MCScenarios ==
  {[pids |-> {p1, p2, p3}, logs |-> FALSE, rivals |-> TRUE, full |-> FALSE],
   [pids |-> {p1, p2}, logs |-> TRUE, rivals |-> FALSE, full |-> FALSE],
   [pids |-> {p1}, logs |-> TRUE, rivals |-> FALSE, full |-> TRUE]}
=============================================================================
