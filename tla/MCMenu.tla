------------------------------- MODULE MCMenu -------------------------------
(* A small instance of Menu.  Message ids and targets are only compared, so *)
(* states that differ by a permutation of them need not be told apart.      *)
EXTENDS Menu, TLC
Scenario(commands, fails, overlaps, most) ==
  [textCommands : commands, failing : fails, overlapping : overlaps, updates : {most}]

Everything ==
  Scenario(BOOLEAN, BOOLEAN, {FALSE}, 0) \cup Scenario({TRUE}, {FALSE}, {TRUE}, 3)
Commands == Scenario({TRUE}, {FALSE}, {FALSE}, 0)
Symmetry == Permutations(Messages) \cup Permutations(Targets)
=============================================================================
