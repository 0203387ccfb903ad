--------------------------- MODULE MCConfigBackup ---------------------------
EXTENDS ConfigBackup, TLC

Setting(keeps, meddles, most) ==
  [keep : keeps, meddling : meddles, seconds : {most}]

(* Without a limit nothing is said of a store the user deletes from, and one *)
(* second is enough: the store only grows.  With a limit of one, the backup  *)
(* of an operation, one before and one after it need three seconds.          *)
WithAndWithoutLimit ==
  Setting({0}, {FALSE}, 0) \cup Setting({1}, {FALSE}, 2)
    \cup Setting({1}, {TRUE}, 1) \cup Setting({2}, {FALSE}, 1)
SmallLimit == Setting({2}, {FALSE}, 4)

(* Contents of the config are interchangeable. *)
Symmetry == Permutations(Configs)
=============================================================================
