------------------------------ MODULE Versions ------------------------------
(***************************************************************************)
(* Versions of podkop and of the updater, how they are compared (package   *)
(* updater) and which of them a rollback offers (rollback.go).  A version  *)
(* is what Normalize and parseSegments leave of a tag: three numbers.      *)
(***************************************************************************)
EXTENDS Naturals

Version == [1..3 -> Nat]

(* The first segment that differs decides. *)
IsNewer_EverySegment(installed, latest) ==   \* mutant: a larger one does not end it
  installed # latest /\ \A i \in 1..3 : latest[i] >= installed[i]
IsNewer(installed, latest) ==
  \E i \in 1..3 : /\ latest[i] > installed[i]
                  /\ \A j \in 1..(i - 1) : latest[j] = installed[j]

(* minRollbackVersion, and the versions that it is not newer than.  *)
Minimum == <<0, 7, 0>>
geMin(v) == ~IsNewer(v, Minimum)

(* onRollbackAll lists every release but the one installed, onRollback     *)
(* those of them that have a backup of the config (ReleaseMap, which       *)
(* drops tags that are not versions, gives the releases).                  *)
Supported(released, installed) == {v \in released : v # installed /\ geMin(v)}
BackedUp(released, backups, installed) == Supported(released, installed) \cap backups

(* sortVersionsDesc: in both lists none is newer than one shown before it.  *)
NewestFirst(list) ==
  \A i, j \in DOMAIN list : i < j => ~IsNewer(list[i], list[j])

(* PreviousRelease, which nothing calls yet, picks the highest of these.    *)
PreviousCandidates(released, installed) == {v \in released : ~IsNewer(v, installed)}
=============================================================================
