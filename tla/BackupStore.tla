---------------------------- MODULE BackupStore ----------------------------
(***************************************************************************)
(* Package cfgbackup: the versioned copies of podkop's config file.  A     *)
(* backup file is named by the podkop version it was taken under and by a  *)
(* timestamp with a resolution of one second; the name is its identity.    *)
(* Versions and stamps are numbers: a stamp orders as the string           *)
(* YYYYMMDD-HHMMSS does, a version as its name does in a directory.        *)
(***************************************************************************)
EXTENDS Naturals, FiniteSets

(* The ID of a backup, and the backup with that ID among B, if it exists. *)
IdOf(b) == [ver |-> b.ver, stamp |-> b.stamp]
HasId(B, id) == \E b \in B : IdOf(b) = id
Named(B, id) == CHOOSE b \in B : IdOf(b) = id

(* What copyFile's writes and its rename do to a set of files: a file of    *)
(* that name is put in place, or replaced; the data of the file is changed. *)
Put(B, i, data) ==
  {b \in B : IdOf(b) # i} \cup {[ver |-> i.ver, stamp |-> i.stamp, data |-> data]}
Fill(B, i, data) ==
  {IF IdOf(b) = i THEN [b EXCEPT !.data = data] ELSE b : b \in B}

(* Store.Delete. *)
Delete(B, id) == {b \in B : IdOf(b) # id}

(* The order of Store.List: newest stamp first.  Files of the same second  *)
(* keep the order of the directory listing, by name: sort.Slice is stable  *)
(* up to twelve elements.                                                  *)
Before_OldestFirst(b, c) == b.stamp < c.stamp   \* mutant: < instead of >
Before(b, c) == \/ b.stamp > c.stamp
                \/ b.stamp = c.stamp /\ b.ver < c.ver

(* Position of b in the listing, counted from 0. *)
Rank(B, b) == Cardinality({c \in B : Before(c, b)})

(* What Store.Prune removes: all[min(keep, len(all)):]; a limit of 0 means *)
(* no limit.                                                               *)
Excess_OffByOne(B, keep) == {b \in B : keep # 0 /\ Rank(B, b) > keep}   \* mutant
Excess_OneMore(B, keep) == {b \in B : keep # 0 /\ Rank(B, b) >= keep - 1}  \* mutant
Excess_ZeroIsNone(B, keep) == {b \in B : Rank(B, b) >= keep}   \* mutant
Excess(B, keep) == {b \in B : keep # 0 /\ Rank(B, b) >= keep}

(* ForVersion, HasVersion and LatestIDForVersion. *)
ForVersion(B, ver) == {b \in B : b.ver = ver}
HasVersion(B, ver) == ForVersion(B, ver) # {}
LatestForVersion(B, ver) ==
  CHOOSE b \in ForVersion(B, ver) :
    \A c \in ForVersion(B, ver) : b = c \/ Before(b, c)
=============================================================================
