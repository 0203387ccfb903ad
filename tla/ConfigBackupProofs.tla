------------------------- MODULE ConfigBackupProofs -------------------------
(* Proofs about ConfigBackup, for any versions, configs, goroutines and      *)
(* limits.                                                                   *)
EXTENDS ConfigBackup, FiniteSetTheorems, TLAPS

(***************************************************************************)
(* Names of backups.  A listing orders backups by their names only, so     *)
(* what a prune does is told by the set of names.                          *)
(***************************************************************************)
Names(B) == {IdOf(b) : b \in B}
Newer(E, i) == {j \in E : Before(j, i)}
Unique(B) == \A b, c \in B : IdOf(b) = IdOf(c) => b = c

LEMMA NamesAreIds == ASSUME NEW b \in Backups PROVE IdOf(b) \in Ids
BY DEF Backups, Ids, IdOf

LEMMA BeforeById ==
  ASSUME NEW b, NEW c PROVE Before(b, c) <=> Before(IdOf(b), IdOf(c))
BY DEF Before, IdOf

LEMMA BeforeOrdersIds ==
  ASSUME NEW i \in Ids, NEW j \in Ids, NEW k \in Ids
  PROVE  /\ ~Before(i, i)
         /\ Before(i, j) /\ Before(j, k) => Before(i, k)
         /\ i # j => Before(i, j) \/ Before(j, i)
<1>1. /\ i.stamp \in Nat /\ j.stamp \in Nat /\ k.stamp \in Nat
      /\ i.ver \in Nat /\ j.ver \in Nat /\ k.ver \in Nat
  <2>1. Versions \subseteq Nat BY ConfigBackupAssumption
  <2>2. QED BY <2>1 DEF Ids
<1>2. i # j => i.stamp # j.stamp \/ i.ver # j.ver BY DEF Ids
<1>3. QED BY <1>1, <1>2 DEF Before

(* Put, Fill, Delete: what they do to the names. *)
LEMMA NamesAfterPut ==
  ASSUME NEW B, NEW i \in Ids, NEW data
  PROVE  Names(Put(B, i, data)) = Names(B) \cup {i}
<1> DEFINE b == [ver |-> i.ver, stamp |-> i.stamp, data |-> data]
           kept == {c \in B : IdOf(c) # i}
<1>1. Put(B, i, data) = kept \cup {b} BY DEF Put
<1>2. IdOf(b) = i BY DEF IdOf, Ids
<1>3. Names(kept) = Names(B) \ {i} BY DEF Names
<1>4. Names(kept \cup {b}) = Names(kept) \cup {i} BY <1>2 DEF Names
<1>5. QED BY <1>1, <1>3, <1>4

LEMMA FilledKeepsName ==
  ASSUME NEW b \in Backups, NEW i, NEW data \in Contents
  PROVE  LET c == IF IdOf(b) = i THEN [b EXCEPT !.data = data] ELSE b
         IN  c \in Backups /\ IdOf(c) = IdOf(b)
BY DEF Backups, IdOf

LEMMA NamesAfterFill ==
  ASSUME NEW B \in SUBSET Backups, NEW i, NEW data \in Contents
  PROVE  Names(Fill(B, i, data)) = Names(B)
<1>1. \A b \in B : IdOf(IF IdOf(b) = i THEN [b EXCEPT !.data = data] ELSE b) = IdOf(b)
  BY FilledKeepsName
<1>2. QED BY <1>1 DEF Fill, Names

LEMMA NamesAfterDelete ==
  ASSUME NEW B, NEW i PROVE Names(Delete(B, i)) = Names(B) \ {i}
BY DEF Names, Delete

LEMMA NamesAreAsMany ==
  ASSUME NEW B, IsFiniteSet(B), Unique(B)
  PROVE  IsFiniteSet(Names(B)) /\ Cardinality(Names(B)) = Cardinality(B)
<1> DEFINE f == [b \in B |-> IdOf(b)]
<1>1. f \in Bijection(B, Names(B))
  BY DEF Bijection, Injection, Surjection, IsInjective, Names, Unique
<1>2. QED BY <1>1, FS_Bijection DEF ExistsBijection

(* The position of a backup in the listing is the number of newer names. *)
LEMMA RankByName ==
  ASSUME NEW B, IsFiniteSet(B), Unique(B), NEW b \in B
  PROVE  Rank(B, b) = Cardinality(Newer(Names(B), IdOf(b)))
<1> DEFINE C == {c \in B : Before(c, b)}
<1>1. IsFiniteSet(C) /\ Unique(C) BY FS_Subset DEF Unique
<1>2. Names(C) = Newer(Names(B), IdOf(b)) BY BeforeById DEF Names, Newer
<1>3. QED BY <1>1, <1>2, NamesAreAsMany DEF Rank

(* Of two names the newer one has fewer that are newer still. *)
LEMMA NewerIsMonotone ==
  ASSUME NEW E \in SUBSET Ids, IsFiniteSet(E), NEW i \in E, NEW j \in E, Before(i, j)
  PROVE  Cardinality(Newer(E, i)) < Cardinality(Newer(E, j))
<1>1. Newer(E, i) \subseteq Newer(E, j) BY BeforeOrdersIds DEF Newer
<1>2. i \in Newer(E, j) /\ i \notin Newer(E, i) BY BeforeOrdersIds DEF Newer
<1>3. IsFiniteSet(Newer(E, j)) BY FS_Subset DEF Newer
<1>4. Cardinality(Newer(E, i)) <= Cardinality(Newer(E, j))
      /\ Cardinality(Newer(E, j)) # Cardinality(Newer(E, i))
  BY <1>1, <1>2, <1>3, FS_Subset
<1>5. Cardinality(Newer(E, i)) \in Nat /\ Cardinality(Newer(E, j)) \in Nat
  BY <1>1, <1>3, FS_Subset, FS_CardinalityType
<1>6. QED BY <1>4, <1>5

LEMMA FewAreAhead ==
  ASSUME NEW E \in SUBSET Ids, IsFiniteSet(E), NEW k \in Nat
  PROVE  Cardinality({i \in E : Cardinality(Newer(E, i)) < k}) <= k
<1> DEFINE A == {i \in E : Cardinality(Newer(E, i)) < k}
           f == [i \in A |-> Cardinality(Newer(E, i))]
<1>1. ASSUME NEW i \in A PROVE f[i] \in 0..(k - 1)
  <2>1. IsFiniteSet(Newer(E, i)) BY FS_Subset DEF Newer
  <2>2. Cardinality(Newer(E, i)) \in Nat BY <2>1, FS_CardinalityType
  <2>3. QED BY <2>2
<1>2. ASSUME NEW i \in A, NEW j \in A, f[i] = f[j] PROVE i = j
  <2>1. Cardinality(Newer(E, i)) = Cardinality(Newer(E, j)) BY <1>2
  <2>2. Cardinality(Newer(E, i)) \in Nat BY <1>1
  <2>3. ~Before(i, j) /\ ~Before(j, i) BY <2>1, <2>2, NewerIsMonotone
  <2>4. QED BY <2>3, BeforeOrdersIds
<1>3. f \in Injection(A, 0..(k - 1)) BY <1>1, <1>2 DEF Injection, IsInjective
<1>4. IsFiniteSet(0..(k - 1)) /\ Cardinality(0..(k - 1)) = k
  BY FS_Interval
<1>5. QED BY <1>3, <1>4, FS_Injection

(* There is a first one in a listing: positions are different numbers       *)
(* below the number of names, so all of these are taken, 0 among them.      *)
LEMMA NewestName ==
  ASSUME NEW E \in SUBSET Ids, IsFiniteSet(E), E # {}
  PROVE  \E i \in E : \A j \in E : i = j \/ Before(i, j)
<1> DEFINE n == Cardinality(E)
           f == [i \in E |-> Cardinality(Newer(E, i))]
<1>1. n \in Nat /\ n # 0 BY FS_CardinalityType, FS_EmptySet
<1>2. ASSUME NEW i \in E PROVE f[i] \in 0..(n - 1)
  <2>1. Newer(E, i) \in SUBSET E /\ i \notin Newer(E, i)
    BY BeforeOrdersIds DEF Newer
  <2>2. IsFiniteSet(Newer(E, i)) /\ Cardinality(Newer(E, i)) <= n
        /\ n # Cardinality(Newer(E, i))
    BY <2>1, FS_Subset
  <2>3. Cardinality(Newer(E, i)) \in Nat BY <2>2, FS_CardinalityType
  <2>4. QED BY <1>1, <2>2, <2>3
<1>3. ASSUME NEW i \in E, NEW j \in E, f[i] = f[j] PROVE i = j
  <2>1. Cardinality(Newer(E, i)) = Cardinality(Newer(E, j)) BY <1>3
  <2>2. Cardinality(Newer(E, i)) \in Nat BY <1>2
  <2>3. ~Before(i, j) /\ ~Before(j, i) BY <2>1, <2>2, NewerIsMonotone
  <2>4. QED BY <2>3, BeforeOrdersIds
<1>4. f \in Injection(E, 0..(n - 1)) BY <1>2, <1>3 DEF Injection, IsInjective
<1>5. IsFiniteSet(0..(n - 1)) /\ Cardinality(0..(n - 1)) = n
  <2>1. 0 \in Int /\ n - 1 \in Int /\ ~(0 > n - 1) /\ n - 1 - 0 + 1 = n BY <1>1
  <2>2. QED BY <2>1, FS_Interval
<1>6. f \in Surjection(E, 0..(n - 1)) BY <1>4, <1>5, FS_Injection
<1>7. PICK i \in E : f[i] = 0
  <2>1. 0 \in 0..(n - 1) BY <1>1
  <2>2. QED BY <1>6, <2>1 DEF Surjection
<1>8. IsFiniteSet(Newer(E, i)) BY FS_Subset DEF Newer
<1>9. Newer(E, i) = {} BY <1>7, <1>8, FS_EmptySet
<1>10. QED BY <1>9, BeforeOrdersIds DEF Newer

LEMMA LatestExists ==
  ASSUME NEW B \in SUBSET Backups, IsFiniteSet(B), Unique(B), NEW v, HasVersion(B, v)
  PROVE  LatestForVersion(B, v) \in B
<1> DEFINE C == ForVersion(B, v)
<1>1. C # {} /\ C \subseteq B BY DEF HasVersion, ForVersion
<1>2. IsFiniteSet(C) /\ Unique(C) BY <1>1, FS_Subset DEF Unique
<1>3. Names(C) \in SUBSET Ids /\ Names(C) # {} BY <1>1, NamesAreIds DEF Names
<1>4. IsFiniteSet(Names(C)) BY <1>2, NamesAreAsMany
<1>5. PICK i \in Names(C) : \A j \in Names(C) : i = j \/ Before(i, j)
  BY <1>3, <1>4, NewestName
<1>6. PICK b \in C : IdOf(b) = i BY DEF Names
<1>7. \A c \in C : b = c \/ Before(b, c)
  <2>1. TAKE c \in C
  <2>2. IdOf(b) = IdOf(c) \/ Before(IdOf(b), IdOf(c)) BY <1>5, <1>6 DEF Names
  <2>3. QED BY <2>2, <1>2, BeforeById DEF Unique
<1>8. QED BY <1>1, <1>6, <1>7 DEF LatestForVersion

-----------------------------------------------------------------------------
(***************************************************************************)
(* The inductive invariant.  Where a goroutine is tells what it knows      *)
(* (Known).  No name is of a second to come (Stored).  What a prune has    *)
(* listed stays in excess, whatever the other prunes remove meanwhile: of  *)
(* the names in front of it each was in excess itself if it was removed    *)
(* (DoomedIsExcess).  Once every backup was followed by a listing, what no *)
(* prune will remove is within the limit (SparedAreFew).  From the second  *)
(* in which an operation names its backup on, names do not clash, so every *)
(* backup of that second or later holds the config that the operation is   *)
(* going to overwrite (Fresh), and a prune leaves one such backup, for     *)
(* what it removes has a newer one in front of it (Recoverable).           *)
(***************************************************************************)
Existing == Names(backups)
Spared == {i \in Existing : \A p \in Procs : i \notin doomed[p]}

Known ==
  /\ \A p \in Procs :
       /\ pc[p] # "prune" => doomed[p] = {}
       /\ pc[p] = "stamp" \/ Copying(p) => name[p] \in Ids
       /\ pc[p] \in {"open", "write", "overwrite"} => text[p] \in Contents
  /\ pc[Heavy] # "idle" => op \in {"restore", "rollback", "update"}
  /\ pc[Heavy] \in {"backup", "stamp", "list", "prune"} \/ Copying(Heavy) =>
       op \in {"restore", "rollback"}
  /\ pc[Heavy] \in {"fetch", "lookup"} => op = "rollback"
  /\ pc[Heavy] \in {"restore", "overwrite"} => op \in {"restore", "rollback"}
  /\ pc[Heavy] = "install" => op \in {"rollback", "update"}
  /\ pc[Heavy] # "idle" /\ op # "restore" => goal \in Versions

Stored ==
  /\ IsFiniteSet(backups) /\ Unique(backups)
  /\ \A b \in backups : b.stamp <= clock
  /\ \A p \in Procs : Copying(p) => name[p].stamp <= clock

DoomedIsExcess ==
  \A p \in Procs : \A i \in doomed[p] :
    keep > 0 /\ (~meddling => Cardinality(Newer(Existing, i)) >= keep)

SparedAreFew ==
  (keep > 0 /\ \A p \in Procs : pc[p] # "list") => Cardinality(Spared) <= keep

FreshCopy(p) ==
  /\ pc[p] \in {"open", "write"} => text[p] = config
  /\ pc[p] \in {"write", "rename"} => file[p] = "tmp"
  /\ \A t \in tmp : IdOf(t) = name[p] =>
       /\ pc[p] = "write" => t.data = Torn
       /\ pc[p] = "rename" => t.data = config
  /\ \A b \in backups : b.stamp # name[p].stamp
  /\ \A q \in Procs \ {p} : Copying(q) => name[q].stamp # name[p].stamp

Fresh(s) ==
  /\ \A b \in backups : b.stamp >= s => b.data = config
  /\ \A p \in Procs : Copying(p) /\ name[p].stamp >= s => FreshCopy(p)

BackedUp == \/ Copying(Heavy)
            \/ pc[Heavy] \in {"list", "prune", "fetch", "lookup", "restore", "overwrite"}

Since(s) ==
  /\ Fresh(s)
  /\ Copying(Heavy) => name[Heavy].stamp >= s
  /\ ~Copying(Heavy) => \E b \in backups : b.stamp >= s

Recoverable == ~meddling /\ saved /\ BackedUp => \E s \in Nat : Since(s)

Promises ==
  (keep = 0 /\ ~meddling /\ pc[Heavy] # "idle") =>
    /\ op = "restore" => id \in Existing
    /\ op = "rollback" /\ promised => HasVersion(backups, goal)

IInv == /\ TypeOK /\ Known /\ Stored /\ DoomedIsExcess /\ SparedAreFew
        /\ Recoverable /\ Promises

LEMMA KeepIsNat == TypeOK => keep \in Nat
BY ConfigBackupAssumption DEF TypeOK

LEMMA InitIInv == Init => IInv
<1> SUFFICES ASSUME Init PROVE IInv OBVIOUS
<1>0. keep \in Nat BY ConfigBackupAssumption DEF Init
<1>1. TypeOK
  <2>1. PICK s \in Settings : keep = s.keep /\ meddling = s.meddling /\ seconds = s.seconds
    BY DEF Init
  <2>2. s = [keep |-> keep, meddling |-> meddling, seconds |-> seconds]
    BY <2>1, ConfigBackupAssumption
  <2>3. QED BY <2>2 DEF Init, TypeOK, Contents
<1>2. Known /\ DoomedIsExcess /\ Recoverable /\ Promises
  BY DEF Init, Known, DoomedIsExcess, Recoverable, BackedUp, Copying, Promises, Procs
<1>3. Stored BY FS_EmptySet DEF Init, Stored, Unique, Copying
<1>4. SparedAreFew
  <2>1. Spared = {} BY DEF Init, Spared, Existing, Names
  <2>2. QED BY <1>0, <2>1, FS_EmptySet DEF SparedAreFew
<1>5. QED BY <1>1, <1>2, <1>3, <1>4 DEF IInv

LEMMA PutIsTyped ==
  ASSUME NEW B \in SUBSET Backups, NEW i \in Ids, NEW data \in Contents
  PROVE  Put(B, i, data) \in SUBSET Backups
<1>1. [ver |-> i.ver, stamp |-> i.stamp, data |-> data] \in Backups
  BY DEF Ids, Backups
<1>2. QED BY <1>1 DEF Put

LEMMA FillIsTyped ==
  ASSUME NEW B \in SUBSET Backups, NEW i, NEW data \in Contents
  PROVE  Fill(B, i, data) \in SUBSET Backups
BY FilledKeepsName DEF Fill

LEMMA NamedIsOne ==
  ASSUME NEW B \in SUBSET Backups, NEW i, HasId(B, i)
  PROVE  Named(B, i) \in B /\ IdOf(Named(B, i)) = i /\ Named(B, i).data \in Contents
<1>1. Named(B, i) \in B /\ IdOf(Named(B, i)) = i BY DEF HasId, Named
<1>2. QED BY <1>1 DEF Backups

LEMMA TypeStep == ASSUME IInv, [Next]_vars PROVE TypeOK'
<1> USE DEF TypeOK, IInv, heavyVars, environment, copies, Contents
<1>1. ASSUME NEW p \in Manual, BeginBackup(p) PROVE TypeOK'
  BY <1>1 DEF BeginBackup, Begin, Go
<1>2. ASSUME NEW b \in backups, BeginRestore(b) PROVE TypeOK'
  BY <1>2, NamesAreIds DEF BeginRestore, Begin, Go
<1>3. ASSUME NEW b \in backups, UserDelete(b) PROVE TypeOK'
  BY <1>3 DEF UserDelete, Delete
<1>4. ASSUME NEW v \in Versions, BeginRollback(v) PROVE TypeOK'
  BY <1>4 DEF BeginRollback, Begin, Go, HasVersion
<1>5. ASSUME NEW v \in Versions, BeginUpdate(v) PROVE TypeOK'
  BY <1>5 DEF BeginUpdate, Begin, Go
<1>6. ASSUME NEW p \in Procs, ReadVersion(p) \/ Stamp(p) PROVE TypeOK'
  <2>1. [ver |-> version, stamp |-> 0] \in Ids BY DEF Ids
  <2>2. pc[p] = "stamp" => [name[p] EXCEPT !.stamp = clock] \in Ids
    BY DEF Known, Ids
  <2>3. saved' \in BOOLEAN BY <1>6 DEF ReadVersion, Stamp
  <2>4. name' \in [Procs -> Ids \cup {None}] BY <1>6, <2>1, <2>2 DEF ReadVersion, Stamp
  <2>5. QED BY <1>6, <2>3, <2>4 DEF ReadVersion, Stamp, Go
<1>7. ASSUME NEW p \in Procs, ReadConfig(p) PROVE TypeOK' BY <1>7 DEF ReadConfig, Go
<1>8. ASSUME NEW p \in Procs, OpenTmp(p) PROVE TypeOK'
  <2>1. tmp' \in SUBSET Backups BY <1>8, PutIsTyped DEF OpenTmp, Known, Copying
  <2>2. QED BY <1>8, <2>1 DEF OpenTmp, Go
<1>9. ASSUME NEW p \in Procs, WriteTmp(p) PROVE TypeOK'
  <2>1. text[p] \in Contents BY <1>9 DEF WriteTmp, Known
  <2>2. tmp' \in SUBSET Backups /\ backups' \in SUBSET Backups
    BY <1>9, <2>1, FillIsTyped DEF WriteTmp
  <2>3. QED BY <1>9, <2>2 DEF WriteTmp, Go
<1>10. ASSUME NEW p \in Procs, RenameTmp(p) PROVE TypeOK'
  <2>1. name[p] \in Ids BY <1>10 DEF RenameTmp, Known, Copying
  <2>2. backups' \in SUBSET Backups BY <1>10, <2>1, NamedIsOne, PutIsTyped DEF RenameTmp
  <2>3. tmp' \in SUBSET Backups BY <1>10 DEF RenameTmp, Delete
  <2>4. QED BY <1>10, <2>2, <2>3 DEF RenameTmp, Go
<1>11. ASSUME NEW p \in Procs, BackupFails(p) PROVE TypeOK'
  <2>1. tmp' \in SUBSET Backups BY <1>11 DEF BackupFails, Delete
  <2>2. QED BY <1>11, <2>1 DEF BackupFails, Go, Onward
<1>12. ASSUME NEW p \in Procs, ListExcess(p) PROVE TypeOK'
  <2>1. {IdOf(b) : b \in Excess(backups, keep)} \in SUBSET Ids
    BY NamesAreIds DEF Excess
  <2>2. QED BY <1>12, <2>1 DEF ListExcess, Go
<1>13. ASSUME NEW p \in Procs, NEW i \in doomed[p], PruneOne(p, i) PROVE TypeOK'
  BY <1>13 DEF PruneOne, Delete
<1>14. ASSUME NEW p \in Procs, PruneDone(p) PROVE TypeOK'
  BY <1>14 DEF PruneDone, Go, Onward
<1>15. CASE Fetch BY <1>15 DEF Fetch, Go, Return
<1>16. CASE Lookup
  <2>1. ASSUME HasVersion(backups, goal)
        PROVE  IdOf(LatestForVersion(backups, goal)) \in Ids
    BY <2>1, LatestExists, NamesAreIds DEF Stored
  <2>2. QED BY <1>16, <2>1 DEF Lookup, Go
<1>17. CASE ReadChosen
  <2>1. HasId(backups, id) => Named(backups, id).data \in Contents BY NamedIsOne
  <2>2. QED BY <1>17, <2>1 DEF ReadChosen, Restored, Return, Go
<1>18. CASE Overwrite
  <2>1. text[Heavy] \in Contents BY <1>18 DEF Overwrite, Known, Procs
  <2>2. QED BY <1>18, <2>1 DEF Overwrite, Restored, Return, Go
<1>19. CASE Install
  <2>1. goal \in Versions BY <1>19 DEF Install, Known
  <2>2. QED BY <1>19, <2>1 DEF Install, Go, Return
<1>20. CASE Edit BY <1>20 DEF Edit
<1>21. CASE Tick BY <1>21 DEF Tick
<1>22. CASE UNCHANGED vars BY <1>22 DEF vars
<1>23. QED
  BY <1>1, <1>2, <1>3, <1>4, <1>5, <1>6, <1>7, <1>8, <1>9, <1>10, <1>11, <1>12,
     <1>13, <1>14, <1>15, <1>16, <1>17, <1>18, <1>19, <1>20, <1>21, <1>22
  DEF Next, BackupStep

LEMMA KnownStep == ASSUME IInv, [Next]_vars PROVE Known'
<1> USE DEF TypeOK, Known, IInv, heavyVars, environment, copies, Procs, Copying, Go
<1>1. ASSUME NEW p \in Manual, BeginBackup(p) PROVE Known'
  BY <1>1, ConfigBackupAssumption DEF BeginBackup, Begin
<1>2. ASSUME NEW b \in backups, BeginRestore(b) PROVE Known'
  BY <1>2 DEF BeginRestore, Begin
<1>3. ASSUME NEW b \in backups, UserDelete(b) PROVE Known' BY <1>3 DEF UserDelete
<1>4. ASSUME NEW v \in Versions, BeginRollback(v) \/ BeginUpdate(v) PROVE Known'
  BY <1>4 DEF BeginRollback, BeginUpdate, Begin
<1>5. ASSUME NEW p \in Procs, ReadVersion(p) \/ Stamp(p) PROVE Known'
  <2>1. [ver |-> version, stamp |-> 0] \in Ids BY DEF Ids
  <2>2. pc[p] = "stamp" => [name[p] EXCEPT !.stamp = clock] \in Ids BY DEF Ids
  <2>3. name'[p] \in Ids BY <1>5, <2>1, <2>2 DEF ReadVersion, Stamp
  <2>4. QED BY <1>5, <2>3 DEF ReadVersion, Stamp
<1>6. ASSUME NEW p \in Procs, ReadConfig(p) PROVE Known' BY <1>6 DEF ReadConfig
<1>7. ASSUME NEW p \in Procs, OpenTmp(p) PROVE Known' BY <1>7 DEF OpenTmp
<1>8. ASSUME NEW p \in Procs, WriteTmp(p) PROVE Known' BY <1>8 DEF WriteTmp
<1>9. ASSUME NEW p \in Procs, RenameTmp(p) PROVE Known' BY <1>9 DEF RenameTmp
<1>10. ASSUME NEW p \in Procs, BackupFails(p) PROVE Known'
  BY <1>10, ConfigBackupAssumption DEF BackupFails, Onward
<1>11. ASSUME NEW p \in Procs, ListExcess(p) PROVE Known' BY <1>11 DEF ListExcess
<1>12. ASSUME NEW p \in Procs, NEW i \in doomed[p], PruneOne(p, i) PROVE Known'
  BY <1>12 DEF PruneOne
<1>13. ASSUME NEW p \in Procs, PruneDone(p) PROVE Known'
  BY <1>13, ConfigBackupAssumption DEF PruneDone, Onward
<1>14. CASE Fetch BY <1>14 DEF Fetch, Return
<1>15. CASE Lookup BY <1>15 DEF Lookup
<1>16. CASE ReadChosen
  <2>1. HasId(backups, id) => Named(backups, id).data \in Contents BY NamedIsOne
  <2>2. QED BY <1>16, <2>1 DEF ReadChosen, Restored, Return
<1>17. CASE Overwrite BY <1>17 DEF Overwrite, Restored, Return
<1>18. CASE Install BY <1>18 DEF Install, Return
<1>19. CASE Edit BY <1>19 DEF Edit
<1>20. CASE Tick BY <1>20 DEF Tick
<1>21. CASE UNCHANGED vars BY <1>21 DEF vars
<1>22. QED
  BY <1>1, <1>2, <1>3, <1>4, <1>5, <1>6, <1>7, <1>8, <1>9, <1>10, <1>11, <1>12,
     <1>13, <1>14, <1>15, <1>16, <1>17, <1>18, <1>19, <1>20, <1>21
  DEF Next, BackupStep

(* The steps that change which backups exist, or list them; the others leave *)
(* the names alone, and nobody else gets to or from its listing.             *)
Elsewhere ==
  /\ Existing' = Existing
  /\ UNCHANGED <<doomed, keep, meddling>>
  /\ \A p \in Procs : pc'[p] = "list" <=> pc[p] = "list"

LEMMA StoreSteps ==
  ASSUME IInv, [Next]_vars
  PROVE  \/ \E p \in Procs :
               RenameTmp(p) \/ ListExcess(p) \/ \E i \in doomed[p] : PruneOne(p, i)
         \/ \E b \in backups : UserDelete(b)
         \/ Elsewhere
<1> USE DEF TypeOK, Known, IInv, Elsewhere, Existing, heavyVars, environment, Go
<1>1. ASSUME NEW p \in Manual, BeginBackup(p) PROVE Elsewhere
  BY <1>1 DEF BeginBackup, Begin
<1>2. ASSUME NEW b \in backups, BeginRestore(b) PROVE Elsewhere
  BY <1>2 DEF BeginRestore, Begin
<1>3. ASSUME NEW v \in Versions, BeginRollback(v) \/ BeginUpdate(v) PROVE Elsewhere
  BY <1>3 DEF BeginRollback, BeginUpdate, Begin
<1>4. ASSUME NEW p \in Procs, ReadVersion(p) \/ Stamp(p) \/ ReadConfig(p) \/ OpenTmp(p)
      PROVE  Elsewhere
  BY <1>4 DEF ReadVersion, Stamp, ReadConfig, OpenTmp
<1>5. ASSUME NEW p \in Procs, WriteTmp(p) PROVE Elsewhere
  <2>1. text[p] \in Contents /\ Torn \in Contents BY <1>5 DEF WriteTmp, Contents
  <2>2. Names(backups') = Names(backups) BY <1>5, <2>1, NamesAfterFill DEF WriteTmp
  <2>3. QED BY <1>5, <2>2 DEF WriteTmp
<1>6. ASSUME NEW p \in Procs, BackupFails(p) \/ PruneDone(p) PROVE Elsewhere
  BY <1>6 DEF BackupFails, PruneDone, Onward, Copying
<1>7. CASE Fetch BY <1>7 DEF Fetch, Return
<1>8. CASE Lookup BY <1>8 DEF Lookup
<1>9. CASE ReadChosen BY <1>9 DEF ReadChosen, Restored, Return
<1>10. CASE Overwrite BY <1>10 DEF Overwrite, Restored, Return
<1>11. CASE Install BY <1>11 DEF Install, Return
<1>12. CASE Edit BY <1>12 DEF Edit
<1>13. CASE Tick BY <1>13 DEF Tick
<1>14. CASE UNCHANGED vars BY <1>14 DEF vars
<1>15. QED
  BY <1>1, <1>2, <1>3, <1>4, <1>5, <1>6, <1>7, <1>8, <1>9, <1>10, <1>11, <1>12,
     <1>13, <1>14 DEF Next, BackupStep

LEMMA DeleteKeepsStored ==
  ASSUME NEW B, IsFiniteSet(B), Unique(B), NEW i
  PROVE  IsFiniteSet(Delete(B, i)) /\ Unique(Delete(B, i)) /\ Delete(B, i) \subseteq B
<1>1. Delete(B, i) \in SUBSET B BY DEF Delete
<1>2. QED BY <1>1, FS_Subset DEF Unique

LEMMA PutKeepsStored ==
  ASSUME NEW B, IsFiniteSet(B), Unique(B), NEW i \in Ids, NEW data
  PROVE  IsFiniteSet(Put(B, i, data)) /\ Unique(Put(B, i, data))
<1> DEFINE new == [ver |-> i.ver, stamp |-> i.stamp, data |-> data]
           kept == {b \in B : IdOf(b) # i}
<1>1. Put(B, i, data) = kept \cup {new} BY DEF Put
<1>2. kept \in SUBSET B /\ IdOf(new) = i BY DEF IdOf, Ids
<1>3. IsFiniteSet(kept \cup {new}) BY <1>2, FS_Subset, FS_AddElement
<1>4. Unique(kept \cup {new}) BY <1>2 DEF Unique
<1>5. QED BY <1>1, <1>3, <1>4

LEMMA FillKeepsStored ==
  ASSUME NEW B \in SUBSET Backups, IsFiniteSet(B), Unique(B), NEW i, NEW data \in Contents
  PROVE  IsFiniteSet(Fill(B, i, data)) /\ Unique(Fill(B, i, data))
<1> DEFINE F(b) == IF IdOf(b) = i THEN [b EXCEPT !.data = data] ELSE b
           f == [b \in B |-> F(b)]
<1>1. Fill(B, i, data) = {F(b) : b \in B} BY DEF Fill
<1>2. f \in Surjection(B, Fill(B, i, data)) BY <1>1 DEF Surjection
<1>3. IsFiniteSet(Fill(B, i, data)) BY <1>2, FS_Surjection
<1>4. ASSUME NEW b \in B, NEW c \in B, IdOf(F(b)) = IdOf(F(c)) PROVE F(b) = F(c)
  <2>1. IdOf(b) = IdOf(c) BY <1>4, FilledKeepsName
  <2>2. b = c BY <2>1 DEF Unique
  <2>3. QED BY <2>2
<1>5. Unique(Fill(B, i, data))
  <2>1. SUFFICES ASSUME NEW x \in Fill(B, i, data), NEW y \in Fill(B, i, data),
                        IdOf(x) = IdOf(y)
                 PROVE  x = y
    BY DEF Unique
  <2>2. PICK b \in B, c \in B : x = F(b) /\ y = F(c) BY <1>1
  <2>3. QED BY <1>4, <2>1, <2>2
<1>6. QED BY <1>3, <1>5

(* The second of a backup is told by its name. *)
LEMMA StampByName ==
  ASSUME NEW B, NEW s
  PROVE  (\A b \in B : b.stamp <= s) <=> (\A i \in Names(B) : i.stamp <= s)
<1>1. \A b \in B : IdOf(b).stamp = b.stamp BY DEF IdOf
<1>2. QED BY <1>1 DEF Names

LEMMA StoredStep == ASSUME IInv, [Next]_vars PROVE Stored'
<1> USE DEF IInv, TypeOK, heavyVars, environment, copies, Copying, Go
<1> DEFINE Dated == /\ \A i \in Existing : i.stamp <= clock
                    /\ \A p \in Procs : Copying(p) => name[p].stamp <= clock
<1>0. Dated /\ clock \in Nat BY StampByName DEF Stored, Existing
<1>a. ASSUME IsFiniteSet(backups'), Unique(backups'), Dated' PROVE Stored'
  BY <1>a, StampByName DEF Stored, Existing
<1>b. ASSUME UNCHANGED <<backups, clock, name>>, \A p \in Procs : Copying(p)' => Copying(p)
      PROVE  Stored'
  BY <1>b, <1>0 DEF Stored
<1>1. ASSUME NEW p \in Procs, RenameTmp(p) PROVE Stored'
  <2>1. name[p] \in Ids /\ name[p].stamp <= clock BY <1>1, <1>0 DEF RenameTmp, Known
  <2>2. IsFiniteSet(backups') /\ Unique(backups')
    BY <1>1, <2>1, PutKeepsStored DEF RenameTmp, Stored
  <2>3. Existing' = Existing \cup {name[p]} BY <1>1, <2>1, NamesAfterPut DEF RenameTmp, Existing
  <2>4. Dated' BY <1>1, <1>0, <2>1, <2>3 DEF RenameTmp
  <2>5. QED BY <1>a, <2>2, <2>4
<1>2. ASSUME NEW p \in Procs, WriteTmp(p) PROVE Stored'
  <2>1. text[p] \in Contents /\ Torn \in Contents BY <1>2 DEF WriteTmp, Known, Contents
  <2>2. /\ IsFiniteSet(backups') /\ Unique(backups') /\ Existing' = Existing
    BY <1>2, <2>1, FillKeepsStored, NamesAfterFill DEF WriteTmp, Stored, Existing
  <2>3. Dated' BY <1>2, <1>0, <2>2 DEF WriteTmp
  <2>4. QED BY <1>a, <2>2, <2>3
<1>3. ASSUME NEW p \in Procs, ReadVersion(p) \/ Stamp(p) PROVE Stored'
  <2>1. Dated'
    BY <1>3, <1>0 DEF ReadVersion, Stamp, Known, Ids, Existing
  <2>2. QED BY <1>3, <1>a, <2>1 DEF ReadVersion, Stamp, Stored
<1>4. ASSUME NEW p \in Procs, NEW i \in doomed[p], PruneOne(p, i) PROVE Stored'
  <2>1. Dated' BY <1>4, <1>0, NamesAfterDelete DEF PruneOne, Existing
  <2>2. QED BY <1>4, <1>a, <2>1, DeleteKeepsStored DEF PruneOne, Stored
<1>5. ASSUME NEW b \in backups, UserDelete(b) PROVE Stored'
  <2>1. Dated' BY <1>5, <1>0, NamesAfterDelete DEF UserDelete, Existing
  <2>2. QED BY <1>5, <1>a, <2>1, DeleteKeepsStored DEF UserDelete, Stored
<1>6. CASE Tick
  <2>1. \A b \in backups : b.stamp \in Nat BY DEF Backups
  <2>2. \A p \in Procs : Copying(p) => name[p].stamp \in Nat BY DEF Known, Ids
  <2>3. QED BY <1>0, <1>6, <2>1, <2>2 DEF Tick, Stored
<1>7. ASSUME NEW p \in Procs,
             ReadConfig(p) \/ OpenTmp(p) \/ ListExcess(p) \/ PruneDone(p)
      PROVE  Stored'
  BY <1>7, <1>b DEF ReadConfig, OpenTmp, ListExcess, PruneDone, Onward
<1>8. ASSUME NEW p \in Procs, BackupFails(p) PROVE Stored'
  <2>1. Dated' BY <1>8, <1>0 DEF BackupFails, Onward, Existing
  <2>2. QED BY <1>8, <1>a, <2>1 DEF BackupFails, Stored
<1>9. ASSUME NEW p \in Manual, BeginBackup(p) PROVE Stored'
  BY <1>9, <1>b DEF BeginBackup, Begin
<1>10. ASSUME NEW b \in backups, BeginRestore(b) PROVE Stored'
  BY <1>10, <1>b DEF BeginRestore, Begin
<1>11. ASSUME NEW v \in Versions, BeginRollback(v) \/ BeginUpdate(v) PROVE Stored'
  BY <1>11, <1>b DEF BeginRollback, BeginUpdate, Begin
<1>12. CASE Fetch \/ Lookup \/ ReadChosen \/ Overwrite \/ Install
  BY <1>12, <1>b DEF Fetch, Lookup, ReadChosen, Overwrite, Install, Restored, Return
<1>13. CASE Edit \/ UNCHANGED vars BY <1>13, <1>b DEF Edit, vars
<1>14. QED
  BY <1>1, <1>2, <1>3, <1>4, <1>5, <1>6, <1>7, <1>8, <1>9, <1>10, <1>11, <1>12, <1>13
  DEF Next, BackupStep

LEMMA ExistingIsFinite ==
  ASSUME TypeOK, Stored
  PROVE  /\ Existing \in SUBSET Ids /\ IsFiniteSet(Existing)
         /\ Cardinality(Existing) = Cardinality(backups)
         /\ \A i : IsFiniteSet(Newer(Existing, i))
                   /\ Cardinality(Newer(Existing, i)) \in Nat
<1>1. Existing \in SUBSET Ids BY NamesAreIds DEF TypeOK, Existing, Names
<1>2. IsFiniteSet(Existing) /\ Cardinality(Existing) = Cardinality(backups)
  BY NamesAreAsMany DEF Stored, Existing
<1>3. ASSUME NEW i PROVE IsFiniteSet(Newer(Existing, i))
  BY <1>2, FS_Subset DEF Newer
<1>4. QED BY <1>1, <1>2, <1>3, FS_CardinalityType

(* A backup removed from in front of another had as many in front of it. *)
LEMMA DoomedStep == ASSUME IInv, [Next]_vars PROVE DoomedIsExcess'
<1> USE DEF IInv, environment
<1>1. keep \in Nat BY KeepIsNat
<1>2. ASSUME NEW p \in Procs, RenameTmp(p) PROVE DoomedIsExcess'
  <2>1. Existing' = Existing \cup {name[p]}
    BY <1>2, NamesAfterPut DEF RenameTmp, Existing, Known, Copying
  <2>2. doomed' = doomed /\ keep' = keep /\ meddling' = meddling
    BY <1>2 DEF RenameTmp
  <2>3. ASSUME NEW i PROVE Cardinality(Newer(Existing, i)) <= Cardinality(Newer(Existing', i))
    <3>1. Newer(Existing, i) \subseteq Newer(Existing', i) BY <2>1 DEF Newer
    <3>2. IsFiniteSet(Existing') BY <2>1, ExistingIsFinite, FS_AddElement
    <3>3. IsFiniteSet(Newer(Existing', i)) BY <3>2, FS_Subset DEF Newer
    <3>4. QED BY <3>1, <3>3, FS_Subset
  <2>4. ASSUME NEW i PROVE Cardinality(Newer(Existing', i)) \in Nat
    <3>1. IsFiniteSet(Existing') BY <2>1, ExistingIsFinite, FS_AddElement
    <3>2. QED BY <3>1, FS_Subset, FS_CardinalityType DEF Newer
  <2>5. QED BY <1>1, <2>2, <2>3, <2>4, ExistingIsFinite DEF DoomedIsExcess
<1>3. ASSUME NEW p \in Procs, ListExcess(p) PROVE DoomedIsExcess'
  <2>1. doomed' = [doomed EXCEPT ![p] = {IdOf(b) : b \in Excess(backups, keep)}]
        /\ UNCHANGED <<backups, keep, meddling>>
    BY <1>3 DEF ListExcess
  <2>2. ASSUME NEW b \in Excess(backups, keep)
        PROVE  keep > 0 /\ Cardinality(Newer(Existing, IdOf(b))) >= keep
    BY <1>1, RankByName DEF Excess, Stored, Existing
  <2>3. Existing' = Existing BY <2>1 DEF Existing
  <2>4. QED BY <2>1, <2>2, <2>3 DEF DoomedIsExcess, TypeOK
<1>4. ASSUME NEW p \in Procs, NEW i \in doomed[p], PruneOne(p, i) PROVE DoomedIsExcess'
  <2>1. Existing' = Existing \ {i} BY <1>4, NamesAfterDelete DEF PruneOne, Existing
  <2>2. /\ doomed' = [doomed EXCEPT ![p] = @ \ {i}]
        /\ UNCHANGED <<keep, meddling>>
    BY <1>4 DEF PruneOne
  <2>3. ASSUME NEW q \in Procs, NEW j \in doomed'[q]
        PROVE  keep > 0 /\ (~meddling => Cardinality(Newer(Existing', j)) >= keep)
    <3>1. j \in doomed[q] /\ j \in Ids BY <2>2 DEF TypeOK
    <3>2. SUFFICES ASSUME ~meddling PROVE Cardinality(Newer(Existing', j)) >= keep
      BY <3>1 DEF DoomedIsExcess
    <3>3. Cardinality(Newer(Existing, i)) >= keep /\ Cardinality(Newer(Existing, j)) >= keep
      BY <2>2, <3>1, <3>2 DEF DoomedIsExcess
    <3>4. CASE i \in Newer(Existing, j)
      <4>1. Newer(Existing, i) \subseteq Newer(Existing', j)
        BY <2>1, <3>1, <3>4, ExistingIsFinite, BeforeOrdersIds DEF Newer
      <4>2. Newer(Existing', j) \subseteq Newer(Existing, j) BY <2>1 DEF Newer
      <4>3. IsFiniteSet(Newer(Existing', j)) BY <4>2, ExistingIsFinite, FS_Subset
      <4>4. Cardinality(Newer(Existing, i)) <= Cardinality(Newer(Existing', j))
        BY <4>1, <4>3, FS_Subset
      <4>5. Cardinality(Newer(Existing', j)) \in Nat BY <4>3, FS_CardinalityType
      <4>6. QED BY <1>1, <3>3, <4>4, <4>5, ExistingIsFinite
    <3>5. CASE i \notin Newer(Existing, j)
      <4>1. Newer(Existing', j) = Newer(Existing, j) BY <2>1, <3>5 DEF Newer
      <4>2. QED BY <3>3, <4>1
    <3>6. QED BY <3>4, <3>5
  <2>4. QED BY <2>2, <2>3 DEF DoomedIsExcess
<1>5. ASSUME NEW b \in backups, UserDelete(b) PROVE DoomedIsExcess'
  BY <1>5 DEF UserDelete, DoomedIsExcess
<1>6. CASE Elsewhere BY <1>6 DEF Elsewhere, DoomedIsExcess, Existing
<1>7. QED BY <1>2, <1>3, <1>4, <1>5, <1>6, StoreSteps

LEMMA SparedStep == ASSUME IInv, [Next]_vars PROVE SparedAreFew'
<1> USE DEF IInv, environment
<1>1. keep \in Nat BY KeepIsNat
<1>2. ASSUME NEW p \in Procs, RenameTmp(p) PROVE SparedAreFew'
  BY <1>2 DEF RenameTmp, Go, TypeOK, SparedAreFew
<1>3. ASSUME NEW p \in Procs, ListExcess(p) PROVE SparedAreFew'
  <2> SUFFICES ASSUME keep' > 0 PROVE Cardinality(Spared') <= keep'
    BY DEF SparedAreFew
  <2> DEFINE few == {i \in Existing : Cardinality(Newer(Existing, i)) < keep}
  <2>1. doomed' = [doomed EXCEPT ![p] = {IdOf(b) : b \in Excess(backups, keep)}]
        /\ UNCHANGED <<backups, keep>>
    BY <1>3 DEF ListExcess
  <2>2. ASSUME NEW i \in Existing, i \notin doomed'[p]
        PROVE  Cardinality(Newer(Existing, i)) < keep
    <3>1. PICK b \in backups : IdOf(b) = i BY DEF Existing, Names
    <3>2. b \notin Excess(backups, keep) BY <2>1, <2>2, <3>1 DEF TypeOK
    <3>3. ~(Rank(backups, b) >= keep) BY <2>1, <3>2, <1>1 DEF Excess
    <3>4. Rank(backups, b) = Cardinality(Newer(Existing, i))
      BY <3>1, RankByName DEF Stored, Existing
    <3>5. QED BY <1>1, <3>3, <3>4, ExistingIsFinite
  <2>3. Spared' \subseteq few BY <2>1, <2>2 DEF Spared, Existing
  <2>4. IsFiniteSet(few) /\ Cardinality(few) <= keep
    BY <1>1, ExistingIsFinite, FewAreAhead, FS_Subset
  <2>5. Cardinality(Spared') <= Cardinality(few) /\ Cardinality(few) \in Nat
        /\ Cardinality(Spared') \in Nat
    BY <2>3, <2>4, FS_Subset, FS_CardinalityType
  <2>6. QED BY <1>1, <2>1, <2>4, <2>5
<1>4. ASSUME UNCHANGED <<keep, pc>>, Spared' \subseteq Spared PROVE SparedAreFew'
  <2>1. IsFiniteSet(Spared) BY ExistingIsFinite, FS_Subset DEF Spared
  <2>2. Cardinality(Spared') <= Cardinality(Spared) /\ Cardinality(Spared) \in Nat
        /\ Cardinality(Spared') \in Nat
    BY <1>4, <2>1, FS_Subset, FS_CardinalityType
  <2>3. QED BY <1>1, <1>4, <2>2 DEF SparedAreFew
<1>5. ASSUME NEW p \in Procs, NEW i \in doomed[p], PruneOne(p, i) PROVE SparedAreFew'
  <2>1. Existing' = Existing \ {i} BY <1>5, NamesAfterDelete DEF PruneOne, Existing
  <2>2. doomed' = [doomed EXCEPT ![p] = @ \ {i}] /\ UNCHANGED <<keep, pc>>
    BY <1>5 DEF PruneOne
  <2>3. Spared' \subseteq Spared BY <2>1, <2>2 DEF Spared, TypeOK
  <2>4. QED BY <1>4, <2>2, <2>3
<1>6. ASSUME NEW b \in backups, UserDelete(b) PROVE SparedAreFew'
  <2>1. Existing' = Existing \ {IdOf(b)}
    BY <1>6, NamesAfterDelete DEF UserDelete, Existing
  <2>2. UNCHANGED <<doomed, keep, pc>> BY <1>6 DEF UserDelete
  <2>3. Spared' \subseteq Spared BY <2>1, <2>2 DEF Spared
  <2>4. QED BY <1>4, <2>2, <2>3
<1>7. CASE Elsewhere BY <1>7 DEF Elsewhere, SparedAreFew, Spared, Existing
<1>8. QED BY <1>2, <1>3, <1>5, <1>6, <1>7, StoreSteps

LEMMA NamesHaveStamps ==
  ASSUME IInv
  PROVE  /\ clock \in Nat
         /\ \A b \in backups : b.stamp \in Nat
         /\ \A p \in Procs : pc[p] = "stamp" \/ Copying(p) =>
              name[p] \in Ids /\ name[p].stamp \in Nat
BY DEF IInv, TypeOK, Known, Backups, Ids

(* Copies of the seconds from s on stay as they are promised to be, if no    *)
(* two backups come to have one second and nobody changes the config.        *)
LEMMA FreshIsKept ==
  ASSUME IInv, [Next]_vars, NEW s \in Nat, Fresh(s), config' = config,
         saved' \/ \A p \in Procs : ~Stamp(p)
  PROVE  Fresh(s)'
<1> USE DEF TypeOK, IInv, heavyVars, environment, copies, Go, Copying
<1> DEFINE Unharmed(p) == name'[p] = name[p] /\ pc'[p] = pc[p] /\ text'[p] = text[p]
                          /\ file'[p] = file[p]
<1>1. ASSUME NEW p \in Procs, ReadVersion(p) PROVE Fresh(s)'
  BY <1>1 DEF ReadVersion, Fresh, FreshCopy
<1>2. ASSUME NEW p \in Procs, Stamp(p) PROVE Fresh(s)'
  <2>1. name'[p].stamp = clock BY <1>2, NamesHaveStamps DEF Stamp, Ids
  <2>2. ~SecondIsTaken(p) BY <1>2 DEF Stamp
  <2>3. FreshCopy(p)' BY <1>2, <2>1, <2>2 DEF Stamp, FreshCopy, SecondIsTaken
  <2>4. ASSUME NEW q \in Procs \ {p}, Copying(q)', name'[q].stamp >= s PROVE FreshCopy(q)'
    BY <1>2, <2>1, <2>2, <2>4 DEF Stamp, Fresh, FreshCopy, SecondIsTaken
  <2>5. QED BY <1>2, <2>3, <2>4 DEF Stamp, Fresh
<1>3. ASSUME NEW p \in Procs, ReadConfig(p) PROVE Fresh(s)'
  BY <1>3 DEF ReadConfig, Fresh, FreshCopy
<1>4. ASSUME NEW p \in Procs, OpenTmp(p) PROVE Fresh(s)'
  <2>1. name[p] \in Ids BY <1>4, NamesHaveStamps DEF OpenTmp
  <2>2. ASSUME NEW t \in tmp' PROVE IF IdOf(t) = name[p] THEN t.data = Torn ELSE t \in tmp
    BY <1>4, <2>1 DEF OpenTmp, Put, IdOf, Ids
  <2>3. ASSUME NEW q \in Procs, Copying(q)', name'[q].stamp >= s PROVE FreshCopy(q)'
    <3>1. CASE q = p BY <1>4, <2>2, <2>3, <3>1 DEF OpenTmp, Fresh, FreshCopy
    <3>2. CASE q # p
      <4>1. FreshCopy(q) /\ name[q] # name[p]
        BY <1>4, <2>3, <3>2 DEF OpenTmp, Fresh, FreshCopy
      <4>2. QED BY <1>4, <2>2, <3>2, <4>1 DEF OpenTmp, FreshCopy
    <3>3. QED BY <3>1, <3>2
  <2>4. QED BY <1>4, <2>3 DEF OpenTmp, Fresh
<1>5. ASSUME NEW p \in Procs, WriteTmp(p) PROVE Fresh(s)'
  <2>1. /\ name[p] \in Ids /\ pc[p] = "write" /\ name' = name /\ file' = file
        /\ pc' = [pc EXCEPT ![p] = "rename"] /\ text' = [text EXCEPT ![p] = None]
    BY <1>5, NamesHaveStamps DEF WriteTmp
  <2>2. PICK d \in {text[p], Torn} :
          /\ d = Torn => \E b \in tmp \cup backups :
                            IdOf(b) = name[p] /\ b.data \notin {Torn, text[p]}
          /\ tmp' = IF file[p] = "tmp" THEN Fill(tmp, name[p], d) ELSE tmp
          /\ backups' = IF file[p] = "backup" THEN Fill(backups, name[p], d) ELSE backups
    BY <1>5 DEF WriteTmp
  <2>3. d \in Contents BY <2>1, <2>2 DEF Known, Contents
  <2>4. ASSUME NEW B \in SUBSET Backups, NEW t \in Fill(B, name[p], d)
        PROVE  IF IdOf(t) = name[p] THEN t.data = d ELSE t \in B
    <3>1. PICK b \in B : t = IF IdOf(b) = name[p] THEN [b EXCEPT !.data = d] ELSE b
      BY DEF Fill
    <3>2. IdOf(t) = IdOf(b) BY <2>3, <3>1, FilledKeepsName
    <3>3. b \in Backups BY <2>4
    <3>4. QED BY <3>1, <3>2, <3>3 DEF Backups
  <2>5. CASE name[p].stamp >= s
    <3>1. FreshCopy(p) BY <2>1, <2>5 DEF Fresh
    <3>2. file[p] = "tmp" /\ text[p] = config BY <2>1, <3>1 DEF FreshCopy
    <3>3. d = config
      <4>1. SUFFICES ASSUME d = Torn PROVE FALSE BY <2>2, <3>2
      <4>2. PICK b \in tmp \cup backups : IdOf(b) = name[p] /\ b.data # Torn
        BY <2>2, <4>1
      <4>3. b \in backups BY <2>1, <3>1, <4>2 DEF FreshCopy
      <4>4. b.stamp = name[p].stamp BY <4>2 DEF IdOf
      <4>5. QED BY <3>1, <4>3, <4>4 DEF FreshCopy
    <3>4. backups' = backups /\ tmp' = Fill(tmp, name[p], d) BY <2>2, <3>2
    <3>5. ASSUME NEW t \in tmp' PROVE IF IdOf(t) = name[p] THEN t.data = config ELSE t \in tmp
      BY <2>4, <3>3, <3>4
    <3>6. FreshCopy(p)' BY <1>5, <2>1, <3>1, <3>2, <3>4, <3>5 DEF FreshCopy
    <3>7. ASSUME NEW q \in Procs \ {p}, Copying(q)', name'[q].stamp >= s PROVE FreshCopy(q)'
      <4>1. FreshCopy(q) /\ name[q] # name[p] BY <2>1, <3>7 DEF Fresh, FreshCopy
      <4>2. QED BY <1>5, <2>1, <3>4, <3>5, <3>7, <4>1 DEF FreshCopy
    <3>8. QED BY <2>1, <3>4, <3>6, <3>7 DEF Fresh
  <2>6. CASE ~(name[p].stamp >= s)
    <3>1. \A b \in backups' : IF IdOf(b) = name[p] THEN TRUE ELSE b \in backups
      BY <2>2, <2>4
    <3>2. \A t \in tmp' : IF IdOf(t) = name[p] THEN TRUE ELSE t \in tmp
      BY <2>2, <2>4
    <3>3. \A b : IdOf(b).stamp = b.stamp BY DEF IdOf
    <3>4. Names(backups') = Names(backups) BY <2>2, <2>3, NamesAfterFill
    <3>5. ASSUME NEW q \in Procs \ {p}, Copying(q)', name'[q].stamp >= s PROVE FreshCopy(q)'
      <4>1. FreshCopy(q) /\ name[q] # name[p] BY <2>1, <3>5, <2>6 DEF Fresh
      <4>2. \A b \in backups' : b.stamp # name[q].stamp
        <5>1. \A i \in Names(backups) : i.stamp # name[q].stamp
          BY <3>3, <4>1 DEF FreshCopy, Names
        <5>2. QED BY <3>3, <3>4, <5>1 DEF Names
      <4>3. QED BY <1>5, <2>1, <3>2, <3>5, <4>1, <4>2 DEF FreshCopy
    <3>6. QED BY <2>1, <2>6, <3>1, <3>3, <3>5 DEF Fresh
  <2>7. QED BY <2>5, <2>6
<1>6. ASSUME NEW p \in Procs, RenameTmp(p) PROVE Fresh(s)'
  <2> DEFINE b == [ver |-> name[p].ver, stamp |-> name[p].stamp,
                   data |-> Named(tmp, name[p]).data]
  <2>1. /\ name[p] \in Ids /\ pc[p] = "rename" /\ HasId(tmp, name[p])
        /\ pc' = [pc EXCEPT ![p] = "list"] /\ name' = [name EXCEPT ![p] = None]
        /\ text' = text /\ tmp' = Delete(tmp, name[p])
    BY <1>6, NamesHaveStamps DEF RenameTmp
  <2>2. \A c \in backups' : c = b \/ c \in backups BY <1>6 DEF RenameTmp, Put
  <2>3. tmp' \subseteq tmp BY <2>1 DEF Delete
  <2>4. ASSUME name[p].stamp >= s PROVE b.data = config
    <3>1. FreshCopy(p) BY <2>1, <2>4 DEF Fresh
    <3>2. Named(tmp, name[p]) \in tmp /\ IdOf(Named(tmp, name[p])) = name[p]
      BY <2>1, NamedIsOne
    <3>3. QED BY <2>1, <3>1, <3>2 DEF FreshCopy
  <2>5. ASSUME NEW q \in Procs, Copying(q)', name'[q].stamp >= s PROVE FreshCopy(q)'
    <3>1. q # p /\ name'[q] = name[q] /\ pc'[q] = pc[q] BY <2>1, <2>5
    <3>2. FreshCopy(q) BY <2>5, <3>1 DEF Fresh
    <3>3. name[q].stamp # name[p].stamp BY <2>1, <3>1, <3>2 DEF FreshCopy
    <3>4. file'[q] = file[q] BY <1>6, <3>1, <3>3 DEF RenameTmp
    <3>5. \A c \in backups' : c.stamp # name'[q].stamp BY <2>2, <3>1, <3>2, <3>3 DEF FreshCopy
    <3>6. \A r \in Procs \ {q} : Copying(r)' => name'[r].stamp # name'[q].stamp
      BY <2>1, <3>1, <3>2 DEF FreshCopy
    <3>7. QED BY <2>1, <2>3, <3>1, <3>2, <3>4, <3>5, <3>6 DEF FreshCopy
  <2>6. QED BY <2>2, <2>4, <2>5 DEF Fresh
<1>7. ASSUME NEW p \in Procs, BackupFails(p) PROVE Fresh(s)'
  <2>1. tmp' \subseteq tmp BY <1>7 DEF BackupFails, Delete
  <2>2. ASSUME NEW q \in Procs, Copying(q)', name'[q].stamp >= s PROVE FreshCopy(q)'
    <3>1. q # p /\ Unharmed(q) BY <1>7, <2>2 DEF BackupFails, Onward
    <3>2. FreshCopy(q) BY <2>2, <3>1 DEF Fresh
    <3>3. \A r \in Procs \ {q} : Copying(r)' => Copying(r) /\ name'[r] = name[r]
      BY <1>7 DEF BackupFails, Onward
    <3>4. QED BY <1>7, <2>1, <3>1, <3>2, <3>3 DEF FreshCopy, BackupFails
  <2>3. QED BY <1>7, <2>2 DEF Fresh, BackupFails
<1>8. ASSUME NEW p \in Procs, NEW i \in doomed[p], PruneOne(p, i) PROVE Fresh(s)'
  BY <1>8 DEF PruneOne, Delete, Fresh, FreshCopy
<1>9. ASSUME NEW b \in backups, UserDelete(b) PROVE Fresh(s)'
  BY <1>9 DEF UserDelete, Delete, Fresh, FreshCopy
<1>10. ASSUME UNCHANGED <<backups, name, tmp, file>>,
              \A p \in Procs : /\ Copying(p)' => Copying(p) /\ pc'[p] = pc[p]
                               /\ Copying(p) => text'[p] = text[p]
       PROVE  Fresh(s)'
  BY <1>10 DEF Fresh, FreshCopy
<1>11. ASSUME NEW p \in Procs, ListExcess(p) \/ PruneDone(p) PROVE Fresh(s)'
  BY <1>11, <1>10 DEF ListExcess, PruneDone, Onward
<1>12. ASSUME NEW p \in Manual, BeginBackup(p) PROVE Fresh(s)'
  BY <1>12, <1>10 DEF BeginBackup, Begin
<1>13. ASSUME NEW b \in backups, BeginRestore(b) PROVE Fresh(s)'
  BY <1>13, <1>10 DEF BeginRestore, Begin
<1>14. ASSUME NEW v \in Versions, BeginRollback(v) \/ BeginUpdate(v) PROVE Fresh(s)'
  BY <1>14, <1>10 DEF BeginRollback, BeginUpdate, Begin
<1>15. CASE Fetch \/ Lookup \/ Install
  BY <1>15, <1>10 DEF Fetch, Lookup, Install, Return
<1>16. CASE ReadChosen \/ Overwrite
  BY <1>16, <1>10 DEF ReadChosen, Overwrite, Restored, Return
<1>17. CASE Edit \/ Tick \/ UNCHANGED vars BY <1>17, <1>10 DEF Edit, Tick, vars
<1>18. QED
  BY <1>1, <1>2, <1>3, <1>4, <1>5, <1>6, <1>7, <1>8, <1>9, <1>11, <1>12, <1>13,
     <1>14, <1>15, <1>16, <1>17 DEF Next, BackupStep

(* A backup that a prune removes has a newer one in front of it. *)
LEMMA PruneLeavesNewer ==
  ASSUME IInv, ~meddling, NEW p \in Procs, NEW i \in doomed[p], PruneOne(p, i),
         NEW s \in Nat, NEW b \in backups, b.stamp >= s
  PROVE  \E c \in backups' : c.stamp >= s
<1> USE DEF IInv
<1>1. backups' = Delete(backups, i) BY DEF PruneOne
<1>2. CASE IdOf(b) # i BY <1>1, <1>2 DEF Delete
<1>3. CASE IdOf(b) = i
  <2>1. keep \in Nat /\ keep > 0 /\ Cardinality(Newer(Existing, i)) >= keep
    BY KeepIsNat DEF DoomedIsExcess
  <2>2. Newer(Existing, i) # {} BY <2>1, FS_EmptySet
  <2>3. PICK c \in backups : Before(IdOf(c), i) BY <2>2 DEF Newer, Existing, Names
  <2>4. b.stamp = i.stamp /\ c.stamp = IdOf(c).stamp BY <1>3 DEF IdOf
  <2>5. i \in Ids /\ IdOf(c) \in Ids BY <1>3, NamesAreIds DEF TypeOK
  <2>6. c.stamp \in Nat /\ b.stamp \in Nat BY NamesHaveStamps
  <2>7. c.stamp >= s BY <2>3, <2>4, <2>6 DEF Before
  <2>8. IdOf(c) # i BY <2>3, <2>5, BeforeOrdersIds
  <2>9. QED BY <1>1, <2>7, <2>8 DEF Delete
<1>4. QED BY <1>2, <1>3

LEMMA RecoverableStep == ASSUME IInv, [Next]_vars PROVE Recoverable'
<1> USE DEF TypeOK, IInv, heavyVars, environment, copies, Go, Procs
<1> SUFFICES ASSUME ~meddling', saved', BackedUp' PROVE \E s \in Nat : Since(s)'
  BY DEF Recoverable
<1>a. ASSUME NEW s \in Nat, Since(s), config' = config,
             Copying(Heavy)' => Copying(Heavy) /\ name'[Heavy] = name[Heavy],
             ~Copying(Heavy)' =>
                \/ ~Copying(Heavy) /\ backups' = backups
                \/ \E b \in backups' : b.stamp >= s
      PROVE  \E t \in Nat : Since(t)'
  <2>1. Fresh(s)' BY <1>a, FreshIsKept DEF Since
  <2>2. QED BY <1>a, <2>1 DEF Since
<1>b. ASSUME saved, ~meddling, BackedUp PROVE \E s \in Nat : Since(s)
  BY <1>b DEF Recoverable
<1>c. ASSUME BackedUp, saved, ~meddling, UNCHANGED <<config, backups, name>>,
             Copying(Heavy)' <=> Copying(Heavy)
      PROVE  \E s \in Nat : Since(s)'
  <2>1. PICK s \in Nat : Since(s) BY <1>b, <1>c
  <2>2. QED BY <1>a, <1>c, <2>1
<1>1. ASSUME NEW p \in Procs, ReadVersion(p) PROVE \E s \in Nat : Since(s)'
  <2>1. UNCHANGED <<saved, meddling, config, backups>> /\ p # Heavy /\ BackedUp
    BY <1>1 DEF ReadVersion, BackedUp, Copying
  <2>2. PICK s \in Nat : Since(s) BY <1>b, <2>1
  <2>3. QED BY <1>1, <1>a, <2>1, <2>2 DEF ReadVersion, Copying
<1>2. ASSUME NEW p \in Procs \ {Heavy}, Stamp(p) PROVE \E s \in Nat : Since(s)'
  <2>1. UNCHANGED <<meddling, config, backups>> /\ saved /\ BackedUp
    BY <1>2 DEF Stamp, BackedUp, Copying
  <2>2. PICK s \in Nat : Since(s) BY <1>b, <2>1
  <2>3. QED BY <1>2, <1>a, <2>1, <2>2 DEF Stamp, Copying
<1>3. ASSUME Stamp(Heavy) PROVE \E s \in Nat : Since(s)'
  <2>1. ~SecondIsTaken(Heavy) /\ config' = config BY <1>3 DEF Stamp
  <2>2. \A b \in backups : ~(b.stamp >= clock)
    BY <2>1, NamesHaveStamps DEF SecondIsTaken, Stored
  <2>3. \A p \in Procs : Copying(p) => ~(name[p].stamp >= clock)
    <3>1. ~Copying(Heavy) BY <1>3 DEF Stamp, Copying
    <3>2. QED BY <2>1, <3>1, NamesHaveStamps DEF SecondIsTaken, Stored
  <2>4. Fresh(clock) /\ clock \in Nat BY <2>2, <2>3 DEF Fresh
  <2>5. Fresh(clock)' BY <2>1, <2>4, FreshIsKept, <1>3 DEF Fresh, Stamp, FreshCopy
  <2>6. name'[Heavy].stamp = clock /\ Copying(Heavy)' /\ clock' = clock
    BY <1>3, NamesHaveStamps DEF Stamp, Copying, Ids
  <2>7. QED BY <2>4, <2>5, <2>6 DEF Since
<1>4. ASSUME NEW p \in Procs, ReadConfig(p) PROVE \E s \in Nat : Since(s)'
  BY <1>4, <1>c DEF ReadConfig, BackedUp, Copying
<1>5. ASSUME NEW p \in Procs, OpenTmp(p) PROVE \E s \in Nat : Since(s)'
  BY <1>5, <1>c DEF OpenTmp, BackedUp, Copying
<1>6. ASSUME NEW p \in Procs, WriteTmp(p) PROVE \E s \in Nat : Since(s)'
  <2>1. UNCHANGED <<saved, meddling, config, name>> /\ BackedUp
        /\ (Copying(Heavy)' <=> Copying(Heavy))
    BY <1>6 DEF WriteTmp, BackedUp, Copying
  <2>2. PICK s \in Nat : Since(s) BY <1>b, <2>1
  <2>3. Names(backups') = Names(backups)
    BY <1>6, NamesAfterFill DEF WriteTmp, Known, Contents
  <2>4. (\E b \in backups : b.stamp >= s) => \E b \in backups' : b.stamp >= s
    <3>1. \A b : IdOf(b).stamp = b.stamp BY DEF IdOf
    <3>2. QED BY <2>3, <3>1 DEF Names
  <2>5. QED BY <1>a, <2>1, <2>2, <2>4 DEF Since
<1>7. ASSUME NEW p \in Procs, RenameTmp(p) PROVE \E s \in Nat : Since(s)'
  <2> DEFINE new == [ver |-> name[p].ver, stamp |-> name[p].stamp,
                     data |-> Named(tmp, name[p]).data]
  <2>1. /\ UNCHANGED <<saved, meddling, config>> /\ BackedUp
        /\ name' = [name EXCEPT ![p] = None] /\ pc' = [pc EXCEPT ![p] = "list"]
        /\ pc[p] = "rename" /\ backups' = Put(backups, name[p], new.data)
    BY <1>7 DEF RenameTmp, BackedUp, Copying
  <2>2. PICK s \in Nat : Since(s) BY <1>b, <2>1
  <2>3. new \in backups' BY <2>1 DEF Put
  <2>4. CASE p = Heavy
    <3>1. new.stamp >= s BY <2>1, <2>2, <2>4 DEF Since, Copying
    <3>2. QED BY <1>a, <2>1, <2>2, <2>3, <2>4, <3>1 DEF Copying
  <2>5. CASE p # Heavy
    <3>1. name'[Heavy] = name[Heavy] /\ pc'[Heavy] = pc[Heavy] BY <2>1, <2>5
    <3>2. ASSUME NEW b \in backups, b.stamp >= s PROVE \E c \in backups' : c.stamp >= s
      <4>1. CASE IdOf(b) = name[p]
        <5>1. new.stamp = b.stamp BY <4>1 DEF IdOf
        <5>2. QED BY <2>3, <3>2, <5>1
      <4>2. CASE IdOf(b) # name[p] BY <2>1, <3>2, <4>2 DEF Put
      <4>3. QED BY <4>1, <4>2
    <3>3. QED BY <1>a, <2>1, <2>2, <3>1, <3>2 DEF Since, Copying
  <2>6. QED BY <2>4, <2>5
<1>8. ASSUME NEW p \in Procs, BackupFails(p) PROVE \E s \in Nat : Since(s)'
  <2>1. UNCHANGED <<meddling, config, backups>> /\ p # Heavy /\ saved /\ BackedUp
    BY <1>8 DEF BackupFails, BackedUp, Copying
  <2>2. PICK s \in Nat : Since(s) BY <1>b, <2>1
  <2>3. QED BY <1>8, <1>a, <2>1, <2>2 DEF BackupFails, Copying, Onward
<1>9. ASSUME NEW p \in Procs, ListExcess(p) \/ PruneDone(p) PROVE \E s \in Nat : Since(s)'
  <2>1. BackedUp /\ (Copying(Heavy)' <=> Copying(Heavy))
    BY <1>9 DEF ListExcess, PruneDone, BackedUp, Copying, Onward
  <2>2. UNCHANGED <<saved, meddling, config, backups, name>>
    BY <1>9 DEF ListExcess, PruneDone
  <2>3. QED BY <1>c, <2>1, <2>2
<1>10. ASSUME NEW p \in Procs, NEW i \in doomed[p], PruneOne(p, i)
       PROVE  \E s \in Nat : Since(s)'
  <2>1. UNCHANGED <<saved, meddling, config, name, pc>> /\ BackedUp
    BY <1>10 DEF PruneOne, BackedUp, Copying
  <2>2. PICK s \in Nat : Since(s) BY <1>b, <2>1
  <2>3. (\E b \in backups : b.stamp >= s) => \E b \in backups' : b.stamp >= s
    BY <1>10, <2>1, PruneLeavesNewer
  <2>4. QED BY <1>a, <2>1, <2>2, <2>3 DEF Since, Copying
<1>11. ASSUME NEW b \in backups, UserDelete(b) PROVE \E s \in Nat : Since(s)'
  BY <1>11 DEF UserDelete
<1>12. ASSUME NEW p \in Manual, BeginBackup(p) PROVE \E s \in Nat : Since(s)'
  BY <1>12, <1>c, ConfigBackupAssumption DEF BeginBackup, Begin, BackedUp, Copying
<1>13. ASSUME NEW b \in backups, BeginRestore(b) PROVE \E s \in Nat : Since(s)'
  BY <1>13 DEF BeginRestore, Begin, BackedUp, Copying
<1>14. ASSUME NEW v \in Versions, BeginRollback(v) \/ BeginUpdate(v)
       PROVE  \E s \in Nat : Since(s)'
  BY <1>14 DEF BeginRollback, BeginUpdate, Begin, BackedUp, Copying
<1>15. CASE Fetch BY <1>15, <1>c DEF Fetch, Return, BackedUp, Copying
<1>16. CASE Lookup BY <1>16, <1>c DEF Lookup, BackedUp, Copying
<1>17. CASE ReadChosen
  BY <1>17, <1>c DEF ReadChosen, Restored, Return, BackedUp, Copying
<1>18. CASE Overwrite \/ Install
  BY <1>18 DEF Overwrite, Install, Restored, Return, BackedUp, Copying
<1>19. CASE Edit BY <1>19 DEF Edit, BackedUp, Copying
<1>20. CASE Tick \/ UNCHANGED vars
  <2>1. UNCHANGED <<saved, meddling, config, backups, name, pc>>
    BY <1>20 DEF Tick, vars
  <2>2. QED BY <1>c, <2>1 DEF BackedUp, Copying
<1>21. QED
  BY <1>1, <1>2, <1>3, <1>4, <1>5, <1>6, <1>7, <1>8, <1>9, <1>10, <1>11, <1>12,
     <1>13, <1>14, <1>15, <1>16, <1>17, <1>18, <1>19, <1>20 DEF Next, BackupStep

LEMMA VersionByName ==
  ASSUME NEW B, NEW v PROVE HasVersion(B, v) <=> \E i \in Names(B) : i.ver = v
<1>1. \A b \in B : IdOf(b).ver = b.ver BY DEF IdOf
<1>2. QED BY <1>1 DEF HasVersion, ForVersion, Names

(* The rename that ends a backup adds its name to the listing. *)
LEMMA RenameAddsName ==
  ASSUME IInv, NEW p \in Procs, RenameTmp(p)
  PROVE  Existing' = Existing \cup {name[p]}
<1>1. name[p] \in Ids BY DEF IInv, RenameTmp, Known, Copying
<1>2. backups' = Put(backups, name[p], Named(tmp, name[p]).data) BY DEF RenameTmp
<1>3. QED BY <1>1, <1>2, NamesAfterPut DEF Existing

(* Without a limit nothing is pruned: while an operation of Heavy runs, only *)
(* new backups come to those it was promised.                                *)
LEMMA PromisesStep == ASSUME IInv, [Next]_vars PROVE Promises'
<1> USE DEF TypeOK, Promises, IInv, heavyVars, environment, Procs, Go
<1>a. ASSUME UNCHANGED <<op, goal, promised, keep, meddling>>,
             Existing \subseteq Existing',
             id' = id \/ op = "rollback",
             pc'[Heavy] # "idle" => pc[Heavy] # "idle"
      PROVE  Promises'
  <2>1. HasVersion(backups, goal) => HasVersion(backups', goal)
    BY <1>a, VersionByName DEF Existing
  <2>2. QED BY <1>a, <2>1
<1>1. ASSUME NEW p \in Manual, BeginBackup(p) PROVE Promises'
  BY <1>1, ConfigBackupAssumption DEF BeginBackup, Begin, Existing
<1>2. ASSUME NEW b \in backups, BeginRestore(b) PROVE Promises'
  <2>1. IdOf(b) \in Existing BY DEF Existing, Names
  <2>2. Existing' = Existing BY <1>2 DEF BeginRestore, Begin, Existing
  <2>3. QED BY <1>2, <2>1, <2>2 DEF BeginRestore, Begin
<1>3. ASSUME NEW b \in backups, UserDelete(b) PROVE Promises'
  BY <1>3 DEF UserDelete
<1>4. ASSUME NEW v \in Versions, BeginRollback(v) \/ BeginUpdate(v) PROVE Promises'
  BY <1>4 DEF BeginRollback, BeginUpdate, Begin
<1>5. ASSUME NEW p \in Procs, RenameTmp(p) PROVE Promises'
  <2>1. Existing' = Existing \cup {name[p]} BY <1>5, RenameAddsName
  <2>2. QED BY <1>a, <1>5, <2>1 DEF RenameTmp
<1>6. ASSUME NEW p \in Procs, NEW i \in doomed[p], PruneOne(p, i) PROVE Promises'
  <2>1. keep > 0 /\ keep' = keep BY <1>6 DEF PruneOne, DoomedIsExcess
  <2>2. QED BY <2>1, KeepIsNat
<1>7. ASSUME NEW p \in Procs,
             \/ ReadVersion(p) \/ Stamp(p) \/ ReadConfig(p) \/ OpenTmp(p)
             \/ BackupFails(p) \/ ListExcess(p) \/ PruneDone(p)
      PROVE  Promises'
  <2>1. /\ UNCHANGED <<backups, op, goal, promised, id, keep, meddling>>
        /\ pc'[Heavy] # "idle" => pc[Heavy] # "idle"
    BY <1>7 DEF ReadVersion, Stamp, ReadConfig, OpenTmp, BackupFails, ListExcess,
                PruneDone, copies, Copying
  <2>2. QED BY <1>a, <2>1 DEF Existing
<1>8. ASSUME NEW p \in Procs, WriteTmp(p) PROVE Promises'
  <2>1. Existing' = Existing
    BY <1>8, NamesAfterFill DEF WriteTmp, Known, Contents, Existing
  <2>2. QED BY <1>a, <1>8, <2>1 DEF WriteTmp
<1>9. CASE Lookup
  <2>1. op = "rollback" BY <1>9 DEF Lookup, Known
  <2>2. QED BY <1>a, <1>9, <2>1 DEF Lookup, Existing
<1>10. CASE Fetch \/ ReadChosen \/ Overwrite \/ Install
  BY <1>10, <1>a DEF Fetch, ReadChosen, Overwrite, Install, Restored, Return, Existing
<1>11. CASE Edit \/ Tick \/ UNCHANGED vars BY <1>11, <1>a DEF Edit, Tick, vars, Existing
<1>12. QED
  BY <1>1, <1>2, <1>3, <1>4, <1>5, <1>6, <1>7, <1>8, <1>9, <1>10, <1>11
  DEF Next, BackupStep

(* The invariant holds in every behaviour: each part of it is kept by the    *)
(* steps of all goroutines, given the others.                                *)
LEMMA IInvHolds == Spec => []IInv
<1>1. IInv /\ [Next]_vars => IInv'
  <2>1. SUFFICES ASSUME IInv, [Next]_vars PROVE IInv' OBVIOUS
  <2>2. TypeOK' /\ Known' /\ Stored' BY <2>1, TypeStep, KnownStep, StoredStep
  <2>3. DoomedIsExcess' /\ SparedAreFew' BY <2>1, DoomedStep, SparedStep
  <2>4. Recoverable' /\ Promises' BY <2>1, RecoverableStep, PromisesStep
  <2>5. QED BY <2>2, <2>3, <2>4 DEF IInv
<1>2. QED BY InitIInv, <1>1, PTL DEF Spec

-----------------------------------------------------------------------------

(* Every variable keeps its type: what a prune has listed is the name of a *)
(* backup, an install has a version to install (service.go's operations).    *)
THEOREM TypeCorrect == Spec => []TypeOK
<1>1. IInv => TypeOK BY DEF IInv
<1>2. QED BY <1>1, IInvHolds, PTL

(* However many backups, restores and rollbacks overlap, with copies that    *)
(* fail and deletions by the user between their steps: while none of them is *)
(* between its backup and the end of its prune, no more files exist than     *)
(* backup_keep allows (cfgbackup.go's Prune, called after each Backup).      *)
THEOREM RetentionHolds == Spec => []Retention
<1>1. IInv => Retention
  <2>1. SUFFICES ASSUME IInv, keep > 0,
                        \A p \in Procs : pc[p] \notin {"list", "prune"}
                 PROVE  Cardinality(backups) <= keep
    BY DEF Retention
  <2>2. \A p \in Procs : doomed[p] = {} BY <2>1 DEF IInv, Known
  <2>3. Spared = Existing BY <2>2 DEF Spared
  <2>4. Cardinality(Spared) <= keep BY <2>1 DEF IInv, SparedAreFew
  <2>5. Cardinality(Existing) = Cardinality(backups)
    BY <2>1, ExistingIsFinite DEF IInv
  <2>6. QED BY <2>3, <2>4, <2>5
<1>2. QED BY <1>1, IInvHolds, PTL

(* With backup_keep 0, and nobody deleting by hand, the backup a user chose  *)
(* is there when the restore comes to it, and a rollback announced with a    *)
(* config to restore finds one of its target version, whatever backups other *)
(* goroutines take or fail to take on the way.                               *)
THEOREM UnlimitedIsKept == Spec => []UnlimitedKeepsPromises
<1>1. IInv => UnlimitedKeepsPromises
  <2>1. SUFFICES ASSUME IInv, keep = 0 PROVE RestoreFindsChosen /\ RollbackKeepsPromise
    BY DEF UnlimitedKeepsPromises
  <2>2. RestoreFindsChosen
    <3>1. id \in Existing => HasId(backups, id) BY DEF Existing, Names, HasId
    <3>2. QED BY <2>1, <3>1 DEF IInv, Promises, RestoreFindsChosen
  <2>3. RollbackKeepsPromise
    BY <2>1 DEF IInv, Known, Promises, RollbackKeepsPromise
  <2>4. QED BY <2>2, <2>3
<1>2. QED BY <1>1, IInvHolds, PTL

(* A prune of a goroutine never removes a file unless as many newer ones as  *)
(* the limit remain, though it works from a listing that other prunes have   *)
(* made stale; so the number of files, once at the limit, stays there.       *)
THEOREM PruningLeavesKeep == Spec => PruneLeavesKeep
<1> DEFINE Left == ~meddling /\ Cardinality(backups) >= keep => Cardinality(backups') >= keep
<1>1. ASSUME IInv, IInv', [Next]_vars PROVE Left
  <2> SUFFICES ASSUME ~meddling, Cardinality(backups) >= keep
               PROVE  Cardinality(backups') >= keep
    OBVIOUS
  <2>1. /\ keep \in Nat
        /\ Cardinality(Existing) = Cardinality(backups) /\ Cardinality(Existing) \in Nat
        /\ IsFiniteSet(Existing)
    BY <1>1, KeepIsNat, ExistingIsFinite, FS_CardinalityType DEF IInv
  <2>2. /\ Cardinality(Existing') = Cardinality(backups') /\ IsFiniteSet(Existing')
        /\ Cardinality(Existing') \in Nat
    <3>1. IsFiniteSet(backups') /\ Unique(backups') BY <1>1 DEF IInv, Stored
    <3>2. QED BY <3>1, NamesAreAsMany, FS_CardinalityType DEF Existing
  <2>3. ASSUME NEW p \in Procs, RenameTmp(p) PROVE Cardinality(backups') >= keep
    <3>1. Existing \subseteq Existing'
      BY <1>1, <2>3, RenameAddsName
    <3>2. Cardinality(Existing) <= Cardinality(Existing') BY <3>1, <2>2, FS_Subset
    <3>3. QED BY <2>1, <2>2, <3>2
  <2>4. ASSUME NEW p \in Procs, NEW i \in doomed[p], PruneOne(p, i)
        PROVE  Cardinality(backups') >= keep
    <3>1. Existing' = Existing \ {i} BY <2>4, NamesAfterDelete DEF PruneOne, Existing
    <3>2. Cardinality(Newer(Existing, i)) >= keep
      BY <1>1, <2>4 DEF IInv, DoomedIsExcess, PruneOne
    <3>3. Newer(Existing, i) \subseteq Existing'
      <4>1. i \in Ids BY <1>1 DEF IInv, TypeOK
      <4>2. ~Before(i, i) BY <4>1, BeforeOrdersIds
      <4>3. QED BY <3>1, <4>2 DEF Newer
    <3>4. Cardinality(Newer(Existing, i)) <= Cardinality(Existing')
      BY <3>3, <2>2, FS_Subset
    <3>5. Cardinality(Newer(Existing, i)) \in Nat
      BY <3>3, <2>2, FS_Subset, FS_CardinalityType
    <3>6. QED BY <2>1, <2>2, <3>2, <3>4, <3>5
  <2>5. ASSUME Existing' = Existing PROVE Cardinality(backups') >= keep
    BY <2>1, <2>2, <2>5
  <2>6. QED
    BY <1>1, <2>3, <2>4, <2>5, StoreSteps DEF ListExcess, UserDelete, Elsewhere, Existing
<1>2. QED BY <1>1, IInvHolds, PTL DEF Spec, PruneLeavesKeep

(* When a restore or a rollback overwrites the live config after a backup of *)
(* it succeeded, and no two backups shared a second since that one got its   *)
(* name, its content still is in a file: every backup from then on holds it, *)
(* and whatever copies and prunes of other goroutines ran, one is left       *)
(* (RestoreConfig, RunDowngrade).                                            *)
THEOREM OverwritesAreRecoverable == Spec => OverwriteIsRecoverable
<1> DEFINE Found == ~meddling /\ Overwrite /\ config' # config /\ saved =>
                      \E b \in backups : b.data = config
<1>1. IInv => Found
  <2>1. SUFFICES ASSUME IInv, ~meddling, Overwrite, saved
                 PROVE  \E b \in backups : b.data = config
    OBVIOUS
  <2>2. BackedUp /\ ~Copying(Heavy) BY <2>1 DEF Overwrite, BackedUp, Copying
  <2>3. PICK s \in Nat : Since(s) BY <2>1, <2>2 DEF IInv, Recoverable
  <2>4. QED BY <2>2, <2>3 DEF Since, Fresh
<1>2. QED BY <1>1, IInvHolds, PTL DEF OverwriteIsRecoverable
=============================================================================
