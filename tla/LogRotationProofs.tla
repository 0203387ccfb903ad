------------------------- MODULE LogRotationProofs -------------------------
(* Proofs about InstanceLock and LogRotation, for any processes, goroutines  *)
(* and file sizes.                                                           *)
EXTENDS LogRotation, TLAPS

(***************************************************************************)
(* When daemons start one after the other, RunningOwnsLock is kept by what *)
(* the one that is starting has seen: if a daemon runs, the starting one   *)
(* read its pid (SeesOwner) and so never gets to the file (NoneWrites).    *)
(***************************************************************************)
Running(p) == pc[p] = "running"

OneStarts == \A p, q \in Pids : pc[p] \in Starting /\ pc[q] \in Starting => p = q

SeesOwner == \A p, q \in Pids : Running(p) /\ pc[q] = "checking" => seen[q] = p

NoneWrites ==
  \A p, q \in Pids : Running(p) => pc[q] \notin {"truncating", "writing"}

LockInv == TypeOK /\ RunningOwnsLock /\ OneStarts /\ SeesOwner /\ NoneWrites

LEMMA InitLockInv == Init => LockInv
BY DEF Init, LockInv, TypeOK, RunningOwnsLock, OneStarts, SeesOwner, NoneWrites,
       Running, Starting

LEMMA LockStep == ASSUME ~Overlap, LockInv, [Next]_vars PROVE LockInv'
<1> USE LockAssumption
    DEF LockInv, TypeOK, RunningOwnsLock, OneStarts, SeesOwner, NoneWrites,
        Running, Starting, Go, Forget
<1>1. ASSUME NEW p \in Pids, Spawn(p) PROVE LockInv' BY <1>1 DEF Spawn
<1>2. ASSUME NEW p \in Pids, SpawnOther(p) PROVE LockInv' BY <1>2 DEF SpawnOther
<1>3. ASSUME NEW p \in Pids, Read(p) PROVE LockInv' BY <1>3 DEF Read
<1>4. ASSUME NEW p \in Pids, Refuse(p) PROVE LockInv' BY <1>4 DEF Refuse
<1>11. ASSUME NEW p \in Pids, Return(p) PROVE LockInv' BY <1>11 DEF Return
<1>5. ASSUME NEW p \in Pids, Accept(p) PROVE LockInv'
  BY <1>5 DEF Accept, LivePids
<1>6. ASSUME NEW p \in Pids, Truncate(p) PROVE LockInv' BY <1>6 DEF Truncate
<1>7. ASSUME NEW p \in Pids, Write(p) PROVE LockInv' BY <1>7 DEF Write
<1>8. ASSUME NEW p \in Pids, Leave(p) PROVE LockInv' BY <1>8 DEF Leave
<1>9. ASSUME NEW p \in Pids, End(p) PROVE LockInv' BY <1>9 DEF End
<1>10. CASE UNCHANGED vars BY <1>10 DEF vars
<1>12. QED
  BY <1>1, <1>2, <1>3, <1>4, <1>5, <1>6, <1>7, <1>8, <1>9, <1>10, <1>11
  DEF Next, Step

LEMMA LockInvHolds == ASSUME ~Overlap PROVE Spec => []LockInv
BY InitLockInv, LockStep, PTL DEF Spec

(* Started one at a time, no two daemons run at once, whatever is killed   *)
(* at whatever step and however the kernel gives pids out again.           *)
THEOREM SerialStartsAreExclusive == ASSUME ~Overlap PROVE Spec => []OneInstance
<1>1. LockInv => OneInstance BY DEF LockInv, RunningOwnsLock, OneInstance
<1>2. QED BY <1>1, LockInvHolds, PTL

(* Under the same assumption a running daemon keeps its pid file.          *)
THEOREM LockIsKept == ASSUME ~Overlap PROVE Spec => []RunningOwnsLock
<1>1. LockInv => RunningOwnsLock BY DEF LockInv
<1>2. QED BY <1>1, LockInvHolds, PTL

-----------------------------------------------------------------------------

(* Whatever processes log, they start, hold the pid file and end as in      *)
(* InstanceLock.                                                            *)
LEMMA LogStep == ASSUME [LogNext]_allvars PROVE [Next]_vars
<1> USE DEF vars, lockvars, allvars
<1>1. ASSUME NEW p \in Pids, Process(p) PROVE [Next]_vars
  BY <1>1 DEF Process, Next, Step
<1>2. ASSUME NEW p \in Pids, RunScript(p) PROVE [Next]_vars
  BY <1>2 DEF RunScript
<1>3. ASSUME NEW p \in Pids, NEW g \in Goroutines, WriteStep(p, g)
      PROVE [Next]_vars
  <2>1. CASE Open(p, g) BY <2>1 DEF Open, Next, Step
  <2>2. CASE AppendLine(p, g) BY <2>2 DEF AppendLine
  <2>3. CASE Scan(p, g) BY <2>3 DEF Scan
  <2>4. CASE OpenTmp(p, g) BY <2>4 DEF OpenTmp
  <2>5. CASE CopyTail(p, g) BY <2>5 DEF CopyTail
  <2>6. CASE CopyFails(p, g) BY <2>6 DEF CopyFails
  <2>7. CASE Rename(p, g) BY <2>7 DEF Rename
  <2>8. QED
    BY <1>3, <2>1, <2>2, <2>3, <2>4, <2>5, <2>6, <2>7 DEF WriteStep
<1>4. CASE ScriptPrints BY <1>4 DEF ScriptPrints
<1>5. CASE ScriptEnds BY <1>5 DEF ScriptEnds
<1>6. CASE UNCHANGED allvars BY <1>6
<1>7. QED BY <1>1, <1>2, <1>3, <1>4, <1>5, <1>6 DEF LogNext

(* logger.write and the daemons that log implement InstanceLock: each step  *)
(* of a log's writer that is not one of the lock leaves the lock alone.     *)
THEOREM LogImplementsLock == LogSpec => Spec
<1>1. LogInit => Init BY DEF LogInit
<1>2. QED BY <1>1, LogStep, PTL DEF LogSpec, Spec

(* acquireLock and releaseLock, with the logging that goes on between: if   *)
(* daemons start one at a time, a running one keeps its pid file, whichever *)
(* refused daemon logs and returns meanwhile.                               *)
THEOREM LoggersKeepLock == ASSUME ~Overlap PROVE LogSpec => []RunningOwnsLock
BY LogImplementsLock, LockIsKept, PTL

-----------------------------------------------------------------------------
(***************************************************************************)
(* What rotation keeps.  A file that holds the log's lines (Record) has    *)
(* all but the oldest ones of the daemon, in the order they were written:  *)
(* so of two lines the later one is at least as many numbers as positions  *)
(* ahead, and dropping all but the last KeepLines drops old lines only.    *)
(***************************************************************************)
Record(s, w, f) ==
  /\ \A i \in 1..Len(s) : s[i] <= w
  /\ \A i, j \in 1..Len(s) : i < j => s[j] - s[i] >= j - i
  /\ \A n \in 1..w \ f : (\E i \in 1..Len(s) : s[i] = n) \/ w - n >= KeepLines

LEMMA RecordGrows ==
  ASSUME NEW s \in Seq(Nat), NEW w \in Nat, NEW f, NEW g, f \subseteq g, Record(s, w, f)
  PROVE  Record(Append(s, w + 1), w + 1, g)
<1> DEFINE t == Append(s, w + 1)
<1>1. /\ Len(s) \in Nat /\ Len(t) = Len(s) + 1 /\ t[Len(t)] = w + 1
      /\ \A i \in 1..Len(s) : t[i] = s[i] /\ i \in 1..Len(t) /\ s[i] \in Nat
      /\ \A i \in 1..Len(t) : i = Len(t) \/ i \in 1..Len(s)
  OBVIOUS
<1> HIDE DEF t
<1>2. ASSUME NEW i \in 1..Len(t) PROVE t[i] <= w + 1
  <2>1. CASE i = Len(t) BY <1>1, <2>1
  <2>2. CASE i \in 1..Len(s)
    <3>1. t[i] = s[i] BY <1>1, <2>2
    <3>2. s[i] <= w BY <2>2 DEF Record
    <3>3. s[i] \in Nat BY <1>1, <2>2
    <3>4. QED BY <3>1, <3>2, <3>3
  <2>3. QED BY <1>1, <2>1, <2>2
<1>3. ASSUME NEW i \in 1..Len(t), NEW j \in 1..Len(t), i < j
      PROVE  t[j] - t[i] >= j - i
  <2>1. i \in 1..Len(s) /\ t[i] = s[i] /\ s[i] \in Nat BY <1>1, <1>3
  <2>2. CASE j \in 1..Len(s) BY <1>1, <1>3, <2>1, <2>2 DEF Record
  <2>3. CASE j = Len(t)
    <3>1. Len(s) \in 1..Len(s) BY <1>1, <2>1
    <3>2. s[Len(s)] \in Nat /\ s[Len(s)] <= w BY <1>1, <3>1 DEF Record
    <3>3. i = Len(s) \/ s[Len(s)] - s[i] >= Len(s) - i
      BY <1>1, <2>1, <3>1 DEF Record
    <3>4. t[j] = w + 1 /\ j = Len(s) + 1 BY <1>1, <2>3
    <3>5. i \in Nat BY <1>1, <2>1
    <3>6. PICK l \in Nat, x \in Nat, y \in Nat :
            l = Len(s) /\ x = s[i] /\ y = s[Len(s)]
      BY <1>1, <2>1, <3>2
    <3>7. (i = l /\ x = y) \/ y - x >= l - i BY ONLY <3>3, <3>6
    <3>8. t[i] = x /\ t[j] = w + 1 /\ j = l + 1 /\ y <= w
      BY ONLY <2>1, <3>2, <3>4, <3>6
    <3>9. w + 1 - x >= (l + 1) - i BY <3>5, <3>7, <3>8
    <3>10. QED BY ONLY <3>8, <3>9
  <2>4. QED BY <1>1, <2>2, <2>3
<1>4. ASSUME NEW n \in 1..(w + 1) \ g
      PROVE  (\E i \in 1..Len(t) : t[i] = n) \/ w + 1 - n >= KeepLines
  <2>1. CASE n = w + 1 BY <1>1, <2>1
  <2>2. CASE n # w + 1
    <3>1. n \in 1..w \ f BY <2>2
    <3>2. (\E i \in 1..Len(s) : s[i] = n) \/ w - n >= KeepLines BY <3>1 DEF Record
    <3>3. QED BY <1>1, <3>2, LogAssumption
  <2>3. QED BY <2>1, <2>2
<1>5. Record(t, w + 1, g) BY ONLY <1>2, <1>3, <1>4 DEF Record
<1>6. QED BY <1>5 DEF t

(* A line of install.sh that goes elsewhere makes the others older. *)
LEMMA RecordAges ==
  ASSUME NEW s \in Seq(Nat), NEW w \in Nat, NEW f, Record(s, w, f)
  PROVE  Record(s, w + 1, f \cup {w + 1})
<1>1. \A i \in 1..Len(s) : s[i] <= w + 1 BY DEF Record
<1>2. ASSUME NEW n \in 1..(w + 1) \ (f \cup {w + 1})
      PROVE  (\E i \in 1..Len(s) : s[i] = n) \/ w + 1 - n >= KeepLines
  <2>1. n \in 1..w \ f OBVIOUS
  <2>2. QED BY <2>1, LogAssumption DEF Record
<1>3. QED BY <1>1, <1>2 DEF Record

(* Scan: what it remembers of a log that is too long. *)
LEMMA LastLinesAreNewest ==
  ASSUME NEW s \in Seq(Nat), NEW w \in Nat, NEW f, Record(s, w, f), Len(s) > MaxLines
  PROVE  Record(LastLines(s), w, f)
<1> DEFINE t == LastLines(s)
           cut == Len(s) - KeepLines
<1>1. /\ KeepLines \in Nat /\ KeepLines > 0 /\ Len(s) \in Nat
      /\ cut \in Nat /\ cut > 0
  BY LogAssumption
<1>2. Len(t) = KeepLines /\ \A i \in 1..KeepLines : t[i] = s[cut + i]
  <2>1. t = SubSeq(s, cut + 1, Len(s)) BY <1>1 DEF LastLines
  <2>2. Len(s) - (cut + 1) + 1 = KeepLines BY <1>1
  <2>3. Len(t) = KeepLines BY <1>1, <2>1, <2>2
  <2>4. ASSUME NEW i \in 1..KeepLines PROVE t[i] = s[cut + i]
    <3>1. (cut + 1) + i - 1 = cut + i BY <1>1
    <3>2. i \in 1..(Len(s) - (cut + 1) + 1) BY <1>1
    <3>3. QED BY <1>1, <2>1, <3>1, <3>2
  <2>5. QED BY <2>3, <2>4
<1>3. \A i \in 1..KeepLines : cut + i \in 1..Len(s) /\ s[cut + i] \in Nat BY <1>1
<1> HIDE DEF t
<1>4. \A i \in 1..Len(t) : t[i] <= w BY <1>2, <1>3 DEF Record
<1>5. ASSUME NEW i \in 1..Len(t), NEW j \in 1..Len(t), i < j
      PROVE  t[j] - t[i] >= j - i
  <2>1. cut + i < cut + j BY <1>1, <1>2, <1>5
  <2>2. s[cut + j] - s[cut + i] >= (cut + j) - (cut + i)
    BY <1>2, <1>3, <2>1 DEF Record
  <2>3. t[i] = s[cut + i] /\ t[j] = s[cut + j] BY <1>2
  <2>4. i \in Nat /\ j \in Nat /\ (cut + j) - (cut + i) = j - i BY <1>1
  <2>5. QED BY ONLY <2>2, <2>3, <2>4
<1>6. ASSUME NEW n \in 1..w \ f
      PROVE  (\E i \in 1..Len(t) : t[i] = n) \/ w - n >= KeepLines
  <2>1. CASE w - n >= KeepLines BY <2>1
  <2>2. ASSUME NEW i \in 1..Len(s), s[i] = n, i > cut PROVE \E j \in 1..Len(t) : t[j] = n
    <3>1. i - cut \in 1..KeepLines /\ cut + (i - cut) = i BY <1>1, <2>2
    <3>2. QED BY <1>2, <2>2, <3>1
  <2>3. ASSUME NEW i \in 1..Len(s), s[i] = n, i <= cut PROVE w - n >= KeepLines
    <3>1. Len(s) \in 1..Len(s) /\ i < Len(s) BY <1>1, <2>3
    <3>2. s[Len(s)] - s[i] >= Len(s) - i /\ s[Len(s)] <= w BY <3>1 DEF Record
    <3>3. s[Len(s)] \in Nat BY <3>1
    <3>4. i \in Nat /\ n \in Nat /\ Len(s) - i >= KeepLines BY <1>1, <2>3
    <3>5. PICK y \in Nat : y = s[Len(s)] BY <3>3
    <3>6. y - n >= Len(s) - i /\ y <= w BY ONLY <2>3, <3>2, <3>5
    <3>7. y - n >= KeepLines BY <1>1, <3>4, <3>6
    <3>8. QED BY <1>1, <3>4, <3>6, <3>7
  <2>4. (\E i \in 1..Len(s) : s[i] = n) \/ w - n >= KeepLines BY DEF Record
  <2>5. \A i \in 1..Len(s) : i > cut \/ i <= cut BY <1>1
  <2>6. QED BY ONLY <2>1, <2>2, <2>3, <2>4, <2>5
<1>7. QED BY <1>4, <1>5, <1>6 DEF Record, t

-----------------------------------------------------------------------------
(***************************************************************************)
(* The inductive invariant of a router where one daemon lives at a time.   *)
(* Only a daemon writes, with one goroutine at a time (OneWriter).  The    *)
(* log, the temporary file and the file of install.sh, if it is no longer  *)
(* the log, are different inodes (Apart), so what a writer remembers, then *)
(* copies, is complete until its rename (Rotating), though lines of        *)
(* install.sh come to the log meanwhile and are lost with it.              *)
(***************************************************************************)
FilesOK == LogTypeOK /\ (out # None => out # tmp) /\ log # tmp

OneWriter ==
  /\ \A p, q \in Daemons : p = q
  /\ \A p \in Pids, g \in Goroutines : step[p][g] # "idle" => p \in Daemons
  /\ \A p \in Pids, g, h \in Goroutines :
       step[p][g] # "idle" /\ step[p][h] # "idle" => g = h

Complete(s) == Record(s, written, foreign)

Rotating(p, g) ==
  /\ step[p][g] = "opened" => fd[p][g] = log
  /\ step[p][g] \in {"rotating", "truncated"} => Complete(tail[p][g])
  /\ step[p][g] = "truncated" =>
       tmp # None /\ fd[p][g] = tmp /\ content[tmp] = <<>>
  /\ step[p][g] = "copied" => tmp # None /\ Complete(content[tmp])

LogInv ==
  /\ FilesOK
  /\ ~scenario.rivals =>
       /\ OneWriter /\ Complete(content[log])
       /\ \A p \in Pids, g \in Goroutines : Rotating(p, g)

LEMMA LockTypeStep == ASSUME TypeOK, [Next]_vars PROVE TypeOK'
<1> USE DEF TypeOK, Starting, Go, Forget
<1>1. ASSUME NEW p \in Pids, Step(p) PROVE TypeOK'
  BY <1>1
  DEF Step, Spawn, SpawnOther, Read, Refuse, Return, Accept, Truncate, Write, Leave, End
<1>2. CASE UNCHANGED vars BY <1>2 DEF vars
<1>3. QED BY <1>1, <1>2 DEF Next

(* A part of a file is lines, and so are two parts one after the other. *)
LEMMA LinesAreLines ==
  ASSUME NEW s \in Seq(Lines)
  PROVE  /\ s \in Seq(Nat) /\ \A n \in Lines : Append(s, n) \in Seq(Lines)
         /\ Len(s) > MaxLines => LastLines(s) \in Seq(Lines)
         /\ \A t \in Seq(Lines) : t \o SubSeq(s, KeepLines + 1, Len(s)) \in Seq(Lines)
<1>1. KeepLines \in Nat /\ MaxLines \in Nat /\ KeepLines < MaxLines /\ Len(s) \in Nat
  BY LogAssumption
<1>2. \A i \in 1..Len(s) : s[i] \in Lines OBVIOUS
<1>3. ASSUME NEW m \in Nat \ {0} PROVE SubSeq(s, m, Len(s)) \in Seq(Lines)
  BY <1>1, <1>2
<1>4. s \in Seq(Nat) BY <1>2 DEF Lines
<1>5. Len(s) > MaxLines => LastLines(s) \in Seq(Lines)
  BY <1>1, <1>3 DEF LastLines
<1>6. SubSeq(s, KeepLines + 1, Len(s)) \in Seq(Lines) BY <1>1, <1>3
<1>7. QED BY <1>4, <1>5, <1>6

LEMMA InitLogInv == LogInit => LogInv
<1> SUFFICES ASSUME LogInit PROVE LogInv OBVIOUS
<1> USE DEF LogInit, Init
<1>1. <<>> \in Seq(Lines) /\ <<>> \in Seq(Nat) /\ Len(<<>>) = 0 OBVIOUS
<1>2. FilesOK
  BY <1>1, LogAssumption
  DEF FilesOK, LogTypeOK, TypeOK, Idle, Closed, Nothing
<1>3. OneWriter BY DEF OneWriter, Idle, Daemons
<1>4. Complete(content[log]) BY <1>1 DEF Complete, Record
<1>5. \A p \in Pids, g \in Goroutines : Rotating(p, g) BY DEF Rotating, Idle
<1>6. QED BY <1>2, <1>3, <1>4, <1>5 DEF LogInv

LEMMA FilesStep == ASSUME FilesOK, [LogNext]_allvars PROVE FilesOK'
<1> USE DEF FilesOK, LogTypeOK, files, writer, script, logvars
<1>1. TypeOK' BY LogStep, LockTypeStep
<1>2. ASSUME NEW p \in Pids, Process(p) PROVE FilesOK'
  <2>1. Idle \in [Goroutines -> {"idle"}] /\ Closed \in [Goroutines -> {None}]
        /\ Nothing \in [Goroutines -> Seq(Lines)]
    BY DEF Idle, Closed, Nothing
  <2>2. CASE UNCHANGED logvars BY <1>1, <2>2
  <2>3. CASE /\ step' = [step EXCEPT ![p] = Idle]
             /\ fd' = [fd EXCEPT ![p] = Closed] /\ tail' = [tail EXCEPT ![p] = Nothing]
             /\ UNCHANGED <<files, script, scenario>>
    BY <1>1, <2>1, <2>3
  <2>4. QED BY <1>2, <2>2, <2>3 DEF Process
<1>3. ASSUME NEW p \in Pids, RunScript(p) PROVE FilesOK'
  BY <1>1, <1>3 DEF RunScript
<1>4. ASSUME NEW p \in Pids, NEW g \in Goroutines, Open(p, g) PROVE FilesOK'
  BY <1>1, <1>4 DEF Open, At, Holds
<1>5. ASSUME NEW i, Put(i) PROVE written' \in 0..MaxWritten /\ written < written'
                                 /\ written' \in Lines
                                 /\ content' \in [Inodes -> Seq(Lines)]
  <2>1. written' = written + 1 /\ written' \in Lines /\ written' \in 0..MaxWritten
    BY <1>5, LogAssumption DEF Put, Lines
  <2>2. \A j \in Inodes : Append(content[j], written') \in Seq(Lines)
    BY <2>1, LinesAreLines
  <2>3. content' \in [Inodes -> Seq(Lines)] BY <1>5, <2>2 DEF Put
  <2>4. written < written' BY <2>1
  <2>5. QED BY <2>1, <2>3, <2>4
<1>6. ASSUME NEW p \in Pids, NEW g \in Goroutines, AppendLine(p, g) PROVE FilesOK'
  BY <1>1, <1>5, <1>6 DEF AppendLine, At, Holds
<1>7. ASSUME NEW p \in Pids, NEW g \in Goroutines, Scan(p, g) PROVE FilesOK'
  <2>1. UNCHANGED <<lockvars, files, fd, script, scenario>> BY <1>7 DEF Scan
  <2>2. CASE Len(content[log]) <= MaxLines
    <3>1. At(p, g, "appended", "idle") /\ tail' = tail BY <1>7, <2>2 DEF Scan
    <3>2. QED BY <1>1, <2>1, <3>1 DEF At
  <2>3. CASE ~(Len(content[log]) <= MaxLines)
    <3>1. At(p, g, "appended", "rotating") /\ Keeps(p, g, LastLines(content[log]))
      BY <1>7, <2>3 DEF Scan
    <3>2. content[log] \in Seq(Lines) /\ Len(content[log]) > MaxLines
      BY <2>3, LogAssumption
    <3>3. LastLines(content[log]) \in Seq(Lines) BY <3>2, LinesAreLines
    <3>4. QED BY <1>1, <2>1, <3>1, <3>3 DEF At, Keeps
  <2>4. QED BY <2>2, <2>3
<1>8. ASSUME NEW p \in Pids, NEW g \in Goroutines, OpenTmp(p, g) PROVE FilesOK'
  <2>1. tmp' \in Inodes /\ tmp' # log /\ tmp' # out
    BY <1>8 DEF OpenTmp, Used
  <2>2. QED BY <1>1, <1>8, <2>1 DEF OpenTmp, At, Holds
<1>9. ASSUME NEW p \in Pids, NEW g \in Goroutines, CopyTail(p, g) PROVE FilesOK'
  <2>1. \A i \in Inodes :
          tail[p][g] \o SubSeq(content[i], KeepLines + 1, Len(content[i])) \in Seq(Lines)
    BY LinesAreLines
  <2>2. content' \in [Inodes -> Seq(Lines)] BY <1>9, <2>1 DEF CopyTail
  <2>3. fd' \in [Pids -> [Goroutines -> Inodes \cup {None}]] BY <1>9 DEF CopyTail, Holds
  <2>4. tail' \in [Pids -> [Goroutines -> Seq(Lines)]] BY <1>9 DEF CopyTail, Keeps
  <2>5. QED BY <1>1, <1>9, <2>2, <2>3, <2>4 DEF CopyTail, At
<1>10. ASSUME NEW p \in Pids, NEW g \in Goroutines, CopyFails(p, g) PROVE FilesOK'
  BY <1>1, <1>10 DEF CopyFails, At, Holds, Keeps
<1>11. ASSUME NEW p \in Pids, NEW g \in Goroutines, Rename(p, g) PROVE FilesOK'
  BY <1>1, <1>11, LogAssumption DEF Rename, At
<1>12. CASE ScriptPrints
  <2>1. written' \in 1..written' /\ \A n \in 1..written : n \in 1..written'
    BY <1>5, <1>12 DEF ScriptPrints, Lines
  <2>2. foreign' \subseteq 1..written' BY <1>12, <2>1 DEF ScriptPrints
  <2>3. QED BY <1>1, <1>5, <1>12, <2>2 DEF ScriptPrints
<1>13. CASE ScriptEnds BY <1>1, <1>13 DEF ScriptEnds
<1>14. CASE UNCHANGED allvars BY <1>1, <1>14 DEF allvars
<1>15. QED
  BY <1>2, <1>3, <1>4, <1>6, <1>7, <1>8, <1>9, <1>10, <1>11, <1>12, <1>13, <1>14
  DEF LogNext, WriteStep

(* A daemon is started when there is none, and only a daemon whose mutex is  *)
(* free begins a write.                                                      *)
LEMMA WriterStep ==
  ASSUME FilesOK, ~scenario.rivals, OneWriter, [LogNext]_allvars
  PROVE  OneWriter'
<1> USE DEF FilesOK, LogTypeOK, TypeOK, OneWriter, Daemons, files, writer, script,
            logvars, lockvars
<1>1. ASSUME NEW p \in Pids, Process(p) PROVE OneWriter'
  <2>1. CASE Spawn(p) /\ Daemons = {} /\ UNCHANGED logvars
    BY <2>1 DEF Spawn, Go
  <2>2. CASE UNCHANGED logvars /\ (SpawnOther(p) \/ Read(p) \/ Refuse(p) \/ Accept(p)
                                   \/ Truncate(p) \/ Write(p) \/ Leave(p))
    <3>1. CASE SpawnOther(p) BY <2>2, <3>1 DEF SpawnOther, Go
    <3>2. ASSUME NEW from \in {"reading", "checking", "truncating", "writing", "running"},
                 NEW to, Go(p, from, to), to \notin {"free", "other"}
          PROVE  Daemons' = Daemons
      BY <3>2 DEF Go
    <3>3. Read(p) \/ Refuse(p) \/ Accept(p) \/ Truncate(p) \/ Write(p) \/ Leave(p)
            => Daemons' = Daemons
      BY <3>2 DEF Read, Refuse, Accept, Truncate, Write, Leave
    <3>4. Daemons' = Daemons => OneWriter' BY <2>2
    <3>5. QED BY <2>2, <3>1, <3>3, <3>4
  <2>3. CASE End(p) /\ step' = [step EXCEPT ![p] = Idle]
    BY <2>3 DEF End, Idle
  <2>4. QED BY <1>1, <2>1, <2>2, <2>3 DEF Process
<1>2. ASSUME NEW p \in Pids, RunScript(p) PROVE OneWriter'
  BY <1>2 DEF RunScript
<1>3. ASSUME NEW p \in Pids, NEW g \in Goroutines, Open(p, g) PROVE OneWriter'
  <2>1. p \in Daemons /\ Daemons' = Daemons BY <1>3 DEF Open, Return, Go
  <2>2. step' = [step EXCEPT ![p][g] = "opened"] /\ \A h \in Goroutines : step[p][h] = "idle"
    BY <1>3 DEF Open, At, Unlocked
  <2>3. QED BY <2>1, <2>2
<1>4. ASSUME NEW p \in Pids, NEW g \in Goroutines, step[p][g] # "idle", UNCHANGED lockvars,
             NEW to, step' = [step EXCEPT ![p][g] = to]
      PROVE  OneWriter'
  BY <1>4
<1>5. ASSUME NEW p \in Pids, NEW g \in Goroutines, WriteStep(p, g) PROVE OneWriter'
  <2>1. CASE AppendLine(p, g) BY <1>4, <2>1 DEF AppendLine, At
  <2>2. CASE Scan(p, g)
    <3>1. /\ step[p][g] # "idle" /\ UNCHANGED lockvars
          /\ \E to : step' = [step EXCEPT ![p][g] = to]
      BY <2>2 DEF Scan, At
    <3>2. QED BY <1>4, <3>1
  <2>3. CASE OpenTmp(p, g) BY <1>4, <2>3 DEF OpenTmp, At
  <2>4. CASE CopyTail(p, g) BY <1>4, <2>4 DEF CopyTail, At
  <2>5. CASE CopyFails(p, g) BY <1>4, <2>5 DEF CopyFails, At
  <2>6. CASE Rename(p, g) BY <1>4, <2>6 DEF Rename, At
  <2>7. QED BY <1>3, <1>5, <2>1, <2>2, <2>3, <2>4, <2>5, <2>6 DEF WriteStep
<1>6. CASE ScriptPrints \/ ScriptEnds \/ UNCHANGED allvars
  BY <1>6 DEF ScriptPrints, ScriptEnds, allvars
<1>7. QED BY <1>1, <1>2, <1>5, <1>6 DEF LogNext

LEMMA CompleteStep ==
  ASSUME LogInv, ~scenario.rivals, FilesOK', [LogNext]_allvars
  PROVE  Complete(content[log])' /\ \A p \in Pids, g \in Goroutines : Rotating(p, g)'
<1> DEFINE Goal == /\ Complete(content[log])'
                   /\ \A p \in Pids, g \in Goroutines : Rotating(p, g)'
<1> USE DEF LogInv, FilesOK, LogTypeOK, Complete, Rotating, files, writer, script, logvars
<1>1. ASSUME UNCHANGED logvars PROVE Goal BY <1>1
<1>2. ASSUME NEW p \in Pids, Process(p) PROVE Goal
  <2>1. CASE /\ step' = [step EXCEPT ![p] = Idle] /\ fd' = [fd EXCEPT ![p] = Closed]
             /\ tail' = [tail EXCEPT ![p] = Nothing]
             /\ UNCHANGED <<files, script, scenario>>
    <3>1. \A g \in Goroutines : step'[p][g] = "idle" BY <2>1 DEF Idle
    <3>2. ASSUME NEW q \in Pids, q # p
          PROVE  step'[q] = step[q] /\ fd'[q] = fd[q] /\ tail'[q] = tail[q]
      BY <2>1, <3>2
    <3>3. QED BY <2>1, <3>1, <3>2
  <2>2. QED BY <1>1, <1>2, <2>1 DEF Process
<1>3. ASSUME NEW p \in Pids, RunScript(p) PROVE Goal BY <1>3 DEF RunScript
<1>4. ASSUME NEW p \in Pids, NEW g \in Goroutines, WriteStep(p, g) PROVE Goal
  <2>1. ASSUME NEW q \in Pids, NEW h \in Goroutines, <<q, h>> # <<p, g>>
        PROVE  step'[q][h] = "idle"
    <3>1. p \in Daemons /\ \A k \in Goroutines : k # g => step[p][k] = "idle"
      <4>1. CASE Open(p, g)
        BY <4>1 DEF Open, Unlocked, Return, Go, Daemons, TypeOK
      <4>2. CASE step[p][g] # "idle" BY <4>2 DEF OneWriter
      <4>3. QED
        BY <1>4, <4>1, <4>2
        DEF WriteStep, AppendLine, Scan, OpenTmp, CopyTail, CopyFails, Rename, At
    <3>2. step[q][h] = "idle" BY <2>1, <3>1 DEF OneWriter
    <3>3. \E to : step' = [step EXCEPT ![p][g] = to]
      BY <1>4
      DEF WriteStep, Open, AppendLine, Scan, OpenTmp, CopyTail, CopyFails, Rename, At
    <3>4. QED BY <2>1, <3>2, <3>3
  <2>2. SUFFICES Complete(content[log])' /\ Rotating(p, g)'
    <3>1. ASSUME NEW q \in Pids, NEW h \in Goroutines, <<q, h>> # <<p, g>>
          PROVE  Rotating(q, h)'
      BY <2>1, <3>1
    <3>2. QED BY <3>1
  <2>3. CASE Open(p, g) BY <2>3 DEF Open, At, Holds
  <2>4. CASE AppendLine(p, g)
    <3>1. fd[p][g] = log /\ step'[p][g] = "appended" /\ UNCHANGED <<log, foreign>>
      BY <2>4 DEF AppendLine, At
    <3>2. CASE Put(log)
      <4>1. written' = written + 1 /\ content'[log] = Append(content[log], written + 1)
        BY <3>2 DEF Put
      <4>2. content[log] \in Seq(Nat) /\ written \in Nat BY LinesAreLines
      <4>3. Record(content'[log], written', foreign')
        BY <3>1, <4>1, <4>2, RecordGrows
      <4>4. QED BY <3>1, <4>3
    <3>3. CASE UNCHANGED <<content, written>> BY <3>1, <3>3
    <3>4. QED BY <2>4, <3>1, <3>2, <3>3 DEF AppendLine
  <2>5. CASE Scan(p, g)
    <3>1. UNCHANGED <<files, fd, script, scenario>> BY <2>5 DEF Scan
    <3>2. CASE Len(content[log]) <= MaxLines
      <4>1. step'[p][g] = "idle" BY <2>5, <3>2 DEF Scan, At
      <4>2. QED BY <3>1, <4>1
    <3>3. CASE ~(Len(content[log]) <= MaxLines)
      <4>1. step'[p][g] = "rotating" /\ tail'[p][g] = LastLines(content[log])
        BY <2>5, <3>3 DEF Scan, At, Keeps
      <4>2. content[log] \in Seq(Nat) /\ Len(content[log]) > MaxLines
        BY <3>3, LinesAreLines, LogAssumption
      <4>3. Record(LastLines(content[log]), written, foreign)
        BY <4>2, LastLinesAreNewest
      <4>4. QED BY <3>1, <4>1, <4>3
    <3>4. QED BY <3>2, <3>3
  <2>6. CASE OpenTmp(p, g)
    <3>1. /\ step[p][g] = "rotating" /\ step'[p][g] = "truncated" /\ tmp' \in Inodes
          /\ fd'[p][g] = tmp' /\ content' = [content EXCEPT ![tmp'] = <<>>]
          /\ UNCHANGED <<log, tail, written, foreign>>
      BY <2>6 DEF OpenTmp, At, Holds, Used
    <3>2. tmp' # None /\ tmp' # log BY <3>1, LogAssumption
    <3>3. content'[log] = content[log] /\ content'[tmp'] = <<>> BY <3>1, <3>2
    <3>4. QED BY <3>1, <3>2, <3>3
  <2>7. CASE CopyTail(p, g)
    <3>1. /\ step[p][g] = "truncated" /\ step'[p][g] = "copied"
          /\ fd[p][g] = tmp /\ tmp \in Inodes /\ content[tmp] = <<>>
          /\ UNCHANGED <<log, tmp, written, foreign>>
      BY <2>7 DEF CopyTail, At
    <3>2. content' = [content EXCEPT ![tmp] = tail[p][g] \o SubSeq(<<>>, KeepLines + 1, 0)]
      BY <2>7, <3>1 DEF CopyTail
    <3>3. tail[p][g] \o SubSeq(<<>>, KeepLines + 1, 0) = tail[p][g]
      <4>1. KeepLines + 1 > 0 /\ KeepLines + 1 \in Nat BY LogAssumption
      <4>2. SubSeq(<<>>, KeepLines + 1, 0) = <<>> BY <4>1
      <4>3. tail[p][g] \in Seq(Lines) /\ tail[p][g] \o <<>> = tail[p][g] OBVIOUS
      <4>4. QED BY <4>2, <4>3
    <3>4. content'[tmp] = tail[p][g] /\ content'[log] = content[log]
      BY <3>1, <3>2, <3>3
    <3>5. QED BY <3>1, <3>4
  <2>8. CASE CopyFails(p, g) BY <2>8 DEF CopyFails, At
  <2>9. CASE Rename(p, g)
    <3>1. /\ step[p][g] = "copied" /\ step'[p][g] = "idle" /\ log' = tmp
          /\ UNCHANGED <<written, foreign>>
      BY <2>9 DEF Rename, At
    <3>2. content'[tmp] = content[tmp] BY <2>9 DEF Rename
    <3>3. QED BY <3>1, <3>2
  <2>10. QED BY <1>4, <2>3, <2>4, <2>5, <2>6, <2>7, <2>8, <2>9 DEF WriteStep
<1>5. CASE ScriptPrints
  <2>1. /\ out \in Inodes /\ out # tmp /\ written' = written + 1
        /\ foreign' = foreign \cup {written + 1}
        /\ content' = [content EXCEPT ![out] = Append(@, written + 1)]
        /\ UNCHANGED <<log, tmp, writer>>
    BY <1>5 DEF ScriptPrints, Put
  <2>2. ASSUME NEW s \in Seq(Lines), Record(s, written, foreign)
        PROVE  /\ Record(s, written', foreign')
               /\ Record(Append(s, written + 1), written', foreign')
    <3>1. s \in Seq(Nat) /\ written \in Nat BY LinesAreLines
    <3>2. QED BY <2>1, <2>2, <3>1, RecordAges, RecordGrows
  <2>3. Record(content'[log], written', foreign') BY <2>1, <2>2
  <2>4. ASSUME NEW p \in Pids, NEW g \in Goroutines PROVE Rotating(p, g)'
    <3>1. tail[p][g] \in Seq(Lines) BY DEF LogInv
    <3>2. tmp # None => content'[tmp] = content[tmp] /\ content[tmp] \in Seq(Lines)
      BY <2>1
    <3>3. QED BY <2>1, <2>2, <3>1, <3>2
  <2>5. QED BY <2>1, <2>3, <2>4
<1>6. CASE ScriptEnds
  <2>1. content'[log] = content[log] /\ (tmp # None => content'[tmp] = content[tmp])
    BY <1>6 DEF ScriptEnds
  <2>2. QED BY <1>6, <2>1 DEF ScriptEnds
<1>7. QED BY <1>1, <1>2, <1>3, <1>4, <1>5, <1>6 DEF LogNext, allvars

LEMMA LogInvHolds == LogSpec => []LogInv
<1>1. LogInv /\ [LogNext]_allvars => LogInv'
  <2>1. SUFFICES ASSUME LogInv, [LogNext]_allvars PROVE LogInv' OBVIOUS
  <2>2. FilesOK' BY <2>1, FilesStep DEF LogInv
  <2>3. scenario' = scenario
    <3>1. ASSUME NEW p \in Pids, NEW g \in Goroutines, WriteStep(p, g)
          PROVE  scenario' = scenario
      BY <3>1 DEF WriteStep, Open, AppendLine, Scan, OpenTmp, CopyTail, CopyFails, Rename
    <3>2. ASSUME NEW p \in Pids, Process(p) \/ RunScript(p) PROVE scenario' = scenario
      BY <3>2 DEF Process, RunScript, logvars
    <3>3. CASE ScriptPrints \/ ScriptEnds BY <3>3 DEF ScriptPrints, ScriptEnds
    <3>4. CASE UNCHANGED allvars BY <3>4 DEF allvars, logvars
    <3>5. QED BY <2>1, <3>1, <3>2, <3>3, <3>4 DEF LogNext
  <2>4. QED BY <2>1, <2>2, <2>3, WriterStep, CompleteStep DEF LogInv
<1>2. QED BY InitLogInv, <1>1, PTL DEF LogSpec

(* Any number of daemons: descriptors, inodes and what logger.go's steps     *)
(* remember have the types they are declared with.                           *)
THEOREM LogTypeCorrect == LogSpec => []LogTypeOK
<1>1. LogInv => LogTypeOK BY DEF LogInv, FilesOK
<1>2. QED BY <1>1, LogInvHolds, PTL

(* One daemon at a time, any number of goroutines: rotation (write, readTail *)
(* and the rename of logger.go) takes the oldest lines only.  No line of the *)
(* daemon leaves the log before KeepLines newer ones were written, wherever  *)
(* the daemon is killed, whatever install.sh writes to whichever file and    *)
(* whenever the file system is full.                                         *)
THEOREM RotationKeepsNewest == LogSpec => []NewestAreKept
<1>1. LogInv => NewestAreKept
  <2>1. SUFFICES ASSUME LogInv, ~scenario.rivals, NEW n \in 1..written \ foreign
                 PROVE  n \in Range(content[log]) \/ written - n >= KeepLines
    BY DEF NewestAreKept
  <2>2. (\E i \in 1..Len(content[log]) : content[log][i] = n) \/ written - n >= KeepLines
    BY <2>1 DEF LogInv, Complete, Record
  <2>3. content[log] \in Seq(Lines) BY <2>1 DEF LogInv, FilesOK, LogTypeOK
  <2>4. QED BY <2>2, <2>3 DEF Range
<1>2. QED BY <1>1, LogInvHolds, PTL
=============================================================================
