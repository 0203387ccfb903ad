---------------------------- MODULE LogRotation ----------------------------
(***************************************************************************)
(* The log file (internal/logger).  A write appends a line, counts the     *)
(* lines, and when there are too many puts the last ones into a temporary  *)
(* file that it renames over the log.  One process serialises its writes   *)
(* with a mutex, but the file has other writers: install.sh appends        *)
(* through a descriptor the daemon opened for it, and a daemon that        *)
(* InstanceLock refuses logs the refusal through a logger of its own.  Any *)
(* process may be killed between two steps.  Files are inodes with names.  *)
(***************************************************************************)
EXTENDS InstanceLock, SequencesExt

CONSTANTS Goroutines, \* of a daemon, those that log
          Inodes,     \* as many as can be open or have a name
          None,       \* no inode
          MaxLines, KeepLines, \* logMaxLines, logKeepLines
          MaxWritten, \* bound: lines written in all
          Scenarios   \* what a behaviour exercises

(* A scenario: the processes there may be, whether daemons log at all,      *)
(* whether one is started while another lives, and whether the file system  *)
(* may be full.                                                             *)
Scenario == [pids : SUBSET Pids, logs : BOOLEAN, rivals : BOOLEAN, full : BOOLEAN]

ASSUME LogAssumption ==
  /\ MaxLines \in Nat \ {0} /\ KeepLines \in 1..(MaxLines - 1) /\ MaxWritten \in Nat
  /\ None \notin Inodes /\ Scenarios \subseteq Scenario

VARIABLES
  content,  \* per inode: the lines, which are numbered as they are written
  log, tmp, \* the inodes that have the two names
  step,     \* per process and goroutine: how far its write got
  fd,       \* per process and goroutine: the file it has open
  tail,     \* per process and goroutine: what it is going to keep
  out,      \* the file install.sh writes to
  written,  \* lines written so far
  foreign,  \* history: those written by install.sh
  scenario  \* environment: one of Scenarios

files == <<content, log, tmp>>
writer == <<step, fd, tail>>
script == <<out, written, foreign>>
lockvars == <<lock, pc, seen>>
logvars == <<files, writer, script, scenario>>
allvars == <<lockvars, logvars>>

Lines == 1..MaxWritten

LogTypeOK ==
  /\ TypeOK
  /\ content \in [Inodes -> Seq(Lines)]
  /\ log \in Inodes /\ tmp \in Inodes \cup {None} /\ out \in Inodes \cup {None}
  /\ step \in [Pids -> [Goroutines -> {"idle", "opened", "appended", "rotating",
                                       "truncated", "copied"}]]
  /\ fd \in [Pids -> [Goroutines -> Inodes \cup {None}]]
  /\ tail \in [Pids -> [Goroutines -> Seq(Lines)]]
  /\ written \in 0..MaxWritten /\ foreign \subseteq 1..written
  /\ scenario \in Scenarios

Idle == [g \in Goroutines |-> "idle"]
Closed == [g \in Goroutines |-> None]
Nothing == [g \in Goroutines |-> <<>>]

(* logger.Init creates the file when there is none. *)
LogInit ==
  /\ Init
  /\ content = [i \in Inodes |-> <<>>]
  /\ log \in Inodes /\ log = CHOOSE i \in Inodes : TRUE
  /\ tmp = None /\ out = None
  /\ step = [p \in Pids |-> Idle] /\ fd = [p \in Pids |-> Closed]
  /\ tail = [p \in Pids |-> Nothing]
  /\ written = 0 /\ foreign = {}
  /\ scenario \in Scenarios

-----------------------------------------------------------------------------

(* Inodes that are open or have a name. *)
Used == {log, tmp, out} \cup UNION {Range(fd[p]) : p \in Pids}

At(p, g, from, to) ==
  step[p][g] = from /\ step' = [step EXCEPT ![p][g] = to]
Holds(p, g, i) == fd' = [fd EXCEPT ![p][g] = i]
Keeps(p, g, lines) == tail' = [tail EXCEPT ![p][g] = lines]

(* The mutex of the process is free. *)
Unlocked_Never(p) == TRUE   \* mutant: there is no mutex
Unlocked(p) == \A g \in Goroutines : step[p][g] = "idle"

(* write: it opens the file the name stands for.  The goroutines of a       *)
(* running daemon log at any time, a refused one logs once and returns.     *)
Open(p, g) ==
  /\ scenario.logs /\ Unlocked(p) /\ written < MaxWritten
  /\ (pc[p] = "running" /\ UNCHANGED lockvars) \/ Return(p)
  /\ At(p, g, "idle", "opened") /\ Holds(p, g, log)
  /\ UNCHANGED <<files, tail, script, scenario>>

Put(i) ==
  /\ written < MaxWritten /\ written' = written + 1
  /\ content' = [content EXCEPT ![i] = Append(@, written')]

(* The line is appended, unless the file system is full. *)
AppendLine(p, g) ==
  /\ At(p, g, "opened", "appended") /\ Holds(p, g, None)
  /\ Put(fd[p][g]) \/ (scenario.full /\ UNCHANGED <<content, written>>)
  /\ UNCHANGED <<lockvars, log, tmp, tail, out, foreign, scenario>>

(* readTail: the lines are counted and the last ones remembered. *)
LastLines(lines) == SubSeq(lines, Len(lines) - KeepLines + 1, Len(lines))

Scan(p, g) ==
  /\ IF Len(content[log]) <= MaxLines
     THEN At(p, g, "appended", "idle") /\ UNCHANGED tail
     ELSE At(p, g, "appended", "rotating") /\ Keeps(p, g, LastLines(content[log]))
  /\ UNCHANGED <<lockvars, files, fd, script, scenario>>

(* os.WriteFile: the temporary file is created, or truncated when there is  *)
(* one, then written from its start.                                        *)
OpenTmp(p, g) ==
  /\ At(p, g, "rotating", "truncated")
  /\ tmp # None \/ Inodes \ Used # {}
  /\ tmp' = IF tmp # None THEN tmp ELSE CHOOSE i \in Inodes \ Used : TRUE
  /\ Holds(p, g, tmp')
  /\ content' = [content EXCEPT ![tmp'] = <<>>]
  /\ UNCHANGED <<lockvars, log, tail, script, scenario>>

CopyTail(p, g) ==
  /\ At(p, g, "truncated", "copied") /\ Holds(p, g, None) /\ Keeps(p, g, <<>>)
  /\ content' = [content EXCEPT ![fd[p][g]] =
                   tail[p][g] \o SubSeq(@, KeepLines + 1, Len(@))]
  /\ UNCHANGED <<lockvars, log, tmp, script, scenario>>

(* The file system is full: the log stays as it is. *)
CopyFails(p, g) ==
  /\ scenario.full
  /\ \E from \in {"rotating", "truncated"} : At(p, g, from, "idle")
  /\ Holds(p, g, None) /\ Keeps(p, g, <<>>)
  /\ UNCHANGED <<lockvars, files, script, scenario>>

(* Another process may have renamed the file already. *)
Rename(p, g) ==
  /\ At(p, g, "copied", "idle")
  /\ log' = IF tmp = None THEN log ELSE tmp
  /\ tmp' = None
  /\ content' = [content EXCEPT ![log] = IF log \in {log', out} THEN @ ELSE <<>>]
  /\ UNCHANGED <<lockvars, fd, tail, script, scenario>>

WriteStep(p, g) ==
  \/ Open(p, g) \/ AppendLine(p, g) \/ Scan(p, g) \/ OpenTmp(p, g)
  \/ CopyTail(p, g) \/ CopyFails(p, g) \/ Rename(p, g)

(* RunUpdate opens the log for install.sh, which keeps its descriptor until *)
(* it ends, also when the daemon ends before.                               *)
RunScript(p) ==
  /\ scenario.logs /\ pc[p] = "running" /\ out = None /\ out' = log
  /\ UNCHANGED <<lockvars, files, writer, written, foreign, scenario>>
ScriptPrints ==
  /\ out # None /\ Put(out) /\ foreign' = foreign \cup {written'}
  /\ UNCHANGED <<lockvars, log, tmp, writer, out, scenario>>
ScriptEnds ==
  /\ out # None /\ out' = None
  /\ content' = [content EXCEPT ![out] = IF out = log THEN @ ELSE <<>>]
  /\ UNCHANGED <<lockvars, log, tmp, writer, written, foreign, scenario>>

Daemons == {p \in Pids : pc[p] \notin {"free", "other"}}

(* The processes of InstanceLock; the end of one ends its writes.           *)
Process(p) ==
  /\ p \in scenario.pids
  /\ \/ /\ Spawn(p) /\ (scenario.rivals \/ Daemons = {})
        /\ UNCHANGED logvars
     \/ /\ SpawnOther(p) \/ Read(p) \/ Refuse(p) \/ Accept(p) \/ Truncate(p)
           \/ Write(p) \/ Leave(p)
        /\ UNCHANGED logvars
     \/ /\ End(p)
        /\ step' = [step EXCEPT ![p] = Idle] /\ fd' = [fd EXCEPT ![p] = Closed]
        /\ tail' = [tail EXCEPT ![p] = Nothing]
        /\ UNCHANGED <<files, script, scenario>>

LogNext ==
  \/ \E p \in Pids : Process(p) \/ RunScript(p)
  \/ \E p \in Pids, g \in Goroutines : WriteStep(p, g)
  \/ ScriptPrints \/ ScriptEnds

LogSpec == LogInit /\ [][LogNext]_allvars

-----------------------------------------------------------------------------

(* logger.go:76, 90-91: rotation takes the oldest lines only.  A line the   *)
(* daemon wrote stays in the log until KeepLines newer ones were written,   *)
(* whatever install.sh writes, wherever the daemon is killed and whether or *)
(* not there is room, as long as there is one daemon at a time.             *)
NewestAreKept ==
  ~scenario.rivals =>
    \A n \in 1..written \ foreign :
      n \in Range(content[log]) \/ written - n >= KeepLines
=============================================================================
