---------------------------- MODULE LogRotation ----------------------------
(***************************************************************************)
(* Service._log and _rotate_log: a line goes to the end of the log, and    *)
(* where it would pass the limit the log is moved aside first, one rename  *)
(* to a step.  The threads of the service take turns by a lock.  The       *)
(* process may die, or the disk fail, between any two of the steps.        *)
(*                                                                         *)
(* logs[0] is skid.log and logs[i] is skid.log.i.  A line is its number in *)
(* the order of writing, and is written whole or not at all.               *)
(***************************************************************************)
EXTENDS Integers

CONSTANTS
  Writers,    \* the threads that log
  LogKeep,    \* how many moved-aside logs are kept  (log_keep)
  LogLimit,   \* the size a log may have             (log_limit_bytes)
  LineSizes,  \* the sizes of lines
  MaxLines    \* bound: how many lines are written

ASSUME LogAssumption ==
  /\ LogKeep \in Nat \ {0}
  /\ LogLimit \in Nat
  /\ LineSizes \subseteq Nat \ {0}
  /\ MaxLines \in Nat

VARIABLES
  logs,      \* the logs that exist: the lines of each and its size
  written,   \* how many lines have been written
  doing,     \* doing[w]: the log it renames next, or Writing, or Outside
  brings     \* brings[w]: the size of the line it logs

logVars == <<logs, written, doing, brings>>

Writing == -1
Outside == -2

EmptyLog == [lines |-> {}, size |-> 0]

(* skid.log, as open("a") finds it or makes it. *)
Current == IF 0 \in DOMAIN logs THEN logs[0] ELSE EmptyLog

WithCurrent(log) == [j \in DOMAIN logs \cup {0} |-> IF j = 0 THEN log ELSE logs[j]]

LogInit ==
  /\ logs = [i \in {} |-> EmptyLog]
  /\ written = 0
  /\ doing = [w \in Writers |-> Outside]
  /\ brings \in [Writers -> LineSizes]

(* Mutant of TakesLock: the lock is held for the write alone. *)
LockedToWrite == \A v \in Writers : doing[v] # Writing

(* _log_lock: one thread rotates or writes at a time. *)
TakesLock == \A v \in Writers : doing[v] = Outside

(* _log() has the lock; _rotate_log() sees whether the line would pass the *)
(* limit, and begins with the oldest log but one if so.                    *)
LogCall(w) ==
  /\ doing[w] = Outside
  /\ TakesLock
  /\ written < MaxLines
  /\ \E size \in LineSizes :
       /\ brings' = [brings EXCEPT ![w] = size]
       /\ doing' = [doing EXCEPT ![w] =
            IF 0 \in DOMAIN logs /\ logs[0].size + size > LogLimit
              THEN LogKeep - 1 ELSE Writing]
  /\ UNCHANGED <<logs, written>>

(* Path.replace(): skid.log.i becomes skid.log.(i + 1), and what had that  *)
(* name is gone.                                                           *)
Moved(i) ==
  [j \in (DOMAIN logs \ {i}) \cup {i + 1} |->
     IF j = i + 1 THEN logs[i] ELSE logs[j]]

(* An older log moves up one, where it exists. *)
ShiftOlder(w) ==
  /\ doing[w] \in 1..(LogKeep - 1)
  /\ logs' = IF doing[w] \in DOMAIN logs THEN Moved(doing[w]) ELSE logs
  /\ doing' = [doing EXCEPT ![w] = doing[w] - 1]
  /\ UNCHANGED <<written, brings>>

(* skid.log becomes skid.log.1. *)
MoveAside(w) ==
  /\ doing[w] = 0
  /\ 0 \in DOMAIN logs
  /\ logs' = Moved(0)
  /\ doing' = [doing EXCEPT ![w] = Writing]
  /\ UNCHANGED <<written, brings>>

WriteLine(w) ==
  /\ doing[w] = Writing
  /\ written' = written + 1
  /\ logs' = WithCurrent([lines |-> Current.lines \cup {written + 1},
                          size |-> Current.size + brings[w]])
  /\ doing' = [doing EXCEPT ![w] = Outside]
  /\ UNCHANGED brings

(* The disk refuses a rename, or the line in a log that was opened for it: *)
(* the exception leaves the lock.                                          *)
LogFails(w) ==
  /\ doing[w] # Outside
  /\ doing' = [doing EXCEPT ![w] = Outside]
  /\ \/ UNCHANGED logs
     \/ doing[w] = Writing /\ logs' = WithCurrent(Current)
  /\ UNCHANGED <<written, brings>>

(* The process dies, with every thread. *)
LogDies ==
  /\ doing' = [w \in Writers |-> Outside]
  /\ UNCHANGED <<logs, written, brings>>

LogNext ==
  \/ \E w \in Writers :
       LogCall(w) \/ ShiftOlder(w) \/ MoveAside(w) \/ WriteLine(w) \/ LogFails(w)
  \/ LogDies

LogSpec == LogInit /\ [][LogNext]_logVars

-----------------------------------------------------------------------------
LogTypeOK ==
  /\ DOMAIN logs \subseteq 0..LogKeep
  /\ \A i \in DOMAIN logs : logs[i] \in [lines : SUBSET (1..written), size : Nat]
  /\ written \in Nat
  /\ doing \in [Writers -> Outside..(LogKeep - 1)]
  /\ brings \in [Writers -> LineSizes]

(* FR-4.13: read from the oldest log to skid.log, the lines are in the     *)
(* order they were written, none is missing after the first that is left,  *)
(* and no log has passed the limit but by a line that passes it alone:     *)
(* whichever threads log, and wherever a rotation was cut off.             *)
LogKeptInOrder ==
  /\ \A i, j \in DOMAIN logs : i < j =>
       \A m \in logs[i].lines, n \in logs[j].lines : n < m
  /\ \A i \in DOMAIN logs : \A n \in logs[i].lines : \A m \in n..written :
       \E j \in DOMAIN logs : m \in logs[j].lines
  /\ \A i \in DOMAIN logs :
       logs[i].size <= LogLimit \/ \E n \in 1..written : logs[i].lines = {n}
=============================================================================
