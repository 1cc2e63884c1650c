------------------------------- MODULE Spool -------------------------------
(***************************************************************************)
(* skid.spool: the durable queue, a directory of submissions taken in the  *)
(* order of their file names.                                              *)
(*                                                                         *)
(* Many request threads put; one serve thread takes.  Neither holds a      *)
(* lock, so every file operation is a step of its own: a put lists the     *)
(* directory for its sequence number, later renames a whole file into      *)
(* place, later still sets its mode; a scan lists the directory once and   *)
(* then reads, unlinks or renames one path at a time.                      *)
(*                                                                         *)
(* A submission is identified with the call of submit that carried it.     *)
(* What a file holds is the call it was written for; its path is its       *)
(* sequence number and the safe form of its name.                          *)
(***************************************************************************)
EXTENDS Integers

CONSTANTS
  Calls,        \* the calls of submit, each one carrying one submission
  SafeName,     \* SafeName[c]: place of c's cleaned name in string order
  TTL,          \* ttl_seconds
  Overlap,      \* may two calls with one safe name be in progress at once?
  NoEntry,      \* None
  MaxTime,      \* bound: the clock stops here
  MaxCrashes    \* bound: how often the process may die

ASSUME SpoolAssumption ==
  /\ SafeName \in [Calls -> Nat]
  /\ TTL \in Nat
  /\ Overlap \in BOOLEAN
  /\ NoEntry \notin Calls
  /\ MaxTime \in Nat
  /\ MaxCrashes \in Nat

VARIABLES
  now,       \* time.time()
  crashes,   \* deaths of the process so far
  mode,      \* of the process: "down", "recovering" or "up"
  put,       \* put[c]: how far c's put has got
  seq,       \* seq[c]: the sequence number c read
  stamp,     \* stamp[c]: queued_at
  before,    \* before[c]: the calls already accepted when c began (history)
  waiting,   \* the calls whose file is at its final name
  taken,     \* the calls whose file is under taken/
  scan,      \* the scan in progress: "none", "expired" or "take"
  unseen,    \* the listed paths the scan has still to visit
  asOf,      \* the clock the scan was given
  held,      \* the entry the scan has just read, or NoEntry
  entry,     \* the entry take() returned and done() has not removed
  owed,      \* discards returned to the service and not yet in the log
  fate,      \* fate[c]: what became of c's submission (history)
  reported   \* the calls whose discard is in the log (history)

diskVars == <<waiting, taken>>
putVars  == <<put, seq, stamp, before>>
scanVars == <<scan, unseen, asOf, held>>
vars == <<now, crashes, mode, putVars, diskVars, scanVars, entry, owed, fate,
          reported>>

-----------------------------------------------------------------------------
\* Paths and their order

Path(c) == <<seq[c], SafeName[c]>>

Paths(S) == {Path(c) : c \in S}

(* The files at path p among the calls of S: none, or one. *)
At(S, p) == {c \in S : Path(c) = p}

(* String order of the file names: the number is padded to six digits, so  *)
(* it is the order of the numbers as long as they stay below 1000000.      *)
Precedes(p, q) == p[1] < q[1] \/ (p[1] = q[1] /\ p[2] < q[2])

(* Mutant of IsFirst: the listing is not sorted, the last file comes first.*)
IsLast(p, P) == p \in P /\ \A q \in P \ {p} : Precedes(q, p)

IsFirst(p, P) == p \in P /\ \A q \in P \ {p} : Precedes(p, q)

(* Mutant of Expired: an entry exactly at the window is discarded. *)
ExpiredAtWindow(c) == asOf - stamp[c] >= TTL

Expired(c) == asOf - stamp[c] > TTL

InProgress(c) == put[c] \in {"called", "numbered", "written"}

-----------------------------------------------------------------------------
Init ==
  /\ now = 0
  /\ crashes = 0
  /\ mode = "down"
  /\ put = [c \in Calls |-> "none"]
  /\ seq = [c \in Calls |-> 0]
  /\ stamp = [c \in Calls |-> 0]
  /\ before = [c \in Calls |-> {}]
  /\ waiting = {}
  /\ taken = {}
  /\ scan = "none"
  /\ unseen = {}
  /\ asOf = 0
  /\ held = NoEntry
  /\ entry = NoEntry
  /\ owed = {}
  /\ fate = [c \in Calls |-> "none"]
  /\ reported = {}

-----------------------------------------------------------------------------
\* put(), on a request thread

(* submit() reads the clock and calls put(). *)
PutCall(c) ==
  /\ mode = "up"
  /\ put[c] = "none"
  /\ Overlap \/ \A d \in Calls : InProgress(d) => SafeName[d] # SafeName[c]
  /\ put' = [put EXCEPT ![c] = "called"]
  /\ stamp' = [stamp EXCEPT ![c] = now]
  /\ before' = [before EXCEPT ![c] = {d \in Calls : put[d] = "accepted"}]
  /\ UNCHANGED <<now, crashes, mode, seq, diskVars, scanVars, entry, owed,
                 fate, reported>>

(* Mutants of NextSequence: the highest number is used again; the number   *)
(* is one past the first file listed.                                      *)
HighestAgain ==
  {n \in {0} \cup {seq[d] : d \in waiting} : \A d \in waiting : seq[d] <= n}

PastFirst ==
  IF waiting = {} THEN {0}
    ELSE {seq[c] + 1 : c \in {d \in waiting : IsFirst(Path(d), Paths(waiting))}}

(* _next_sequence(), as the set of the one number it returns: one past the *)
(* highest of the waiting files, 0 where none waits.  taken/ is not listed.*)
NextSequence ==
  {n \in {0} \cup {seq[d] + 1 : d \in waiting} : \A d \in waiting : seq[d] < n}

PutNumber(c) ==
  /\ put[c] = "called"
  /\ \E n \in NextSequence : seq' = [seq EXCEPT ![c] = n]
  /\ put' = [put EXCEPT ![c] = "numbered"]
  /\ UNCHANGED <<now, crashes, mode, stamp, before, diskVars, scanVars, entry,
                 owed, fate, reported>>

(* The temporary file is renamed over whatever has the final name. *)
PutWrite(c) ==
  /\ put[c] = "numbered"
  /\ put' = [put EXCEPT ![c] = "written"]
  /\ waiting' = (waiting \ At(waiting, Path(c))) \cup {c}
  /\ UNCHANGED <<now, crashes, mode, seq, stamp, before, taken, scanVars,
                 entry, owed, fate, reported>>

(* The write fails, and nothing has the final name for it. *)
PutFail(c) ==
  /\ put[c] = "numbered"
  /\ put' = [put EXCEPT ![c] = "refused"]
  /\ UNCHANGED <<now, crashes, mode, seq, stamp, before, diskVars, scanVars,
                 entry, owed, fate, reported>>

(* final.chmod: raises where the file has been taken or unlinked already. *)
PutReturn(c) ==
  /\ put[c] = "written"
  /\ put' = [put EXCEPT ![c] =
               IF At(waiting, Path(c)) # {} THEN "accepted" ELSE "refused"]
  /\ UNCHANGED <<now, crashes, mode, seq, stamp, before, diskVars, scanVars,
                 entry, owed, fate, reported>>

-----------------------------------------------------------------------------
\* take_expired(), take() and done(), on the serve thread

(* Either scan begins by listing the directory, with the clock it was given. *)
ScanBegin(kind) ==
  /\ scan = "none"
  /\ entry = NoEntry
  /\ scan' = kind
  /\ unseen' = Paths(waiting)
  /\ asOf' = now
  /\ UNCHANGED <<now, crashes, mode, putVars, diskVars, held, entry, owed,
                 fate, reported>>

TakeExpiredBegin == mode = "up" /\ ScanBegin("expired")

TakeBegin == mode = "up" /\ ScanBegin("take")

(* The first listed path is read.  take_expired() passes over an entry     *)
(* that is still fresh; every other entry is about to leave the directory. *)
ScanRead ==
  /\ held = NoEntry
  /\ \E d \in waiting :
       /\ IsFirst(Path(d), unseen)
       /\ IF scan = "expired" /\ ~Expired(d)
            THEN unseen' = unseen \ {Path(d)} /\ held' = NoEntry
            ELSE held' = d /\ UNCHANGED unseen
  /\ UNCHANGED <<now, crashes, mode, putVars, diskVars, scan, asOf, entry,
                 owed, fate, reported>>

(* The path of an expired entry is unlinked, with whatever is at it by     *)
(* then.  take_expired() hands the entry it read back to be recorded;      *)
(* take() says nothing of it.                                              *)
ScanUnlink ==
  LET gone == {held} \cup At(waiting, Path(held)) IN
  /\ held # NoEntry
  /\ Expired(held)
  /\ waiting' = waiting \ gone
  /\ unseen' = unseen \ {Path(held)}
  /\ held' = NoEntry
  /\ fate' = [c \in Calls |-> IF c \notin gone THEN fate[c]
                 ELSE IF scan = "expired" THEN "expired" ELSE "passed"]
  /\ owed' = IF scan = "expired" THEN owed \cup {held} ELSE owed
  /\ UNCHANGED <<now, crashes, mode, putVars, taken, scan, asOf, entry,
                 reported>>

(* Mutant of TakeRename: the file stays in the queue while it is spoken. *)
TakeInPlace ==
  /\ scan = "take"
  /\ held # NoEntry
  /\ ~Expired(held)
  /\ entry' = held
  /\ fate' = [fate EXCEPT ![held] = "speaking"]
  /\ scan' = "none"
  /\ unseen' = {}
  /\ held' = NoEntry
  /\ UNCHANGED <<now, crashes, mode, putVars, diskVars, asOf, owed, reported>>

(* take() renames the path of a fresh entry into taken/ and returns it. *)
TakeRename ==
  /\ scan = "take"
  /\ held # NoEntry
  /\ ~Expired(held)
  /\ waiting' = waiting \ At(waiting, Path(held))
  /\ taken' = (taken \ At(taken, Path(held))) \cup At(waiting, Path(held))
  /\ entry' = held
  /\ fate' = [fate EXCEPT ![held] = "speaking"]
  /\ scan' = "none"
  /\ unseen' = {}
  /\ held' = NoEntry
  /\ UNCHANGED <<now, crashes, mode, putVars, asOf, owed, reported>>

(* take() returns None, or take_expired() its list. *)
ScanEnd ==
  /\ scan # "none"
  /\ unseen = {}
  /\ scan' = "none"
  /\ UNCHANGED <<now, crashes, mode, putVars, diskVars, unseen, asOf, held,
                 entry, owed, fate, reported>>

(* One discard handed back is written to the log. *)
RecordDiscard(c) ==
  /\ scan = "none"
  /\ c \in owed
  /\ owed' = owed \ {c}
  /\ reported' = reported \cup {c}
  /\ UNCHANGED <<now, crashes, mode, putVars, diskVars, scanVars, entry, fate>>

(* Mutant of Done: an attempt that failed leaves its file under taken/. *)
DoneUnlessFailed ==
  /\ entry # NoEntry
  /\ taken' \in {taken, taken \ At(taken, Path(entry))}
  /\ fate' = [fate EXCEPT ![entry] = "spoken"]
  /\ entry' = NoEntry
  /\ UNCHANGED <<now, crashes, mode, putVars, waiting, scanVars, owed,
                 reported>>

(* done(): the attempt at the entry ended, however it ended. *)
Done ==
  /\ entry # NoEntry
  /\ taken' = taken \ At(taken, Path(entry))
  /\ fate' = [fate EXCEPT ![entry] = "spoken"]
  /\ entry' = NoEntry
  /\ UNCHANGED <<now, crashes, mode, putVars, waiting, scanVars, owed,
                 reported>>

-----------------------------------------------------------------------------
\* Death and recovery

(* Mutant of Recover: what was interrupted is put back to be spoken again. *)
RecoverReplays ==
  /\ mode = "down"
  /\ mode' = "recovering"
  /\ taken' = {}
  /\ waiting' = waiting \cup taken
  /\ fate' = [c \in Calls |-> IF c \in taken THEN "none" ELSE fate[c]]
  /\ scan' = "expired"
  /\ unseen' = Paths(waiting')
  /\ asOf' = now
  /\ UNCHANGED <<now, crashes, putVars, held, entry, owed, reported>>

(* recover(), first half: taken/ is emptied, and what it held is owed a    *)
(* line in the log; then the take_expired() of a start-up begins.          *)
Recover ==
  /\ mode = "down"
  /\ mode' = "recovering"
  /\ taken' = {}
  /\ owed' = owed \cup taken
  /\ fate' = [c \in Calls |-> IF c \in taken THEN "interrupted" ELSE fate[c]]
  /\ scan' = "expired"
  /\ unseen' = Paths(waiting)
  /\ asOf' = now
  /\ UNCHANGED <<now, crashes, putVars, waiting, held, entry, reported>>

(* The recovery is over once everything it threw away is in the log. *)
Recovered ==
  /\ mode = "recovering"
  /\ scan = "none"
  /\ owed = {}
  /\ mode' = "up"
  /\ UNCHANGED <<now, crashes, putVars, diskVars, scanVars, entry, owed, fate,
                 reported>>

(* The process dies: files stay, everything in memory goes. *)
Crash ==
  /\ crashes < MaxCrashes
  /\ mode # "down"
  /\ crashes' = crashes + 1
  /\ mode' = "down"
  /\ put' = [c \in Calls |-> IF InProgress(c) THEN "lost" ELSE put[c]]
  /\ scan' = "none"
  /\ unseen' = {}
  /\ held' = NoEntry
  /\ entry' = NoEntry
  /\ owed' = {}
  /\ UNCHANGED <<now, seq, stamp, before, diskVars, asOf, fate, reported>>

Tick ==
  /\ now < MaxTime
  /\ now' = now + 1
  /\ UNCHANGED <<crashes, mode, putVars, diskVars, scanVars, entry, owed, fate,
                 reported>>

-----------------------------------------------------------------------------
Put(c) == PutCall(c) \/ PutNumber(c) \/ PutWrite(c) \/ PutFail(c) \/ PutReturn(c)

Serve ==
  \/ mode = "up" /\ owed = {} /\ (TakeExpiredBegin \/ TakeBegin)
  \/ ScanRead \/ ScanUnlink \/ TakeRename \/ ScanEnd
  \/ \E c \in Calls : RecordDiscard(c)
  \/ Done
  \/ Recover \/ Recovered

Next == (\E c \in Calls : Put(c)) \/ Serve \/ Crash \/ Tick

Spec == Init /\ [][Next]_vars

-----------------------------------------------------------------------------
TypeOK ==
  /\ now \in 0..MaxTime
  /\ crashes \in 0..MaxCrashes
  /\ mode \in {"down", "recovering", "up"}
  /\ put \in [Calls -> {"none", "called", "numbered", "written", "accepted",
                        "refused", "lost"}]
  /\ seq \in [Calls -> Nat]
  /\ stamp \in [Calls -> 0..MaxTime]
  /\ before \in [Calls -> SUBSET Calls]
  /\ waiting \subseteq Calls
  /\ taken \subseteq Calls
  /\ scan \in {"none", "expired", "take"}
  /\ unseen \subseteq Nat \X Nat
  /\ asOf \in 0..MaxTime
  /\ held \in Calls \cup {NoEntry}
  /\ entry \in Calls \cup {NoEntry}
  /\ owed \subseteq Calls
  /\ fate \in [Calls -> {"none", "speaking", "spoken", "expired", "passed",
                         "interrupted"}]
  /\ reported \subseteq Calls

-----------------------------------------------------------------------------
\* Safety

(* FR-7.2, FR-4.8: nothing accepted is ever replaced or lost.  Once put()   *)
(* has returned, the file is waiting or the submission has met its fate:   *)
(* through any interleaving of puts with a scan, and across crashes.       *)
(* It depends on no two calls with one safe name being in progress at once *)
(* (Overlap = FALSE): they can read one sequence number and so one path.   *)
Accounted ==
  \A c \in Calls : put[c] = "accepted" => c \in waiting \/ fate[c] # "none"

(* FR-4.3 and FR-7.2 between submissions: while a submission waits, none   *)
(* whose call began after it had been accepted is taken, whatever other    *)
(* puts were half done when either was numbered.                           *)
InOrder ==
  \A c, d \in Calls :
    c \in before[d] /\ c \in waiting => fate[d] \notin {"speaking", "spoken"}

(* FR-4.8, FR-4.4: what lies under taken/ is exactly the entry being        *)
(* spoken, so that what a crash leaves there, and recover() throws away, is*)
(* the interrupted submission and no other.                                *)
TakenIsEntry ==
  mode = "up" => taken = (IF entry = NoEntry THEN {} ELSE {entry})

(* FR-4.9: whatever is discarded for its age has waited longer than the    *)
(* window, and what is spoken had not when take() listed the directory: at *)
(* the window it still speaks.  Where calls of one name overlap, a file    *)
(* that was read as expired may be another's when it is unlinked.          *)
AgeDecides ==
  /\ \A c \in Calls : fate[c] \in {"expired", "passed"} => now - stamp[c] > TTL
  /\ entry # NoEntry => asOf - stamp[entry] <= TTL

(* FR-4.9, "Nothing vanishes silently": every discard is in the log, or the*)
(* service holds it to be logged, or a crash has come between.             *)
DiscardsRecorded ==
  \A c \in Calls :
    fate[c] \in {"expired", "passed"} /\ crashes = 0 => c \in owed \cup reported

(* A fate is met once: by a waiting file, or at the end of being spoken.   *)
MeetsFateOnce ==
  \A c \in Calls : fate'[c] # fate[c] =>
    \/ fate[c] = "none" /\ c \in waiting
    \/ fate[c] = "speaking" /\ fate'[c] \in {"spoken", "interrupted"}

(* FR-4.8: nothing is spoken twice or after it was discarded, not even by  *)
(* the process that comes up after a crash in the middle of it.            *)
FateIsFinal == [][MeetsFateOnce]_vars

-----------------------------------------------------------------------------
\* What the spool promises

(* Where c stands in SpeechQueue.  A call that was accepted and is neither *)
(* on disk nor accounted for stands nowhere there.                         *)
Standing(c) ==
  CASE fate[c] = "speaking" -> "speaking"
    [] fate[c] = "spoken" -> "spoken"
    [] fate[c] \in {"expired", "passed", "interrupted"} -> "discarded"
    [] fate[c] = "none" /\ c \in waiting -> "queued"
    [] fate[c] = "none" /\ c \notin waiting ->
         CASE put[c] = "none" -> "unasked"
           [] put[c] \in {"called", "numbered"} -> "asked"
           [] put[c] \in {"refused", "lost"} -> "refused"
           [] put[c] \in {"written", "accepted"} -> "vanished"

Queue == INSTANCE SpeechQueue WITH
           Submissions <- Calls,
           standing <- [c \in Calls |-> Standing(c)],
           promised <- {c \in Calls : put[c] = "accepted"},
           ahead <- before

(* The spool implements the queue a caller was promised. *)
QueueSpec == Queue!Spec
=============================================================================
