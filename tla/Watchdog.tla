------------------------------ MODULE Watchdog ------------------------------
(***************************************************************************)
(* systemd's watchdog over the serve loop (main.keep_pinging,              *)
(* Service.is_progressing, WatchdogSec in skid.service): a thread looks at *)
(* the service every Interval and pings while it is idle, playing, or less *)
(* than Grace from its last step; systemd restarts a service that has not  *)
(* pinged for Limit.                                                       *)
(*                                                                         *)
(* Submissions are counted here, not named: the spool, the wakeups and the *)
(* clips matter by how many there are.  Time is a number of ticks, and     *)
(* passes only while no thread has a step it can take at once; rendering,  *)
(* playing, a player's exit and the watchdog's look take the time they do. *)
(***************************************************************************)
EXTENDS Integers

CONSTANTS
  Interval,    \* between two looks: half of WatchdogSec
  Grace,       \* PROGRESS_GRACE
  GenMax,      \* the longest rendering of one text
  FailMax,     \* the longest a rendering goes on before it fails
  PlayMax,     \* the player's timeout, which ends every playing
  Texts,       \* texts of a submission, the greeting among them
  MaxPending,  \* bound: calls made and not yet looked at by the serve loop
  Failures,    \* "loop": the serve thread may die; "worker": a worker may hang
  InWindows    \* may the look fall between two steps done at one instant?

ASSUME WatchdogAssumption ==
  /\ Interval \in Nat \ {0}
  /\ Grace \in 1..Interval
  /\ GenMax \in 0..(Grace - 1)
  /\ FailMax \in Nat
  /\ PlayMax \in Nat \ {0}
  /\ Texts \in Nat \ {0}
  /\ MaxPending \in Nat
  /\ Failures \subseteq {"loop", "worker"}
  /\ InWindows \in BOOLEAN

(* WatchdogSec: the unit asks for it, and the looks are twice as frequent. *)
Limit == 2 * Interval

VARIABLES
  queued,     \* submissions in the spool
  accepted,   \* calls of submit() that have put and not cleared idle
  cleared,    \* calls that have cleared idle and not put the wakeup
  wakes,      \* wakeups on their way to the serve thread
  idle,       \* the idle event
  thread,     \* where the serve thread is
  playFor,    \* how long the clip on the speaker has played
  worker,     \* "none", "busy", "ended" (sentinel queued) or "stuck"
  left,       \* texts the worker has still to render
  clips,      \* clips rendered and not played
  genFor,     \* how long the rendering in progress has taken
  quietFor,   \* now - progressed, no further than Grace
  nextLook,   \* until the pinging thread wakes
  sincePing,  \* since systemd heard the last ping
  unseenFor   \* how long the service is wedged and not idle (history)

callVars  == <<queued, accepted, cleared, wakes>>
speakVars == <<playFor, worker, left, clips, genFor>>
watchVars == <<nextLook, sincePing, unseenFor>>
watchdogVars == <<callVars, idle, thread, speakVars, quietFor, watchVars>>

(* The process as start() leaves it and READY=1 has been sent, with n      *)
(* submissions in the spool.                                               *)
Started(n) ==
  /\ queued' = n
  /\ accepted' = 0
  /\ cleared' = 0
  /\ wakes' = IF n > 0 THEN 1 ELSE 0
  /\ idle' = (n = 0)
  /\ thread' = "get"
  /\ playFor' = 0
  /\ worker' = "none"
  /\ left' = 0
  /\ clips' = 0
  /\ genFor' = 0
  /\ quietFor' = 0
  /\ nextLook' = Interval
  /\ sincePing' = 0
  /\ unseenFor' = 0

WatchInit ==
  /\ queued = 0 /\ accepted = 0 /\ cleared = 0 /\ wakes = 0
  /\ idle = TRUE
  /\ thread = "get"
  /\ playFor = 0 /\ worker = "none" /\ left = 0 /\ clips = 0 /\ genFor = 0
  /\ quietFor = 0
  /\ nextLook = Interval /\ sincePing = 0 /\ unseenFor = 0

-----------------------------------------------------------------------------
\* submit()

SubmitPut ==
  /\ queued + accepted + cleared + wakes < MaxPending
  /\ queued' = queued + 1
  /\ accepted' = accepted + 1
  /\ UNCHANGED <<cleared, wakes, idle, thread, speakVars, quietFor, watchVars>>

SubmitClear ==
  /\ accepted > 0
  /\ accepted' = accepted - 1
  /\ cleared' = cleared + 1
  /\ idle' = FALSE
  /\ UNCHANGED <<queued, wakes, thread, speakVars, quietFor, watchVars>>

SubmitWake ==
  /\ cleared > 0
  /\ cleared' = cleared - 1
  /\ wakes' = wakes + 1
  /\ UNCHANGED <<queued, accepted, idle, thread, speakVars, quietFor, watchVars>>

-----------------------------------------------------------------------------
\* _serve() and _speak()

(* A wakeup arrives and the loop notes that it got somewhere. *)
LoopGet ==
  /\ thread = "get"
  /\ wakes > 0
  /\ wakes' = wakes - 1
  /\ thread' = "woken"
  /\ quietFor' = 0
  /\ UNCHANGED <<queued, accepted, cleared, idle, speakVars, watchVars>>

(* The config is refreshed and whatever is too old discarded, ... *)
LoopExpire ==
  /\ thread = "woken"
  /\ queued' \in 0..queued
  /\ thread' = "take"
  /\ UNCHANGED <<accepted, cleared, wakes, idle, speakVars, quietFor, watchVars>>

(* ... unless the config names a voice that raises. *)
LoopDies ==
  /\ "loop" \in Failures
  /\ thread = "woken"
  /\ thread' = "dead"
  /\ UNCHANGED <<callVars, idle, speakVars, quietFor, watchVars>>

(* take() returned an entry: a worker is started for it. *)
LoopTake ==
  /\ thread = "take"
  /\ queued > 0
  /\ queued' = queued - 1
  /\ thread' = "wait"
  /\ worker' = "busy"
  /\ left' = Texts
  /\ clips' = 0
  /\ genFor' = 0
  /\ UNCHANGED <<accepted, cleared, wakes, idle, playFor, quietFor, watchVars>>

(* take() found nothing, and in a step of its own idle is set. *)
LoopEmpty ==
  /\ thread = "take"
  /\ queued = 0
  /\ thread' = "empty"
  /\ UNCHANGED <<callVars, idle, speakVars, quietFor, watchVars>>

LoopIdle ==
  /\ thread = "empty"
  /\ idle' = TRUE
  /\ thread' = "get"
  /\ UNCHANGED <<callVars, speakVars, quietFor, watchVars>>

(* A clip goes to the player, or is a greeting nobody needs. *)
NextClip ==
  /\ thread = "wait"
  /\ clips > 0
  /\ clips' = clips - 1
  /\ thread' \in {"wait", "play"}
  /\ playFor' = 0
  /\ UNCHANGED <<callVars, idle, worker, left, genFor, quietFor, watchVars>>

(* The player has exited or been killed: playing_since() is None, ... *)
PlayStop ==
  /\ thread = "play"
  /\ thread' = "played"
  /\ playFor' = 0
  /\ UNCHANGED <<callVars, idle, worker, left, clips, genFor, quietFor, watchVars>>

(* ... and the clip is cleared away before the step is noted. *)
PlayNoted ==
  /\ thread = "played"
  /\ thread' = "wait"
  /\ quietFor' = 0
  /\ UNCHANGED <<callVars, idle, speakVars, watchVars>>

(* The sentinel: done(), noted, and the loop takes the next. *)
LoopDone ==
  /\ thread = "wait"
  /\ clips = 0
  /\ worker = "ended"
  /\ worker' = "none"
  /\ thread' = "take"
  /\ quietFor' = 0
  /\ UNCHANGED <<callVars, idle, playFor, left, clips, genFor, watchVars>>

-----------------------------------------------------------------------------
\* _generate_into()

Rendering == worker = "busy" /\ left > 0

(* Mutant of GenEnd: the step is not noted. *)
GenEndQuietly ==
  /\ Rendering
  /\ left' = left - 1
  /\ clips' = clips + 1
  /\ genFor' = 0
  /\ UNCHANGED <<callVars, idle, thread, playFor, worker, quietFor, watchVars>>

GenEnd ==
  /\ Rendering
  /\ left' = left - 1
  /\ clips' = clips + 1
  /\ genFor' = 0
  /\ quietFor' = 0
  /\ UNCHANGED <<callVars, idle, thread, playFor, worker, watchVars>>

(* A rendering that fails is recorded and skipped, and is not noted. *)
GenFail ==
  /\ Rendering
  /\ genFor <= FailMax
  /\ left' = left - 1
  /\ genFor' = 0
  /\ UNCHANGED <<callVars, idle, thread, playFor, worker, clips, quietFor,
                 watchVars>>

(* The engine hangs, or something unhandled ends the thread: no sentinel.  *)
GenStuck ==
  /\ "worker" \in Failures
  /\ Rendering
  /\ worker' = "stuck"
  /\ UNCHANGED <<callVars, idle, thread, playFor, left, clips, genFor, quietFor,
                 watchVars>>

GenLast ==
  /\ worker = "busy"
  /\ left = 0
  /\ worker' = "ended"
  /\ UNCHANGED <<callVars, idle, thread, playFor, left, clips, genFor, quietFor,
                 watchVars>>

-----------------------------------------------------------------------------
\* The pinging thread, systemd and the clock

(* Mutant of Progressing: whatever is being rendered is health. *)
ProgressingOrBusy == idle \/ thread \in {"play", "wait"} \/ quietFor < Grace

(* is_progressing() *)
Progressing == idle \/ thread = "play" \/ quietFor < Grace

(* Something has happened that the time of the last step does not show yet. *)
Unstamped == cleared > 0 \/ (thread = "get" /\ wakes > 0) \/ thread = "played"

(* keep_pinging() wakes, looks, pings or withholds, and sleeps again. *)
Look ==
  /\ nextLook = 0
  /\ Unstamped => InWindows
  /\ nextLook' = Interval
  /\ sincePing' = IF Progressing THEN 0 ELSE sincePing
  /\ UNCHANGED <<callVars, idle, thread, speakVars, quietFor, unseenFor>>

(* The watchdog runs out: the process is killed and started again, and     *)
(* what was being spoken is dropped from the spool.                        *)
Restart ==
  /\ sincePing >= Limit
  /\ Started(queued)

(* No thread has a step it can take at once. *)
AtRest ==
  /\ accepted = 0 /\ cleared = 0
  /\ ~(thread = "get" /\ wakes > 0)
  /\ thread \notin {"woken", "take", "empty", "played"}
  /\ ~(thread = "wait" /\ (clips > 0 \/ worker = "ended"))
  /\ ~(worker = "busy" /\ left = 0)
  /\ nextLook > 0
  /\ sincePing < Limit

(* The serve loop will never take another step. *)
Wedged == thread = "dead" \/ (thread = "wait" /\ clips = 0 /\ worker = "stuck")

TimePasses ==
  /\ AtRest
  /\ thread = "play" => playFor < PlayMax
  /\ Rendering => genFor < GenMax
  /\ playFor' = IF thread = "play" THEN playFor + 1 ELSE playFor
  /\ genFor' = IF Rendering THEN genFor + 1 ELSE genFor
  /\ quietFor' = IF quietFor < Grace THEN quietFor + 1 ELSE Grace
  /\ nextLook' = nextLook - 1
  /\ sincePing' = sincePing + 1
  /\ unseenFor' = IF Wedged /\ ~idle THEN unseenFor + 1 ELSE 0
  /\ UNCHANGED <<callVars, idle, thread, worker, left, clips>>

-----------------------------------------------------------------------------
Submitting == SubmitPut \/ SubmitClear \/ SubmitWake

ServeLoop ==
  \/ LoopGet \/ LoopExpire \/ LoopTake \/ LoopEmpty \/ LoopIdle \/ NextClip
  \/ PlayStop \/ PlayNoted \/ LoopDone

Worker == GenEnd \/ GenFail \/ GenLast

WatchNext ==
  \/ Submitting \/ ServeLoop \/ LoopDies \/ Worker \/ GenStuck
  \/ Look \/ Restart \/ TimePasses

WatchSpec == WatchInit /\ [][WatchNext]_watchdogVars

(* Threads run, systemd acts and time passes; nobody must call, and        *)
(* nothing must fail.                                                      *)
WatchFairSpec ==
  /\ WatchSpec
  /\ WF_watchdogVars(SubmitClear) /\ WF_watchdogVars(SubmitWake)
  /\ WF_watchdogVars(ServeLoop) /\ WF_watchdogVars(Worker)
  /\ WF_watchdogVars(Look) /\ WF_watchdogVars(Restart)
  /\ WF_watchdogVars(TimePasses)

-----------------------------------------------------------------------------
WatchTypeOK ==
  /\ queued \in 0..MaxPending
  /\ accepted \in 0..MaxPending
  /\ cleared \in 0..MaxPending
  /\ wakes \in 0..MaxPending
  /\ idle \in BOOLEAN
  /\ thread \in {"get", "woken", "take", "empty", "wait", "play", "played", "dead"}
  /\ playFor \in 0..PlayMax
  /\ worker \in {"none", "busy", "ended", "stuck"}
  /\ left \in 0..Texts
  /\ clips \in 0..Texts
  /\ genFor \in 0..GenMax
  /\ quietFor \in 0..Grace
  /\ nextLook \in 0..Interval
  /\ sincePing \in 0..Limit
  /\ unseenFor \in Nat

(* service.py:276-277: a service that renders, plays or waits is never     *)
(* restarted in the middle of it; the watchdog runs out on a wedged loop   *)
(* only.  (Where a failing rendering fails at once, and no look falls      *)
(* between a step and the note of it.)                                     *)
RestartsOnlyTheWedged == sincePing >= Limit => Wedged

(* A wedge that is not hidden by the idle event is met by a restart within *)
(* the grace and the watchdog's limit together.                            *)
SeenInTime == unseenFor < Grace + Limit

(* FR-5.3: "WatchdogSec=120 in skid.service restarts a serve loop that     *)
(* stops making progress."                                                 *)
WedgesEnd == Wedged ~> ~Wedged
=============================================================================
