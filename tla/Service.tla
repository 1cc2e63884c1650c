------------------------------ MODULE Service ------------------------------
(***************************************************************************)
(* skid.service: request threads that submit, one serve thread that takes  *)
(* what the spool holds and plays it, and for each submission one worker   *)
(* thread that generates clips ahead of the playing.                       *)
(*                                                                         *)
(* The threads share the spool (module Spool, whose steps are the file     *)
(* operations here), a queue of wakeups, the idle event, and per           *)
(* submission a queue of clips that ends with a sentinel.                  *)
(***************************************************************************)
EXTENDS Spool, Sequences

CONSTANTS
  Messages,   \* Messages[c]: how many messages c carries
  MayStop,    \* may stop() be called?
  Unlogged    \* the calls whose lines in the log may fail to be written

ASSUME ServiceAssumption ==
  /\ Messages \in [Calls -> Nat \ {0}]
  /\ MayStop \in BOOLEAN
  /\ Unlogged \subseteq Calls

WAKE == "wake"
STOP == "stop"

(* The sentinel among the clips, which are numbered by their texts. *)
LastClip == -1

VARIABLES
  answer,    \* answer[c]: how far submit() has got once put() has returned
  incoming,  \* the wakeups on their way to the serve thread
  idle,      \* the idle event
  stopping,  \* stop() was called
  loop,      \* where the serve thread is; "dead" once an exception ended it
  worker,    \* where the generation thread is
  voice,     \* whose voice the generator was last set to, or NoEntry after a
             \* reread of the config
  made,      \* the next text the worker renders; text 0 is the greeting
  clips,     \* the clips rendered and not yet reached by the playing
  greet,     \* whether this submission is greeted, once that is decided
  playing,   \* the clip on the speaker, or the empty sequence
  heard      \* every <<call, text>> played to its end, in order (history)

threadVars == <<answer, incoming, idle, stopping>>
speakVars  == <<worker, voice, made, clips, greet, playing, heard>>
serviceVars == <<threadVars, loop, speakVars>>
allVars == <<vars, serviceVars>>

ServiceInit ==
  /\ Init
  /\ answer = [c \in Calls |-> "none"]
  /\ incoming = <<>>
  /\ idle = TRUE
  /\ stopping = FALSE
  /\ loop = "off"
  /\ worker = "none"
  /\ voice = NoEntry
  /\ made = 0
  /\ clips = <<>>
  /\ greet = "undecided"
  /\ playing = <<>>
  /\ heard = <<>>

-----------------------------------------------------------------------------
\* submit(), on a request thread

(* The spool's part of a submission.  Nothing is asked of a process that   *)
(* has been told to stop: the server had returned by then.                 *)
SubmitPut(c) ==
  /\ \/ ~stopping /\ PutCall(c)
     \/ PutNumber(c) \/ PutWrite(c) \/ PutFail(c) \/ PutReturn(c)
  /\ UNCHANGED serviceVars

(* Accepted and logged: the idle event is cleared, ... *)
SubmitClear(c) ==
  /\ put[c] = "accepted"
  /\ answer[c] = "none"
  /\ answer' = [answer EXCEPT ![c] = "cleared"]
  /\ idle' = FALSE
  /\ UNCHANGED <<vars, incoming, stopping, loop, speakVars>>

(* The line in the log cannot be written, and the caller is told it failed *)
(* of what is stored: no wakeup is put for it.                             *)
SubmitUnlogged(c) ==
  /\ c \in Unlogged
  /\ put[c] = "accepted"
  /\ answer[c] = "none"
  /\ answer' = [answer EXCEPT ![c] = "no"]
  /\ UNCHANGED <<vars, incoming, idle, stopping, loop, speakVars>>

(* ... and then the serve thread is woken and the caller told yes. *)
SubmitWake(c) ==
  /\ answer[c] = "cleared"
  /\ answer' = [answer EXCEPT ![c] = "yes"]
  /\ incoming' = Append(incoming, WAKE)
  /\ UNCHANGED <<vars, idle, stopping, loop, speakVars>>

-----------------------------------------------------------------------------
\* start(), stop() and the end of the process

Start == Recover /\ UNCHANGED serviceVars

(* Mutant of Serving: nothing wakes the thread for what was waiting. *)
ServingAsleep ==
  /\ Recovered
  /\ loop' = "get"
  /\ UNCHANGED <<threadVars, speakVars>>

(* start() after recover(): the serve thread waits on incoming, and is     *)
(* woken for what an earlier process left waiting.                         *)
Serving ==
  /\ Recovered
  /\ loop' = "get"
  /\ IF waiting = {}
       THEN UNCHANGED <<idle, incoming>>
       ELSE idle' = FALSE /\ incoming' = Append(incoming, WAKE)
  /\ UNCHANGED <<answer, stopping, speakVars>>

(* main() calls stop() once the server has returned and no request thread  *)
(* is left.                                                                *)
StopCall ==
  /\ MayStop
  /\ mode = "up"
  /\ ~stopping
  /\ \A c \in Calls : ~InProgress(c)
  /\ \A c \in Calls : put[c] = "accepted" => answer[c] # "none"
  /\ \A c \in Calls : answer[c] # "cleared"
  /\ stopping' = TRUE
  /\ incoming' = Append(incoming, STOP)
  /\ UNCHANGED <<vars, answer, idle, loop, speakVars>>

(* The process dies, with every thread and everything in memory. *)
Die ==
  /\ Crash
  /\ answer' = [c \in Calls |->
       IF put[c] = "accepted" /\ answer[c] \notin {"yes", "no"} THEN "lost" ELSE answer[c]]
  /\ incoming' = <<>>
  /\ idle' = TRUE
  /\ stopping' = FALSE
  /\ loop' = "off"
  /\ worker' = "none"
  /\ voice' = NoEntry
  /\ made' = 0
  /\ clips' = <<>>
  /\ greet' = "undecided"
  /\ playing' = <<>>
  /\ UNCHANGED heard

-----------------------------------------------------------------------------
\* _serve(), the serve thread

(* _recover() runs before there is a serve thread; its scan and its lines  *)
(* in the log are the same steps.  A line that the log refuses ends the    *)
(* process there, which is Die.                                            *)
Recovering ==
  /\ mode = "recovering"
  /\ ScanRead \/ ScanUnlink \/ ScanEnd \/ \E c \in Calls : RecordDiscard(c)
  /\ UNCHANGED serviceVars

(* incoming.get() returns.  STOP ends the thread; a wakeup rereads the     *)
(* config, which sets the generator's voice where the file has changed.    *)
(* (A file whose voice kokoro does not know ends the thread: Settings.)    *)
LoopGet ==
  /\ loop = "get"
  /\ incoming # <<>>
  /\ incoming' = Tail(incoming)
  /\ \/ Head(incoming) = STOP /\ loop' = "ended" /\ UNCHANGED voice
     \/ Head(incoming) = WAKE /\ loop' = "woken" /\ voice' \in {voice, NoEntry}
  /\ UNCHANGED <<vars, answer, idle, stopping, worker, made, clips,
                 greet, playing, heard>>

(* _expired_now() *)
LoopExpire ==
  /\ loop = "woken"
  /\ TakeExpiredBegin
  /\ loop' = "expiring"
  /\ UNCHANGED <<threadVars, speakVars>>

LoopScan ==
  /\ loop \in {"expiring", "taking"}
  /\ \/ ScanRead \/ ScanUnlink
     \/ loop = "expiring" /\ ScanEnd
     \/ \E c \in Calls : RecordDiscard(c)
  /\ UNCHANGED serviceVars

(* The log refuses the line of a discard, and nothing catches that. *)
LoopUnlogged ==
  /\ loop = "expiring"
  /\ scan = "none"
  /\ owed \cap Unlogged # {}
  /\ loop' = "dead"
  /\ UNCHANGED <<vars, threadVars, speakVars>>

(* Mutant of LoopTake: the next is taken before the discards are recorded. *)
LoopTakeFirst ==
  /\ loop \in {"expiring", "drain"}
  /\ TakeBegin
  /\ loop' = "taking"
  /\ UNCHANGED <<threadVars, speakVars>>

(* The expired ones are recorded, or a submission is done: take the next.  *)
LoopTake ==
  /\ \/ loop = "expiring" /\ owed = {}
     \/ loop = "drain"
  /\ TakeBegin
  /\ loop' = "taking"
  /\ UNCHANGED <<threadVars, speakVars>>

(* take() returned an entry: _speak() starts the worker.  One that was left*)
(* behind goes on beside it and is told no further: it has set its voice,  *)
(* and its clips reach nobody.                                             *)
LoopSpeak ==
  /\ loop = "taking"
  /\ TakeRename
  /\ loop' = "speaking"
  /\ worker' = "starting"
  /\ made' = 0
  /\ clips' = <<>>
  /\ greet' = "undecided"
  /\ UNCHANGED <<threadVars, voice, playing, heard>>

(* take() returned None. *)
LoopEmpty ==
  /\ loop = "taking"
  /\ ScanEnd
  /\ loop' = "empty"
  /\ UNCHANGED <<threadVars, speakVars>>

LoopIdle ==
  /\ loop = "empty"
  /\ idle' = TRUE
  /\ loop' = "get"
  /\ UNCHANGED <<vars, answer, incoming, stopping, speakVars>>

-----------------------------------------------------------------------------
\* _generate_into(), the worker of the submission being spoken

(* Mutant of ApplyVoice: a voice that is set is taken for the right one. *)
ApplyVoiceOnce ==
  /\ worker = "starting"
  /\ worker' = "generating"
  /\ voice' = IF voice = NoEntry THEN entry ELSE voice
  /\ UNCHANGED <<vars, threadVars, loop, made, clips, greet, playing,
                 heard>>

(* _apply_voice(), before anything is rendered.  A voice kokoro does not   *)
(* know is recorded and stepped over.                                      *)
ApplyVoice ==
  /\ worker = "starting"
  /\ worker' = "generating"
  /\ voice' = entry
  /\ UNCHANGED <<vars, threadVars, loop, made, clips, greet, playing,
                 heard>>

(* Mutant of Generate: the clips are kept last in, first out. *)
GenerateAhead ==
  /\ worker = "generating"
  /\ made <= Messages[entry]
  /\ made' = made + 1
  /\ clips' = <<made>> \o clips \/ UNCHANGED clips
  /\ UNCHANGED <<vars, threadVars, loop, worker, voice, greet, playing,
                 heard>>

(* A text is rendered and its clip queued, or it fails and is skipped. *)
Generate ==
  /\ worker = "generating"
  /\ made <= Messages[entry]
  /\ made' = made + 1
  /\ clips' = Append(clips, made) \/ UNCHANGED clips
  /\ UNCHANGED <<vars, threadVars, loop, worker, voice, greet, playing,
                 heard>>

(* Mutant of GenerateEnd: a failure ends the worker before the sentinel. *)
GenerateEndMute ==
  /\ worker = "generating"
  /\ made > Messages[entry]
  /\ worker' = "ended"
  /\ clips' = Append(clips, LastClip) \/ UNCHANGED clips
  /\ UNCHANGED <<vars, threadVars, loop, voice, made, greet, playing, heard>>

(* The sentinel follows the last text, whatever failed. *)
GenerateEnd ==
  /\ worker = "generating"
  /\ made > Messages[entry]
  /\ worker' = "ended"
  /\ clips' = Append(clips, LastClip)
  /\ UNCHANGED <<vars, threadVars, loop, voice, made, greet, playing, heard>>

(* A failure is to be recorded, of the voice or of a text, and the log     *)
(* refuses the line: the thread ends with no sentinel.                     *)
WorkerDies ==
  /\ \/ worker = "starting"
     \/ worker = "generating" /\ made <= Messages[entry]
  /\ entry \in Unlogged
  /\ worker' = "dead"
  /\ UNCHANGED <<vars, threadVars, loop, voice, made, clips, greet, playing,
                 heard>>

(* A worker whose clips nobody waits for any more comes to its end. *)
LeftEnd ==
  /\ worker = "left"
  /\ worker' = "none"
  /\ UNCHANGED <<vars, threadVars, loop, voice, made, clips, greet, playing,
                 heard>>

-----------------------------------------------------------------------------
\* _speak() and _play(), the serve thread while it speaks

(* Mutant of NextClip: the sentinel is not told from a clip. *)
NextAnyClip ==
  /\ loop = "speaking"
  /\ playing = <<>>
  /\ clips # <<>>
  /\ clips' = Tail(clips)
  /\ greet' \in IF greet = "undecided" THEN {"yes", "no"} ELSE {greet}
  /\ playing' = IF Head(clips) = 0 /\ greet' = "no"
                  THEN <<>> ELSE <<Head(clips)>>
  /\ UNCHANGED <<vars, threadVars, loop, worker, voice, made, heard>>

(* clips.get() returns a clip.  The first one to arrive settles whether    *)
(* the submission is greeted (the quiet table is consulted then); an       *)
(* unwanted greeting is thrown away, anything else goes to the player.     *)
NextClip ==
  /\ loop = "speaking"
  /\ playing = <<>>
  /\ clips # <<>>
  /\ Head(clips) # LastClip
  /\ clips' = Tail(clips)
  /\ greet' \in IF greet = "undecided" THEN {"yes", "no"} ELSE {greet}
  /\ playing' = IF Head(clips) = 0 /\ greet' = "no"
                  THEN <<>> ELSE <<Head(clips)>>
  /\ UNCHANGED <<vars, threadVars, loop, worker, voice, made, heard>>

(* The player exits: the clip was heard, or it failed and is recorded. *)
PlayEnd ==
  /\ playing # <<>>
  /\ playing' = <<>>
  /\ heard' = Append(heard, <<entry, Head(playing)>>) \/ UNCHANGED heard
  /\ UNCHANGED <<vars, threadVars, loop, worker, voice, made, clips, greet>>

(* _speak() has been left, by an exception or at its end: done().  A worker*)
(* that is not through goes on by itself; it has set its voice, for a clip *)
(* has come of it.  An exception is caught and recorded, and where the log *)
(* refuses that line too the serve thread ends.                            *)
SpeakLeft ==
  /\ loop = "speaking"
  /\ Done
  /\ loop' \in {"drain"} \cup {end \in {"dead"} : entry \in Unlogged}
  /\ clips' = <<>>
  /\ worker' = IF worker = "generating" THEN "left" ELSE "none"
  /\ made' = 0
  /\ greet' = "undecided"
  /\ playing' = <<>>
  /\ UNCHANGED <<threadVars, voice>>

(* The clip cannot be unlinked, or its failure not be recorded. *)
PlayRaises ==
  /\ playing # <<>>
  /\ SpeakLeft
  /\ heard' = Append(heard, <<entry, Head(playing)>>) \/ UNCHANGED heard

(* The greeting that nobody wanted cannot be unlinked. *)
GreetingRaises ==
  /\ playing = <<>>
  /\ clips # <<>>
  /\ Head(clips) = 0
  /\ greet # "yes"
  /\ SpeakLeft
  /\ UNCHANGED heard

(* The sentinel: the worker is joined, the line is logged and the tables   *)
(* are told, or the log refuses the line and they are not.                 *)
LoopDone ==
  /\ playing = <<>>
  /\ clips # <<>>
  /\ Head(clips) = LastClip
  /\ SpeakLeft
  /\ UNCHANGED heard

Time == Tick /\ UNCHANGED serviceVars

-----------------------------------------------------------------------------
Submit(c) == SubmitPut(c) \/ SubmitClear(c) \/ SubmitUnlogged(c) \/ SubmitWake(c)

ServeLoop ==
  \/ LoopGet \/ LoopExpire \/ LoopScan \/ LoopUnlogged \/ LoopTake \/ LoopSpeak
  \/ LoopEmpty \/ LoopIdle
  \/ NextClip \/ PlayEnd \/ PlayRaises \/ GreetingRaises \/ LoopDone

Worker == ApplyVoice \/ Generate \/ GenerateEnd \/ WorkerDies

Boot == Start \/ Recovering \/ Serving

ServiceNext ==
  (\E c \in Calls : Submit(c)) \/ ServeLoop \/ Worker \/ Boot \/ StopCall \/ Die
  \/ Time \/ LeftEnd

(* The threads of a live process go on, recovery is begun by systemd       *)
(* (Restart=on-failure), the player is bounded by its timeout.  Nobody     *)
(* must call, stop or die, and the clock need not advance.                 *)
Fairness ==
  /\ \A c \in Calls : WF_allVars(put[c] # "none" /\ Submit(c))
  /\ WF_allVars(ServeLoop)
  /\ WF_allVars(Worker)
  /\ WF_allVars(Boot)

ServiceSpec == ServiceInit /\ [][ServiceNext]_allVars

FairServiceSpec == ServiceSpec /\ Fairness

-----------------------------------------------------------------------------
ServiceTypeOK ==
  /\ TypeOK
  /\ answer \in [Calls -> {"none", "cleared", "yes", "no", "lost"}]
  /\ incoming \in Seq({WAKE, STOP})
  /\ idle \in BOOLEAN
  /\ stopping \in BOOLEAN
  /\ loop \in {"off", "get", "woken", "expiring", "taking", "speaking", "drain",
               "empty", "ended", "dead"}
  /\ worker \in {"none", "starting", "generating", "ended", "dead", "left"}
  /\ voice \in Calls \cup {NoEntry}
  /\ made \in Nat
  /\ clips \in Seq(Nat \cup {LastClip})
  /\ greet \in {"undecided", "yes", "no"}
  /\ playing \in Seq(Nat)
  /\ heard \in Seq(Calls \X Nat)

(* The service uses the spool as module Spool has it used, so what is      *)
(* proved of Spool holds in the service.                                   *)
UsesSpool == Spec

(* FR-4.4, FR-4.3: what is heard of a submission is heard in the order of  *)
(* its messages, the greeting first, with nothing of another in between.   *)
SpokenWhole ==
  \A i, j \in DOMAIN heard : i < j /\ heard[i][1] = heard[j][1] =>
    /\ heard[i][2] < heard[j][2]
    /\ \A k \in i..j : heard[k][1] = heard[i][1]

(* FR-4.3 and FR-7.2 at the speaker: a submission is not heard before one  *)
(* that had been accepted when it was made.                                *)
HeardInOrder ==
  \A i, j \in DOMAIN heard : i < j => heard[j][1] \notin before[heard[i][1]]

(* FR-10.2: the generator that renders a submission is set to the voice of *)
(* that submission, though workers of others that were left behind by an   *)
(* exception, and the serve thread's rereads, share it.  (A voice kokoro   *)
(* does not know counts as set here.)                                      *)
RenderedInOwnVoice == worker = "generating" => voice = entry

(* docs/SPEC.md:330-334: a single worker runs ahead of the player, since   *)
(* nothing says that a pipeline may be called concurrently.                *)
OneWorker == [][LoopSpeak => worker # "left"]_allVars

(* A thread has ended of an exception that nothing catches, and what is    *)
(* left waits for the watchdog (module Watchdog).                          *)
Stuck == loop = "dead" \/ worker = "dead"

(* What is accepted and neither spoken nor discarded, nor refused to its   *)
(* caller after all.                                                       *)
Backlog ==
  {c \in Calls :
     put[c] = "accepted" /\ answer[c] # "no" /\ fate[c] \in {"none", "speaking"}}

(* FR-4.5, FR-4.6, FR-4.9: whatever is accepted is, in the end, spoken or  *)
(* discarded, unless the service is told to stop, the caller is told that  *)
(* it failed, or a log that refuses a line has ended a thread: no wakeup is*)
(* lost between submit() and the serve thread, and the playing meets its   *)
(* sentinel or is left by an exception.                                    *)
Settled == Backlog # {} ~> Backlog = {} \/ stopping \/ Stuck

(* wait_idle() returns: an idle event that was cleared is set again, but   *)
(* for a stop or a thread that has ended.                                  *)
IdleReturns == ~idle ~> idle \/ stopping \/ Stuck
=============================================================================
