--------------------------- MODULE ServiceProofs ---------------------------
(***************************************************************************)
(* The service uses the spool as Spool has it used, so that what is proved *)
(* of Spool holds in the service; the shared generator renders each        *)
(* submission in its own voice; what the threads share is of its type; and *)
(* submissions are heard whole and in the order of their acceptance.       *)
(***************************************************************************)
EXTENDS Service, SpoolProofs, SequenceTheorems

(* Where the serve thread is, against the scan it has in progress and what *)
(* it owes the log.                                                        *)
LoopInv ==
  /\ loop # "off" => mode = "up"
  /\ loop \notin {"off", "expiring", "dead"} => owed = {}
  /\ loop = "expiring" => scan \in {"expired", "none"}
  /\ loop = "taking" => scan = "take"
  /\ loop \notin {"off", "expiring", "taking"} => scan = "none"

(* The sentinel is the last clip, and is there once the worker has ended.  *)
ClipsInv ==
  /\ clips \in Seq(Int)
  /\ worker \in {"none", "starting", "generating", "ended", "dead", "left"}
  /\ made \in Nat
  /\ loop = "speaking" => worker \notin {"none", "left"}
  /\ worker # "ended" => \A i \in 1..Len(clips) : clips[i] # LastClip
  /\ loop = "speaking" /\ worker = "ended" =>
       /\ clips # <<>>
       /\ \A i \in 1..Len(clips) : clips[i] = LastClip <=> i = Len(clips)

(* Between submissions no clip is left to be played, and no worker but one *)
(* that was left behind.                                                   *)
LeftBehind ==
  loop # "speaking" =>
    worker \in {"none", "left"} /\ clips = <<>> /\ playing = <<>>

SInv == LoopInv /\ ClipsInv /\ LeftBehind

LEMMA ServiceInitHolds == ServiceInit => Init /\ SInv /\ RenderedInOwnVoice
  BY DEF ServiceInit, Init, SInv, LoopInv, ClipsInv, LeftBehind, RenderedInOwnVoice

(* The three ways out of _speak() that end the attempt at its entry. *)
LEMMA LeavesSpeaking ==
  PlayRaises \/ GreetingRaises \/ LoopDone => SpeakLeft
  BY DEF PlayRaises, GreetingRaises, LoopDone

LEMMA LoopStep ==
  ASSUME LoopInv, [ServiceNext]_allVars
  PROVE  LoopInv'
<1> USE DEF LoopInv, serviceVars, threadVars, speakVars, diskVars, putVars,
            scanVars, vars
<1>1. ASSUME NEW c \in Calls, Submit(c) PROVE LoopInv'
  BY <1>1 DEF Submit, SubmitPut, SubmitClear, SubmitUnlogged, SubmitWake, PutCall, PutNumber,
              PutWrite, PutFail, PutReturn
<1>2. CASE LoopGet \/ LoopIdle \/ NextClip \/ PlayEnd
  BY <1>2 DEF LoopGet, LoopIdle, NextClip, PlayEnd
<1>3. CASE LoopExpire \/ LoopTake \/ LoopUnlogged
  BY <1>3 DEF LoopExpire, LoopTake, LoopUnlogged, TakeExpiredBegin, TakeBegin,
              ScanBegin
<1>4. CASE LoopScan
  BY <1>4 DEF LoopScan, ScanRead, ScanUnlink, ScanEnd, RecordDiscard
<1>5. CASE LoopSpeak \/ LoopEmpty \/ SpeakLeft
  BY <1>5 DEF LoopSpeak, LoopEmpty, SpeakLeft, TakeRename, ScanEnd, Done
<1>6. CASE Worker \/ LeftEnd
  BY <1>6 DEF Worker, ApplyVoice, Generate, GenerateEnd, WorkerDies, LeftEnd
<1>7. CASE Boot
  BY <1>7 DEF Boot, Start, Recovering, Serving, Recover, Recovered, ScanRead,
              ScanUnlink, ScanEnd, RecordDiscard
<1>8. CASE StopCall \/ Die \/ Time
  BY <1>8 DEF StopCall, Die, Time, Crash, Tick
<1>9. CASE UNCHANGED allVars
  BY <1>9 DEF allVars
<1> QED
  BY <1>1, <1>2, <1>3, <1>4, <1>5, <1>6, <1>7, <1>8, <1>9, LeavesSpeaking
     DEF ServiceNext, ServeLoop

(* Every step of the service is a step of the spool, or none. *)
LEMMA StepUsesSpool ==
  ASSUME LoopInv, [ServiceNext]_allVars
  PROVE  [Next]_vars
<1> USE DEF LoopInv, Next, Serve
<1>1. ASSUME NEW c \in Calls, Submit(c) PROVE [Next]_vars
  BY <1>1 DEF Submit, SubmitPut, SubmitClear, SubmitUnlogged, SubmitWake, Put
<1>2. CASE LoopGet \/ LoopIdle \/ LoopUnlogged \/ NextClip \/ PlayEnd \/ Worker
           \/ LeftEnd \/ StopCall
  BY <1>2 DEF LoopGet, LoopIdle, LoopUnlogged, NextClip, PlayEnd, Worker, ApplyVoice,
              Generate, GenerateEnd, WorkerDies, LeftEnd, StopCall
<1>3. CASE LoopExpire \/ LoopTake
  BY <1>3 DEF LoopExpire, LoopTake, TakeExpiredBegin, TakeBegin
<1>4. CASE LoopScan \/ Boot
  BY <1>4 DEF LoopScan, Boot, Start, Recovering, Serving
<1>5. CASE LoopSpeak \/ LoopEmpty \/ SpeakLeft
  BY <1>5 DEF LoopSpeak, LoopEmpty, SpeakLeft
<1>6. CASE Die \/ Time
  BY <1>6 DEF Die, Time
<1>7. CASE UNCHANGED allVars
  BY <1>7 DEF allVars
<1> QED
  BY <1>1, <1>2, <1>3, <1>4, <1>5, <1>6, <1>7, LeavesSpeaking
     DEF ServiceNext, ServeLoop

(* The clips reach the sentinel once the worker has ended, and not before. *)
LEMMA ClipsStep ==
  ASSUME SInv, [ServiceNext]_allVars
  PROVE  ClipsInv' /\ LeftBehind'
<1> USE DEF SInv, LoopInv, ClipsInv, LeftBehind, LastClip, serviceVars,
            threadVars, speakVars, vars
<1>1. ASSUME NEW c \in Calls, Submit(c) PROVE ClipsInv' /\ LeftBehind'
  BY <1>1 DEF Submit, SubmitPut, SubmitClear, SubmitUnlogged, SubmitWake
<1>2. CASE LoopGet \/ LoopExpire \/ LoopScan \/ LoopTake \/ LoopEmpty \/ LoopIdle
           \/ LoopUnlogged
  BY <1>2 DEF LoopGet, LoopExpire, LoopScan, LoopTake, LoopEmpty, LoopIdle,
              LoopUnlogged
<1>3. CASE LoopSpeak
  BY <1>3 DEF LoopSpeak
<1>4. CASE Generate
  <2>1. CASE UNCHANGED clips
    BY <1>4, <2>1 DEF Generate
  <2>2. CASE clips' = Append(clips, made)
    <3>1. clips \in Seq(Int) /\ made \in Int /\ Len(clips) \in Nat
      BY LenProperties
    <3>2. /\ clips' \in Seq(Int) /\ Len(clips') = Len(clips) + 1
          /\ clips'[Len(clips) + 1] = made
          /\ \A i \in 1..Len(clips) : clips'[i] = clips[i]
      BY ONLY <2>2, <3>1, AppendProperties
    <3>3. \A i \in 1..Len(clips) : clips[i] # -1
      BY <1>4 DEF Generate
    <3>4. made \in Nat
      OBVIOUS
    <3>5. \A i \in 1..Len(clips') : clips'[i] # -1
      BY ONLY <3>1, <3>2, <3>3, <3>4
    <3> QED BY <1>4, <3>2, <3>5 DEF Generate
  <2> QED BY <1>4, <2>1, <2>2 DEF Generate
<1>5. CASE GenerateEnd
  <2>1. clips \in Seq(Int) /\ -1 \in Int /\ Len(clips) \in Nat
    BY LenProperties
  <2>2. /\ clips' = Append(clips, -1) /\ worker = "generating" /\ worker' = "ended"
        /\ loop' = loop /\ made' = made
    BY <1>5 DEF GenerateEnd
  <2>3. /\ clips' \in Seq(Int) /\ Len(clips') = Len(clips) + 1
        /\ clips'[Len(clips) + 1] = -1
        /\ \A i \in 1..Len(clips) : clips'[i] = clips[i]
    BY ONLY <2>1, <2>2, AppendProperties
  <2>4. clips' # <<>>
    BY ONLY <2>1, <2>3, EmptySeq
  <2>5. \A i \in 1..Len(clips) : clips[i] # -1
    BY <2>2
  <2>6. \A i \in 1..Len(clips') : clips'[i] = -1 <=> i = Len(clips')
    BY ONLY <2>1, <2>3, <2>5
  <2>7. loop = "speaking"
    BY <2>2
  <2> QED BY <2>2, <2>3, <2>4, <2>6, <2>7
<1>6. CASE NextClip
  <2>1. clips \in Seq(Int) /\ clips # <<>> /\ clips' = Tail(clips)
    BY <1>6 DEF NextClip
  <2>2. /\ clips' \in Seq(Int)
        /\ Len(clips') = Len(clips) - 1
        /\ \A i \in 1..Len(clips') : clips'[i] = clips[i + 1]
    BY ONLY <2>1, HeadTailProperties, Zenon
  <2>3. /\ loop = "speaking" /\ loop' = loop /\ worker' = worker
        /\ made' = made /\ clips[1] # LastClip
    BY <1>6 DEF NextClip
  <2>4. Len(clips) \in Nat /\ Len(clips') \in Nat
    BY ONLY <2>1, <2>2, LenProperties
  <2>5. worker = "ended" => Len(clips) # 1
    BY <2>3, <2>4
  <2>6. worker = "ended" => clips' # <<>>
    <3>1. worker = "ended" => Len(clips') # 0
      BY ONLY <2>2, <2>4, <2>5
    <3>2. Len(<<>>) = 0
      OBVIOUS
    <3> QED BY ONLY <3>1, <3>2
  <2>7. worker = "generating" =>
          \A i \in 1..Len(clips') : clips'[i] # LastClip
    BY <2>2, <2>4
  <2>8. worker = "ended" =>
          \A i \in 1..Len(clips') : clips'[i] = LastClip <=> i = Len(clips')
    BY <2>2, <2>3, <2>4
  <2>9. ClipsInv'
    BY ONLY <2>2, <2>3, <2>6, <2>7, <2>8, ClipsInv DEF ClipsInv, LastClip
  <2>10. LeftBehind'
    BY <2>3
  <2> QED BY <2>9, <2>10, Zenon
<1>7. CASE SpeakLeft
  <2>1. /\ clips' = <<>> /\ playing' = <<>> /\ loop' # "speaking"
        /\ worker' \in {"none", "left"} /\ made' = 0
    BY <1>7 DEF SpeakLeft
  <2>2. clips' \in Seq(Int) /\ Len(clips') = 0
    BY <2>1
  <2> QED BY <2>1, <2>2
<1>8. CASE PlayEnd \/ StopCall \/ Die \/ Time
  <2>1. CASE PlayEnd
    BY <2>1 DEF PlayEnd
  <2>2. CASE StopCall
    BY <2>2 DEF StopCall
  <2>3. CASE Die
    BY <2>3 DEF Die
  <2>4. CASE Time
    BY <2>4 DEF Time
  <2> QED BY <1>8, <2>1, <2>2, <2>3, <2>4
<1>9. CASE Boot
  <2>1. CASE Start \/ Recovering
    BY <2>1 DEF Start, Recovering
  <2>2. CASE Serving
    BY <2>2 DEF Serving, Recovered
  <2> QED BY <1>9, <2>1, <2>2 DEF Boot
<1>10. CASE ApplyVoice \/ WorkerDies \/ LeftEnd
  BY <1>10 DEF ApplyVoice, WorkerDies, LeftEnd
<1>11. CASE UNCHANGED allVars
  BY <1>11 DEF allVars
<1> QED
  BY <1>1, <1>2, <1>3, <1>4, <1>5, <1>6, <1>7, <1>8, <1>9, <1>10, <1>11,
     LeavesSpeaking
     DEF ServiceNext, ServeLoop, Worker

(* service.py uses spool.py through the steps of Spool alone: the serve    *)
(* thread scans, speaks and removes in the order Spool allows.             *)
THEOREM ServiceUsesSpool == ServiceSpec => UsesSpool
<1>1. LoopInv /\ [ServiceNext]_allVars => LoopInv' /\ [Next]_vars
  BY LoopStep, StepUsesSpool
<1> QED
  BY ServiceInitHolds, <1>1, PTL DEF ServiceSpec, UsesSpool, Spec, SInv

(* FR-4.3, FR-4.4, FR-4.8, FR-7.2 of the composed service: the queue of    *)
(* files, with the threads that fill and empty it, is SpeechQueue.         *)
THEOREM ServiceImplementsQueue ==
  Overlap = FALSE => (ServiceSpec => QueueSpec)
  BY ServiceUsesSpool, Implements DEF UsesSpool

(* The generator keeps the voice of the entry from _apply_voice() to the   *)
(* sentinel: nobody sets it while a worker renders, and where a submission *)
(* is left early the next one's worker sets its own.                       *)
LEMMA VoiceStep ==
  ASSUME SInv, RenderedInOwnVoice, [ServiceNext]_allVars
  PROVE  RenderedInOwnVoice'
<1> USE DEF SInv, LoopInv, LeftBehind, RenderedInOwnVoice, serviceVars, threadVars,
            speakVars, diskVars, putVars, scanVars, vars
<1>1. ASSUME NEW c \in Calls, Submit(c) PROVE RenderedInOwnVoice'
  BY <1>1 DEF Submit, SubmitPut, SubmitClear, SubmitUnlogged, SubmitWake, PutCall,
              PutNumber, PutWrite, PutFail, PutReturn
<1>2. CASE LoopGet \/ LoopIdle \/ LoopUnlogged \/ NextClip \/ PlayEnd \/ LoopEmpty
  BY <1>2 DEF LoopGet, LoopIdle, LoopUnlogged, NextClip, PlayEnd, LoopEmpty, ScanEnd
<1>3. CASE LoopExpire \/ LoopTake \/ LoopScan
  BY <1>3 DEF LoopExpire, LoopTake, LoopScan, TakeExpiredBegin, TakeBegin, ScanBegin,
              ScanRead, ScanUnlink, ScanEnd, RecordDiscard
<1>4. CASE LoopSpeak \/ SpeakLeft
  BY <1>4 DEF LoopSpeak, SpeakLeft
<1>5. CASE Worker \/ LeftEnd
  BY <1>5 DEF Worker, ApplyVoice, Generate, GenerateEnd, WorkerDies, LeftEnd
<1>6. CASE Boot
  BY <1>6 DEF Boot, Start, Recovering, Serving, Recover, Recovered, ScanRead,
              ScanUnlink, ScanEnd, RecordDiscard
<1>7. CASE StopCall \/ Die \/ Time
  BY <1>7 DEF StopCall, Die, Time, Tick
<1>8. CASE UNCHANGED allVars
  BY <1>8 DEF allVars
<1> QED
  BY <1>1, <1>2, <1>3, <1>4, <1>5, <1>6, <1>7, <1>8, LeavesSpeaking
     DEF ServiceNext, ServeLoop

(* FR-10.2 over _apply_voice(), _refresh_config() and the ways out of      *)
(* _speak(): the generator that is shared renders each submission in its   *)
(* own voice, left-behind workers and rereads of the config notwithstanding.*)
THEOREM EachInItsOwnVoice == ServiceSpec => []RenderedInOwnVoice
<1>1. SInv /\ [ServiceNext]_allVars => SInv'
  BY LoopStep, ClipsStep DEF SInv
<1>2. SInv /\ RenderedInOwnVoice /\ [ServiceNext]_allVars => RenderedInOwnVoice'
  BY VoiceStep
<1> QED BY ServiceInitHolds, <1>1, <1>2, PTL DEF ServiceSpec

(* worker.join(), service.py:483: where _speak() meets the sentinel nothing *)
(* of the submission is left, neither a clip nor a worker.  An exception is *)
(* the only way to leave one behind.                                        *)
THEOREM OnlyExceptionsLeaveWorkers ==
  ServiceSpec => [][LoopDone => worker = "ended" /\ Len(clips) = 1]_allVars
<1>1. SInv /\ [ServiceNext]_allVars => SInv'
  BY LoopStep, ClipsStep DEF SInv
<1>2. ASSUME SInv, LoopDone PROVE worker = "ended" /\ Len(clips) = 1
  <2>1. /\ clips \in Seq(Int) /\ clips # <<>> /\ clips[1] = LastClip
        /\ loop = "speaking"
    BY <1>2 DEF LoopDone, SpeakLeft, SInv, ClipsInv
  <2>2. 1 \in 1..Len(clips)
    BY ONLY <2>1, LenProperties, EmptySeq
  <2>3. worker = "ended"
    BY <1>2, <2>1, <2>2 DEF SInv, ClipsInv
  <2> QED BY <1>2, <2>1, <2>2, <2>3 DEF SInv, ClipsInv
<1>3. SInv => [LoopDone => worker = "ended" /\ Len(clips) = 1]_allVars
  BY <1>2
<1> QED BY ServiceInitHolds, <1>1, <1>3, PTL DEF ServiceSpec

-----------------------------------------------------------------------------
\* Types

(* What the threads share is of its type, and there is an entry to speak   *)
(* as long as the serve thread speaks.                                     *)
ThreadTypes ==
  /\ answer \in [Calls -> {"none", "cleared", "yes", "no", "lost"}]
  /\ incoming \in Seq({WAKE, STOP})
  /\ idle \in BOOLEAN /\ stopping \in BOOLEAN
  /\ loop \in {"off", "get", "woken", "expiring", "taking", "speaking", "drain",
               "empty", "ended", "dead"}
  /\ voice \in Calls \cup {NoEntry}
  /\ clips \in Seq(Nat \cup {LastClip})
  /\ greet \in {"undecided", "yes", "no"}
  /\ playing \in Seq(Nat)
  /\ heard \in Seq(Calls \X Nat)
  /\ loop = "speaking" => entry # NoEntry

LEMMA ThreadInit == ServiceInit => ThreadTypes
<1> SUFFICES ASSUME ServiceInit PROVE ThreadTypes
  OBVIOUS
<1>1. \A S : <<>> \in Seq(S)
  OBVIOUS
<1>2. answer \in [Calls -> {"none", "cleared", "yes", "no", "lost"}]
  BY DEF ServiceInit
<1> QED BY <1>1, <1>2 DEF ServiceInit, ThreadTypes

(* A sequence stays of its elements when one is added or the first taken.  *)
LEMMA QueueTypes ==
  ASSUME NEW S, NEW q \in Seq(S)
  PROVE  /\ \A x \in S : Append(q, x) \in Seq(S)
         /\ q # <<>> => Head(q) \in S /\ Tail(q) \in Seq(S)
  BY AppendProperties, HeadTailProperties

LEMMA ThreadStep ==
  ASSUME TypeOK, SInv, ThreadTypes, [ServiceNext]_allVars
  PROVE  ThreadTypes'
<1>0. ASSUME incoming' = incoming \/ (\E m \in {WAKE, STOP} : incoming' = Append(incoming, m))
      PROVE  incoming' \in Seq({WAKE, STOP})
  BY <1>0, QueueTypes DEF ThreadTypes
<1> USE DEF ThreadTypes, serviceVars, threadVars, speakVars, diskVars, putVars,
            scanVars, vars
<1>1. ASSUME NEW c \in Calls, Submit(c) PROVE ThreadTypes'
  <2>1. incoming' \in Seq({WAKE, STOP})
    BY <1>1, <1>0 DEF Submit, SubmitPut, SubmitClear, SubmitUnlogged, SubmitWake
  <2> QED BY <1>1, <2>1 DEF Submit, SubmitPut, SubmitClear, SubmitUnlogged, SubmitWake,
             PutCall, PutNumber, PutWrite, PutFail, PutReturn
<1>2. CASE LoopGet
  <2>1. incoming' \in Seq({WAKE, STOP})
    BY <1>2, QueueTypes DEF LoopGet
  <2> QED BY <1>2, <2>1 DEF LoopGet
<1>3. CASE LoopExpire \/ LoopTake \/ LoopUnlogged
  BY <1>3 DEF LoopExpire, LoopTake, LoopUnlogged, TakeExpiredBegin, TakeBegin, ScanBegin
<1>4. CASE LoopScan
  BY <1>4 DEF LoopScan, ScanRead, ScanUnlink, ScanEnd, RecordDiscard
<1>5. CASE LoopSpeak
  BY <1>5 DEF LoopSpeak, TakeRename
<1>6. CASE LoopEmpty \/ LoopIdle
  BY <1>6 DEF LoopEmpty, LoopIdle, ScanEnd
<1>7. CASE Worker
  <2>1. made \in Nat
    BY DEF SInv, ClipsInv
  <2>2. \/ clips' = clips
        \/ \E x \in Nat \cup {LastClip} : clips' = Append(clips, x)
    BY <1>7, <2>1 DEF Worker, ApplyVoice, Generate, GenerateEnd, WorkerDies
  <2>3. clips' \in Seq(Nat \cup {LastClip})
    <3>1. clips \in Seq(Nat \cup {LastClip})
      OBVIOUS
    <3> QED BY ONLY <2>2, <3>1, QueueTypes
  <2>4. voice' \in Calls \cup {NoEntry}
    BY <1>7 DEF Worker, ApplyVoice, Generate, GenerateEnd, WorkerDies, TypeOK
  <2> QED BY <1>7, <2>3, <2>4 DEF Worker, ApplyVoice, Generate, GenerateEnd, WorkerDies
<1>8. CASE NextClip
  <2>1. Head(clips) \in Nat /\ clips' \in Seq(Nat \cup {LastClip})
    BY <1>8, QueueTypes DEF NextClip
  <2>2. playing' \in Seq(Nat)
    BY <1>8, <2>1 DEF NextClip
  <2> QED BY <1>8, <2>1, <2>2 DEF NextClip
<1>9. CASE PlayEnd
  <2>1. entry \in Calls /\ Head(playing) \in Nat
    BY <1>9, QueueTypes DEF PlayEnd, TypeOK, SInv, LeftBehind
  <2>2. <<entry, Head(playing)>> \in Calls \X Nat
    BY <2>1
  <2>3. heard' = heard \/ (\E x \in Calls \X Nat : heard' = Append(heard, x))
    BY <1>9, <2>2 DEF PlayEnd
  <2>4. heard' \in Seq(Calls \X Nat)
    <3>1. heard \in Seq(Calls \X Nat)
      OBVIOUS
    <3> QED BY ONLY <2>3, <3>1, QueueTypes
  <2> QED BY <1>9, <2>4 DEF PlayEnd
<1>10. CASE PlayRaises \/ GreetingRaises \/ LoopDone
  <2>1. SpeakLeft
    BY <1>10, LeavesSpeaking
  <2>2. entry \in Calls
    BY <2>1 DEF SpeakLeft, TypeOK
  <2>3. PlayRaises => <<entry, Head(playing)>> \in Calls \X Nat
    BY <2>2, QueueTypes DEF PlayRaises
  <2>4. heard' = heard \/ (\E x \in Calls \X Nat : heard' = Append(heard, x))
    BY <1>10, <2>3 DEF PlayRaises, GreetingRaises, LoopDone
  <2>5. heard' \in Seq(Calls \X Nat)
    <3>1. heard \in Seq(Calls \X Nat)
      OBVIOUS
    <3> QED BY ONLY <2>4, <3>1, QueueTypes
  <2>6. \A S : <<>> \in Seq(S)
    OBVIOUS
  <2> QED BY <2>1, <2>5, <2>6 DEF SpeakLeft
<1>11. CASE Boot
  <2>1. incoming' \in Seq({WAKE, STOP})
    BY <1>11, <1>0 DEF Boot, Start, Recovering, Serving
  <2> QED BY <1>11, <2>1 DEF Boot, Start, Recovering, Serving, Recover, Recovered,
             ScanRead, ScanUnlink, ScanEnd, RecordDiscard
<1>12. CASE StopCall
  <2>1. incoming' \in Seq({WAKE, STOP})
    BY <1>12, <1>0 DEF StopCall
  <2> QED BY <1>12, <2>1 DEF StopCall
<1>13. CASE Die
  <2>1. \A S : <<>> \in Seq(S)
    OBVIOUS
  <2>2. answer' \in [Calls -> {"none", "cleared", "yes", "no", "lost"}]
    BY <1>13 DEF Die
  <2> QED BY <1>13, <2>1, <2>2 DEF Die
<1>14. CASE Time \/ LeftEnd \/ UNCHANGED allVars
  BY <1>14 DEF Time, Tick, LeftEnd, allVars
<1> HIDE DEF ThreadTypes
<1> QED
  BY <1>1, <1>2, <1>3, <1>4, <1>5, <1>6, <1>7, <1>8, <1>9, <1>10, <1>11, <1>12, <1>13, <1>14
     DEF ServiceNext, ServeLoop

(* Every value of the service has its type, whoever calls and whenever it  *)
(* dies: whatever plays is of an entry that is there to be spoken.         *)
THEOREM ServiceTypes == ServiceSpec => []ServiceTypeOK
<1>1. SInv /\ [ServiceNext]_allVars => SInv'
  BY LoopStep, ClipsStep DEF SInv
<1>2. ServiceSpec => []TypeOK
  BY ServiceUsesSpool, TypeCorrect DEF UsesSpool
<1>3. TypeOK /\ SInv /\ ThreadTypes /\ [ServiceNext]_allVars => ThreadTypes'
  BY ThreadStep
<1>4. TypeOK /\ SInv /\ ThreadTypes => ServiceTypeOK
  BY DEF SInv, ClipsInv, ThreadTypes, ServiceTypeOK
<1> QED BY ServiceInitHolds, ThreadInit, <1>1, <1>2, <1>3, <1>4, PTL DEF ServiceSpec

-----------------------------------------------------------------------------
\* What is heard

(* A submission that was taken to be spoken, whatever came of it. *)
Sounded(c) == fate[c] \in {"speaking", "spoken", "interrupted"}

(* A submission whose file has been taken, its own or the one that replaced *)
(* what was read, or that was taken to be spoken.                          *)
Gone(c) == c \in taken \/ Sounded(c)

(* Nothing accepted before a submission was made waits once that is gone,  *)
(* or is taken after it.  What the scan has read is numbered below what    *)
(* was begun after it was accepted, whatever its path holds by now.        *)
TakenInTurn ==
  \A c \in Calls :
    /\ c \notin before[c]
    /\ Gone(c) => before[c] \cap waiting = {}
    /\ Gone(c) => held \notin before[c]
    /\ Gone(c) /\ entry # c => entry \notin before[c]
    /\ held \in before[c] /\ (put[c] = "numbered" \/ c \in waiting)
         => seq[held] < seq[c]

(* Every clip still to be rendered or queued is of a later text than n. *)
StillAhead(n) ==
  n < made /\ \A j \in 1..Len(clips) : clips[j] # LastClip => n < clips[j]

(* What was heard is of submissions taken, that of the entry comes last    *)
(* and is followed by what is on the speaker and then by the clips.        *)
HeardInv ==
  /\ heard \in Seq(Calls \X Int)
  /\ \A i \in 1..Len(heard) : Sounded(heard[i][1])
  /\ playing = <<>> \/ (playing \in Seq(Int) /\ Len(playing) = 1 /\ StillAhead(playing[1]))
  /\ \A i \in 1..Len(clips) : clips[i] < made
  /\ \A i, j \in 1..Len(clips) : i < j /\ clips[j] # LastClip => clips[i] < clips[j]
  /\ loop = "speaking" => entry \in Calls
  /\ loop = "speaking" => \A i \in 1..Len(heard) : heard[i][1] = entry =>
       /\ \A k \in i..Len(heard) : heard[k][1] = entry
       /\ StillAhead(heard[i][2])
       /\ playing # <<>> => heard[i][2] < playing[1]
  /\ SpokenWhole
  /\ HeardInOrder

LEMMA TurnInit == Init => TakenInTurn
  BY DEF Init, TakenInTurn, Gone, Sounded

(* The file take() renames has the first path of those to visit, so who    *)
(* was accepted before it was begun is out of the queue; and what was read *)
(* at that path was not accepted before what is there now was begun.       *)
LEMMA TakeTurn ==
  ASSUME OrderInv, TakenInTurn, TakeRename
  PROVE  TakenInTurn'
<1> USE SpoolAssumption DEF putVars
<1>1. TypeOK /\ WrittenFirst /\ ScanIsOfPaths /\ AheadIsFirst
  BY DEF OrderInv
<1>2. /\ held \in Calls /\ entry' = held /\ held' = NoEntry
      /\ scan = "take"
      /\ fate' = [fate EXCEPT ![held] = "speaking"]
      /\ waiting' \subseteq waiting
      /\ taken' \subseteq taken \cup At(waiting, Path(held))
      /\ UNCHANGED <<before, put, seq>>
  BY <1>1 DEF TakeRename, TypeOK
<1>3. /\ IsFirst(Path(held), unseen)
      /\ before[held] \cap waiting = {}
  BY <1>1, <1>2 DEF ScanIsOfPaths, AheadIsFirst
<1>4. ASSUME NEW c \in Calls, c \in At(waiting, Path(held))
      PROVE  before[c] \cap waiting = {} /\ held \notin before[c]
  <2>1. c \in waiting /\ Path(c) = Path(held) /\ seq[c] = seq[held]
    BY <1>4 DEF At, Path
  <2>2. ASSUME NEW d \in before[c] \cap waiting PROVE FALSE
    <3>1. d \in Calls /\ seq[d] < seq[c] /\ Path(d) \in unseen
      BY <1>1, <1>2, <1>3, <2>1, <2>2 DEF AheadIsFirst, TypeOK, IsFirst
    <3>2. seq[d] \in Nat /\ seq[held] \in Nat
      BY <1>1, <1>2, <3>1 DEF TypeOK
    <3> QED BY <1>3, <2>1, <3>1, <3>2 DEF IsFirst, Precedes, Path
  <2>3. held \notin before[c]
    BY <1>1, <1>2, <2>1 DEF TakenInTurn, TypeOK
  <2> QED BY <2>2, <2>3
<1>5. \A c \in Calls : NoEntry \notin before[c]
  BY <1>1 DEF TypeOK
<1> SUFFICES ASSUME NEW c \in Calls
             PROVE  /\ c \notin before[c]
                    /\ Gone(c)' => before[c] \cap waiting' = {}
                    /\ Gone(c)' /\ c # held => held \notin before[c]
  BY <1>2, <1>5 DEF TakenInTurn
<1>6. Gone(c)' => Gone(c) \/ c = held \/ c \in At(waiting, Path(held))
  BY <1>1, <1>2 DEF Gone, Sounded, TypeOK
<1> QED BY <1>2, <1>3, <1>4, <1>6 DEF TakenInTurn

(* The order of the queue, seen from what was taken. *)
LEMMA TurnStep ==
  ASSUME OrderInv, TakenInTurn, [Next]_vars
  PROVE  TakenInTurn'
<1> USE SpoolAssumption DEF TakenInTurn, Gone, Sounded, putVars, diskVars, scanVars
<1>1. /\ TypeOK /\ WrittenFirst /\ ThreadByMode /\ ScanIsOfPaths
      /\ AheadIsFirst
  BY DEF OrderInv
<1>2. ASSUME NEW d \in Calls, PutCall(d) PROVE TakenInTurn'
  BY <1>1, <1>2 DEF PutCall, TypeOK, WrittenFirst
<1>3. ASSUME NEW d \in Calls, PutWrite(d) PROVE TakenInTurn'
  BY <1>1, <1>3 DEF PutWrite, TypeOK, AheadIsFirst
<1>4. ASSUME NEW d \in Calls, PutNumber(d) PROVE TakenInTurn'
  <2>1. held # NoEntry => \E e \in waiting : seq[e] = seq[held]
    BY <1>1 DEF ScanIsOfPaths, IsFirst, Paths, Path
  <2>2. \A e \in waiting : seq[e] < seq'[d]
    BY <1>1, <1>4 DEF PutNumber, NextSequence, TypeOK
  <2>3. d \notin waiting /\ held # d
    BY <1>1, <1>4 DEF PutNumber, WrittenFirst, ScanIsOfPaths
  <2>4. \A c \in Calls \ {d} : seq'[c] = seq[c] /\ put'[c] = put[c]
    BY <1>1, <1>4 DEF PutNumber, TypeOK
  <2>5. \A c \in Calls : NoEntry \notin before[c] /\ held \in Calls \cup {NoEntry}
    BY <1>1 DEF TypeOK
  <2>6. UNCHANGED <<before, taken, waiting, fate, entry, held>>
    BY <1>4 DEF PutNumber
  <2> QED BY <2>1, <2>2, <2>3, <2>4, <2>5, <2>6
<1>5. ASSUME NEW d \in Calls, PutFail(d) \/ PutReturn(d)
      PROVE  TakenInTurn'
  BY <1>1, <1>5 DEF PutFail, PutReturn, TypeOK
<1>6. CASE TakeExpiredBegin \/ TakeBegin \/ ScanEnd \/ Recovered
  BY <1>6 DEF TakeExpiredBegin, TakeBegin, ScanBegin, ScanEnd, Recovered
<1>7. CASE ScanRead
  BY <1>1, <1>7 DEF ScanRead, AheadIsFirst, TypeOK
<1>8. CASE ScanUnlink
  BY <1>1, <1>8 DEF ScanUnlink, TypeOK
<1>9. CASE TakeRename
  BY <1>9, TakeTurn
<1>10. CASE Done
  BY <1>1, <1>10 DEF Done, TypeOK, ThreadByMode
<1>11. CASE Recover
  BY <1>1, <1>11 DEF Recover, TypeOK, ThreadByMode
<1>12. CASE Crash \/ Tick \/ \E c \in Calls : RecordDiscard(c)
  BY <1>1, <1>12 DEF Crash, Tick, RecordDiscard, TypeOK, InProgress
<1>13. CASE UNCHANGED vars
  BY <1>13 DEF vars
<1> QED
  BY <1>2, <1>3, <1>4, <1>5, <1>6, <1>7, <1>8, <1>9, <1>10, <1>11, <1>12, <1>13
     DEF Next, Put, Serve

(* What was taken stays so, and who came before it is settled. *)
LEMMA SoundedStays ==
  ASSUME OrderInv, [Next]_vars, NEW c \in Calls, Sounded(c)
  PROVE  Sounded(c)' /\ before'[c] = before[c]
<1> USE DEF Sounded, putVars, diskVars, scanVars
<1>1. TypeOK /\ WrittenFirst /\ ScanIsOfPaths
  BY DEF OrderInv
<1>2. ASSUME NEW d \in Calls, PutCall(d) PROVE Sounded(c)' /\ before'[c] = before[c]
  BY <1>1, <1>2 DEF PutCall, TypeOK, WrittenFirst
<1>3. ASSUME NEW d \in Calls, PutNumber(d) \/ PutWrite(d) \/ PutFail(d) \/ PutReturn(d)
      PROVE  Sounded(c)' /\ before'[c] = before[c]
  BY <1>3 DEF PutNumber, PutWrite, PutFail, PutReturn
<1>4. CASE TakeExpiredBegin \/ TakeBegin \/ ScanRead \/ ScanEnd \/ Recovered
  BY <1>4 DEF TakeExpiredBegin, TakeBegin, ScanBegin, ScanRead, ScanEnd, Recovered
<1>5. CASE ScanUnlink
  BY <1>1, <1>5 DEF ScanUnlink, TypeOK, ScanIsOfPaths, WrittenFirst, At
<1>6. CASE TakeRename \/ Done \/ Recover
  BY <1>1, <1>6 DEF TakeRename, Done, Recover, TypeOK
<1>7. CASE Crash \/ Tick \/ \E d \in Calls : RecordDiscard(d)
  BY <1>7 DEF Crash, Tick, RecordDiscard
<1>8. CASE UNCHANGED vars
  BY <1>8 DEF vars
<1> QED
  BY <1>2, <1>3, <1>4, <1>5, <1>6, <1>7, <1>8 DEF Next, Put, Serve

(* As long as nothing more is heard, what was heard keeps its order. *)
LEMMA OrderStays ==
  ASSUME OrderInv, HeardInv, [Next]_vars, UNCHANGED heard
  PROVE  /\ heard' \in Seq(Calls \X Int)
         /\ (\A i \in 1..Len(heard) : Sounded(heard[i][1]))'
         /\ SpokenWhole' /\ HeardInOrder'
<1>1. heard \in Seq(Calls \X Int) /\ DOMAIN heard = 1..Len(heard)
  BY DEF HeardInv
<1>2. \A i \in 1..Len(heard) : heard[i][1] \in Calls
  BY <1>1
<1>3. \A i \in 1..Len(heard) :
        /\ fate'[heard[i][1]] \in {"speaking", "spoken", "interrupted"}
        /\ before'[heard[i][1]] = before[heard[i][1]]
  <2> TAKE i \in 1..Len(heard)
  <2>1. heard[i][1] \in Calls /\ Sounded(heard[i][1])
    BY <1>2 DEF HeardInv
  <2>2. PICK c \in Calls : c = heard[i][1]
    BY <2>1
  <2>3. Sounded(c)' /\ before'[c] = before[c]
    BY <2>1, <2>2, SoundedStays
  <2> QED BY <2>2, <2>3 DEF Sounded
<1>4. SpokenWhole'
  BY DEF HeardInv, SpokenWhole
<1>5. HeardInOrder'
  BY <1>1, <1>3 DEF HeardInv, HeardInOrder
<1> QED BY <1>1, <1>3, <1>4, <1>5 DEF Sounded

(* A step that neither renders, plays nor takes leaves the order as it is. *)
LEMMA QuietStep ==
  ASSUME OrderInv, HeardInv, [Next]_vars,
         UNCHANGED <<heard, playing, clips, made, entry>>,
         loop' = "speaking" => loop = "speaking"
  PROVE  HeardInv'
<1> USE DEF HeardInv, StillAhead
<1>1. /\ heard' \in Seq(Calls \X Int)
      /\ (\A i \in 1..Len(heard) : Sounded(heard[i][1]))'
      /\ SpokenWhole' /\ HeardInOrder'
  BY OrderStays
<1> QED BY <1>1

(* Clips are rendered in the order of their texts. *)
LEMMA GenerateStep ==
  ASSUME OrderInv, SInv, HeardInv, [Next]_vars, Worker
  PROVE  HeardInv'
<1>1. /\ heard' \in Seq(Calls \X Int)
      /\ (\A i \in 1..Len(heard) : Sounded(heard[i][1]))'
      /\ SpokenWhole' /\ HeardInOrder'
  BY OrderStays DEF Worker, ApplyVoice, Generate, GenerateEnd, WorkerDies
<1>2. /\ UNCHANGED <<heard, playing, loop, entry>>
      /\ made \in Nat /\ made' \in Nat /\ made <= made'
      /\ clips \in Seq(Int)
  BY DEF Worker, ApplyVoice, Generate, GenerateEnd, WorkerDies, SInv, ClipsInv, vars
<1>3. PICK x \in Int : /\ clips' = clips \/ clips' = Append(clips, x)
                       /\ x = LastClip \/ (x = made /\ made' = made + 1)
  BY <1>2 DEF Worker, ApplyVoice, Generate, GenerateEnd, WorkerDies, LastClip
<1>4. \/ clips' = clips
      \/ /\ Len(clips') = Len(clips) + 1
         /\ clips'[Len(clips) + 1] = x
         /\ \A i \in 1..Len(clips) : clips'[i] = clips[i]
  BY ONLY <1>2, <1>3, AppendProperties
<1>5. Len(clips) \in Nat
  BY <1>2, LenProperties
<1>6. \A i \in 1..Len(clips) : clips[i] \in Int
  BY <1>2
<1>7. \A n \in Int : StillAhead(n) => StillAhead(n)'
  BY <1>2, <1>3, <1>4, <1>5, <1>6 DEF StillAhead
<1>8. \A i \in 1..Len(clips') : clips'[i] < made'
  BY <1>2, <1>3, <1>4, <1>5, <1>6 DEF HeardInv, LastClip
<1>9. \A i, j \in 1..Len(clips') :
        i < j /\ clips'[j] # LastClip => clips'[i] < clips'[j]
  <2>1. /\ \A i \in 1..Len(clips) : clips[i] < made
        /\ \A i, j \in 1..Len(clips) :
             i < j /\ clips[j] # LastClip => clips[i] < clips[j]
    BY DEF HeardInv
  <2>2. CASE clips' = clips
    BY ONLY <2>1, <2>2
  <2>3. CASE /\ Len(clips') = Len(clips) + 1
             /\ clips'[Len(clips) + 1] = x
             /\ \A i \in 1..Len(clips) : clips'[i] = clips[i]
    <3> TAKE i, j \in 1..Len(clips')
    <3> HAVE i < j /\ clips'[j] # LastClip
    <3>1. i \in 1..Len(clips) /\ clips'[i] = clips[i]
      BY <2>3, <1>5
    <3>2. CASE j = Len(clips) + 1
      BY <3>1, <3>2, <2>1, <2>3, <1>3
    <3>3. CASE j # Len(clips) + 1
      <4>1. j \in 1..Len(clips) /\ clips'[j] = clips[j]
        BY <3>3, <2>3, <1>5
      <4> QED BY <3>1, <4>1, <2>1
    <3> QED BY <3>2, <3>3
  <2> QED BY <2>2, <2>3, <1>4
<1>10. /\ playing # <<>> => playing[1] \in Int
       /\ \A i \in 1..Len(heard) : heard[i][2] \in Int
  BY DEF HeardInv
<1>11. playing' = <<>> \/
         (playing' \in Seq(Int) /\ Len(playing') = 1 /\ StillAhead(playing[1])')
  BY <1>2, <1>7, <1>10 DEF HeardInv
<1>12. loop' = "speaking" => \A i \in 1..Len(heard') : heard'[i][1] = entry' =>
         /\ \A k \in i..Len(heard') : heard'[k][1] = entry'
         /\ StillAhead(heard[i][2])'
         /\ playing' # <<>> => heard'[i][2] < playing'[1]
  BY <1>2, <1>7, <1>10 DEF HeardInv
<1> QED BY <1>1, <1>2, <1>8, <1>9, <1>11, <1>12 DEF HeardInv

(* The clip that goes to the speaker is the next of them. *)
LEMMA NextClipStep ==
  ASSUME OrderInv, SInv, HeardInv, [Next]_vars, NextClip
  PROVE  HeardInv'
<1>1. /\ heard' \in Seq(Calls \X Int)
      /\ (\A i \in 1..Len(heard) : Sounded(heard[i][1]))'
      /\ SpokenWhole' /\ HeardInOrder'
  BY OrderStays DEF NextClip
<1>2. /\ UNCHANGED <<heard, made, loop, entry>>
      /\ clips \in Seq(Int) /\ clips # <<>> /\ clips' = Tail(clips)
      /\ playing = <<>> /\ clips[1] # LastClip
      /\ playing' = <<>> \/ playing' = <<clips[1]>>
  BY DEF NextClip, SInv, ClipsInv, vars
<1>3. /\ clips' \in Seq(Int) /\ Len(clips') = Len(clips) - 1
      /\ \A i \in 1..Len(clips') : clips'[i] = clips[i + 1]
      /\ Len(clips) \in Nat
  BY ONLY <1>2, HeadTailProperties, LenProperties
<1>4. \A i \in 1..Len(clips) : clips[i] \in Int
  BY <1>2
<1>5. 1 \in 1..Len(clips)
  BY <1>2, <1>3, EmptySeq
<1>6. \A n : StillAhead(n) => StillAhead(n)' /\ n < clips[1]
  BY <1>2, <1>3, <1>5 DEF StillAhead
<1>7. /\ \A i \in 1..Len(clips') : clips'[i] < made'
      /\ \A i, j \in 1..Len(clips') :
           i < j /\ clips'[j] # LastClip => clips'[i] < clips'[j]
  BY <1>2, <1>3 DEF HeardInv
<1>8. clips[1] < made' /\
        \A j \in 1..Len(clips') : clips'[j] # LastClip => clips[1] < clips'[j]
  BY <1>2, <1>3, <1>5 DEF HeardInv
<1>9. playing' = <<>> \/
        (playing' \in Seq(Int) /\ Len(playing') = 1 /\ StillAhead(playing[1])')
  <2>1. CASE playing' = <<clips[1]>>
    <3>1. playing' \in Seq(Int) /\ Len(playing') = 1 /\ playing'[1] = clips[1]
      BY <2>1, <1>4, <1>5
    <3> QED BY <3>1, <1>8 DEF StillAhead
  <2> QED BY <2>1, <1>2
<1>10. loop' = "speaking" => \A i \in 1..Len(heard') : heard'[i][1] = entry' =>
         /\ \A k \in i..Len(heard') : heard'[k][1] = entry'
         /\ StillAhead(heard[i][2])'
         /\ playing' # <<>> => heard'[i][2] < playing'[1]
  <2> SUFFICES ASSUME loop = "speaking", NEW i \in 1..Len(heard), heard[i][1] = entry
               PROVE  /\ \A k \in i..Len(heard) : heard[k][1] = entry
                      /\ StillAhead(heard[i][2])'
                      /\ playing' # <<>> => heard[i][2] < playing'[1]
    BY <1>2
  <2>1. StillAhead(heard[i][2]) /\ \A k \in i..Len(heard) : heard[k][1] = entry
    BY DEF HeardInv
  <2> QED BY <2>1, <1>2, <1>6
<1>11. loop' = "speaking" => entry' \in Calls
  BY <1>2 DEF HeardInv
<1> QED BY <1>1, <1>2, <1>7, <1>9, <1>10, <1>11 DEF HeardInv

(* What is heard next comes after all that was. *)
LEMMA HeardNext ==
  ASSUME OrderInv, SInv, TakenInTurn, HeardInv, [Next]_vars, playing # <<>>,
         heard' = Append(heard, <<entry, Head(playing)>>)
  PROVE  /\ heard' \in Seq(Calls \X Int)
         /\ Len(heard) \in Nat /\ Len(heard') = Len(heard) + 1
         /\ heard'[Len(heard) + 1] = <<entry, playing[1]>>
         /\ \A i \in 1..Len(heard) : heard'[i] = heard[i]
         /\ (\A i \in 1..Len(heard) : Sounded(heard[i][1]))'
         /\ SpokenWhole' /\ HeardInOrder'
<1> DEFINE p == playing[1]
           n == Len(heard)
<1>1. /\ loop = "speaking" /\ mode = "up" /\ entry \in Calls
      /\ p \in Int /\ StillAhead(p)
  BY DEF SInv, LoopInv, LeftBehind, HeardInv
<1>2. Sounded(entry)
  <2>1. entry # NoEntry
    BY <1>1, SpoolAssumption
  <2> QED BY <1>1, <2>1 DEF OrderInv, ThreadByMode, Sounded
<1>3. heard \in Seq(Calls \X Int) /\ <<entry, p>> \in Calls \X Int
  BY <1>1 DEF HeardInv
<1>4. /\ n \in Nat
      /\ heard' \in Seq(Calls \X Int) /\ Len(heard') = n + 1
      /\ DOMAIN heard' = 1..(n + 1) /\ DOMAIN heard = 1..n
      /\ heard'[n + 1] = <<entry, p>>
      /\ \A i \in 1..n : heard'[i] = heard[i]
  <2>1. heard' = Append(heard, <<entry, p>>)
    OBVIOUS
  <2> HIDE DEF p
  <2> QED BY ONLY <2>1, <1>3, AppendProperties, LenProperties
<1> HIDE DEF p, n
<1>5. /\ heard'[n + 1][1] = entry /\ heard'[n + 1][2] = p
      /\ \A i \in 1..n : heard[i][1] \in Calls /\ Sounded(heard[i][1])
  BY <1>3, <1>4 DEF HeardInv, n
<1>6. \A i \in 1..n : heard[i][1] = entry =>
        /\ \A k \in i..n : heard[k][1] = entry
        /\ heard[i][2] < p
  BY <1>1 DEF HeardInv, n, p
<1>7. \A i \in 1..(n + 1) :
        /\ fate'[heard'[i][1]] \in {"speaking", "spoken", "interrupted"}
        /\ before'[heard'[i][1]] = before[heard'[i][1]]
  <2> TAKE i \in 1..(n + 1)
  <2>1. heard'[i][1] \in Calls /\ Sounded(heard'[i][1])
    <3>1. i = n + 1 \/ i \in 1..n
      BY <1>4
    <3> QED BY <3>1, <1>1, <1>2, <1>4, <1>5
  <2>2. PICK c \in Calls : c = heard'[i][1]
    BY <2>1
  <2>3. Sounded(c)' /\ before'[c] = before[c]
    BY <2>1, <2>2, SoundedStays
  <2> QED BY <2>2, <2>3 DEF Sounded
<1>8. \A i, j \in 1..(n + 1) : i < j /\ heard'[i][1] = heard'[j][1] =>
        /\ heard'[i][2] < heard'[j][2]
        /\ \A k \in i..j : heard'[k][1] = heard'[i][1]
  <2> TAKE i, j \in 1..(n + 1)
  <2> HAVE i < j /\ heard'[i][1] = heard'[j][1]
  <2>1. CASE j = n + 1
    BY <2>1, <1>4, <1>5, <1>6
  <2>2. CASE j # n + 1
    <3>1. i \in 1..n /\ j \in 1..n
      BY <2>2, <1>4
    <3>2. /\ heard[i][2] < heard[j][2]
          /\ \A k \in i..j : heard[k][1] = heard[i][1]
      BY <3>1, <1>4 DEF HeardInv, SpokenWhole
    <3> QED BY <3>1, <3>2, <1>4
  <2> QED BY <2>1, <2>2
<1>9. \A i, j \in 1..(n + 1) : i < j => heard'[j][1] \notin before[heard'[i][1]]
  <2> TAKE i, j \in 1..(n + 1)
  <2> HAVE i < j
  <2>1. CASE j = n + 1
    <3>1. i \in 1..n
      BY <2>1, <1>4
    <3>2. heard[i][1] \in Calls /\ Sounded(heard[i][1])
      BY <3>1, <1>5
    <3>3. entry \notin before[heard[i][1]]
      BY <3>2 DEF TakenInTurn, Gone
    <3> QED BY <2>1, <3>1, <3>3, <1>4, <1>5
  <2>2. CASE j # n + 1
    <3>1. i \in 1..n /\ j \in 1..n
      BY ONLY <2>2, <1>4, i \in 1..(n + 1), j \in 1..(n + 1), i < j
    <3>2. heard[j][1] \notin before[heard[i][1]]
      BY <3>1, <1>4 DEF HeardInv, HeardInOrder
    <3> QED BY <3>1, <3>2, <1>4
  <2> QED BY <2>1, <2>2
<1>10. (\A i \in 1..Len(heard) : Sounded(heard[i][1]))'
  BY <1>4, <1>7 DEF Sounded
<1>11. SpokenWhole'
  BY ONLY <1>4, <1>8 DEF SpokenWhole
<1>12. HeardInOrder'
  BY <1>4, <1>7, <1>9 DEF HeardInOrder
<1> QED BY <1>4, <1>10, <1>11, <1>12 DEF n, p

(* The player exits, and what is left of the submission comes after that. *)
LEMMA PlayStep ==
  ASSUME OrderInv, SInv, TakenInTurn, HeardInv, [Next]_vars, PlayEnd
  PROVE  HeardInv'
<1>1. CASE UNCHANGED heard
  <2>1. /\ heard' \in Seq(Calls \X Int)
        /\ (\A i \in 1..Len(heard) : Sounded(heard[i][1]))'
        /\ SpokenWhole' /\ HeardInOrder'
    BY <1>1, OrderStays
  <2> QED BY <1>1, <2>1 DEF PlayEnd, HeardInv, StillAhead, vars
<1>2. CASE heard' = Append(heard, <<entry, Head(playing)>>)
  <2> DEFINE p == playing[1]
             n == Len(heard)
  <2>1. /\ heard' \in Seq(Calls \X Int)
        /\ n \in Nat /\ Len(heard') = n + 1
        /\ heard'[n + 1] = <<entry, p>>
        /\ \A i \in 1..n : heard'[i] = heard[i]
        /\ (\A i \in 1..Len(heard) : Sounded(heard[i][1]))'
        /\ SpokenWhole' /\ HeardInOrder'
    BY <1>2, HeardNext DEF PlayEnd
  <2>2. /\ loop = "speaking" /\ entry \in Calls
        /\ StillAhead(p) /\ playing' = <<>>
        /\ UNCHANGED <<entry, loop, made, clips>>
    BY DEF PlayEnd, SInv, LeftBehind, HeardInv, vars
  <2> HIDE DEF p, n
  <2>3. heard'[n + 1][1] = entry /\ heard'[n + 1][2] = p
    BY <2>1
  <2>4. \A i \in 1..n : heard[i][1] = entry =>
          (\A k \in i..n : heard[k][1] = entry) /\ StillAhead(heard[i][2])
    BY <2>2 DEF HeardInv, n
  <2>5. \A i \in 1..(n + 1) : heard'[i][1] = entry =>
           /\ \A k \in i..(n + 1) : heard'[k][1] = entry
           /\ StillAhead(heard'[i][2])
    <3> TAKE i \in 1..(n + 1)
    <3> HAVE heard'[i][1] = entry
    <3>1. CASE i = n + 1
      BY <3>1, <2>1, <2>2, <2>3
    <3>2. CASE i # n + 1
      <4>1. i \in 1..n /\ heard'[i] = heard[i] /\ heard[i][1] = entry
        BY <3>2, <2>1
      <4>2. \A k \in i..n : heard'[k][1] = entry
        BY <4>1, <2>1, <2>4
      <4>3. \A k \in i..(n + 1) : k \in i..n \/ k = n + 1
        BY <4>1, <2>1
      <4>4. \A k \in i..(n + 1) : heard'[k][1] = entry
        BY <4>2, <4>3, <2>3
      <4>5. StillAhead(heard'[i][2])
        BY <4>1, <2>4 DEF StillAhead
      <4> QED BY <4>4, <4>5
    <3> QED BY <3>1, <3>2
  <2>6. loop' = "speaking" => \A i \in 1..Len(heard') : heard'[i][1] = entry' =>
           /\ \A k \in i..Len(heard') : heard'[k][1] = entry'
           /\ heard'[i][2] < made'
           /\ \A j \in 1..Len(clips') : clips'[j] # LastClip => heard'[i][2] < clips'[j]
           /\ playing' # <<>> => heard'[i][2] < playing'[1]
    BY <2>1, <2>2, <2>5 DEF StillAhead
  <2> QED BY <2>1, <2>2, <2>6 DEF HeardInv, StillAhead
<1> QED BY <1>1, <1>2 DEF PlayEnd

(* Nothing was heard of the submission that take() returns. *)
LEMMA SpeakStep ==
  ASSUME OrderInv, SInv, HeardInv, [Next]_vars, LoopSpeak
  PROVE  HeardInv'
<1>1. /\ heard' \in Seq(Calls \X Int)
      /\ (\A i \in 1..Len(heard) : Sounded(heard[i][1]))'
      /\ SpokenWhole' /\ HeardInOrder'
  BY OrderStays DEF LoopSpeak
<1>2. /\ clips' = <<>> /\ playing' = <<>> /\ heard' = heard
      /\ entry' = held /\ held # NoEntry
  BY DEF LoopSpeak, TakeRename, SInv, LeftBehind
<1>3. held \in Calls /\ fate[held] = "none"
  BY <1>2 DEF OrderInv, TypeOK, ScanIsOfPaths
<1>4. \A i \in 1..Len(heard') : heard'[i][1] # entry'
  BY <1>2, <1>3 DEF HeardInv, Sounded
<1>5. Len(clips') = 0
  BY <1>2
<1> QED BY <1>1, <1>2, <1>3, <1>4, <1>5 DEF HeardInv

(* Once a submission is left, or the process has died, nothing of it is    *)
(* left to be heard, and the last of it may have been heard just then.     *)
LEMMA SilentStep ==
  ASSUME OrderInv, SInv, SInv', TakenInTurn, HeardInv, [Next]_vars,
         PlayRaises \/ GreetingRaises \/ LoopDone \/ Die
  PROVE  HeardInv'
<1>1. /\ heard' \in Seq(Calls \X Int)
      /\ (\A i \in 1..Len(heard) : Sounded(heard[i][1]))'
      /\ SpokenWhole' /\ HeardInOrder'
  <2>1. CASE UNCHANGED heard
    BY <2>1, OrderStays
  <2>2. CASE PlayRaises /\ heard' = Append(heard, <<entry, Head(playing)>>)
    BY <2>2, HeardNext DEF PlayRaises
  <2> QED BY <2>1, <2>2 DEF PlayRaises, GreetingRaises, LoopDone, Die
<1>2. loop' # "speaking"
  BY LeavesSpeaking DEF SpeakLeft, Die
<1>3. clips' = <<>> /\ playing' = <<>> /\ Len(clips') = 0
  BY <1>2 DEF SInv, LeftBehind
<1> QED BY ONLY <1>1, <1>2, <1>3 DEF HeardInv

LEMMA HeardInit == ServiceInit => HeardInv
  BY DEF ServiceInit, HeardInv, SpokenWhole, HeardInOrder

LEMMA HeardStep ==
  ASSUME OrderInv, SInv, SInv', TakenInTurn, HeardInv, [Next]_vars,
         [ServiceNext]_allVars
  PROVE  HeardInv'
<1> USE DEF serviceVars, threadVars, speakVars, diskVars, putVars, scanVars, vars
<1>1. ASSUME NEW c \in Calls, Submit(c) PROVE HeardInv'
  <2>1. UNCHANGED <<heard, playing, clips, made, entry, loop>>
    BY <1>1 DEF Submit, SubmitPut, SubmitClear, SubmitUnlogged, SubmitWake, PutCall,
                PutNumber, PutWrite, PutFail, PutReturn
  <2> QED BY <2>1, QuietStep
<1>2. CASE LoopGet \/ LoopIdle \/ LoopExpire \/ LoopTake \/ LoopScan \/ LoopEmpty
           \/ LoopUnlogged \/ LeftEnd
  <2>1. UNCHANGED <<heard, playing, clips, made, entry>>
        /\ (loop' = "speaking" => loop = "speaking")
    BY <1>2 DEF LoopGet, LoopIdle, LoopExpire, LoopTake, LoopScan, LoopEmpty,
                LoopUnlogged, LeftEnd, TakeExpiredBegin, TakeBegin, ScanBegin, ScanRead, ScanUnlink, ScanEnd,
                RecordDiscard
  <2> QED BY <2>1, QuietStep
<1>3. CASE Boot
  <2>1. UNCHANGED <<heard, playing, clips, made, entry>>
        /\ (loop' = "speaking" => loop = "speaking")
    BY <1>3 DEF Boot, Start, Recovering, Serving, Recover, Recovered, ScanRead,
                ScanUnlink, ScanEnd, RecordDiscard
  <2> QED BY <2>1, QuietStep
<1>4. CASE StopCall \/ Time \/ UNCHANGED allVars
  <2>1. UNCHANGED <<heard, playing, clips, made, entry, loop>>
    BY <1>4 DEF StopCall, Time, Tick, allVars
  <2> QED BY <2>1, QuietStep
<1> QED
  BY <1>1, <1>2, <1>3, <1>4, SpeakStep, GenerateStep, NextClipStep, PlayStep, SilentStep
     DEF ServiceNext, ServeLoop

LEMMA HeardAlways == ServiceSpec => []HeardInv
<1>1. SInv /\ [ServiceNext]_allVars => SInv' /\ [Next]_vars
  BY LoopStep, ClipsStep, StepUsesSpool DEF SInv
<1>2. OrderInv /\ TakenInTurn /\ [Next]_vars => OrderInv' /\ TakenInTurn'
  BY StepOrders, TurnStep
<1>3. OrderInv /\ SInv /\ SInv' /\ TakenInTurn /\ HeardInv /\ [Next]_vars
      /\ [ServiceNext]_allVars => HeardInv'
  BY HeardStep
<1>4. ServiceInit => OrderInv /\ SInv /\ TakenInTurn /\ HeardInv
  BY ServiceInitHolds, OrderInit, TurnInit, HeardInit
<1> QED BY <1>1, <1>2, <1>3, <1>4, PTL DEF ServiceSpec

(* FR-4.4, FR-4.3: _generate_into() and _play() bring a submission to the  *)
(* speaker in the order of its texts, with nothing of another in between,  *)
(* whatever renderings and clips fail and wherever the process dies.       *)
THEOREM HeardWhole == ServiceSpec => []SpokenWhole
<1>1. HeardInv => SpokenWhole
  BY DEF HeardInv
<1> QED BY HeardAlways, <1>1, PTL

(* FR-4.3, FR-7.2: _serve() lets nobody be heard before a submission that  *)
(* had been accepted when theirs was made.                                 *)
THEOREM HeardAsAccepted == ServiceSpec => []HeardInOrder
<1>1. HeardInv => HeardInOrder
  BY DEF HeardInv
<1> QED BY HeardAlways, <1>1, PTL
=============================================================================
