--------------------------- MODULE WatchdogProofs ---------------------------
(***************************************************************************)
(* What is proved of Watchdog: its types, the time within which a wedge is *)
(* met, and that nothing but a wedge is.  Three inductive invariants, each *)
(* resting on the one before.                                              *)
(***************************************************************************)
EXTENDS Watchdog, TLAPS

(* The types, with the counts their bounds rest on: of the calls, of the   *)
(* submission being spoken, and of the clocks.                             *)
CallInv ==
  /\ queued \in 0..MaxPending
  /\ accepted \in Nat
  /\ cleared \in Nat
  /\ wakes \in Nat
  /\ accepted + cleared + wakes <= MaxPending

SpeakInv ==
  /\ idle \in BOOLEAN
  /\ thread \in {"get", "woken", "take", "empty", "wait", "play", "played", "dead"}
  /\ playFor \in 0..PlayMax
  /\ worker \in {"none", "busy", "ended", "stuck"}
  /\ left \in Nat
  /\ clips \in Nat
  /\ clips + left <= Texts
  /\ genFor \in 0..GenMax

ClockInv ==
  /\ quietFor \in 0..Grace
  /\ nextLook \in 0..Interval
  /\ sincePing \in 0..Limit
  /\ unseenFor \in Nat

TypeInv == CallInv /\ SpeakInv /\ ClockInv

(* While a wedge goes on unhidden, the last step gets older with it, and   *)
(* the last ping was sent within the grace of its beginning.               *)
SeenInv ==
  /\ thread \in {"wait", "play", "played"} <=> worker # "none"
  /\ unseenFor > 0 =>
       /\ Wedged
       /\ ~idle
       /\ quietFor = Grace \/ quietFor >= unseenFor
  /\ unseenFor < sincePing + Grace

(* Who is not wedged has answered every look, because the last step is     *)
(* recent whenever there is neither rest nor a clip on the speaker.        *)
TimelyInv ==
  /\ ~Wedged => sincePing + nextLook = Interval
  /\ thread = "get" /\ ~idle => cleared + wakes > 0
  /\ thread \in {"woken", "take", "empty"} => quietFor = 0
  /\ thread = "wait" /\ worker = "busy" => quietFor <= genFor
  /\ thread = "wait" /\ ~Wedged => quietFor < Grace

-----------------------------------------------------------------------------
LEMMA TypeInit == WatchInit => TypeInv
  BY WatchdogAssumption DEF WatchInit, TypeInv, CallInv, SpeakInv, ClockInv, Limit

LEMMA CallNext == CallInv /\ [WatchNext]_watchdogVars => CallInv'
  <1> SUFFICES ASSUME CallInv, [WatchNext]_watchdogVars PROVE CallInv'
    OBVIOUS
  <1> USE WatchdogAssumption
      DEF CallInv, callVars, speakVars, watchVars, Limit
  <1>1. CASE Submitting
    BY <1>1 DEF Submitting, SubmitPut, SubmitClear, SubmitWake
  <1>2. CASE ServeLoop
    <2>1. CASE LoopGet \/ LoopExpire \/ LoopTake \/ LoopEmpty \/ LoopIdle
      BY <2>1 DEF LoopGet, LoopExpire, LoopTake, LoopEmpty, LoopIdle
    <2>2. CASE NextClip \/ PlayStop \/ PlayNoted \/ LoopDone
      BY <2>2 DEF NextClip, PlayStop, PlayNoted, LoopDone
    <2> QED BY <1>2, <2>1, <2>2 DEF ServeLoop
  <1>3. CASE LoopDies \/ GenStuck
    BY <1>3 DEF LoopDies, GenStuck, Rendering
  <1>4. CASE Worker
    BY <1>4 DEF Worker, GenEnd, GenFail, GenLast, Rendering
  <1>5. CASE Look
    BY <1>5 DEF Look
  <1>6. CASE Restart
    BY <1>6 DEF Restart, Started
  <1>7. CASE TimePasses
    BY <1>7 DEF TimePasses, AtRest, Rendering
  <1>8. CASE UNCHANGED watchdogVars
    BY <1>8 DEF watchdogVars
  <1> QED
    BY <1>1, <1>2, <1>3, <1>4, <1>5, <1>6, <1>7, <1>8 DEF WatchNext

LEMMA SpeakNext == SpeakInv /\ [WatchNext]_watchdogVars => SpeakInv'
  <1> SUFFICES ASSUME SpeakInv, [WatchNext]_watchdogVars PROVE SpeakInv'
    OBVIOUS
  <1> USE WatchdogAssumption
      DEF SpeakInv, callVars, speakVars, watchVars, Limit
  <1>1. CASE Submitting
    BY <1>1 DEF Submitting, SubmitPut, SubmitClear, SubmitWake
  <1>2. CASE ServeLoop
    <2>1. CASE LoopGet \/ LoopExpire \/ LoopTake
      BY <2>1 DEF LoopGet, LoopExpire, LoopTake
    <2>2. CASE LoopEmpty \/ LoopIdle
      BY <2>2 DEF LoopEmpty, LoopIdle
    <2>3. CASE NextClip \/ PlayStop \/ PlayNoted \/ LoopDone
      BY <2>3 DEF NextClip, PlayStop, PlayNoted, LoopDone
    <2> QED BY <1>2, <2>1, <2>2, <2>3 DEF ServeLoop
  <1>3. CASE LoopDies \/ GenStuck
    BY <1>3 DEF LoopDies, GenStuck, Rendering
  <1>4. CASE Worker
    BY <1>4 DEF Worker, GenEnd, GenFail, GenLast, Rendering
  <1>5. CASE Look
    BY <1>5 DEF Look
  <1>6. CASE Restart
    BY <1>6 DEF Restart, Started
  <1>7. CASE TimePasses
    BY <1>7 DEF TimePasses, AtRest, Rendering
  <1>8. CASE UNCHANGED watchdogVars
    BY <1>8 DEF watchdogVars
  <1> QED
    BY <1>1, <1>2, <1>3, <1>4, <1>5, <1>6, <1>7, <1>8 DEF WatchNext

LEMMA ClockNext == ClockInv /\ [WatchNext]_watchdogVars => ClockInv'
  <1> SUFFICES ASSUME ClockInv, [WatchNext]_watchdogVars PROVE ClockInv'
    OBVIOUS
  <1> USE WatchdogAssumption
      DEF ClockInv, callVars, speakVars, watchVars, Limit
  <1>1. CASE Submitting
    BY <1>1 DEF Submitting, SubmitPut, SubmitClear, SubmitWake
  <1>2. CASE ServeLoop
    <2>1. CASE LoopGet \/ LoopExpire \/ LoopTake \/ LoopEmpty \/ LoopIdle
      BY <2>1 DEF LoopGet, LoopExpire, LoopTake, LoopEmpty, LoopIdle
    <2>2. CASE NextClip \/ PlayStop \/ PlayNoted \/ LoopDone
      BY <2>2 DEF NextClip, PlayStop, PlayNoted, LoopDone
    <2> QED BY <1>2, <2>1, <2>2 DEF ServeLoop
  <1>3. CASE LoopDies \/ GenStuck
    BY <1>3 DEF LoopDies, GenStuck, Rendering
  <1>4. CASE Worker
    BY <1>4 DEF Worker, GenEnd, GenFail, GenLast, Rendering
  <1>5. CASE Look
    BY <1>5 DEF Look
  <1>6. CASE Restart
    BY <1>6 DEF Restart, Started
  <1>7. CASE TimePasses
    BY <1>7 DEF TimePasses, AtRest, Rendering
  <1>8. CASE UNCHANGED watchdogVars
    BY <1>8 DEF watchdogVars
  <1> QED
    BY <1>1, <1>2, <1>3, <1>4, <1>5, <1>6, <1>7, <1>8 DEF WatchNext

LEMMA TypeNext == TypeInv /\ [WatchNext]_watchdogVars => TypeInv'
  BY CallNext, SpeakNext, ClockNext DEF TypeInv

LEMMA TypeParts == TypeInv => WatchTypeOK
  BY WatchdogAssumption
  DEF TypeInv, CallInv, SpeakInv, ClockInv, WatchTypeOK, Limit

(* Every variable keeps its type, whatever fails and wherever a look falls. *)
THEOREM TypeCorrect == WatchSpec => []WatchTypeOK
  <1>1. WatchSpec => []TypeInv
    BY TypeInit, TypeNext, PTL DEF WatchSpec
  <1> QED
    BY <1>1, TypeParts, PTL

-----------------------------------------------------------------------------
LEMMA SeenInit == WatchInit => SeenInv
  BY WatchdogAssumption DEF WatchInit, SeenInv, Wedged

LEMMA SeenNext == TypeInv /\ SeenInv /\ [WatchNext]_watchdogVars => SeenInv'
  <1> SUFFICES ASSUME TypeInv, SeenInv, [WatchNext]_watchdogVars PROVE SeenInv'
    OBVIOUS
  <1> USE WatchdogAssumption
      DEF TypeInv, CallInv, SpeakInv, ClockInv, SeenInv, Wedged,
          callVars, speakVars, watchVars, Limit
  <1>1. CASE Submitting
    BY <1>1 DEF Submitting, SubmitPut, SubmitClear, SubmitWake
  <1>2. CASE ServeLoop
    <2>1. CASE LoopGet \/ LoopExpire \/ LoopTake \/ LoopEmpty \/ LoopIdle
      BY <2>1 DEF LoopGet, LoopExpire, LoopTake, LoopEmpty, LoopIdle
    <2>2. CASE NextClip \/ PlayStop \/ PlayNoted \/ LoopDone
      BY <2>2 DEF NextClip, PlayStop, PlayNoted, LoopDone
    <2> QED BY <1>2, <2>1, <2>2 DEF ServeLoop
  <1>3. CASE LoopDies \/ GenStuck
    BY <1>3 DEF LoopDies, GenStuck, Rendering
  <1>4. CASE Worker
    BY <1>4 DEF Worker, GenEnd, GenFail, GenLast, Rendering
  <1>5. CASE Look
    BY <1>5 DEF Look, Progressing
  <1>6. CASE Restart
    BY <1>6 DEF Restart, Started
  <1>7. CASE TimePasses
    BY <1>7 DEF TimePasses, AtRest
  <1>8. CASE UNCHANGED watchdogVars
    BY <1>8 DEF watchdogVars
  <1> QED
    BY <1>1, <1>2, <1>3, <1>4, <1>5, <1>6, <1>7, <1>8 DEF WatchNext

(* A wedge that idle does not hide is met by a restart within the grace    *)
(* and the limit, wherever the looks fall and however slowly renderings    *)
(* fail.                                                                   *)
THEOREM WedgesAreSeenInTime == WatchSpec => []SeenInTime
  <1>1. WatchSpec => [](TypeInv /\ SeenInv)
    BY TypeInit, TypeNext, SeenInit, SeenNext, PTL DEF WatchSpec
  <1>2. TypeInv /\ SeenInv => SeenInTime
    BY WatchdogAssumption DEF TypeInv, CallInv, SpeakInv, ClockInv, SeenInv, SeenInTime, Limit
  <1> QED
    BY <1>1, <1>2, PTL

-----------------------------------------------------------------------------
LEMMA TimelyInit == WatchInit => TimelyInv
  BY WatchdogAssumption DEF WatchInit, TimelyInv, Wedged

LEMMA TimelyNext ==
  ASSUME ~InWindows, FailMax = 0, TypeInv, SeenInv, TimelyInv, [WatchNext]_watchdogVars
  PROVE  TimelyInv'
  <1> USE WatchdogAssumption
      DEF TypeInv, CallInv, SpeakInv, ClockInv, SeenInv, TimelyInv,
          Wedged,
          callVars, speakVars, watchVars, Limit
  <1>1. CASE Submitting
    BY <1>1 DEF Submitting, SubmitPut, SubmitClear, SubmitWake
  <1>2. CASE ServeLoop
    <2>1. CASE LoopGet \/ LoopExpire \/ LoopTake \/ LoopEmpty \/ LoopIdle
      BY <2>1 DEF LoopGet, LoopExpire, LoopTake, LoopEmpty, LoopIdle
    <2>2. CASE NextClip \/ PlayStop \/ PlayNoted \/ LoopDone
      BY <2>2 DEF NextClip, PlayStop, PlayNoted, LoopDone
    <2> QED BY <1>2, <2>1, <2>2 DEF ServeLoop
  <1>3. CASE LoopDies \/ GenStuck
    BY <1>3 DEF LoopDies, GenStuck, Rendering
  <1>4. CASE Worker
    BY <1>4 DEF Worker, GenEnd, GenFail, GenLast, Rendering
  <1>5. CASE Look
    <2>1. ~Unstamped
      BY <1>5 DEF Look
    <2>2. ~Wedged => Progressing
      BY <2>1 DEF Unstamped, Progressing
    <2> QED BY <1>5, <2>2 DEF Look
  <1>6. CASE Restart
    <2>1. thread' = "get" /\ worker' = "none" /\ sincePing' + nextLook' = Interval
      BY <1>6 DEF Restart, Started
    <2>2. ~idle' => queued # 0
      BY <1>6, Zenon DEF Restart, Started
    <2>3. queued # 0 => cleared' + wakes' > 0
      BY <1>6 DEF Restart, Started
    <2> QED BY <2>1, <2>2, <2>3
  <1>7. CASE TimePasses
    BY <1>7 DEF TimePasses, AtRest, Rendering
  <1>8. CASE UNCHANGED watchdogVars
    BY <1>8 DEF watchdogVars
  <1> QED
    BY <1>1, <1>2, <1>3, <1>4, <1>5, <1>6, <1>7, <1>8 DEF WatchNext

(* Nothing that renders, plays or waits is restarted, for any length of    *)
(* playing and any rendering shorter than the grace, where renderings that *)
(* fail fail at once and no look falls between a step and the note of it.  *)
THEOREM OnlyTheWedgedAreRestarted ==
  ASSUME ~InWindows, FailMax = 0
  PROVE  WatchSpec => []RestartsOnlyTheWedged
  <1>1. TypeInv /\ SeenInv /\ TimelyInv /\ [WatchNext]_watchdogVars => TimelyInv'
    BY TimelyNext
  <1>2. WatchSpec => [](TypeInv /\ SeenInv /\ TimelyInv)
    BY <1>1, TypeInit, TypeNext, SeenInit, SeenNext, TimelyInit, PTL DEF WatchSpec
  <1>3. TypeInv /\ SeenInv /\ TimelyInv => RestartsOnlyTheWedged
    BY WatchdogAssumption DEF TypeInv, ClockInv, TimelyInv, RestartsOnlyTheWedged,
        Limit
  <1> QED
    BY <1>2, <1>3, PTL
=============================================================================
