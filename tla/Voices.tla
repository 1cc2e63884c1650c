------------------------------ MODULE Voices ------------------------------
(***************************************************************************)
(* skid.assignment and skid.greeting: which voice a name speaks in and     *)
(* whether it is announced.  Two tables in memory, each with a window of   *)
(* its own, told at the end of every submission and asked during the next. *)
(*                                                                         *)
(* One submission is spoken at a time (module Service), and the config is  *)
(* read again only between submissions, so a turn at the speaker is the    *)
(* unit here: it begins on the generation thread with the choice of a      *)
(* voice, the greeting is settled when the first clip arrives, clips are   *)
(* heard, and both tables are told.  Time may pass between any two steps.  *)
(***************************************************************************)
EXTENDS Integers, Sequences

CONSTANTS
  Names,             \* the names submissions carry
  Works,             \* the works they name, NoWork among them
  NoWork,
  Senders,           \* the pairs of a name and a work that occur
  Fold,              \* Fold[n]: n.casefold()
  Choices,           \* the entries a shortlist may have, one per alias
  VoiceOf,           \* VoiceOf[c]: the kokoro voice of an entry
  NoChoice,
  Configs,           \* the configs that load_config accepts
  GreetingWindow, AssignmentWindow,
  Faults,            \* what may fail: "clip", "log"
  Nobody,
  MaxTime            \* bound: the clock stops here

Folds == {Fold[n] : n \in Names}

(* declared_voices() accepts a declaration only of what is on the list. *)
ASSUME VoicesAssumption ==
  /\ NoWork \in Works
  /\ Senders \subseteq Names \X Works
  /\ NoChoice \notin Choices
  /\ Nobody \notin Names
  /\ GreetingWindow \in Nat /\ AssignmentWindow \in Nat
  /\ MaxTime \in Nat \ {0}
  /\ \A k \in Configs :
       /\ k.voices \in Seq(Choices)
       /\ k.declared \in [Folds -> Choices \cup {NoChoice}]
       /\ \A f \in Folds : k.declared[f] # NoChoice =>
            \E i \in DOMAIN k.voices : k.voices[i] = k.declared[f]

Never == 0

Times == 0..MaxTime

VARIABLES
  now,        \* time.monotonic(), which is above 0
  config,     \* the config in force
  held,       \* held[n]: the entry n holds, or NoChoice
  lastHeard,  \* lastHeard[n]: when n's window began, or Never
  reused,     \* the names whose voice was given out again
  quiet,      \* quiet[<<n, w>>]: when a turn of n on w last ended, or Never
  speaker,    \* whose turn it is, or Nobody
  work,       \* the work the turn names
  given,      \* the entry the turn is spoken in, or NoChoice
  greet,      \* whether it is announced: "undecided", "yes" or "no"
  audible,    \* audible[<<n, w>>]: when a clip was last heard of them (history)
  voiceEnded  \* voiceEnded[v]: when a turn in voice v last ended (history)

tableVars == <<held, lastHeard, reused>>
turnVars  == <<speaker, work, given, greet>>
history   == <<audible, voiceEnded>>
vars == <<now, config, tableVars, quiet, turnVars, history>>

AllVoices == {VoiceOf[c] : c \in Choices}

Init ==
  /\ now = 1
  /\ config \in Configs
  /\ held = [n \in Names |-> NoChoice]
  /\ lastHeard = [n \in Names |-> Never]
  /\ reused = {}
  /\ quiet = [p \in Names \X Works |-> Never]
  /\ speaker = Nobody
  /\ work = NoWork
  /\ given = NoChoice
  /\ greet = "undecided"
  /\ audible = [p \in Names \X Works |-> Never]
  /\ voiceEnded = [v \in AllVoices |-> Never]

-----------------------------------------------------------------------------
\* voice_for(), at the start of a turn

(* Mutant of Gone: a name exactly at the window keeps its voice. *)
GoneLate ==
  {n \in Names : lastHeard[n] # Never /\ now - lastHeard[n] > AssignmentWindow}

(* release_expired(): the names quiet for the whole window. *)
Gone ==
  {n \in Names : lastHeard[n] # Never /\ now - lastHeard[n] >= AssignmentWindow}

HeldNow == [n \in Names |-> IF n \in Gone THEN NoChoice ELSE held[n]]

HeardNow == [n \in Names |-> IF n \in Gone THEN Never ELSE lastHeard[n]]

Holders(v) == {n \in Names : HeldNow[n] # NoChoice /\ VoiceOf[HeldNow[n]] = v}

DeclaredVoices ==
  {VoiceOf[config.declared[f]] : f \in {g \in Folds : config.declared[g] # NoChoice}}

First(I) == CHOOSE i \in I : \A j \in I : i <= j

(* Mutant of FreeChoices: a declared voice does not count as taken. *)
UnheldChoices ==
  {i \in DOMAIN config.voices : Holders(VoiceOf[config.voices[i]]) = {}}

(* _free(): the places on the list whose voice nobody holds or declared. *)
FreeChoices ==
  {i \in DOMAIN config.voices :
     /\ Holders(VoiceOf[config.voices[i]]) = {}
     /\ VoiceOf[config.voices[i]] \notin DeclaredVoices}

(* _last_heard_for_voice(): the latest of its holders, 0 without any. *)
LastHeardOf(c) ==
  First({t \in Times : \A n \in Holders(VoiceOf[c]) : HeardNow[n] <= t})

(* Mutant of Quietest: the voice heard last instead. *)
Loudest ==
  First({i \in DOMAIN config.voices : \A j \in DOMAIN config.voices :
           LastHeardOf(config.voices[i]) >= LastHeardOf(config.voices[j])})

(* _quietest(): the first place on the list whose voice was heard longest  *)
(* ago.                                                                    *)
Quietest ==
  First({i \in DOMAIN config.voices : \A j \in DOMAIN config.voices :
           LastHeardOf(config.voices[i]) <= LastHeardOf(config.voices[j])})

StartTurn(n, w, c) ==
  /\ speaker = Nobody
  /\ speaker' = n
  /\ work' = w
  /\ given' = c
  /\ greet' = "undecided"
  /\ UNCHANGED <<now, config, quiet, history>>

(* A declared name is answered before the table, and an empty list leaves  *)
(* the single voice to everybody.                                          *)
SpeakDeclared(n, w) ==
  /\ config.declared[Fold[n]] # NoChoice \/ config.voices = <<>>
  /\ StartTurn(n, w, config.declared[Fold[n]])
  /\ UNCHANGED tableVars

Consults(n) == config.declared[Fold[n]] = NoChoice /\ config.voices # <<>>

(* Mutant of Hold: the window of a new assignment is not begun. *)
HoldUndated(n, c) ==
  /\ held' = [HeldNow EXCEPT ![n] = c]
  /\ lastHeard' = HeardNow

(* n holds c from now on, its window begun where it had none. *)
Hold(n, c) ==
  /\ held' = [HeldNow EXCEPT ![n] = c]
  /\ lastHeard' = [HeardNow EXCEPT ![n] = IF @ = Never THEN now ELSE @]

SpeakHeld(n, w) ==
  /\ Consults(n)
  /\ HeldNow[n] # NoChoice
  /\ StartTurn(n, w, HeldNow[n])
  /\ held' = HeldNow
  /\ lastHeard' = HeardNow
  /\ reused' = reused \ Gone

SpeakFree(n, w) ==
  /\ Consults(n)
  /\ HeldNow[n] = NoChoice
  /\ FreeChoices # {}
  /\ LET c == config.voices[First(FreeChoices)]
     IN  StartTurn(n, w, c) /\ Hold(n, c)
  /\ reused' = reused \ Gone

SpeakReused(n, w) ==
  /\ Consults(n)
  /\ HeldNow[n] = NoChoice
  /\ FreeChoices = {}
  /\ LET c == config.voices[Quietest]
     IN  StartTurn(n, w, c) /\ Hold(n, c)
  /\ reused' = (reused \ Gone) \cup {n}

-----------------------------------------------------------------------------
\* The rest of a turn

(* Mutant of ShouldGreet: silence of exactly the window is not enough. *)
ShouldGreetLate(last) == last = Never \/ now - last > GreetingWindow

ShouldGreet(last) == last = Never \/ now - last >= GreetingWindow

(* The first clip to arrive settles the greeting, by the clock of then. *)
FirstClip ==
  /\ speaker # Nobody
  /\ greet = "undecided"
  /\ greet' = IF ShouldGreet(quiet[<<speaker, work>>]) THEN "yes" ELSE "no"
  /\ UNCHANGED <<now, config, tableVars, quiet, speaker, work, given,
                 history>>

(* A clip that is not the last is played to its end. *)
Hear ==
  /\ greet # "undecided"
  /\ audible' = [audible EXCEPT ![<<speaker, work>>] = now]
  /\ UNCHANGED <<now, config, tableVars, quiet, speaker, work, given, greet,
                 voiceEnded>>

EndTurn ==
  /\ speaker # Nobody
  /\ speaker' = Nobody
  /\ work' = NoWork
  /\ given' = NoChoice
  /\ greet' = "undecided"
  /\ UNCHANGED <<now, config, held, reused>>

(* The last clip is heard as the turn ends, unless it failed. *)
LastClip ==
  \/ greet # "undecided" /\ audible' = [audible EXCEPT ![<<speaker, work>>] = now]
  \/ "clip" \in Faults /\ UNCHANGED audible

(* Mutants of Finish: the work is not passed to the quiet table; the table *)
(* holds the end of the window instead of its beginning.                   *)
FinishWorkless ==
  /\ EndTurn
  /\ LastClip
  /\ quiet' = [quiet EXCEPT ![<<speaker, NoWork>>] = now]
  /\ lastHeard' = [lastHeard EXCEPT ![speaker] = now]
  /\ voiceEnded' = IF given = NoChoice THEN voiceEnded
                     ELSE [voiceEnded EXCEPT ![VoiceOf[given]] = now]

FinishDue ==
  /\ EndTurn
  /\ LastClip
  /\ quiet' = [quiet EXCEPT ![<<speaker, work>>] = now + GreetingWindow]
  /\ lastHeard' = [lastHeard EXCEPT ![speaker] = now]
  /\ voiceEnded' = IF given = NoChoice THEN voiceEnded
                     ELSE [voiceEnded EXCEPT ![VoiceOf[given]] = now]

(* record_finished() and record_spoken(), whatever was heard of the turn:  *)
(* every clip of it may have failed.                                       *)
Finish ==
  /\ EndTurn
  /\ LastClip
  /\ quiet' = [quiet EXCEPT ![<<speaker, work>>] = now]
  /\ lastHeard' = [lastHeard EXCEPT ![speaker] = now]
  /\ voiceEnded' = IF given = NoChoice THEN voiceEnded
                     ELSE [voiceEnded EXCEPT ![VoiceOf[given]] = now]

(* The line in the log raises, and neither table is told. *)
Abandon ==
  /\ "log" \in Faults
  /\ EndTurn
  /\ UNCHANGED <<quiet, lastHeard, history>>

(* Mutant of Reload: any change of the config rebuilds the table. *)
ReloadForgets(k) ==
  /\ speaker = Nobody
  /\ config' = k
  /\ held' = [n \in Names |-> NoChoice]
  /\ lastHeard' = [n \in Names |-> Never]
  /\ reused' = {}
  /\ UNCHANGED <<now, quiet, turnVars, history>>

(* _refresh_config(): the table is rebuilt where the shortlist or the      *)
(* declarations changed, and only there.                                   *)
Reload(k) ==
  /\ speaker = Nobody
  /\ config' = k
  /\ IF k.voices = config.voices /\ k.declared = config.declared
       THEN UNCHANGED tableVars
       ELSE /\ held' = [n \in Names |-> NoChoice]
            /\ lastHeard' = [n \in Names |-> Never]
            /\ reused' = {}
  /\ UNCHANGED <<now, quiet, turnVars, history>>

Tick ==
  /\ now < MaxTime
  /\ now' = now + 1
  /\ UNCHANGED <<config, tableVars, quiet, turnVars, history>>

Begin(n, w) ==
  SpeakDeclared(n, w) \/ SpeakHeld(n, w) \/ SpeakFree(n, w) \/ SpeakReused(n, w)

Next ==
  \/ \E s \in Senders : Begin(s[1], s[2])
  \/ FirstClip \/ Hear \/ Finish \/ Abandon
  \/ \E k \in Configs : Reload(k)
  \/ Tick

Spec == Init /\ [][Next]_vars

-----------------------------------------------------------------------------
TypeOK ==
  /\ now \in Times \ {Never}
  /\ config \in Configs
  /\ held \in [Names -> Choices \cup {NoChoice}]
  /\ lastHeard \in [Names -> Times]
  /\ reused \subseteq Names
  /\ quiet \in [Names \X Works -> Times]
  /\ speaker \in Names \cup {Nobody}
  /\ work \in Works
  /\ given \in Choices \cup {NoChoice}
  /\ greet \in {"undecided", "yes", "no"}
  /\ audible \in [Names \X Works -> Times]
  /\ voiceEnded \in [AllVoices -> Times]

(* FR-10.12, FR-10.16: a voice is shared, or is another name's declared    *)
(* one, only where the name that came second is announced as reusing it.   *)
OwnVoice ==
  \A n \in Names : held[n] # NoChoice /\ n \notin reused =>
    /\ VoiceOf[held[n]] \notin DeclaredVoices
    /\ \A m \in Names \ {n} : held[m] # NoChoice /\ VoiceOf[held[m]] = VoiceOf[held[n]] =>
         m \in reused

(* FR-10.3: no voice is held without a window that will end, even where    *)
(* the turn that took it never ended; and who is announced as reusing a    *)
(* voice does hold one.                                                    *)
Releasable ==
  /\ \A n \in Names : held[n] # NoChoice => lastHeard[n] # Never
  /\ \A n \in reused : held[n] # NoChoice

SameShortlist ==
  config'.voices = config.voices /\ config'.declared = config.declared

(* FR-10.2, FR-10.4: a name heard within the window, on any work, keeps    *)
(* its voice, whatever else of the config is changed meanwhile.            *)
KeptBy(n) ==
  \E w \in Works :
    audible[<<n, w>>] # Never /\ now - audible[<<n, w>>] < AssignmentWindow

KeepsVoice ==
  [][\A n \in Names :
       held[n] # NoChoice /\ KeptBy(n) /\ SameShortlist => held'[n] = held[n]]_vars

(* FR-10.6, FR-10.3, FR-10.12: a voice is given out again only when every  *)
(* one on the list is declared or held by a name still within its window.  *)
InUse(v, n) ==
  \/ v \in DeclaredVoices
  \/ \E m \in Names \ {n} :
       /\ held[m] # NoChoice /\ VoiceOf[held[m]] = v
       /\ now - lastHeard[m] < AssignmentWindow

ReusedOnlyWhenOut ==
  [][\A n \in reused' \ reused : \A i \in DOMAIN config.voices :
       InUse(VoiceOf[config.voices[i]], n)]_vars

(* FR-10.6: where nobody declared a voice, the one given out again is the  *)
(* one whose last turn ended longest ago, whoever spoke it.                *)
QuietestIsReused ==
  [][\A n \in reused' \ reused : \A i \in DOMAIN config.voices :
       DeclaredVoices = {} =>
         voiceEnded[VoiceOf[held'[n]]] <= voiceEnded[VoiceOf[config.voices[i]]]]_vars

(* FR-3.2, FR-7.4: no name is announced on a work while its voice on it is *)
(* still in the room.                                                      *)
NotReannounced ==
  [][greet = "undecided" /\ greet' = "yes" =>
       \/ audible[<<speaker, work>>] = Never
       \/ now - audible[<<speaker, work>>] >= GreetingWindow]_vars

(* FR-3.2, FR-7.4: who has not been heard on a work within the window is   *)
(* announced.  It takes clips that play: see the fault "clip".             *)
AnnouncedWhenQuiet ==
  [][greet = "undecided" /\ greet' = "no" =>
       /\ audible[<<speaker, work>>] # Never
       /\ now - audible[<<speaker, work>>] < GreetingWindow]_vars
=============================================================================
