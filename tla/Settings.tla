----------------------------- MODULE Settings -----------------------------
(***************************************************************************)
(* skid.config, the tools of skid.routes that write it, and the serve      *)
(* thread's _refresh_config(): one file that request threads rewrite whole,*)
(* that a person edits by hand, and that is read again by its mtime.       *)
(*                                                                         *)
(* A write is a temporary file and a rename, so a reader meets one content *)
(* or another.  A content is the single voice, the voices of the shortlist *)
(* and the substitutions in order; a file that load_config refuses is      *)
(* Broken, and where there is none the settings are Default.               *)
(***************************************************************************)
EXTENDS Integers, Sequences

CONSTANTS
  Calls,        \* the calls of tools that write the file
  Request,      \* Request[c]: what c asks for
  VoiceNames,   \* the voices a file may name
  Kokoro,       \* VOICES, those the generator takes
  Entries,      \* the substitutions
  Default,      \* Config()
  AtStart,      \* the contents the file may have to begin with
  Edits,        \* the contents a person may write
  Broken, Missing,
  Overlap,      \* may one write begin before another has ended?
  Stamps,       \* bound: the mtimes, each given to one write
  MaxSubmitted  \* bound: how many submissions are made

Requests ==
  [op : {"voice"}, voice : VoiceNames]
  \cup [op : {"add", "remove"}, entry : Entries]

Content == [voice : VoiceNames, list : SUBSET VoiceNames, subs : Seq(Entries)]

ASSUME SettingsAssumption ==
  /\ Request \in [Calls -> Requests]
  /\ Kokoro \subseteq VoiceNames
  /\ Default \in Content
  /\ Broken # Missing /\ Broken \notin Content /\ Missing \notin Content
  /\ AtStart \subseteq Content \cup {Missing}
  /\ Edits \subseteq Content \cup {Broken}
  /\ Overlap \in BOOLEAN
  /\ Stamps \subseteq Nat
  /\ MaxSubmitted \in Nat

(* _config_seen before anything was read again *)
Unseen == -1

VARIABLES
  file,       \* config.yaml
  mtime,      \* its mtime
  used,       \* the mtimes given so far
  call,       \* call[c]: how far c has got
  copy,       \* copy[c]: the config c has loaded
  inForce,    \* the config in force
  seen,       \* the mtime the config in force was read at
  voice,      \* the voice of the generator
  loop,       \* where the serve thread is
  submitted,  \* how many submissions were made
  waiting,    \* how many of them are in the spool
  wakeups,    \* the wakeups on their way to the serve thread
  written     \* was the file written since the last wakeup? (history)

fileVars == <<file, mtime, used>>
toolVars == <<call, copy>>
speechVars == <<submitted, waiting, wakeups>>
settingsVars ==
  <<fileVars, toolVars, inForce, seen, voice, loop, speechVars, written>>

Loaded == IF file = Missing THEN Default ELSE file

SettingsInit ==
  /\ file \in AtStart
  /\ Loaded.voice \in Kokoro
  /\ mtime \in Stamps
  /\ used = {mtime}
  /\ call = [c \in Calls |-> "none"]
  /\ copy = [c \in Calls |-> Default]
  /\ inForce = Loaded
  /\ seen = Unseen
  /\ voice = Loaded.voice
  /\ loop = "get"
  /\ submitted = 0
  /\ waiting = 0
  /\ wakeups = 0
  /\ written = FALSE

-----------------------------------------------------------------------------
\* set_voice, add_substitution and remove_substitution

(* Mutant of Accepts: kokoro's list is not asked where there is no other.  *)
AcceptsListed(r, k) == r.op = "voice" /\ k.list # {} => r.voice \in k.list

(* The shortlist says what this machine speaks; without one, kokoro does.  *)
Accepts(r, k) ==
  r.op = "voice" => r.voice \in (IF k.list = {} THEN Kokoro ELSE k.list)

(* A list without the entries of one pattern and kind. *)
Without(s, x) ==
  LET kept[i \in 0..Len(s)] ==
        IF i = 0 THEN <<>>
        ELSE IF s[i] = x THEN kept[i - 1] ELSE Append(kept[i - 1], s[i])
  IN  kept[Len(s)]

Applied(r, k) ==
  CASE r.op = "voice" -> [k EXCEPT !.voice = r.voice]
    [] r.op = "add" -> [k EXCEPT !.subs = Append(@, r.entry)]
    [] r.op = "remove" -> [k EXCEPT !.subs = Without(@, r.entry)]

AtWork == {c \in Calls : call[c] = "loaded"}

(* load_config(), on the thread of the request. *)
ToolLoad(c) ==
  /\ call[c] = "none"
  /\ Overlap \/ AtWork = {}
  /\ file # Broken
  /\ Accepts(Request[c], Loaded)
  /\ call' = [call EXCEPT ![c] = "loaded"]
  /\ copy' = [copy EXCEPT ![c] = Loaded]
  /\ UNCHANGED <<fileVars, inForce, seen, voice, loop, speechVars, written>>

(* A value that is refused, or a file that does not load: nothing written. *)
ToolRefuse(c) ==
  /\ call[c] = "none"
  /\ file # Broken => ~Accepts(Request[c], Loaded)
  /\ call' = [call EXCEPT ![c] = "refused"]
  /\ UNCHANGED <<fileVars, copy, inForce, seen, voice, loop, speechVars, written>>

Write(k) ==
  /\ file' = k
  /\ mtime' \in Stamps \ used
  /\ used' = used \cup {mtime'}
  /\ written' = TRUE

(* Mutant of ToolSave: the voice comes from the config in force. *)
ToolSaveStale(c) ==
  /\ call[c] = "loaded"
  /\ Write([Applied(Request[c], copy[c]) EXCEPT !.voice = inForce.voice])
  /\ call' = [call EXCEPT ![c] = "answered"]
  /\ UNCHANGED <<copy, inForce, seen, voice, loop, speechVars>>

(* save_config() writes the whole of what was loaded, with the change. *)
ToolSave(c) ==
  /\ call[c] = "loaded"
  /\ Write(Applied(Request[c], copy[c]))
  /\ call' = [call EXCEPT ![c] = "answered"]
  /\ UNCHANGED <<copy, inForce, seen, voice, loop, speechVars>>

(* A person saves the file, whose mtime may go back (a restored copy). *)
Edit ==
  /\ Overlap \/ AtWork = {}
  /\ \E k \in Edits : Write(k)
  /\ UNCHANGED <<toolVars, inForce, seen, voice, loop, speechVars>>

-----------------------------------------------------------------------------
\* submit() and the serve thread

Submit ==
  /\ submitted < MaxSubmitted
  /\ submitted' = submitted + 1
  /\ waiting' = waiting + 1
  /\ wakeups' = wakeups + 1
  /\ UNCHANGED <<fileVars, toolVars, inForce, seen, voice, loop, written>>

(* Mutant of Wake: only a later mtime counts as a change. *)
WakeIfLater ==
  /\ loop = "get"
  /\ wakeups > 0
  /\ wakeups' = wakeups - 1
  /\ written' = FALSE
  /\ IF file = Missing \/ mtime <= seen
       THEN loop' = "drain" /\ UNCHANGED seen
       ELSE loop' = "reload" /\ seen' = mtime
  /\ UNCHANGED <<fileVars, toolVars, inForce, voice, submitted, waiting>>

(* A wakeup: _refresh_config() takes the mtime first and notes it. *)
Wake ==
  /\ loop = "get"
  /\ wakeups > 0
  /\ wakeups' = wakeups - 1
  /\ written' = FALSE
  /\ IF file = Missing \/ mtime = seen
       THEN loop' = "drain" /\ UNCHANGED seen
       ELSE loop' = "reload" /\ seen' = mtime
  /\ UNCHANGED <<fileVars, toolVars, inForce, voice, submitted, waiting>>

(* Mutant of Reload: a file that does not load is taken all the same. *)
RereadAnything ==
  /\ loop = "reload"
  /\ inForce' = file
  /\ loop' = "drain"
  /\ UNCHANGED <<fileVars, toolVars, seen, voice, speechVars, written>>

(* ... and then reads the file.  One that does not load is recorded and    *)
(* the config stays.  A voice the generator does not take raises, and      *)
(* nothing on the thread catches it.                                       *)
Reread ==
  /\ loop = "reload"
  /\ IF file = Broken
       THEN loop' = "drain" /\ UNCHANGED <<inForce, voice>>
       ELSE /\ inForce' = Loaded
            /\ IF Loaded.voice \in Kokoro
                 THEN loop' = "drain" /\ voice' = Loaded.voice
                 ELSE loop' = "dead" /\ UNCHANGED voice
  /\ UNCHANGED <<fileVars, toolVars, seen, speechVars, written>>

(* take() returns a submission, spoken by the config in force. *)
Speak ==
  /\ loop = "drain"
  /\ waiting > 0
  /\ waiting' = waiting - 1
  /\ loop' = "speaking"
  /\ voice' = inForce.voice
  /\ UNCHANGED <<fileVars, toolVars, inForce, seen, submitted, wakeups, written>>

(* done(): the next is taken without another look at the file. *)
SpeakEnd ==
  /\ loop = "speaking"
  /\ loop' = "drain"
  /\ UNCHANGED <<fileVars, toolVars, inForce, seen, voice, speechVars, written>>

Rest ==
  /\ loop = "drain"
  /\ waiting = 0
  /\ loop' = "get"
  /\ UNCHANGED <<fileVars, toolVars, inForce, seen, voice, speechVars, written>>

SettingsNext ==
  \/ \E c \in Calls : ToolLoad(c) \/ ToolRefuse(c) \/ ToolSave(c)
  \/ Edit \/ Submit
  \/ Wake \/ Reread \/ Speak \/ SpeakEnd \/ Rest

SettingsSpec == SettingsInit /\ [][SettingsNext]_settingsVars

-----------------------------------------------------------------------------
SettingsTypeOK ==
  /\ file \in Content \cup {Broken, Missing}
  /\ mtime \in Stamps
  /\ used \subseteq Stamps
  /\ call \in [Calls -> {"none", "loaded", "answered", "refused"}]
  /\ copy \in [Calls -> Content]
  /\ inForce \in Content
  /\ seen \in Stamps \cup {Unseen}
  /\ voice \in VoiceNames
  /\ loop \in {"get", "reload", "drain", "speaking", "dead"}
  /\ submitted \in 0..MaxSubmitted
  /\ waiting \in Nat
  /\ wakeups \in Nat
  /\ written \in BOOLEAN

(* FR-7.1, FR-7.8, docs/SPEC.md:398: a tool changes what it was asked to   *)
(* change of the file as it then is, so that neither another tool's change *)
(* nor a hand edit is silently discarded.  The code relies on no two       *)
(* writers overlapping (Overlap = FALSE) for it.                           *)
WritesChangeOneThing ==
  [][\A c \in Calls : call[c] = "loaded" /\ call'[c] = "answered" =>
       file # Broken /\ file' = Applied(Request[c], Loaded)]_settingsVars

(* FR-6.3: what the file held at the last wakeup is what a submission is   *)
(* spoken by, however the writes fell around the two reads of it.          *)
SpokenAsLastRead ==
  [][waiting' < waiting /\ ~written =>
       inForce = Loaded \/ file = Broken]_settingsVars

(* FR-6.5: no setting that a tool accepts ends the serve thread.  And      *)
(* docs/SPEC.md:250 of the file: "A voice the config names and kokoro does *)
(* not know is recorded as a failure and stepped over."                    *)
KeepsServing == loop # "dead"
=============================================================================
