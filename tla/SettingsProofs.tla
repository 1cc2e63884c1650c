-------------------------- MODULE SettingsProofs --------------------------
(***************************************************************************)
(* What is proved of Settings, for any tools, contents and edits: calls    *)
(* that do not overlap change one thing each, no tool can end the serve    *)
(* thread where the files people write name only voices of kokoro, a       *)
(* removal takes out just what it was asked to, and speech follows the     *)
(* file.                                                                   *)
(***************************************************************************)
EXTENDS Settings, NaturalLemmas, SequenceTheorems, TLAPS

(* A call at work is alone, and holds what the file holds. *)
CopiesAreCurrent ==
  /\ \A c, d \in AtWork : c = d
  /\ \A c \in AtWork : file # Broken /\ copy[c] = Loaded

LEMMA CopiesInit == SettingsInit => CopiesAreCurrent
  BY DEF SettingsInit, CopiesAreCurrent, AtWork

LEMMA CopiesStep ==
  ASSUME Overlap = FALSE, DOMAIN call = Calls, DOMAIN copy = Calls,
         CopiesAreCurrent, [SettingsNext]_settingsVars
  PROVE  CopiesAreCurrent' /\ DOMAIN call' = Calls /\ DOMAIN copy' = Calls
<1> USE DEF CopiesAreCurrent, AtWork, Loaded, fileVars, toolVars
<1>1. ASSUME NEW c \in Calls, ToolLoad(c)
      PROVE  CopiesAreCurrent' /\ DOMAIN call' = Calls /\ DOMAIN copy' = Calls
  BY <1>1 DEF ToolLoad
<1>2. ASSUME NEW c \in Calls, ToolRefuse(c)
      PROVE  CopiesAreCurrent' /\ DOMAIN call' = Calls /\ DOMAIN copy' = Calls
  BY <1>2 DEF ToolRefuse
<1>3. ASSUME NEW c \in Calls, ToolSave(c)
      PROVE  CopiesAreCurrent' /\ DOMAIN call' = Calls /\ DOMAIN copy' = Calls
  <2>1. AtWork' = {}
    BY <1>3 DEF ToolSave
  <2> QED BY <1>3, <2>1 DEF ToolSave
<1>4. CASE Edit
  BY <1>4 DEF Edit
<1>5. CASE Submit \/ Wake \/ Reread \/ Speak \/ SpeakEnd \/ Rest
  BY <1>5 DEF Submit, Wake, Reread, Speak, SpeakEnd, Rest
<1>6. CASE UNCHANGED settingsVars
  BY <1>6 DEF settingsVars
<1> QED BY <1>1, <1>2, <1>3, <1>4, <1>5, <1>6 DEF SettingsNext

(* The only step that answers a call is the one that saves for it. *)
LEMMA AnswerSaves ==
  ASSUME DOMAIN call = Calls, [SettingsNext]_settingsVars, NEW c \in Calls,
         call[c] = "loaded", call'[c] = "answered"
  PROVE  ToolSave(c)
<1> USE DEF toolVars
<1>1. ASSUME NEW d \in Calls, ToolLoad(d) \/ ToolRefuse(d) PROVE FALSE
  BY <1>1 DEF ToolLoad, ToolRefuse
<1>2. ASSUME NEW d \in Calls, ToolSave(d) PROVE c = d
  BY <1>2 DEF ToolSave
<1>3. ~(Edit \/ Submit \/ Wake \/ Reread \/ Speak \/ SpeakEnd \/ Rest)
  BY DEF Edit, Submit, Wake, Reread, Speak, SpeakEnd, Rest
<1>4. ~UNCHANGED settingsVars
  BY DEF settingsVars
<1> QED BY <1>1, <1>2, <1>3, <1>4 DEF SettingsNext

(* FR-7.1, FR-7.8: tools that are called one after the other, and never    *)
(* while a person writes the file, each change only what they were asked.  *)
THEOREM ToolsInTurnLoseNothing ==
  Overlap = FALSE => (SettingsSpec => WritesChangeOneThing)
<1> SUFFICES ASSUME Overlap = FALSE PROVE SettingsSpec => WritesChangeOneThing
  OBVIOUS
<1> DEFINE I == CopiesAreCurrent /\ DOMAIN call = Calls /\ DOMAIN copy = Calls
<1>1. SettingsInit => I
  BY CopiesInit DEF SettingsInit
<1>2. I /\ [SettingsNext]_settingsVars => I'
  BY CopiesStep
<1>3. I /\ [SettingsNext]_settingsVars =>
        [\A c \in Calls : call[c] = "loaded" /\ call'[c] = "answered" =>
           file # Broken /\ file' = Applied(Request[c], Loaded)]_settingsVars
  <2> SUFFICES ASSUME I, [SettingsNext]_settingsVars, NEW c \in Calls,
                      call[c] = "loaded", call'[c] = "answered"
               PROVE  file # Broken /\ file' = Applied(Request[c], Loaded)
    OBVIOUS
  <2>1. ToolSave(c)
    BY AnswerSaves
  <2> QED BY <2>1 DEF ToolSave, Write, CopiesAreCurrent, AtWork
<1> HIDE DEF I
<1> QED BY <1>1, <1>2, <1>3, PTL DEF SettingsSpec, WritesChangeOneThing

-----------------------------------------------------------------------------
(* A content whose voices are all kokoro's, and the same of every content  *)
(* a person writes.                                                        *)
Known(k) ==
  /\ k = [voice |-> k.voice, list |-> k.list, subs |-> k.subs]
  /\ k.voice \in Kokoro
  /\ k.list \subseteq Kokoro

PeopleWriteKnownVoices ==
  /\ Known(Default)
  /\ \A k \in AtStart : k = Missing \/ Known(k)
  /\ \A k \in Edits : k = Broken \/ Known(k)

(* A change that was accepted keeps a content known. *)
LEMMA AppliedIsKnown ==
  ASSUME NEW r \in Requests, NEW k, Known(k), Accepts(r, k)
  PROVE  Known(Applied(r, k))
<1> USE DEF Known
<1>1. CASE r.op = "voice"
  BY <1>1 DEF Applied, Accepts
<1>2. CASE r.op = "add"
  BY <1>2 DEF Applied
<1>3. CASE r.op = "remove"
  BY <1>3 DEF Applied
<1> QED BY <1>1, <1>2, <1>3 DEF Requests

(* Everything that may come to be in force is known. *)
AllKnown ==
  /\ file = Broken \/ Known(Loaded)
  /\ DOMAIN call = Calls /\ DOMAIN copy = Calls
  /\ \A c \in AtWork : Known(copy[c]) /\ Accepts(Request[c], copy[c])
  /\ KeepsServing

LEMMA KnownStep ==
  ASSUME PeopleWriteKnownVoices, AllKnown, [SettingsNext]_settingsVars
  PROVE  AllKnown'
<1> USE SettingsAssumption
        DEF AllKnown, AtWork, KeepsServing, fileVars, toolVars
<1>1. ASSUME NEW c \in Calls, ToolLoad(c) PROVE AllKnown'
  BY <1>1 DEF ToolLoad, Loaded
<1>2. ASSUME NEW c \in Calls, ToolRefuse(c) PROVE AllKnown'
  BY <1>2 DEF ToolRefuse, Loaded
<1>3. ASSUME NEW c \in Calls, ToolSave(c) PROVE AllKnown'
  <2>1. Known(file')
    BY <1>3, AppliedIsKnown DEF ToolSave, Write
  <2>2. file' = Missing => Known(Default)
    BY DEF PeopleWriteKnownVoices
  <2> QED BY <1>3, <2>1, <2>2 DEF ToolSave, Loaded
<1>4. CASE Edit
  <2>1. file' = Broken \/ Known(file')
    BY <1>4 DEF Edit, Write, PeopleWriteKnownVoices
  <2>2. file' = Missing => Known(Default)
    BY DEF PeopleWriteKnownVoices
  <2> QED BY <1>4, <2>1, <2>2 DEF Edit, Loaded
<1>5. CASE Reread
  BY <1>5 DEF Reread, Loaded, Known
<1>6. CASE Submit \/ Wake \/ Speak \/ SpeakEnd \/ Rest
  BY <1>6 DEF Submit, Wake, Speak, SpeakEnd, Rest, Loaded
<1>7. CASE UNCHANGED settingsVars
  BY <1>7 DEF settingsVars, Loaded
<1> QED BY <1>1, <1>2, <1>3, <1>4, <1>5, <1>6, <1>7 DEF SettingsNext

(* FR-6.5: whatever tools are called with, and however their calls and the *)
(* edits overlap, the serve thread keeps serving.                          *)
THEOREM ToolsCannotSilence ==
  PeopleWriteKnownVoices => (SettingsSpec => []KeepsServing)
<1> SUFFICES ASSUME PeopleWriteKnownVoices PROVE SettingsSpec => []KeepsServing
  OBVIOUS
<1>1. SettingsInit => AllKnown
  BY SettingsAssumption DEF SettingsInit, AllKnown, AtWork, KeepsServing, Loaded,
     PeopleWriteKnownVoices
<1>2. AllKnown /\ [SettingsNext]_settingsVars => AllKnown'
  BY KnownStep
<1>3. AllKnown => KeepsServing
  BY DEF AllKnown
<1> QED BY <1>1, <1>2, <1>3, PTL DEF SettingsSpec

-----------------------------------------------------------------------------
(* kept is what is left of s without x, up to k characters... *)
KeptUpTo(s, x, k, kept) ==
  /\ kept[0] = <<>>
  /\ \A i \in 1..k :
       kept[i] = IF s[i] = x THEN kept[i - 1] ELSE Append(kept[i - 1], s[i])

(* The recursion of Without has a solution, and Without is its end. *)
LEMMA WithoutIsKept ==
  ASSUME NEW S, NEW s \in Seq(S), NEW x
  PROVE  \E kept \in [0..Len(s) -> Seq(S)] :
           KeptUpTo(s, x, Len(s), kept) /\ Without(s, x) = kept[Len(s)]
<1> DEFINE T == {k \in 0..Len(s) : \E g \in [0..k -> Seq(S)] : KeptUpTo(s, x, k, g)}
<1>1. 0 \in T
  <2> DEFINE g == [i \in 0..0 |-> <<>>]
  <2>1. g \in [0..0 -> Seq(S)] /\ KeptUpTo(s, x, 0, g)
    BY DEF KeptUpTo
  <2> HIDE DEF g
  <2> QED BY <2>1
<1>2. ASSUME NEW k \in 0..(Len(s) - 1), k \in T PROVE k + 1 \in T
  <2>1. PICK g \in [0..k -> Seq(S)] : KeptUpTo(s, x, k, g)
    BY <1>2
  <2> DEFINE last == IF s[k + 1] = x THEN g[k] ELSE Append(g[k], s[k + 1])
  <2> DEFINE h == [i \in 0..(k + 1) |-> IF i <= k THEN g[i] ELSE last]
  <2>2. last \in Seq(S)
    BY <1>2
  <2> HIDE DEF last
  <2>3. h \in [0..(k + 1) -> Seq(S)]
    BY <2>2
  <2>4. h[k + 1] = last /\ \A i \in 0..k : h[i] = g[i]
    OBVIOUS
  <2> HIDE DEF h
  <2>5. \A i \in 1..(k + 1) :
          h[i] = IF s[i] = x THEN h[i - 1] ELSE Append(h[i - 1], s[i])
    BY <2>1, <2>4 DEF KeptUpTo, last
  <2>6. KeptUpTo(s, x, k + 1, h)
    BY <2>1, <2>4, <2>5 DEF KeptUpTo
  <2> QED BY <2>3, <2>6
<1>3. PICK g \in [0..Len(s) -> Seq(S)] : KeptUpTo(s, x, Len(s), g)
  <2>1. Len(s) \in Nat
    OBVIOUS
  <2>2. 0..Len(s) \subseteq T
    <3> HIDE DEF T
    <3> QED BY <1>1, <1>2, <2>1, UpTo
  <2>3. Len(s) \in T
    BY <2>1, <2>2
  <2> QED BY <2>3
<1> DEFINE Eq(kept) == kept = [i \in 0..Len(s) |->
             IF i = 0 THEN <<>>
             ELSE IF s[i] = x THEN kept[i - 1] ELSE Append(kept[i - 1], s[i])]
<1>4. Eq(g)
  <2>1. \A i \in 0..Len(s) :
          g[i] = IF i = 0 THEN <<>>
                 ELSE IF s[i] = x THEN g[i - 1] ELSE Append(g[i - 1], s[i])
    <3>1. \A i \in 0..Len(s) : i = 0 \/ i \in 1..Len(s)
      OBVIOUS
    <3>2. /\ g[0] = <<>>
          /\ \A i \in 1..Len(s) :
               g[i] = IF s[i] = x THEN g[i - 1] ELSE Append(g[i - 1], s[i])
      BY <1>3 DEF KeptUpTo
    <3>3. 0 \notin 1..Len(s)
      OBVIOUS
    <3> QED BY ONLY <3>1, <3>2, <3>3, Zenon
  <2> QED BY <2>1, Zenon
<1> DEFINE f == CHOOSE kept : Eq(kept)
<1>5. Eq(f)
  <2> HIDE DEF Eq
  <2> QED BY <1>4
<1>6. Without(s, x) = f[Len(s)]
  BY DEF Without
<1> HIDE DEF f
<1>7. KeptUpTo(s, x, Len(s), f)
  <2>1. \A i \in 0..Len(s) :
          f[i] = IF i = 0 THEN <<>>
                 ELSE IF s[i] = x THEN f[i - 1] ELSE Append(f[i - 1], s[i])
    BY <1>5, Zenon
  <2> HIDE DEF Eq
  <2> QED BY <2>1 DEF KeptUpTo
<1>8. f = g
  <2> DEFINE A == {i \in 0..Len(s) : f[i] = g[i]}
  <2>1. 0 \in A /\ \A n \in 0..(Len(s) - 1) : n \in A => n + 1 \in A
    BY <1>3, <1>7 DEF KeptUpTo
  <2>2. 0..Len(s) \subseteq A
    <3> HIDE DEF A
    <3>1. Len(s) \in Nat
      OBVIOUS
    <3> QED BY ONLY <2>1, <3>1, UpTo
  <2> QED BY <1>3, <1>5, <2>2
<1> QED BY <1>3, <1>6, <1>8

(* w is what the first k of s are without x: the same entries in the same  *)
(* order, at the places where another than x stands, and at all of those.  *)
IsRest(w, s, k, x) ==
  \E at \in [DOMAIN w -> 1..k] :
    /\ \A i, j \in DOMAIN w : i < j => at[i] < at[j]
    /\ \A j \in DOMAIN w : w[j] = s[at[j]]
    /\ \A i \in 1..k : s[i] # x <=> \E j \in DOMAIN w : at[j] = i

LEMMA RestGrows ==
  ASSUME NEW S, NEW s \in Seq(S), NEW x, NEW k \in 0..(Len(s) - 1),
         NEW w \in Seq(S), IsRest(w, s, k, x)
  PROVE  IsRest(IF s[k + 1] = x THEN w ELSE Append(w, s[k + 1]), s, k + 1, x)
<1>1. PICK at \in [DOMAIN w -> 1..k] :
        /\ \A i, j \in DOMAIN w : i < j => at[i] < at[j]
        /\ \A j \in DOMAIN w : w[j] = s[at[j]]
        /\ \A i \in 1..k : s[i] # x <=> \E j \in DOMAIN w : at[j] = i
  BY DEF IsRest
<1>2. CASE s[k + 1] = x
  <2>1. /\ at \in [DOMAIN w -> 1..(k + 1)]
        /\ \A i \in 1..(k + 1) : s[i] # x <=> \E j \in DOMAIN w : at[j] = i
    BY <1>1, <1>2
  <2>2. IsRest(w, s, k + 1, x)
    BY <1>1, <2>1 DEF IsRest
  <2> QED BY <1>2, <2>2
<1>3. CASE s[k + 1] # x
  <2> DEFINE n == Len(w) + 1
             v == Append(w, s[k + 1])
             to == [j \in 1..n |-> IF j < n THEN at[j] ELSE k + 1]
  <2>1. /\ n \in Nat /\ n > 0 /\ DOMAIN w = 1..(n - 1) /\ DOMAIN v = 1..n
        /\ v[n] = s[k + 1] /\ \A j \in 1..(n - 1) : v[j] = w[j]
    BY s[k + 1] \in S
  <2> HIDE DEF n, v
  <2>2. /\ to[n] = k + 1
        /\ \A j \in 1..(n - 1) : to[j] = at[j] /\ at[j] \in 1..k
    BY <1>1, <2>1
  <2>3. to \in [DOMAIN v -> 1..(k + 1)]
    BY <2>1, <2>2
  <2> HIDE DEF to
  <2>4. \A i, j \in DOMAIN v : i < j => to[i] < to[j]
    BY <1>1, <2>1, <2>2
  <2>5. \A j \in DOMAIN v : v[j] = s[to[j]]
    BY <1>1, <2>1, <2>2
  <2>6. \A i \in 1..(k + 1) : s[i] # x <=> \E j \in DOMAIN v : to[j] = i
    <3>1. ASSUME NEW i \in 1..k PROVE s[i] # x <=> \E j \in DOMAIN v : to[j] = i
      <4>1. s[i] # x <=> \E j \in 1..(n - 1) : at[j] = i
        BY <1>1, <2>1
      <4>2. to[n] # i
        BY <2>2
      <4>3. \A j \in 1..n : j = n \/ j \in 1..(n - 1)
        BY <2>1
      <4>4. (\E j \in 1..(n - 1) : at[j] = i) => \E j \in 1..n : to[j] = i
        BY <2>1, <2>2
      <4>5. (\E j \in 1..n : to[j] = i) => \E j \in 1..(n - 1) : at[j] = i
        BY <4>2, <4>3, <2>2
      <4> QED BY <4>1, <4>4, <4>5, <2>1
    <3> QED BY <1>3, <2>1, <2>2, <3>1
  <2>7. IsRest(v, s, k + 1, x)
    BY <2>3, <2>4, <2>5, <2>6 DEF IsRest
  <2> QED BY <1>3, <2>7 DEF v
<1> QED BY <1>2, <1>3

(* FR-7.8, FR-8.4: a removal takes every entry of the pattern and kind it  *)
(* was given, no other one, and leaves the rest in their order.            *)
THEOREM RemovalIsExact ==
  ASSUME NEW S, NEW s \in Seq(S), NEW x
  PROVE  Without(s, x) \in Seq(S) /\ IsRest(Without(s, x), s, Len(s), x)
<1>1. PICK kept \in [0..Len(s) -> Seq(S)] :
        KeptUpTo(s, x, Len(s), kept) /\ Without(s, x) = kept[Len(s)]
  BY WithoutIsKept
<1> DEFINE T == {k \in 0..Len(s) : IsRest(kept[k], s, k, x)}
<1>2. 0 \in T
  <2>1. [j \in DOMAIN kept[0] |-> 1] \in [DOMAIN kept[0] -> 1..0] /\ DOMAIN kept[0] = {}
    BY <1>1 DEF KeptUpTo
  <2> QED BY <2>1 DEF IsRest
<1>3. \A k \in 0..(Len(s) - 1) : k \in T => k + 1 \in T
  <2> SUFFICES ASSUME NEW k \in 0..(Len(s) - 1), k \in T PROVE k + 1 \in T
    OBVIOUS
  <2>1. kept[k + 1] = IF s[k + 1] = x THEN kept[k] ELSE Append(kept[k], s[k + 1])
    BY <1>1 DEF KeptUpTo
  <2>2. kept[k] \in Seq(S) /\ IsRest(kept[k], s, k, x)
    OBVIOUS
  <2>3. IsRest(kept[k + 1], s, k + 1, x)
    BY <2>1, <2>2, RestGrows
  <2> QED BY <2>3
<1>4. Len(s) \in Nat /\ 0..Len(s) \subseteq T
  <2>1. Len(s) \in Nat
    OBVIOUS
  <2> HIDE DEF T
  <2> QED BY <1>2, <1>3, <2>1, UpTo
<1> QED BY <1>1, <1>4

-----------------------------------------------------------------------------
LEMMA AppliedIsContent ==
  ASSUME NEW r \in Requests, NEW k \in Content
  PROVE  Applied(r, k) \in Content
<1> USE DEF Content, Requests
<1>1. CASE r.op = "voice"
  BY <1>1 DEF Applied
<1>2. CASE r.op = "add"
  <2>1. Append(k.subs, r.entry) \in Seq(Entries)
    BY <1>2
  <2> QED BY <1>2, <2>1 DEF Applied
<1>3. CASE r.op = "remove"
  <2>1. Without(k.subs, r.entry) \in Seq(Entries)
    BY RemovalIsExact
  <2> QED BY <1>3, <2>1 DEF Applied
<1> QED BY <1>1, <1>2, <1>3

LEMMA SettingsInitType == SettingsInit => SettingsTypeOK
<1> SUFFICES ASSUME SettingsInit PROVE SettingsTypeOK
  OBVIOUS
<1>1. Loaded \in Content /\ Loaded.voice \in VoiceNames
  BY SettingsAssumption DEF SettingsInit, Loaded
<1>2. file \in Content \cup {Missing}
  BY SettingsAssumption DEF SettingsInit
<1>3. /\ call \in [Calls -> {"none", "loaded", "answered", "refused"}]
      /\ copy \in [Calls -> Content]
  BY SettingsAssumption DEF SettingsInit
<1>4. inForce \in Content /\ voice \in VoiceNames
  BY <1>1 DEF SettingsInit
<1>5. /\ mtime \in Stamps /\ used \subseteq Stamps /\ seen = Unseen
      /\ loop = "get" /\ submitted \in 0..MaxSubmitted
      /\ waiting \in Nat /\ wakeups \in Nat
  BY SettingsAssumption DEF SettingsInit
<1>6. written \in BOOLEAN
  BY DEF SettingsInit
<1> QED BY <1>2, <1>3, <1>4, <1>5, <1>6 DEF SettingsTypeOK

LEMMA SettingsTypeStep == SettingsTypeOK /\ [SettingsNext]_settingsVars => SettingsTypeOK'
<1> SUFFICES ASSUME SettingsTypeOK, [SettingsNext]_settingsVars PROVE SettingsTypeOK'
  OBVIOUS
<1> USE SettingsAssumption DEF SettingsTypeOK, fileVars, toolVars, speechVars
<1>1. file # Broken => Loaded \in Content
  BY DEF Loaded
<1>2. ASSUME NEW c \in Calls, ToolLoad(c) PROVE SettingsTypeOK'
  BY <1>1, <1>2 DEF ToolLoad
<1>3. ASSUME NEW c \in Calls, ToolRefuse(c) PROVE SettingsTypeOK'
  BY <1>3 DEF ToolRefuse
<1>4. ASSUME NEW c \in Calls, ToolSave(c) PROVE SettingsTypeOK'
  <2>1. Applied(Request[c], copy[c]) \in Content
    BY AppliedIsContent
  <2> QED BY <1>4, <2>1 DEF ToolSave, Write
<1>5. CASE Edit
  BY <1>5 DEF Edit, Write
<1>6. CASE Submit
  BY <1>6 DEF Submit
<1>7. CASE Wake
  <2>1. /\ loop' \in {"drain", "reload"} /\ seen' \in {seen, mtime}
        /\ wakeups' \in Nat /\ written' = FALSE
        /\ UNCHANGED <<fileVars, toolVars, inForce, voice, submitted, waiting>>
    BY <1>7 DEF Wake
  <2> QED BY <2>1
<1>8. CASE Reread
  <2>1. file # Broken => Loaded.voice \in VoiceNames
    BY <1>1 DEF Content
  <2> QED BY <1>1, <1>8, <2>1 DEF Reread
<1>9. CASE Speak
  <2>1. inForce.voice \in VoiceNames
    BY DEF Content
  <2> QED BY <1>9, <2>1 DEF Speak
<1>10. CASE SpeakEnd \/ Rest
  BY <1>10 DEF SpeakEnd, Rest
<1>11. CASE UNCHANGED settingsVars
  BY <1>11 DEF settingsVars
<1> QED BY <1>2, <1>3, <1>4, <1>5, <1>6, <1>7, <1>8, <1>9, <1>10, <1>11 DEF SettingsNext

(* Every value of Settings has its type, whatever tools are called with    *)
(* and people write: a config that was read is a whole one.                *)
THEOREM SettingsTypes == SettingsSpec => []SettingsTypeOK
  BY SettingsInitType, SettingsTypeStep, PTL DEF SettingsSpec

-----------------------------------------------------------------------------
(* The config in force is that of the file as it was when its mtime was    *)
(* looked at or later; and where it is the mtime of now, or nothing was    *)
(* written since a wakeup that has been served, it is that of the file.    *)
InForce == inForce = Loaded \/ file = Broken

LastReadInv ==
  /\ SettingsTypeOK
  /\ mtime \in used
  /\ seen \in used \cup {Unseen}
  /\ file = Missing => inForce = Default
  /\ seen = mtime /\ loop # "reload" => InForce
  /\ loop \in {"drain", "speaking"} /\ ~written => InForce

LEMMA LastReadInit == SettingsInit => LastReadInv
  BY SettingsInitType DEF SettingsInit, LastReadInv, InForce, Loaded

(* What is written gets an mtime that no file has had. *)
LEMMA LastReadWrite ==
  ASSUME LastReadInv, SettingsTypeOK', NEW k, k # Missing, Write(k),
         UNCHANGED <<inForce, seen, loop>>
  PROVE  LastReadInv'
<1>1. mtime' \notin used /\ mtime' # Unseen
  BY SettingsAssumption DEF Write, SettingsTypeOK, Unseen
<1> QED BY <1>1 DEF LastReadInv, InForce, Write

LEMMA LastReadStep == LastReadInv /\ [SettingsNext]_settingsVars => LastReadInv'
<1> SUFFICES ASSUME LastReadInv, [SettingsNext]_settingsVars PROVE LastReadInv'
  OBVIOUS
<1>0. SettingsTypeOK'
  BY SettingsTypeStep DEF LastReadInv
<1> USE <1>0 DEF LastReadInv, InForce, Loaded, fileVars, toolVars, speechVars
<1>1. ASSUME NEW c \in Calls, ToolLoad(c) \/ ToolRefuse(c) PROVE LastReadInv'
  BY <1>1 DEF ToolLoad, ToolRefuse
<1>2. ASSUME NEW c \in Calls, ToolSave(c) PROVE LastReadInv'
  <2>1. Applied(Request[c], copy[c]) # Missing
    BY AppliedIsContent, SettingsAssumption DEF SettingsTypeOK
  <2> QED BY ONLY <1>0, <1>2, <2>1, LastReadInv, LastReadWrite DEF ToolSave
<1>3. CASE Edit
  <2>1. PICK k \in Edits : Write(k)
    BY <1>3 DEF Edit
  <2>2. k # Missing
    BY SettingsAssumption
  <2> QED BY ONLY <1>0, <1>3, <2>1, <2>2, LastReadInv, LastReadWrite DEF Edit
<1>4. CASE Submit
  BY <1>4 DEF Submit
<1>5. CASE Wake
  BY <1>5 DEF Wake
<1>6. CASE Reread
  BY <1>6 DEF Reread
<1>7. CASE Speak \/ SpeakEnd \/ Rest
  BY <1>7 DEF Speak, SpeakEnd, Rest
<1>8. CASE UNCHANGED settingsVars
  BY <1>8 DEF settingsVars
<1> QED BY <1>1, <1>2, <1>3, <1>4, <1>5, <1>6, <1>7, <1>8 DEF SettingsNext

(* FR-6.3: however writes fall around the two reads of the file, and       *)
(* however their mtimes are ordered, what the file held at the last wakeup *)
(* is what a submission is spoken by.                                      *)
THEOREM SpeechFollowsTheFile == SettingsSpec => SpokenAsLastRead
<1>1. LastReadInv /\ [SettingsNext]_settingsVars =>
        [waiting' < waiting /\ ~written => inForce = Loaded \/ file = Broken]_settingsVars
  <2> SUFFICES ASSUME LastReadInv, [SettingsNext]_settingsVars, waiting' < waiting, ~written
               PROVE  inForce = Loaded \/ file = Broken
    OBVIOUS
  <2>1. waiting \in Nat
    BY DEF LastReadInv, SettingsTypeOK
  <2>2. loop = "drain"
    <3> USE <2>1 DEF speechVars, settingsVars
    <3>1. ~\E c \in Calls : ToolLoad(c) \/ ToolRefuse(c) \/ ToolSave(c)
      BY DEF ToolLoad, ToolRefuse, ToolSave
    <3>2. ~(Edit \/ Submit \/ Wake \/ Reread \/ SpeakEnd \/ Rest)
      BY DEF Edit, Submit, Wake, Reread, SpeakEnd, Rest
    <3> QED BY <3>1, <3>2 DEF SettingsNext, Speak
  <2> QED BY <2>2 DEF LastReadInv, InForce
<1> QED BY <1>1, LastReadInit, LastReadStep, PTL DEF SettingsSpec, SpokenAsLastRead
=============================================================================
