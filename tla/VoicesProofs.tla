--------------------------- MODULE VoicesProofs ---------------------------
(***************************************************************************)
(* What is proved of Voices, for any names, shortlists and windows: the    *)
(* types, that a voice is shared only by those who are announced for it,   *)
(* that every holding ends, that a name that is heard keeps its voice, and *)
(* that the voice given out again is the quietest of them.                 *)
(***************************************************************************)
EXTENDS Voices, NaturalLemmas, SequenceTheorems, TLAPS

(* The first of some naturals is one of them, and above none of them. *)
LEMMA FirstOfNaturals ==
  ASSUME NEW I \in SUBSET Nat, I # {}
  PROVE  First(I) \in I /\ \A j \in I : First(I) <= j
  BY LeastOfNaturals DEF First

(* The list of a config is of entries, and so is what is picked from it. *)
LEMMA PlaceIsChoice ==
  ASSUME TypeOK, NEW i \in DOMAIN config.voices
  PROVE  config.voices[i] \in Choices
  BY VoicesAssumption DEF TypeOK

LEMMA PlacesAreNumbers ==
  ASSUME TypeOK
  PROVE  DOMAIN config.voices \in SUBSET Nat
  BY VoicesAssumption DEF TypeOK

LEMMA HeardNowType ==
  ASSUME TypeOK
  PROVE  /\ HeardNow \in [Names -> Times]
         /\ HeldNow \in [Names -> Choices \cup {NoChoice}]
  BY VoicesAssumption DEF TypeOK, HeardNow, HeldNow, Times, Never

LEMMA FreeIsChoice ==
  ASSUME TypeOK, FreeChoices # {}
  PROVE  /\ First(FreeChoices) \in FreeChoices
         /\ config.voices[First(FreeChoices)] \in Choices
<1>1. FreeChoices \in SUBSET Nat /\ FreeChoices \subseteq DOMAIN config.voices
  BY PlacesAreNumbers DEF FreeChoices
<1>2. First(FreeChoices) \in FreeChoices
  BY <1>1, FirstOfNaturals
<1> QED BY <1>1, <1>2, PlaceIsChoice

(* A voice has a time at which it was last heard, and the list a place     *)
(* whose time is the least.                                                *)
LEMMA QuietestIsLeast ==
  ASSUME TypeOK, config.voices # <<>>
  PROVE  /\ Quietest \in DOMAIN config.voices
         /\ config.voices[Quietest] \in Choices
         /\ \A i \in DOMAIN config.voices :
              LastHeardOf(config.voices[Quietest]) <= LastHeardOf(config.voices[i])
<1> DEFINE D == DOMAIN config.voices
<1> DEFINE T == {LastHeardOf(config.voices[i]) : i \in D}
<1>1. ASSUME NEW c PROVE LastHeardOf(c) \in Nat
  <2> DEFINE U == {t \in Times : \A n \in Holders(VoiceOf[c]) : HeardNow[n] <= t}
  <2>1. MaxTime \in U
    BY HeardNowType, VoicesAssumption DEF Holders, Times
  <2>2. U \in SUBSET Nat
    BY VoicesAssumption DEF Times
  <2>3. First(U) \in U
    BY ONLY <2>1, <2>2, FirstOfNaturals
  <2> QED BY <2>2, <2>3 DEF LastHeardOf
<1>2. D # {}
  <2>1. config.voices \in Seq(Choices) /\ config.voices # <<>>
    BY VoicesAssumption DEF TypeOK
  <2>2. Len(config.voices) \in Nat \ {0}
    BY ONLY <2>1, EmptySeq
  <2>3. D = 1..Len(config.voices)
    BY <2>1, LenProperties
  <2>4. 1 \in 1..Len(config.voices)
    BY <2>2
  <2> QED BY ONLY <2>3, <2>4
<1>3. First(T) \in T
  <2>1. T \in SUBSET Nat
    BY <1>1
  <2>2. T # {}
    BY <1>2
  <2> HIDE DEF T
  <2> QED BY <2>1, <2>2, FirstOfNaturals
<1>4. \A t \in T : First(T) <= t
  <2>1. T \in SUBSET Nat /\ T # {}
    BY <1>1, <1>2
  <2> HIDE DEF T
  <2> QED BY <2>1, FirstOfNaturals
<1>5. PICK i \in D : LastHeardOf(config.voices[i]) = First(T)
  BY <1>3
<1> DEFINE Q == {k \in D : \A j \in D :
                   LastHeardOf(config.voices[k]) <= LastHeardOf(config.voices[j])}
<1>6. i \in Q
  BY <1>4, <1>5
<1>7. First(Q) \in Q
  <2>1. Q \in SUBSET Nat
    BY PlacesAreNumbers
  <2> HIDE DEF Q
  <2> QED BY <1>6, <2>1, FirstOfNaturals
<1>8. Quietest \in Q
  BY <1>7 DEF Quietest
<1> QED BY <1>8, PlaceIsChoice

LEMMA QuietestIsChoice ==
  ASSUME TypeOK, config.voices # <<>>
  PROVE  /\ Quietest \in DOMAIN config.voices
         /\ config.voices[Quietest] \in Choices
  BY QuietestIsLeast

-----------------------------------------------------------------------------
LEMMA InitHolds == Init => TypeOK /\ OwnVoice /\ Releasable
  BY VoicesAssumption DEF Init, TypeOK, OwnVoice, Releasable, Times, Never

(* Whoever begins a turn has a name and a work. *)
LEMMA SendersAreNamed ==
  ASSUME NEW s \in Senders, Begin(s[1], s[2])
  PROVE  \E n \in Names, w \in Works : Begin(n, w)
  BY VoicesAssumption

(* The start of a turn, by where its voice comes from. *)
LEMMA StartTypes ==
  ASSUME TypeOK, NEW n \in Names, NEW w \in Works, Begin(n, w)
  PROVE  TypeOK'
<1> USE HeardNowType DEF TypeOK, StartTurn, history, tableVars
<1>1. CASE SpeakDeclared(n, w)
  <2>1. Fold[n] \in Folds
    BY DEF Folds
  <2>2. given' \in Choices \cup {NoChoice}
    BY <1>1, <2>1, VoicesAssumption DEF SpeakDeclared
  <2> QED BY <1>1, <2>2 DEF SpeakDeclared
<1>2. CASE SpeakHeld(n, w)
  BY <1>2 DEF SpeakHeld
<1>3. ASSUME NEW c \in Choices, StartTurn(n, w, c), Hold(n, c)
      PROVE  held' \in [Names -> Choices \cup {NoChoice}] /\
             lastHeard' \in [Names -> Times]
  BY <1>3 DEF Hold, Times
<1>4. CASE SpeakFree(n, w)
  BY <1>3, <1>4, FreeIsChoice DEF SpeakFree
<1>5. CASE SpeakReused(n, w)
  BY <1>3, <1>5, QuietestIsChoice DEF SpeakReused, Consults
<1> QED BY <1>1, <1>2, <1>4, <1>5 DEF Begin

LEMMA TypeStep ==
  ASSUME TypeOK, [Next]_vars
  PROVE  TypeOK'
<1> USE DEF TypeOK, EndTurn, history, tableVars, turnVars
<1>1. ASSUME NEW n \in Names, NEW w \in Works, Begin(n, w) PROVE TypeOK'
  BY <1>1, StartTypes
<1>2. CASE FirstClip
  BY <1>2 DEF FirstClip
<1>3. CASE Hear
  BY <1>3 DEF Hear
<1>4. CASE Finish \/ Abandon
  <2>1. now \in Times /\ speaker \in Names
    BY <1>4 DEF Finish, Abandon, Times
  <2>2. audible' \in [Names \X Works -> Times]
    BY <1>4, <2>1 DEF Finish, Abandon, LastClip
  <2>3. /\ quiet' = quiet \/ quiet' = [quiet EXCEPT ![<<speaker, work>>] = now]
        /\ lastHeard' = lastHeard \/ lastHeard' = [lastHeard EXCEPT ![speaker] = now]
    BY <1>4 DEF Finish, Abandon
  <2>4. quiet' \in [Names \X Works -> Times]
    BY <2>1, <2>3
  <2>5. lastHeard' \in [Names -> Times]
    BY <2>1, <2>3
  <2>6. voiceEnded' \in [AllVoices -> Times]
    BY <1>4, <2>1 DEF Finish, Abandon, AllVoices
  <2> QED BY <1>4, <2>2, <2>4, <2>5, <2>6, VoicesAssumption DEF Finish, Abandon
<1>5. ASSUME NEW k \in Configs, Reload(k) PROVE TypeOK'
  BY <1>5, VoicesAssumption DEF Reload, Times, Never
<1>6. CASE Tick
  BY <1>6, VoicesAssumption DEF Tick, Times, Never
<1>7. CASE UNCHANGED vars
  BY <1>7 DEF vars
<1> QED
  BY <1>1, <1>2, <1>3, <1>4, <1>5, <1>6, <1>7, SendersAreNamed DEF Next

(* Every value of Voices has its type, for any configs load_config takes. *)
THEOREM TypeCorrect == Spec => []TypeOK
  BY InitHolds, TypeStep, PTL DEF Spec

-----------------------------------------------------------------------------
(* A free place is of a voice that nobody holds and nobody declared. *)
LEMMA FreeIsFree ==
  ASSUME TypeOK, FreeChoices # {}, NEW v, v = VoiceOf[config.voices[First(FreeChoices)]]
  PROVE  /\ v \notin DeclaredVoices
         /\ \A m \in Names : HeldNow[m] # NoChoice => VoiceOf[HeldNow[m]] # v
  BY FreeIsChoice DEF FreeChoices, Holders

LEMMA TablesStep ==
  ASSUME TypeOK, OwnVoice, Releasable, [Next]_vars
  PROVE  OwnVoice' /\ Releasable'
<1> USE DEF TypeOK, OwnVoice, Releasable
<1>1. ASSUME NEW n \in Names, NEW w \in Works, Begin(n, w)
      PROVE  OwnVoice' /\ Releasable'
  <2> USE DEF StartTurn
  <2>1. DeclaredVoices' = DeclaredVoices
    BY <1>1 DEF Begin, SpeakDeclared, SpeakHeld, SpeakFree, SpeakReused,
                DeclaredVoices
  <2>2. CASE SpeakDeclared(n, w)
    BY <2>1, <2>2 DEF SpeakDeclared, tableVars
  <2>3. CASE SpeakHeld(n, w)
    BY <2>1, <2>3 DEF SpeakHeld, HeldNow, HeardNow, Gone
  <2>4. CASE SpeakFree(n, w)
    <3> DEFINE c == config.voices[First(FreeChoices)]
    <3>1. c \in Choices /\ NoChoice \notin Choices
      BY <2>4, FreeIsChoice, VoicesAssumption DEF SpeakFree
    <3>2. held' = [HeldNow EXCEPT ![n] = c] /\ reused' = reused \ Gone
          /\ lastHeard' = [HeardNow EXCEPT ![n] = IF @ = Never THEN now ELSE @]
      BY <2>4 DEF SpeakFree, Hold
    <3>3. /\ VoiceOf[c] \notin DeclaredVoices
          /\ \A m \in Names : HeldNow[m] # NoChoice => VoiceOf[HeldNow[m]] # VoiceOf[c]
      BY <2>4, FreeIsFree DEF SpeakFree
    <3> HIDE DEF c
    <3>4. OwnVoice'
      BY <2>1, <3>1, <3>2, <3>3, HeardNowType DEF HeldNow
    <3>5. Releasable'
      BY <3>1, <3>2, HeardNowType DEF HeldNow, HeardNow, Gone
    <3> QED BY <3>4, <3>5
  <2>5. CASE SpeakReused(n, w)
    <3> DEFINE c == config.voices[Quietest]
    <3>1. c \in Choices /\ NoChoice \notin Choices
      BY <2>5, QuietestIsChoice, VoicesAssumption DEF SpeakReused, Consults
    <3>2. held' = [HeldNow EXCEPT ![n] = c] /\ reused' = (reused \ Gone) \cup {n}
          /\ lastHeard' = [HeardNow EXCEPT ![n] = IF @ = Never THEN now ELSE @]
      BY <2>5 DEF SpeakReused, Hold
    <3> HIDE DEF c
    <3>3. OwnVoice'
      BY <2>1, <3>1, <3>2, HeardNowType DEF HeldNow
    <3>4. Releasable'
      BY <3>1, <3>2, HeardNowType DEF HeldNow, HeardNow, Gone
    <3> QED BY <3>3, <3>4
  <2> QED BY <1>1, <2>2, <2>3, <2>4, <2>5 DEF Begin
<1>2. CASE FirstClip \/ Hear \/ Tick
  BY <1>2 DEF FirstClip, Hear, Tick, tableVars, DeclaredVoices
<1>3. CASE Finish \/ Abandon
  BY <1>3 DEF Finish, Abandon, EndTurn, DeclaredVoices, Times, Never
<1>4. ASSUME NEW k \in Configs, Reload(k) PROVE OwnVoice' /\ Releasable'
  BY <1>4 DEF Reload, tableVars, DeclaredVoices
<1>5. CASE UNCHANGED vars
  BY <1>5 DEF vars, tableVars, DeclaredVoices
<1> QED BY <1>1, <1>2, <1>3, <1>4, <1>5, SendersAreNamed DEF Next

LEMMA TablesInvariant == Spec => [](TypeOK /\ OwnVoice /\ Releasable)
<1>1. TypeOK /\ OwnVoice /\ Releasable /\ [Next]_vars
        => (TypeOK /\ OwnVoice /\ Releasable)'
  BY TypeStep, TablesStep
<1> QED BY InitHolds, <1>1, PTL DEF Spec

(* FR-10.12, FR-10.16: two names sound alike only with an announcement. *)
THEOREM SharingIsAnnounced == Spec => []OwnVoice
  BY TablesInvariant, PTL

(* FR-10.3: every holding has a window, so that a quiet name is released. *)
THEOREM HoldingsEnd == Spec => []Releasable
  BY TablesInvariant, PTL

-----------------------------------------------------------------------------
(* What the tables know against what was heard, between turns and until a  *)
(* turn's first clip: the tables are told whatever the log does.           *)
TablesFollow ==
  /\ \A n \in Names, w \in Works :
       /\ audible[<<n, w>>] <= now
       /\ held[n] # NoChoice /\ n # speaker => audible[<<n, w>>] <= lastHeard[n]
       /\ n # speaker \/ w # work \/ greet = "undecided" =>
            /\ audible[<<n, w>>] <= quiet[<<n, w>>]
            /\ "clip" \notin Faults => audible[<<n, w>>] = quiet[<<n, w>>]
  /\ speaker = Nobody => greet = "undecided"

Told == TypeOK /\ Releasable /\ TablesFollow

LEMMA InitFollows == Init => TablesFollow
  BY VoicesAssumption DEF Init, TablesFollow, Never

LEMMA FollowStep ==
  ASSUME "log" \notin Faults, Told, TypeOK', [Next]_vars
  PROVE  TablesFollow'
<1> USE DEF Told, TypeOK, TablesFollow, Times
<1>1. ASSUME NEW n \in Names, NEW w \in Works, Begin(n, w) PROVE TablesFollow'
  <2>1. /\ speaker = Nobody /\ speaker' = n /\ greet' = "undecided"
        /\ UNCHANGED <<now, quiet, audible>>
    BY <1>1 DEF Begin, SpeakDeclared, SpeakHeld, SpeakFree, SpeakReused,
                StartTurn, history
  <2>2. ASSUME NEW m \in Names \ {n}, held'[m] # NoChoice
        PROVE  held[m] # NoChoice /\ lastHeard'[m] = lastHeard[m]
    <3>1. CASE SpeakDeclared(n, w)
      BY <2>2, <3>1 DEF SpeakDeclared, tableVars
    <3>2. CASE SpeakHeld(n, w)
      BY <2>2, <3>2 DEF SpeakHeld, HeldNow, HeardNow
    <3>3. ASSUME NEW c, Hold(n, c)
          PROVE  held[m] # NoChoice /\ lastHeard'[m] = lastHeard[m]
      BY <2>2, <3>3 DEF Hold, HeldNow, HeardNow
    <3> QED BY <1>1, <3>1, <3>2, <3>3 DEF Begin, SpeakFree, SpeakReused
  <2> QED BY <2>1, <2>2, VoicesAssumption
<1>2. CASE FirstClip
  BY <1>2 DEF FirstClip, history, tableVars
<1>3. CASE Hear
  BY <1>3, VoicesAssumption DEF Hear, tableVars
<1>4. CASE Finish
  <2>1. /\ speaker \in Names /\ speaker' = Nobody /\ greet' = "undecided"
        /\ UNCHANGED <<now, held>>
        /\ quiet' = [quiet EXCEPT ![<<speaker, work>>] = now]
        /\ lastHeard' = [lastHeard EXCEPT ![speaker] = now]
    BY <1>4 DEF Finish, EndTurn
  <2>2. \/ audible' = [audible EXCEPT ![<<speaker, work>>] = now]
        \/ "clip" \in Faults /\ audible' = audible
    BY <1>4 DEF Finish, LastClip
  <2>3. ASSUME NEW n \in Names, NEW w \in Works
        PROVE  /\ audible'[<<n, w>>] <= now'
               /\ held'[n] # NoChoice => audible'[<<n, w>>] <= lastHeard'[n]
               /\ audible'[<<n, w>>] <= quiet'[<<n, w>>]
               /\ "clip" \notin Faults => audible'[<<n, w>>] = quiet'[<<n, w>>]
    <3>1. CASE n = speaker /\ w = work
      BY <2>1, <2>2, <3>1
    <3>2. CASE n = speaker /\ w # work
      BY <2>1, <2>2, <3>2
    <3>3. CASE n # speaker
      <4>1. <<n, w>> # <<speaker, work>>
        BY <3>3
      <4> QED BY <2>1, <2>2, <3>3, <4>1
    <3> QED BY <3>1, <3>2, <3>3
  <2> QED BY <2>1, <2>3
<1>5. CASE Abandon
  BY <1>5 DEF Abandon
<1>6. ASSUME NEW k \in Configs, Reload(k) PROVE TablesFollow'
  BY <1>6 DEF Reload, tableVars, turnVars, history
<1>7. CASE Tick
  BY <1>7 DEF Tick, tableVars, turnVars, history
<1>8. CASE UNCHANGED vars
  BY <1>8 DEF vars, tableVars, turnVars, history
<1> QED
  BY <1>1, <1>2, <1>3, <1>4, <1>5, <1>6, <1>7, <1>8, SendersAreNamed DEF Next

LEMMA ToldInvariant == "log" \notin Faults => (Spec => []Told)
<1> SUFFICES ASSUME "log" \notin Faults PROVE Spec => []Told
  OBVIOUS
<1>1. Init => Told /\ OwnVoice
  BY InitHolds, InitFollows DEF Told
<1>2. Told /\ OwnVoice /\ [Next]_vars => (Told /\ OwnVoice)'
  BY TypeStep, TablesStep, FollowStep DEF Told
<1> QED BY <1>1, <1>2, PTL DEF Spec

(* The steps that move a voice. *)
LEMMA KeptStep ==
  ASSUME Told, [Next]_vars, NEW n \in Names,
         held[n] # NoChoice, KeptBy(n), SameShortlist
  PROVE  held'[n] = held[n]
<1> USE DEF Told, TypeOK
<1>1. ASSUME NEW m \in Names, NEW w \in Works, Begin(m, w)
      PROVE  held'[n] = held[n]
  <2>1. speaker = Nobody /\ n # Nobody
    BY <1>1, VoicesAssumption DEF Begin, SpeakDeclared, SpeakHeld, SpeakFree,
       SpeakReused, StartTurn
  <2>2. n \notin Gone
    BY <2>1, VoicesAssumption DEF KeptBy, TablesFollow, Gone, Times
  <2>3. HeldNow[n] = held[n]
    BY <2>2 DEF HeldNow
  <2>4. CASE SpeakDeclared(m, w) \/ SpeakHeld(m, w)
    BY <2>3, <2>4 DEF SpeakDeclared, SpeakHeld, tableVars
  <2>5. CASE SpeakFree(m, w) \/ SpeakReused(m, w)
    <3>1. HeldNow[m] = NoChoice
      BY <2>5 DEF SpeakFree, SpeakReused
    <3>2. \E c : held' = [HeldNow EXCEPT ![m] = c]
      BY <2>5 DEF SpeakFree, SpeakReused, Hold
    <3> QED BY <2>3, <3>1, <3>2, HeardNowType
  <2> QED BY <1>1, <2>4, <2>5 DEF Begin
<1>2. CASE FirstClip \/ Hear \/ Finish \/ Abandon \/ Tick
  BY <1>2 DEF FirstClip, Hear, Finish, Abandon, Tick, EndTurn, tableVars
<1>3. ASSUME NEW k \in Configs, Reload(k) PROVE held'[n] = held[n]
  BY <1>3 DEF Reload, SameShortlist, tableVars
<1>4. CASE UNCHANGED vars
  BY <1>4 DEF vars, tableVars
<1> QED BY <1>1, <1>2, <1>3, <1>4, SendersAreNamed DEF Next

(* FR-10.2, FR-10.4: heard within the window, a name keeps its voice.      *)
THEOREM HeardNamesKeepTheirVoice == "log" \notin Faults => (Spec => KeepsVoice)
<1>1. Told /\ [Next]_vars =>
        [\A n \in Names : held[n] # NoChoice /\ KeptBy(n) /\ SameShortlist
                            => held'[n] = held[n]]_vars
  BY KeptStep
<1> QED BY <1>1, ToldInvariant, PTL DEF Spec, KeepsVoice

(* FR-10.6: a voice is given out again only with every one in use.         *)
THEOREM ReuseIsTheLastResort == Spec => ReusedOnlyWhenOut
<1> DEFINE Step == \A n \in reused' \ reused : \A i \in DOMAIN config.voices :
                     InUse(VoiceOf[config.voices[i]], n)
<1>1. ASSUME TypeOK, Releasable, [Next]_vars, NEW n \in reused' \ reused,
             NEW i \in DOMAIN config.voices
      PROVE  InUse(VoiceOf[config.voices[i]], n)
  <2>1. PICK w \in Works : SpeakReused(n, w)
    BY <1>1, VoicesAssumption
       DEF Next, Begin, SpeakDeclared, SpeakHeld, SpeakFree, SpeakReused,
       FirstClip, Hear, Finish, Abandon, Reload, Tick, EndTurn, vars, tableVars
  <2>2. \/ VoiceOf[config.voices[i]] \in DeclaredVoices
        \/ \E m \in Names : /\ HeldNow[m] # NoChoice
                            /\ VoiceOf[HeldNow[m]] = VoiceOf[config.voices[i]]
    BY <2>1 DEF SpeakReused, FreeChoices, Holders
  <2>3. ASSUME NEW m \in Names, HeldNow[m] # NoChoice
        PROVE  m # n /\ held[m] = HeldNow[m] /\ now - lastHeard[m] < AssignmentWindow
    BY <1>1, <2>1, <2>3, VoicesAssumption
       DEF SpeakReused, HeldNow, Gone, Releasable, TypeOK, Times
  <2>4. n \in Names
    BY <1>1, TypeStep DEF TypeOK
  <2> QED BY <2>2, <2>3, <2>4 DEF InUse
<1>2. TypeOK /\ Releasable /\ [Next]_vars => [Step]_vars
  BY <1>1
<1> QED BY <1>2, TablesInvariant, PTL DEF Spec, ReusedOnlyWhenOut

(* The step that settles an announcement, against what was heard. *)
LEMMA GreetStep ==
  ASSUME Told, [Next]_vars, greet = "undecided", greet' # greet
  PROVE  /\ FirstClip
         /\ audible[<<speaker, work>>] <= quiet[<<speaker, work>>]
         /\ "clip" \notin Faults =>
              audible[<<speaker, work>>] = quiet[<<speaker, work>>]
         /\ quiet[<<speaker, work>>] \in Nat /\ audible[<<speaker, work>>] \in Nat
         /\ now \in Nat
<1>1. FirstClip
  BY DEF Next, Begin, SpeakDeclared, SpeakHeld, SpeakFree, SpeakReused,
     StartTurn, Hear, Finish, Abandon, Reload, Tick, EndTurn, vars, turnVars
<1> QED BY <1>1, VoicesAssumption DEF FirstClip, Told, TypeOK, TablesFollow, Times

(* FR-3.2, FR-7.4: nobody is announced again within the window.            *)
THEOREM NobodyIsAnnouncedTwice == "log" \notin Faults => (Spec => NotReannounced)
<1>1. Told /\ [Next]_vars =>
        [greet = "undecided" /\ greet' = "yes" =>
           \/ audible[<<speaker, work>>] = Never
           \/ now - audible[<<speaker, work>>] >= GreetingWindow]_vars
  BY GreetStep, VoicesAssumption DEF FirstClip, ShouldGreet, Never
<1> QED BY <1>1, ToldInvariant, PTL DEF Spec, NotReannounced

(* FR-3.2: where every clip plays and every line is written, whoever was   *)
(* not heard on the work within the window is announced.                   *)
THEOREM TheQuietAreAnnounced == Faults = {} => (Spec => AnnouncedWhenQuiet)
<1> SUFFICES ASSUME Faults = {} PROVE Spec => AnnouncedWhenQuiet
  OBVIOUS
<1>1. Told /\ [Next]_vars =>
        [greet = "undecided" /\ greet' = "no" =>
           /\ audible[<<speaker, work>>] # Never
           /\ now - audible[<<speaker, work>>] < GreetingWindow]_vars
  BY GreetStep, VoicesAssumption DEF FirstClip, ShouldGreet, Never
<1>2. Spec => []Told
  BY ToldInvariant
<1> QED BY <1>1, <1>2, PTL DEF Spec, AnnouncedWhenQuiet

-----------------------------------------------------------------------------
HeldAs(n, v) == held[n] # NoChoice /\ VoiceOf[held[n]] = v

(* Where nobody declares a voice, the table tells when a voice in use was  *)
(* last spoken in: between turns no holder of it is dated later, and one   *)
(* of them is dated as late.                                               *)
EndsAreHeard ==
  /\ config.voices = <<>> => \A n \in Names : held[n] = NoChoice
  /\ config.voices # <<>> =>
       \A n \in Names : lastHeard[n] # Never => held[n] # NoChoice
  /\ speaker # Nobody =>
       held[speaker] = given /\ (config.voices # <<>> => given # NoChoice)
  /\ \A n \in Names, v \in AllVoices :
       HeldAs(n, v) /\ n # speaker => lastHeard[n] <= voiceEnded[v]
  /\ \A n \in Names, v \in AllVoices :
       HeldAs(n, v) => \E m \in Names : HeldAs(m, v) /\ lastHeard[m] >= voiceEnded[v]

QuietInv ==
  /\ TypeOK
  /\ Releasable
  /\ \A v \in AllVoices : voiceEnded[v] <= now
  /\ DeclaredVoices = {} => EndsAreHeard

LEMMA QuietInit == Init => QuietInv
<1> SUFFICES ASSUME Init PROVE QuietInv
  OBVIOUS
<1>1. TypeOK /\ Releasable
  BY InitHolds
<1>2. \A v \in AllVoices : voiceEnded[v] <= now
  BY DEF Init, Never
<1>3. EndsAreHeard
  BY DEF Init, EndsAreHeard, HeldAs
<1> QED BY <1>1, <1>2, <1>3 DEF QuietInv

(* A release takes the holders of a voice in the order in which they were  *)
(* last heard, so while the voice has one it has the last.                 *)
LEMMA LatestHolderStays ==
  ASSUME QuietInv, DeclaredVoices = {}, NEW v \in AllVoices,
         NEW n \in Names, HeldNow[n] # NoChoice, VoiceOf[HeldNow[n]] = v
  PROVE  \E m \in Names : /\ HeldNow[m] # NoChoice /\ VoiceOf[HeldNow[m]] = v
                          /\ HeardNow[m] >= voiceEnded[v]
<1> USE VoicesAssumption DEF QuietInv, TypeOK, Times
<1>1. n \notin Gone /\ held[n] = HeldNow[n] /\ HeldAs(n, v)
  BY DEF HeldNow, HeldAs
<1>2. PICK m \in Names : HeldAs(m, v) /\ lastHeard[m] >= voiceEnded[v]
  BY <1>1 DEF EndsAreHeard
<1>3. CASE m \notin Gone
  BY <1>2, <1>3 DEF HeldNow, HeardNow, HeldAs
<1>4. CASE m \in Gone
  <2>1. /\ lastHeard[n] # Never /\ now - lastHeard[n] < AssignmentWindow
        /\ now - lastHeard[m] >= AssignmentWindow
    BY <1>1, <1>4 DEF Gone, Releasable, HeldAs
  <2>2. lastHeard[n] >= voiceEnded[v]
    <3>1. /\ now \in Nat /\ lastHeard[n] \in Nat /\ lastHeard[m] \in Nat
          /\ voiceEnded[v] \in Nat
      OBVIOUS
    <3> QED BY ONLY <1>2, <2>1, <3>1, VoicesAssumption
  <2> QED BY <1>1, <2>2 DEF HeardNow
<1> QED BY <1>3, <1>4

(* Who holds nothing has no date, where there is a list to hold from. *)
LEMMA UnheldIsUndated ==
  ASSUME QuietInv, DeclaredVoices = {}, config.voices # <<>>,
         NEW n \in Names, HeldNow[n] = NoChoice
  PROVE  HeardNow[n] = Never
  BY DEF QuietInv, EndsAreHeard, HeldNow, HeardNow

(* The tables at the start of a turn. *)
LEMMA QuietBegin ==
  ASSUME QuietInv, DeclaredVoices = {}, TypeOK', Releasable',
         NEW n \in Names, NEW w \in Works, Begin(n, w)
  PROVE  EndsAreHeard'
<1> USE VoicesAssumption DEF QuietInv, TypeOK, Times
<1>1. /\ speaker = Nobody /\ speaker' = n /\ n # Nobody
      /\ UNCHANGED <<now, config, voiceEnded>>
  BY DEF Begin, SpeakDeclared, SpeakHeld, SpeakFree, SpeakReused, StartTurn, history
<1>2. config.declared[Fold[n]] = NoChoice
  <2>1. Fold[n] \in Folds
    BY DEF Folds
  <2>2. ASSUME config.declared[Fold[n]] # NoChoice
        PROVE  VoiceOf[config.declared[Fold[n]]] \in DeclaredVoices
    BY ONLY <2>1, <2>2 DEF DeclaredVoices
  <2> QED BY <2>2
<1>3. CASE SpeakDeclared(n, w)
  <2>1. /\ config.voices = <<>> /\ given' = NoChoice
        /\ held' = held /\ lastHeard' = lastHeard
    BY <1>2, <1>3 DEF SpeakDeclared, StartTurn, tableVars
  <2> QED BY <1>1, <2>1 DEF EndsAreHeard, HeldAs
<1>4. CASE SpeakHeld(n, w)
  <2>1. /\ given' = HeldNow[n] /\ held' = HeldNow /\ lastHeard' = HeardNow
        /\ HeldNow[n] # NoChoice /\ config.voices # <<>>
    BY <1>4 DEF SpeakHeld, StartTurn, Consults
  <2>2. \A m \in Names : HeardNow[m] # Never => HeldNow[m] # NoChoice
    BY <2>1 DEF EndsAreHeard, HeldNow, HeardNow
  <2>3. ASSUME NEW m \in Names, NEW v \in AllVoices, HeldAs(m, v)'
        PROVE  lastHeard'[m] <= voiceEnded[v]
    BY <1>1, <2>1, <2>3 DEF EndsAreHeard, HeldNow, HeardNow, HeldAs
  <2>4. ASSUME NEW m \in Names, NEW v \in AllVoices, HeldAs(m, v)'
        PROVE  \E k \in Names : HeldAs(k, v)' /\ lastHeard'[k] >= voiceEnded[v]
    BY <2>1, <2>4, LatestHolderStays DEF HeldAs
  <2> QED BY <1>1, <2>1, <2>2, <2>3, <2>4 DEF EndsAreHeard
<1>5. ASSUME NEW c \in Choices, StartTurn(n, w, c), Hold(n, c), Consults(n),
             HeldNow[n] = NoChoice
      PROVE  EndsAreHeard'
  <2>1. /\ given' = c /\ c # NoChoice /\ config.voices # <<>>
        /\ held' = [HeldNow EXCEPT ![n] = c]
    BY <1>5 DEF StartTurn, Hold, Consults
  <2>2. lastHeard' = [HeardNow EXCEPT ![n] = now]
    BY <1>5, <2>1, UnheldIsUndated, HeardNowType DEF Hold
  <2>3. /\ held'[n] = c /\ lastHeard'[n] = now
        /\ \A m \in Names \ {n} : held'[m] = HeldNow[m] /\ lastHeard'[m] = HeardNow[m]
    BY <2>1, <2>2, HeardNowType
  <2>4. \A m \in Names : lastHeard'[m] # Never => held'[m] # NoChoice
    BY <2>1, <2>3 DEF EndsAreHeard, HeldNow, HeardNow
  <2>5. ASSUME NEW m \in Names, NEW v \in AllVoices, HeldAs(m, v)', m # n
        PROVE  lastHeard'[m] <= voiceEnded[v]
    BY <1>1, <2>3, <2>5 DEF EndsAreHeard, HeldNow, HeardNow, HeldAs
  <2>6. ASSUME NEW m \in Names, NEW v \in AllVoices, HeldAs(m, v)'
        PROVE  \E k \in Names : HeldAs(k, v)' /\ lastHeard'[k] >= voiceEnded[v]
    <3>1. CASE VoiceOf[c] = v
      BY <2>1, <2>3, <3>1 DEF HeldAs
    <3>2. CASE VoiceOf[c] # v
      <4>1. m # n /\ HeldNow[m] # NoChoice /\ VoiceOf[HeldNow[m]] = v
        BY <2>3, <2>6, <3>2 DEF HeldAs
      <4>2. PICK k \in Names : /\ HeldNow[k] # NoChoice /\ VoiceOf[HeldNow[k]] = v
                               /\ HeardNow[k] >= voiceEnded[v]
        BY <4>1, LatestHolderStays
      <4>3. k # n
        BY <1>5, <4>2
      <4> QED BY <2>3, <4>2, <4>3 DEF HeldAs
    <3> QED BY <3>1, <3>2
  <2> QED BY <1>1, <2>1, <2>3, <2>4, <2>5, <2>6 DEF EndsAreHeard
<1>6. CASE SpeakFree(n, w)
  BY <1>5, <1>6, FreeIsChoice DEF SpeakFree
<1>7. CASE SpeakReused(n, w)
  BY <1>5, <1>7, QuietestIsChoice DEF SpeakReused, Consults
<1> QED BY <1>3, <1>4, <1>6, <1>7 DEF Begin

LEMMA QuietFinish ==
  ASSUME QuietInv, DeclaredVoices = {}, Finish
  PROVE  EndsAreHeard'
<1> USE VoicesAssumption DEF QuietInv, TypeOK, Times, HeldAs
<1>1. /\ speaker \in Names /\ speaker' = Nobody
      /\ UNCHANGED <<now, config, held>>
      /\ lastHeard' = [lastHeard EXCEPT ![speaker] = now]
      /\ held[speaker] = given
  BY DEF Finish, EndTurn, EndsAreHeard
<1>2. \A n \in Names : lastHeard'[n] = IF n = speaker THEN now ELSE lastHeard[n]
  BY <1>1
<1>3. \A v \in AllVoices :
        voiceEnded'[v] = IF given # NoChoice /\ v = VoiceOf[given] THEN now
                         ELSE voiceEnded[v]
  BY DEF Finish, AllVoices
<1>4. config.voices # <<>> => \A n \in Names : lastHeard'[n] # Never => held[n] # NoChoice
  BY <1>1, <1>2 DEF EndsAreHeard
<1>5. ASSUME NEW n \in Names, NEW v \in AllVoices, HeldAs(n, v)
      PROVE  lastHeard'[n] <= voiceEnded'[v]
  <2>1. CASE n = speaker
    BY <1>1, <1>2, <1>3, <1>5, <2>1
  <2>2. CASE n # speaker
    <3>1. lastHeard[n] <= voiceEnded[v] /\ voiceEnded[v] <= now
      BY <1>5, <2>2 DEF EndsAreHeard
    <3>2. lastHeard[n] \in Nat /\ voiceEnded[v] \in Nat /\ now \in Nat
      OBVIOUS
    <3>3. lastHeard'[n] = lastHeard[n] /\ voiceEnded'[v] \in {now, voiceEnded[v]}
      BY <1>2, <1>3, <2>2
    <3> QED BY ONLY <3>1, <3>2, <3>3
  <2> QED BY <2>1, <2>2
<1>6. ASSUME NEW n \in Names, NEW v \in AllVoices, HeldAs(n, v)
      PROVE  \E m \in Names : HeldAs(m, v) /\ lastHeard'[m] >= voiceEnded'[v]
  <2>1. CASE given # NoChoice /\ v = VoiceOf[given]
    <3>1. HeldAs(speaker, v) /\ lastHeard'[speaker] = now /\ voiceEnded'[v] = now
      BY <1>1, <1>2, <1>3, <2>1
    <3>2. now >= now
      OBVIOUS
    <3> QED BY <1>1, <3>1, <3>2
  <2>2. CASE ~(given # NoChoice /\ v = VoiceOf[given])
    <3>1. PICK m \in Names : HeldAs(m, v) /\ lastHeard[m] >= voiceEnded[v]
      BY <1>6 DEF EndsAreHeard
    <3>2. m # speaker
      BY <1>1, <2>2, <3>1
    <3> QED BY <1>2, <1>3, <2>2, <3>1, <3>2
  <2> QED BY <2>1, <2>2
<1> QED BY <1>1, <1>4, <1>5, <1>6 DEF EndsAreHeard

LEMMA QuietStep == "log" \notin Faults /\ QuietInv /\ OwnVoice /\ [Next]_vars => QuietInv'
<1> SUFFICES ASSUME "log" \notin Faults, QuietInv, OwnVoice, [Next]_vars PROVE QuietInv'
  OBVIOUS
<1>1. TypeOK' /\ Releasable'
  BY TypeStep, TablesStep DEF QuietInv
<1> USE VoicesAssumption DEF QuietInv
<1>2. ASSUME NEW n \in Names, NEW w \in Works, Begin(n, w) PROVE QuietInv'
  <2>1. UNCHANGED <<now, config, voiceEnded>>
    BY <1>2 DEF Begin, SpeakDeclared, SpeakHeld, SpeakFree, SpeakReused,
                StartTurn, history
  <2>2. DeclaredVoices = {} => EndsAreHeard'
    BY <1>1, <1>2, QuietBegin
  <2>3. DeclaredVoices' = DeclaredVoices
    BY <2>1 DEF DeclaredVoices
  <2>4. \A v \in AllVoices : voiceEnded'[v] <= now'
    BY <2>1
  <2> QED BY <1>1, <2>2, <2>3, <2>4
<1>3. ASSUME UNCHANGED <<now, config, tableVars, voiceEnded, speaker, given>>
      PROVE  QuietInv'
  <2>1. DeclaredVoices' = DeclaredVoices
    BY <1>3 DEF DeclaredVoices
  <2>2. \A v \in AllVoices : voiceEnded'[v] <= now'
    BY <1>3
  <2>3. EndsAreHeard => EndsAreHeard'
    BY <1>3 DEF EndsAreHeard, HeldAs, tableVars
  <2> QED BY <1>1, <2>1, <2>2, <2>3
<1>4. CASE Finish
  <2>1. UNCHANGED <<now, config>>
    BY <1>4 DEF Finish, EndTurn
  <2>2. \A v \in AllVoices : voiceEnded'[v] \in {voiceEnded[v], now}
    BY <1>4 DEF Finish, TypeOK
  <2>3. DeclaredVoices = {} => EndsAreHeard'
    BY <1>4, QuietFinish
  <2>4. DeclaredVoices' = DeclaredVoices
    BY <2>1 DEF DeclaredVoices
  <2>5. \A v \in AllVoices : voiceEnded'[v] <= now'
    <3>1. now' = now /\ now \in Nat
      BY <2>1 DEF TypeOK, Times
    <3> QED BY <2>2, <3>1
  <2> QED BY <1>1, <2>3, <2>4, <2>5
<1>5. CASE Abandon
  BY <1>5 DEF Abandon
<1>6. ASSUME NEW k \in Configs, Reload(k) PROVE QuietInv'
  <2>1. speaker' = Nobody /\ UNCHANGED <<now, voiceEnded, speaker, given>>
    BY <1>6 DEF Reload, turnVars, history
  <2>2. CASE k.voices = config.voices /\ k.declared = config.declared
    <3>1. /\ config'.voices = config.voices /\ config'.declared = config.declared
          /\ UNCHANGED tableVars
      BY <1>6, <2>2 DEF Reload
    <3>2. DeclaredVoices' = DeclaredVoices
      BY <3>1 DEF DeclaredVoices
    <3>3. EndsAreHeard => EndsAreHeard'
      BY <2>1, <3>1 DEF EndsAreHeard, HeldAs, tableVars
    <3> QED BY <1>1, <2>1, <3>2, <3>3
  <2>3. CASE ~(k.voices = config.voices /\ k.declared = config.declared)
    <3>1. \A n \in Names : held'[n] = NoChoice /\ lastHeard'[n] = Never
      BY <1>6, <2>3 DEF Reload
    <3>2. EndsAreHeard'
      BY <2>1, <3>1 DEF EndsAreHeard, HeldAs
    <3> QED BY <1>1, <2>1, <3>2
  <2> QED BY <2>2, <2>3
<1>7. CASE Tick
  <2>1. now' = now + 1 /\ UNCHANGED <<config, tableVars, voiceEnded, speaker, given>>
    BY <1>7 DEF Tick, turnVars, history
  <2>2. DeclaredVoices' = DeclaredVoices
    BY <2>1 DEF DeclaredVoices
  <2>3. EndsAreHeard => EndsAreHeard'
    BY <2>1 DEF EndsAreHeard, HeldAs, tableVars
  <2>4. \A v \in AllVoices : voiceEnded'[v] <= now'
    <3>1. now \in Nat /\ \A v \in AllVoices : voiceEnded[v] \in Nat
      BY DEF TypeOK, Times
    <3> QED BY <2>1, <3>1
  <2> QED BY <1>1, <2>2, <2>3, <2>4
<1>8. CASE FirstClip \/ Hear \/ UNCHANGED vars
  BY <1>3, <1>8 DEF FirstClip, Hear, vars, tableVars, turnVars, history
<1> QED
  BY <1>2, <1>4, <1>5, <1>6, <1>7, <1>8, SendersAreNamed DEF Next

(* The date of a voice that is held is the end of the last turn in it. *)
LEMMA DateOfVoice ==
  ASSUME QuietInv, DeclaredVoices = {}, speaker = Nobody, NEW c \in Choices,
         Holders(VoiceOf[c]) # {}
  PROVE  LastHeardOf(c) = voiceEnded[VoiceOf[c]]
<1> USE VoicesAssumption DEF QuietInv, TypeOK, Times
<1> DEFINE v == VoiceOf[c]
           U == {t \in Times : \A n \in Holders(v) : HeardNow[n] <= t}
<1>1. v \in AllVoices
  BY DEF AllVoices
<1>2. voiceEnded[v] \in Nat /\ voiceEnded[v] \in Times
  BY <1>1
<1>3. ASSUME NEW n \in Holders(v) PROVE HeardNow[n] <= voiceEnded[v]
  BY <1>1, <1>3 DEF Holders, HeldNow, HeardNow, EndsAreHeard, HeldAs
<1>4. voiceEnded[v] \in U
  BY <1>2, <1>3
<1>5. PICK m \in Holders(v) : HeardNow[m] >= voiceEnded[v]
  BY <1>1, LatestHolderStays DEF Holders
<1>6. U \in SUBSET Nat
  OBVIOUS
<1>7. First(U) \in U /\ First(U) <= voiceEnded[v]
  <2> HIDE DEF U
  <2> QED BY <1>4, <1>6, FirstOfNaturals
<1>8. HeardNow[m] <= First(U) /\ HeardNow[m] \in Nat
  <2>1. HeardNow[m] <= First(U)
    BY <1>5, <1>7
  <2>2. m \in Names
    BY <1>5 DEF Holders
  <2> QED BY <2>1, <2>2, HeardNowType
<1>9. LastHeardOf(c) = First(U)
  BY DEF LastHeardOf
<1> HIDE DEF U
<1>10. First(U) \in Nat
  BY ONLY <1>6, <1>7
<1>11. First(U) = voiceEnded[v]
  BY ONLY <1>2, <1>5, <1>7, <1>8, <1>10
<1> QED BY ONLY <1>9, <1>11

(* FR-10.6: with every voice of the list held, the one given out again is  *)
(* the one whose last turn ended longest ago, by whomever, wherever names  *)
(* were released and shortlists changed in between.                        *)
THEOREM TheQuietestIsReused == "log" \notin Faults => (Spec => QuietestIsReused)
<1> SUFFICES ASSUME "log" \notin Faults PROVE Spec => QuietestIsReused
  OBVIOUS
<1> DEFINE Step == \A n \in reused' \ reused : \A i \in DOMAIN config.voices :
       DeclaredVoices = {} =>
         voiceEnded[VoiceOf[held'[n]]] <= voiceEnded[VoiceOf[config.voices[i]]]
<1>1. ASSUME QuietInv, [Next]_vars, NEW n \in reused' \ reused,
             NEW i \in DOMAIN config.voices, DeclaredVoices = {}
      PROVE  voiceEnded[VoiceOf[held'[n]]] <= voiceEnded[VoiceOf[config.voices[i]]]
  <2>1. PICK w \in Works : SpeakReused(n, w)
    BY <1>1, VoicesAssumption
       DEF Next, Begin, SpeakDeclared, SpeakHeld, SpeakFree, SpeakReused,
       FirstClip, Hear, Finish, Abandon, Reload, Tick, EndTurn, vars, tableVars
  <2>2. TypeOK /\ n \in Names /\ speaker = Nobody /\ config.voices # <<>>
    BY <1>1, <2>1, TypeStep DEF QuietInv, TypeOK, SpeakReused, StartTurn, Consults
  <2>3. \A j \in DOMAIN config.voices :
          config.voices[j] \in Choices /\ Holders(VoiceOf[config.voices[j]]) # {}
    BY <1>1, <2>1, <2>2, PlaceIsChoice DEF SpeakReused, FreeChoices
  <2>4. \A j \in DOMAIN config.voices :
          LastHeardOf(config.voices[j]) = voiceEnded[VoiceOf[config.voices[j]]]
    BY <1>1, <2>2, <2>3, DateOfVoice
  <2>5. held'[n] = config.voices[Quietest]
    BY <2>1, <2>2, HeardNowType DEF SpeakReused, Hold
  <2>6. /\ Quietest \in DOMAIN config.voices
        /\ LastHeardOf(config.voices[Quietest]) <= LastHeardOf(config.voices[i])
    BY <1>1, <2>2, QuietestIsLeast
  <2> QED BY <1>1, <2>4, <2>5, <2>6
<1>2. QuietInv /\ [Next]_vars => [Step]_vars
  BY <1>1
<1>3. Init => QuietInv /\ OwnVoice
  BY QuietInit, InitHolds
<1>4. QuietInv /\ OwnVoice /\ [Next]_vars => (QuietInv /\ OwnVoice)'
  BY QuietStep, TablesStep DEF QuietInv
<1> QED BY <1>2, <1>3, <1>4, PTL DEF Spec, QuietestIsReused
=============================================================================
