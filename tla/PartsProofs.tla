----------------------------- MODULE PartsProofs -----------------------------
(***************************************************************************)
(* What is proved of the parts that share no state with one another.       *)
(*                                                                         *)
(* Requests: what a caller is told is true.  TwoProcesses: no process of a *)
(* spool begins a submission twice, and processes that run one at a time   *)
(* lose and share none.  LogRotation: no line is lost but from the oldest  *)
(* log, wherever a rotation is cut off.  Install, from whatever state      *)
(* earlier runs, cuts, faults and people have left: nothing dangles, an    *)
(* exit status of 0 is true, and whether an install can end well at all is *)
(* decided by the paths it is given.  Substitution is in                   *)
(* SubstitutionProofs, and what is proved of each part is carried to the   *)
(* composition at the end.                                                 *)
(***************************************************************************)
EXTENDS MCParts, SubstitutionProofs

-----------------------------------------------------------------------------
\* A call and its answer

(* How far the service is with a call says whether it has taken effect,    *)
(* and an answer is the last thing it does of it.                          *)
AnswerInv ==
  /\ RequestsTypeOK
  /\ \A r \in RequestIds :
       /\ served[r] \in {"none", "backlog", "handling"} => effects[r] = 0
       /\ served[r] = "stored" => effects[r] = 1
       /\ told[r] = "none" => served[r] = "none"
       /\ told[r] \in {"done", "failed"} => served[r] = "over"
       /\ told[r] = "refused" => served[r] \in {"none", "over"}
  /\ AnswerIsTrue

(* The schema of a request to speak leaves the operation one thing to      *)
(* stumble over.                                                           *)
LEMMA OnlyBlankNamesRaise ==
  ASSUME NEW r \in RequestIds, Admitted(r), Raises(r)
  PROVE  Body(r)["name"] = "blank"
<1> DEFINE b == Body(r)
<1>1. asked[r].tool = "speak"
  BY DEF Raises
<1>2. /\ Schema["speak"] = [name |-> NonEmpty, messages |-> {"texts"}, work |-> NonEmpty]
      /\ Required["speak"] = {"name", "messages"}
  BY DEF Schema, Required
<1>3. Conforms(b, [name |-> NonEmpty, messages |-> {"texts"}, work |-> NonEmpty],
               {"name", "messages"})
  BY <1>1, <1>2 DEF Admitted
<1>4. Conforms(b, EntrySchema, {"name", "messages"})
  <2> HIDE DEF b
  <2>1. /\ {"name", "messages"} \subseteq DOMAIN b
        /\ "name" \in DOMAIN b => b["name"] \in NonEmpty
        /\ "messages" \in DOMAIN b => b["messages"] = "texts"
        /\ "work" \in DOMAIN b => b["work"] \in NonEmpty
    BY <1>3 DEF Conforms
  <2>2. /\ DOMAIN EntrySchema = {"name", "messages", "work"}
        /\ EntrySchema["name"] = NonEmpty /\ EntrySchema["work"] = NonEmpty
        /\ "texts" \in EntrySchema["messages"]
    BY DEF EntrySchema
  <2> QED BY <2>1, <2>2 DEF Conforms
<1> QED BY <1>4 DEF Raises

LEMMA AnswerInit == RequestsInit => AnswerInv
  BY RequestsAssumption
     DEF RequestsInit, AnswerInv, RequestsTypeOK, AnswerIsTrue

(* Every step of a call leaves what its caller knows true. *)
LEMMA AnswerStep == AnswerInv /\ [RequestsNext]_requestVars => AnswerInv'
<1> SUFFICES ASSUME AnswerInv, [RequestsNext]_requestVars PROVE AnswerInv'
  OBVIOUS
<1> USE RequestsAssumption DEF AnswerInv, RequestsTypeOK, AnswerIsTrue, Told
<1>1. \A r \in RequestIds : UNCHANGED asked => Body(r)' = Body(r)
  BY DEF Body
<1>2. ASSUME NEW r \in RequestIds, Call(r) PROVE AnswerInv'
  BY <1>1, <1>2 DEF Call
<1>3. ASSUME NEW r \in RequestIds, GiveUp(r) PROVE AnswerInv'
  BY <1>1, <1>3 DEF GiveUp
<1>4. ASSUME NEW r \in RequestIds, Accept(r) PROVE AnswerInv'
  BY <1>1, <1>4 DEF Accept
<1>5. ASSUME NEW r \in RequestIds, Refuse(r) PROVE AnswerInv'
  BY <1>1, <1>5 DEF Refuse
<1>6. ASSUME NEW r \in RequestIds, TakeEffect(r) PROVE AnswerInv'
  BY <1>1, <1>6 DEF TakeEffect
<1>7. ASSUME NEW r \in RequestIds, Raise(r) PROVE AnswerInv'
  <2>1. CASE hit' = hit \cup {r}
    BY <1>1, <1>7, <2>1 DEF Raise
  <2>2. CASE hit' # hit \cup {r}
    <3>1. Body(r)["name"] = "blank" /\ served[r] = "handling" /\ hit' = hit
      BY <1>7, <2>2, OnlyBlankNamesRaise DEF Raise
    <3> QED BY <1>1, <1>7, <3>1 DEF Raise
  <2> QED BY <2>1, <2>2
<1>8. ASSUME NEW r \in RequestIds, Answer(r) PROVE AnswerInv'
  BY <1>1, <1>8 DEF Answer
<1>9. CASE Activate
  <2>1. /\ UNCHANGED <<asked, effects, hit>>
        /\ process' \in {"off", "starting", "up"} /\ listens' \in BOOLEAN
        /\ starts' \in 0..StartBurst
    <3>1. /\ StartBurst \in Nat /\ starts \in 0..StartBurst
          /\ process = "off" /\ listens \in BOOLEAN
      BY <1>9 DEF Activate
    <3>2. \/ starts < StartBurst /\ process' = "starting" /\ starts' = starts + 1
             /\ listens' = listens
          \/ listens' = FALSE /\ process' = process /\ starts' = starts
      BY <1>9 DEF Activate
    <3>3. UNCHANGED <<asked, effects, hit>>
      BY <1>9 DEF Activate
    <3>4. starts' \in 0..StartBurst
      BY ONLY <3>1, <3>2
    <3>5. listens' \in BOOLEAN /\ process' \in {"off", "starting", "up"}
      BY ONLY <3>1, <3>2
    <3> QED BY ONLY <3>3, <3>4, <3>5
  <2>2. CASE UNCHANGED <<told, served>>
    BY <1>1, <2>1, <2>2
  <2>3. CASE told' = [r \in RequestIds |->
               IF told[r] = "waiting" THEN "unreachable" ELSE told[r]]
             /\ served' = [r \in RequestIds |->
               IF served[r] = "backlog" THEN "over" ELSE served[r]]
    BY <1>1, <2>1, <2>3
  <2> QED BY <1>9, <2>2, <2>3 DEF Activate
<1>10. CASE Restart \/ Ready
  BY <1>1, <1>10 DEF Restart, Ready
<1>11. CASE Ends
  BY <1>1, <1>11 DEF Ends
<1>12. CASE UNCHANGED requestVars
  BY <1>1, <1>12 DEF requestVars
<1> QED BY <1>2, <1>3, <1>4, <1>5, <1>6, <1>7, <1>8, <1>9, <1>10, <1>11, <1>12
        DEF RequestsNext, Handle

(* FR-4.5, FR-6.5: what Backend.call() returns of an operation is true of  *)
(* it, wherever the process dies and its disk fails, whoever gives up.     *)
THEOREM AnswersAreTrue == RequestsSpec => []AnswerIsTrue
<1>1. AnswerInv => AnswerIsTrue
  BY DEF AnswerInv
<1> QED BY AnswerInit, AnswerStep, <1>1, PTL DEF RequestsSpec

(* Every value of a call has its type, whoever gives up on it and when.    *)
THEOREM RequestsTypes == RequestsSpec => []RequestsTypeOK
<1>1. AnswerInv => RequestsTypeOK
  BY DEF AnswerInv
<1> QED BY AnswerInit, AnswerStep, <1>1, PTL DEF RequestsSpec

-----------------------------------------------------------------------------
\* Several processes on one spool

(* What waits has numbers of its own and was begun by nobody, and only     *)
(* what was put was begun.                                                 *)
WaitingInv ==
  /\ queue \subseteq 1..put
  /\ \A s, t \in queue : num[s] = num[t] => s = t
  /\ \A p \in Processes, s \in Submissions : Began(p, s) => s \in 1..put

(* What a serve thread has read is at the place it will rename, as far as  *)
(* it knows, and it has not begun it yet.                                  *)
ReadInv ==
  \A p \in Processes : thread[p] = "read" =>
    /\ entry[p] \in 1..put
    /\ place[p] = num[entry[p]]
    /\ ~Began(p, entry[p])

(* As long as they ran one at a time, nobody else has moved what one has   *)
(* read.                                                                   *)
AloneInv ==
  /\ \A p \in Processes : thread[p] # "off" => main[p] # "off"
  /\ ~together =>
       /\ \A p, q \in Processes : main[p] # "off" /\ main[q] # "off" => p = q
       /\ \A p \in Processes : thread[p] = "read" => entry[p] \in queue

OneSpoolInv ==
  /\ TwoTypeOK
  /\ BegunOnce
  /\ WaitingInv
  /\ ReadInv
  /\ AloneInv

LEMMA OneSpoolInit == TwoInit => OneSpoolInv
<1> SUFFICES ASSUME TwoInit PROVE OneSpoolInv
  OBVIOUS
<1>1. TwoTypeOK
  <2>1. put \in 0..MaxSubmissions /\ queue \subseteq Submissions /\ aside \subseteq Submissions
    BY TwoProcessesAssumption DEF TwoInit
  <2>2. path \in Processes \cup {"stale", "none"} /\ socket \in BOOLEAN
    BY DEF TwoInit, Processes
  <2>3. /\ num \in [Submissions -> Nat]
        /\ begun \in [Processes -> [Submissions -> Nat]]
        /\ place \in [Processes -> Nat]
        /\ entry \in [Processes -> Submissions \cup {0}]
    BY DEF TwoInit
  <2>4. /\ thread \in [Processes ->
             {"off", "parked", "drain", "listed", "read", "speaking", "dead"}]
        /\ main \in [Processes -> {"off", "built", "free", "up", "refused"}]
        /\ together \in BOOLEAN
    BY DEF TwoInit
  <2> QED BY <2>1, <2>2, <2>3, <2>4 DEF TwoTypeOK
<1>2. /\ queue = {} /\ put = 0
      /\ \A p \in Processes : thread[p] = "off" /\ main[p] = "off"
      /\ \A p \in Processes, s \in Submissions : begun[p][s] = 0
  BY DEF TwoInit
<1>3. BegunOnce /\ WaitingInv
  BY <1>2 DEF BegunOnce, WaitingInv, Began
<1>4. ReadInv /\ AloneInv
  BY <1>2 DEF ReadInv, AloneInv
<1> QED BY <1>1, <1>3, <1>4 DEF OneSpoolInv

(* A step that leaves the submissions, what is begun and what is read      *)
(* alone concerns only who is up.                                          *)
LEMMA UntouchedQueue ==
  ASSUME OneSpoolInv, UNCHANGED <<put, num, queue, begun>>, TwoTypeOK', AloneInv',
         together => together',
         \A p \in Processes : thread'[p] = "read" =>
           thread[p] = "read" /\ entry'[p] = entry[p] /\ place'[p] = place[p]
  PROVE  OneSpoolInv'
<1>1. BegunOnce'
  BY DEF OneSpoolInv, BegunOnce, Began
<1>2. WaitingInv'
  BY DEF OneSpoolInv, WaitingInv, Began
<1>3. ReadInv'
  BY DEF OneSpoolInv, ReadInv, Began
<1> QED BY <1>1, <1>2, <1>3 DEF OneSpoolInv

(* A put takes a number that no waiting file has, so nothing is replaced;  *)
(* what has been read keeps its place.                                     *)
LEMMA PutStep ==
  ASSUME OneSpoolInv, NEW p \in Processes, Put(p) PROVE OneSpoolInv'
<1>0. TwoTypeOK /\ BegunOnce /\ WaitingInv /\ ReadInv /\ AloneInv
  BY DEF OneSpoolInv
<1>1. PICK n \in {0} \cup {num[s] + 1 : s \in queue} :
        /\ \A s \in queue : num[s] < n
        /\ num' = [num EXCEPT ![put + 1] = n]
  BY DEF Put
<1>2. /\ put \in Nat /\ 1..put \subseteq Submissions
      /\ put' = put + 1 /\ put' \in 0..MaxSubmissions /\ put + 1 \in Submissions
      /\ queue' = queue \cup {put + 1}
  BY <1>0, TwoProcessesAssumption DEF Put, TwoTypeOK, Submissions
<1>3. n \in Nat
  BY <1>0, <1>1 DEF TwoTypeOK
<1>4. /\ UNCHANGED <<aside, place, entry, main, socket, path, begun, together>>
      /\ \A q \in Processes : thread'[q] # thread[q] =>
           thread[q] = "parked" /\ thread'[q] = "drain"
      /\ thread' \in [Processes ->
           {"off", "parked", "drain", "listed", "read", "speaking", "dead"}]
  BY <1>0 DEF Put, socketVars, TwoTypeOK
<1>5. num' \in [Submissions -> Nat] /\ num'[put + 1] = n
      /\ \A s \in 1..put : num'[s] = num[s]
  BY <1>0, <1>1, <1>2, <1>3 DEF TwoTypeOK
<1>6. TwoTypeOK'
  <2>1. queue' \subseteq Submissions
    BY <1>0, <1>2 DEF TwoTypeOK
  <2> QED BY <1>0, <1>2, <1>4, <1>5, <2>1 DEF TwoTypeOK
<1>7. \A q \in Processes, s \in Submissions : Began(q, s)' = Began(q, s)
  BY <1>4 DEF Began
<1>8. BegunOnce'
  <2>1. ASSUME NEW q \in Processes, NEW s \in Submissions
        PROVE  begun'[q][s] <= 1 /\ (s \in queue' => ~Began(q, s)')
    <3>1. ~Began(q, put + 1)
      BY <1>0, <1>2 DEF WaitingInv
    <3> QED BY <1>0, <1>2, <1>4, <1>7, <3>1 DEF BegunOnce
  <2>2. ASSUME ~together', NEW s \in 1..put'
        PROVE  /\ s \in queue' \/ \E q \in Processes : Began(q, s)'
               /\ \A q, r \in Processes : Began(q, s)' /\ Began(r, s)' => q = r
    <3>1. s \in 1..put \/ s = put + 1
      BY <1>2, <2>2
    <3>2. s \in Submissions /\ ~together
      BY <1>2, <1>4, <2>2, <3>1
    <3>3. CASE s \in 1..put
      BY <1>0, <1>2, <1>7, <3>2, <3>3 DEF BegunOnce
    <3>4. CASE s = put + 1
      <4>1. \A q \in Processes : ~Began(q, s)
        BY <1>0, <1>2, <3>4 DEF WaitingInv
      <4> QED BY <1>2, <1>7, <3>2, <3>4, <4>1
    <3> QED BY <3>1, <3>3, <3>4
  <2> QED BY <2>1, <2>2 DEF BegunOnce
<1>9. WaitingInv'
  <2>1. queue' \subseteq 1..put'
    BY <1>0, <1>2 DEF WaitingInv
  <2>2. \A s \in queue : num'[s] = num[s] /\ num[s] < n /\ num[s] \in Nat
    BY <1>0, <1>1, <1>2, <1>5 DEF WaitingInv, TwoTypeOK
  <2>3. ASSUME NEW s \in queue', NEW t \in queue', num'[s] = num'[t] PROVE s = t
    <3>1. CASE s \in queue /\ t \in queue
      BY <1>0, <2>2, <2>3, <3>1 DEF WaitingInv
    <3>2. CASE s = put + 1 \/ t = put + 1
      BY <1>2, <1>3, <1>5, <2>2, <2>3, <3>2
    <3> QED BY <1>2, <3>1, <3>2
  <2>4. \A q \in Processes, s \in Submissions : Began(q, s)' => s \in 1..put'
    BY <1>0, <1>2, <1>7 DEF WaitingInv
  <2> QED BY <2>1, <2>3, <2>4 DEF WaitingInv
<1>10. ReadInv'
  <2> SUFFICES ASSUME NEW q \in Processes, thread'[q] = "read"
               PROVE  /\ entry'[q] \in 1..put'
                      /\ place'[q] = num'[entry'[q]]
                      /\ ~(begun'[q][entry'[q]] > 0)
    BY DEF ReadInv, Began
  <2>1. thread[q] = "read" /\ entry' = entry /\ place' = place
    BY <1>4
  <2>2. entry[q] \in 1..put /\ place[q] = num[entry[q]] /\ ~Began(q, entry[q])
    BY <1>0, <2>1 DEF ReadInv
  <2>3. entry[q] \in Submissions
    BY <1>2, <2>2
  <2>4. entry'[q] \in 1..put' /\ place'[q] = num'[entry'[q]]
    BY <1>2, <1>5, <2>1, <2>2
  <2>5. ~(begun'[q][entry'[q]] > 0)
    BY <1>4, <2>1, <2>2 DEF Began
  <2> QED BY <2>4, <2>5
<1>11. AloneInv'
  BY <1>0, <1>2, <1>4 DEF AloneInv
<1> QED BY <1>6, <1>8, <1>9, <1>10, <1>11 DEF OneSpoolInv

(* What is read waits, so its reader has not begun it. *)
LEMMA ReadStep ==
  ASSUME OneSpoolInv, NEW p \in Processes, TakeRead(p) PROVE OneSpoolInv'
<1> USE TwoProcessesAssumption DEF OneSpoolInv, TwoTypeOK, Submissions
<1>1. UNCHANGED <<put, num, queue, aside, place, main, socket, path, begun, together>>
  BY DEF TakeRead, spoolVars, socketVars
<1>2. CASE thread' = [thread EXCEPT ![p] = "dead"] /\ entry' = entry
  <2>1. TwoTypeOK'
    BY <1>1, <1>2
  <2>2. AloneInv'
    BY <1>1, <1>2 DEF AloneInv, TakeRead
  <2>3. \A q \in Processes : thread'[q] = "read" => thread[q] = "read"
    BY <1>2
  <2> HIDE DEF OneSpoolInv
  <2> QED BY <1>1, <1>2, <2>1, <2>2, <2>3, UntouchedQueue
<1>3. ASSUME NEW s \in queue, num[s] = place[p], thread[p] = "listed",
             entry' = [entry EXCEPT ![p] = s], thread' = [thread EXCEPT ![p] = "read"]
      PROVE  OneSpoolInv'
  <2>1. TwoTypeOK'
    BY <1>1, <1>3
  <2>2. BegunOnce' /\ WaitingInv'
    BY <1>1 DEF BegunOnce, WaitingInv, Began
  <2>3. ReadInv'
    BY <1>1, <1>3 DEF ReadInv, WaitingInv, BegunOnce, Began
  <2>4. AloneInv'
    BY <1>1, <1>3 DEF AloneInv
  <2> QED BY <2>1, <2>2, <2>3, <2>4
<1> QED BY <1>2, <1>3 DEF TakeRead, FileAt

(* A rename takes what waits at the path.  What its process has read, if   *)
(* it still waits, is that; as long as they ran one at a time it is.       *)
LEMMA AsideStep ==
  ASSUME OneSpoolInv, NEW p \in Processes, TakeAside(p) PROVE OneSpoolInv'
<1> DEFINE moved == FileAt(queue, place[p])
<1>0. TwoTypeOK /\ BegunOnce /\ WaitingInv /\ ReadInv /\ AloneInv
  BY DEF OneSpoolInv
<1>1. /\ thread[p] = "read"
      /\ UNCHANGED <<put, num, place, entry, main, socket, path, together>>
  BY DEF TakeAside, socketVars
<1>2. CASE moved = {}
  <2>1. thread' = [thread EXCEPT ![p] = "dead"] /\ UNCHANGED <<queue, aside, begun>>
    BY <1>2 DEF TakeAside
  <2>2. TwoTypeOK'
    BY <1>0, <1>1, <2>1 DEF TwoTypeOK
  <2>3. AloneInv'
    BY <1>0, <1>1, <2>1 DEF AloneInv, TwoTypeOK
  <2>4. \A q \in Processes : thread'[q] = "read" => thread[q] = "read"
    BY <1>0, <2>1 DEF TwoTypeOK
  <2> QED BY <1>1, <2>1, <2>2, <2>3, <2>4, UntouchedQueue
<1>3. CASE moved # {}
  <2>1. /\ thread' = [thread EXCEPT ![p] = "speaking"]
        /\ queue' = queue \ moved
        /\ aside' = (aside \ FileAt(aside, place[p])) \cup moved
        /\ begun' = [begun EXCEPT ![p][entry[p]] = @ + 1]
    BY <1>3 DEF TakeAside
  <2> DEFINE e == entry[p]
  <2>2. e \in 1..put /\ place[p] = num[e] /\ ~Began(p, e)
    BY <1>0, <1>1 DEF ReadInv
  <2>3. e \in Submissions
    BY <1>0, <2>2, TwoProcessesAssumption DEF TwoTypeOK, Submissions
  <2>4. begun[p] \in [Submissions -> Nat] /\ begun[p][e] = 0
    BY <1>0, <2>2, <2>3 DEF TwoTypeOK, Began
  <2>5. moved \subseteq queue
    BY DEF FileAt
  <2>6. e \in queue => moved = {e}
    BY <1>0, <2>2 DEF FileAt, WaitingInv
  <2>7. e \notin queue'
    BY <2>1, <2>2 DEF FileAt
  <2> HIDE DEF moved, e
  <2>8. begun' = [begun EXCEPT ![p] = [begun[p] EXCEPT ![e] = 1]]
    BY <2>1, <2>4 DEF e
  <2>9. begun' \in [Processes -> [Submissions -> Nat]]
    BY <1>0, <2>4, <2>8 DEF TwoTypeOK
  <2>10. \A q \in Processes, s \in Submissions :
           begun'[q][s] = IF q = p /\ s = e THEN 1 ELSE begun[q][s]
    BY <1>0, <2>3, <2>4, <2>8 DEF TwoTypeOK
  <2>11. \A q \in Processes, s \in Submissions :
           Began(q, s)' <=> Began(q, s) \/ (q = p /\ s = e)
    BY <2>10 DEF Began
  <2>12. TwoTypeOK'
    <3>1. queue' \subseteq Submissions /\ aside' \subseteq Submissions
      BY <1>0, <2>1, <2>5 DEF TwoTypeOK
    <3>2. thread' \in [Processes ->
            {"off", "parked", "drain", "listed", "read", "speaking", "dead"}]
      BY <1>0, <2>1 DEF TwoTypeOK
    <3> QED BY <1>0, <1>1, <2>9, <3>1, <3>2 DEF TwoTypeOK
  <2>13. BegunOnce'
    <3>1. ASSUME NEW q \in Processes, NEW s \in Submissions
          PROVE  begun'[q][s] <= 1 /\ (s \in queue' => ~Began(q, s)')
      BY <1>0, <2>1, <2>7, <2>10, <2>11 DEF BegunOnce
    <3>2. ASSUME ~together', NEW s \in 1..put'
          PROVE  /\ s \in queue' \/ \E q \in Processes : Began(q, s)'
                 /\ \A q, r \in Processes : Began(q, s)' /\ Began(r, s)' => q = r
      <4>1. ~together /\ s \in 1..put /\ s \in Submissions
        BY <1>0, <1>1, <3>2, TwoProcessesAssumption DEF TwoTypeOK, Submissions
      <4>2. e \in queue /\ moved = {e}
        BY <1>0, <1>1, <2>6, <4>1 DEF AloneInv, e
      <4>3. CASE s = e
        BY <1>0, <2>3, <2>11, <4>2, <4>3 DEF BegunOnce
      <4>4. CASE s # e
        BY <1>0, <2>1, <2>11, <4>1, <4>2, <4>4 DEF BegunOnce
      <4> QED BY <4>3, <4>4
    <3> QED BY <3>1, <3>2 DEF BegunOnce
  <2>14. WaitingInv'
    BY <1>0, <1>1, <2>1, <2>2, <2>11 DEF WaitingInv
  <2>15. ReadInv'
    <3> SUFFICES ASSUME NEW q \in Processes, thread'[q] = "read"
                 PROVE  /\ entry'[q] \in 1..put'
                        /\ place'[q] = num'[entry'[q]]
                        /\ ~(begun'[q][entry'[q]] > 0)
      BY DEF ReadInv, Began
    <3>1. q # p /\ thread[q] = "read"
      BY <1>0, <2>1 DEF TwoTypeOK
    <3>2. entry[q] \in 1..put /\ place[q] = num[entry[q]] /\ ~Began(q, entry[q])
      BY <1>0, <3>1 DEF ReadInv
    <3>3. begun'[q] = begun[q]
      BY <1>0, <2>8, <3>1 DEF TwoTypeOK
    <3> QED BY <1>1, <3>2, <3>3 DEF Began
  <2>16. AloneInv'
    <3>1. \A q \in Processes : thread'[q] # "off" => thread[q] # "off"
      BY <1>0, <1>1, <2>1 DEF TwoTypeOK
    <3>2. ASSUME ~together, NEW q \in Processes, thread'[q] = "read"
          PROVE  FALSE
      <4>1. q # p /\ thread[q] = "read"
        BY <1>0, <2>1, <3>2 DEF TwoTypeOK
      <4> QED BY <1>0, <1>1, <3>2, <4>1 DEF AloneInv
    <3> QED BY <1>0, <1>1, <3>1, <3>2 DEF AloneInv
  <2> QED BY <2>12, <2>13, <2>14, <2>15, <2>16 DEF OneSpoolInv
<1> QED BY <1>2, <1>3

(* Whoever starts, ends, looks, binds or finds nothing to take leaves what *)
(* waits and what was begun as it is.                                      *)
LEMMA OneSpoolStep == OneSpoolInv /\ [TwoNext]_processVars => OneSpoolInv'
<1> SUFFICES ASSUME OneSpoolInv, [TwoNext]_processVars PROVE OneSpoolInv'
  OBVIOUS
<1> USE DEF spoolVars, takeVars, socketVars
<1>1. TwoTypeOK /\ AloneInv
  BY DEF OneSpoolInv
<1>2. ASSUME NEW p \in Processes, Build(p) PROVE OneSpoolInv'
  <2>1. TwoTypeOK' /\ AloneInv'
    BY <1>1, <1>2 DEF TwoTypeOK, AloneInv, Build, OthersUp, Processes
  <2> QED BY <1>1, <1>2, <2>1, UntouchedQueue DEF TwoTypeOK, Build
<1>3. ASSUME NEW p \in Processes, BuildFails(p) PROVE OneSpoolInv'
  <2>1. TwoTypeOK' /\ AloneInv'
    BY <1>1, <1>3 DEF TwoTypeOK, AloneInv, BuildFails
  <2> QED BY <1>3, <2>1, UntouchedQueue DEF BuildFails
<1>4. ASSUME NEW p \in Processes, Look(p) PROVE OneSpoolInv'
  <2>1. TwoTypeOK' /\ AloneInv'
    BY <1>1, <1>4 DEF TwoTypeOK, AloneInv, Look
  <2> QED BY <1>4, <2>1, UntouchedQueue DEF Look
<1>5. ASSUME NEW p \in Processes, BindSocket(p) PROVE OneSpoolInv'
  <2>1. TwoTypeOK' /\ AloneInv'
    BY <1>1, <1>5 DEF TwoTypeOK, AloneInv, BindSocket
  <2> QED BY <1>5, <2>1, UntouchedQueue DEF BindSocket
<1>6. ASSUME NEW p \in Processes, Exit(p) PROVE OneSpoolInv'
  <2>1. TwoTypeOK' /\ AloneInv'
    BY <1>1, <1>6 DEF TwoTypeOK, AloneInv, Exit
  <2> QED BY <1>1, <1>6, <2>1, UntouchedQueue DEF TwoTypeOK, Exit
<1>7. ASSUME NEW p \in Processes, TakeList(p) PROVE OneSpoolInv'
  <2>1. \E w \in {"parked", "listed"}, n \in Nat :
          /\ thread' = [thread EXCEPT ![p] = w]
          /\ place' = place \/ place' = [place EXCEPT ![p] = n]
    BY <1>1, <1>7 DEF TwoTypeOK, TakeList
  <2>2. thread[p] = "drain"
        /\ UNCHANGED <<put, num, queue, aside, entry, main, socket, path, begun, together>>
    BY <1>7 DEF TakeList
  <2>3. TwoTypeOK' /\ AloneInv'
    BY <1>1, <2>1, <2>2 DEF TwoTypeOK, AloneInv
  <2>4. \A q \in Processes : thread'[q] = "read" =>
          thread[q] = "read" /\ entry'[q] = entry[q] /\ place'[q] = place[q]
    BY <1>1, <2>1, <2>2 DEF TwoTypeOK
  <2> QED BY <2>2, <2>3, <2>4, UntouchedQueue
<1>8. ASSUME NEW p \in Processes, SpokenDone(p) PROVE OneSpoolInv'
  <2>1. TwoTypeOK' /\ AloneInv'
    BY <1>1, <1>8 DEF TwoTypeOK, AloneInv, SpokenDone
  <2> QED BY <1>1, <1>8, <2>1, UntouchedQueue DEF TwoTypeOK, SpokenDone
<1>9. CASE Inherit
  <2>1. TwoTypeOK' /\ AloneInv'
    BY <1>1, <1>9 DEF TwoTypeOK, AloneInv, Inherit, Processes
  <2> QED BY <1>9, <2>1, UntouchedQueue DEF Inherit
<1>10. CASE StopSocket \/ StartSocket
  <2>1. TwoTypeOK' /\ AloneInv'
    BY <1>1, <1>10 DEF TwoTypeOK, AloneInv, StopSocket, StartSocket, Processes
  <2> QED BY <1>10, <2>1, UntouchedQueue DEF StopSocket, StartSocket
<1>11. CASE UNCHANGED processVars
  <2>1. TwoTypeOK' /\ AloneInv'
    BY <1>1, <1>11 DEF TwoTypeOK, AloneInv, processVars
  <2> QED BY <1>11, <2>1, UntouchedQueue DEF processVars
<1> QED BY <1>2, <1>3, <1>4, <1>5, <1>6, <1>7, <1>8, <1>9, <1>10, <1>11,
           PutStep, ReadStep, AsideStep
        DEF TwoNext

(* FR-4.8, main.py:12-14: take() and recover() of any number of processes, *)
(* started and ended anywhere, never let one process begin a submission    *)
(* twice, and lose and share none while no two are up at once.             *)
THEOREM EachIsBegunOnce == TwoSpec => []BegunOnce
<1>1. OneSpoolInv => BegunOnce
  BY DEF OneSpoolInv
<1> QED BY OneSpoolInit, OneSpoolStep, <1>1, PTL DEF TwoSpec

(* The values of the processes have their types.                           *)
THEOREM TwoTypes == TwoSpec => []TwoTypeOK
<1>1. OneSpoolInv => TwoTypeOK
  BY DEF OneSpoolInv
<1> QED BY OneSpoolInit, OneSpoolStep, <1>1, PTL DEF TwoSpec

-----------------------------------------------------------------------------
\* The log and its rotation

(* A thread is inside alone; the place above a log about to be moved is    *)
(* free, but for the oldest; a thread that writes has room to.             *)
LogInv ==
  /\ LogTypeOK
  /\ LogKeptInOrder
  /\ \A v, w \in Writers : doing[v] # Outside /\ doing[w] # Outside => v = w
  /\ \A w \in Writers : doing[w] \in 0..(LogKeep - 2) => doing[w] + 1 \notin DOMAIN logs
  /\ \A w \in Writers : doing[w] = Writing /\ 0 \in DOMAIN logs =>
       logs[0].size + brings[w] <= LogLimit

(* A rename upwards, onto the oldest log or onto no log, keeps what is     *)
(* read in order: all it can lose is the oldest log.                       *)
LEMMA MovedKeepsOrder ==
  ASSUME LogTypeOK, LogKeptInOrder,
         NEW i \in 0..(LogKeep - 1), i \in DOMAIN logs,
         i = LogKeep - 1 \/ i + 1 \notin DOMAIN logs,
         logs' = Moved(i), UNCHANGED written
  PROVE  /\ LogKeptInOrder'
         /\ DOMAIN logs' \subseteq 0..LogKeep
         /\ \A j \in DOMAIN logs' : logs'[j] \in [lines : SUBSET (1..written'), size : Nat]
         /\ i \notin DOMAIN logs'
<1> DEFINE from(j) == IF j = i + 1 THEN i ELSE j
<1> USE LogAssumption
<1>1. /\ DOMAIN logs \subseteq 0..LogKeep
      /\ \A j \in DOMAIN logs : logs[j] \in [lines : SUBSET (1..written), size : Nat]
      /\ written \in Nat /\ i \in Nat
  BY DEF LogTypeOK
<1>2. /\ DOMAIN logs' = (DOMAIN logs \ {i}) \cup {i + 1}
      /\ \A j \in DOMAIN logs' : from(j) \in DOMAIN logs /\ logs'[j] = logs[from(j)]
  BY DEF Moved
<1>3. DOMAIN logs' \subseteq 0..LogKeep /\ i \notin DOMAIN logs'
  BY <1>1, <1>2
<1>4. \A j, k \in DOMAIN logs' : j < k => from(j) < from(k)
  BY <1>1, <1>2, <1>3
<1>5. \A j, k \in DOMAIN logs' : j < k =>
        \A m \in logs'[j].lines, n \in logs'[k].lines : n < m
  <2> HIDE DEF from
  <2> QED BY <1>2, <1>4 DEF LogKeptInOrder
<1>6. ASSUME NEW j \in DOMAIN logs', NEW n \in logs'[j].lines, NEW m \in n..written'
      PROVE  \E k \in DOMAIN logs' : m \in logs'[k].lines
  <2>1. from(j) \in DOMAIN logs /\ n \in logs[from(j)].lines /\ m \in n..written
    BY <1>2
  <2>2. PICK k \in DOMAIN logs : m \in logs[k].lines
    <3> HIDE DEF from
    <3> QED BY <2>1 DEF LogKeptInOrder
  <2>3. CASE k = i
    BY <2>2, <2>3, <1>1, <1>2
  <2>4. CASE k # i /\ k # i + 1
    BY <2>2, <2>4, <1>1, <1>2
  <2>5. CASE k = i + 1
    <3>1. k = LogKeep /\ from(j) < k
      BY <2>5, <1>1, <1>2, <1>3
    <3>2. m < n
      <4> HIDE DEF from
      <4> QED BY <2>1, <2>2, <3>1 DEF LogKeptInOrder
    <3>3. n \in Nat
      <4> HIDE DEF from
      <4> QED BY <2>1, <1>1
    <3> QED BY <3>2, <3>3
  <2> QED BY <2>3, <2>4, <2>5
<1>7. \A j \in DOMAIN logs' :
        /\ logs'[j] \in [lines : SUBSET (1..written'), size : Nat]
        /\ logs'[j].size <= LogLimit \/ \E n \in 1..written' : logs'[j].lines = {n}
  <2> HIDE DEF from
  <2> QED BY <1>1, <1>2 DEF LogKeptInOrder
<1> QED BY <1>3, <1>5, <1>6, <1>7 DEF LogKeptInOrder

LEMMA LogInitInv == LogInit => LogInv
  BY LogAssumption DEF LogInit, LogInv, LogTypeOK, LogKeptInOrder, Outside, Writing

(* The line is the newest, in the newest log, and either alone there or    *)
(* within the limit.                                                       *)
LEMMA WriteKeepsOrder ==
  ASSUME LogInv, NEW w \in Writers, WriteLine(w)
  PROVE  LogKeptInOrder' /\ LogTypeOK'
<1> USE LogAssumption
<1> DEFINE new == written + 1
<1>1. /\ DOMAIN logs \subseteq 0..LogKeep
      /\ \A j \in DOMAIN logs : logs[j] \in [lines : SUBSET (1..written), size : Nat]
      /\ written \in Nat /\ written' = new
      /\ brings[w] \in Nat
  BY DEF LogInv, LogTypeOK, WriteLine
<1>2. /\ DOMAIN logs' = DOMAIN logs \cup {0}
      /\ \A j \in DOMAIN logs' : j # 0 => j \in DOMAIN logs /\ logs'[j] = logs[j]
      /\ logs'[0] = [lines |-> Current.lines \cup {new}, size |-> Current.size + brings[w]]
  BY DEF WriteLine, WithCurrent
<1>3. /\ doing' \in [Writers -> Outside..(LogKeep - 1)]
      /\ brings' \in [Writers -> LineSizes]
  <2>1. Outside \in Outside..(LogKeep - 1)
    BY DEF Outside
  <2> QED BY <2>1 DEF LogInv, LogTypeOK, WriteLine
<1>4. CASE 0 \in DOMAIN logs
  <2>1. /\ logs'[0].lines = logs[0].lines \cup {new}
        /\ logs'[0].size = logs[0].size + brings[w]
        /\ logs[0].size + brings[w] <= LogLimit
    BY <1>2, <1>4 DEF Current, LogInv, WriteLine
  <2>2. \A j \in DOMAIN logs' : logs'[j] \in [lines : SUBSET (1..written'), size : Nat]
    BY <1>1, <1>2, <1>4, <2>1 DEF Current
  <2>3. \A i, j \in DOMAIN logs' : i < j =>
          \A m \in logs'[i].lines, n \in logs'[j].lines : n < m
    BY <1>1, <1>2, <1>4, <2>1 DEF LogInv, LogKeptInOrder
  <2>4. ASSUME NEW i \in DOMAIN logs', NEW n \in logs'[i].lines, NEW m \in n..written'
        PROVE  \E j \in DOMAIN logs' : m \in logs'[j].lines
    <3>1. CASE m = new
      BY <3>1, <1>2, <2>1
    <3>2. CASE m # new
      <4>1. m \in n..written /\ i \in DOMAIN logs /\ n \in logs[i].lines
        BY <3>2, <1>1, <1>2, <1>4, <2>1, <2>2
      <4>2. PICK j \in DOMAIN logs : m \in logs[j].lines
        BY <4>1 DEF LogInv, LogKeptInOrder
      <4> QED BY <4>2, <1>1, <1>2, <2>1
    <3> QED BY <3>1, <3>2
  <2>5. \A i \in DOMAIN logs' :
          logs'[i].size <= LogLimit \/ \E n \in 1..written' : logs'[i].lines = {n}
    BY <1>1, <1>2, <1>4, <2>1 DEF LogInv, LogKeptInOrder
  <2>6. LogTypeOK'
    BY <1>1, <1>2, <1>3, <2>2 DEF LogTypeOK
  <2> QED BY <2>3, <2>4, <2>5, <2>6 DEF LogKeptInOrder
<1>5. CASE 0 \notin DOMAIN logs
  <2>1. logs'[0] = [lines |-> {new}, size |-> brings[w]]
    <3>1. Current.lines = {} /\ Current.size = 0
      BY <1>5 DEF Current, EmptyLog
    <3>2. Current.lines \cup {new} = {new} /\ Current.size + brings[w] = brings[w]
      BY <3>1, <1>1
    <3> QED BY <3>2, <1>2
  <2>2. \A j \in DOMAIN logs' : logs'[j] \in [lines : SUBSET (1..written'), size : Nat]
    BY <1>1, <1>2, <1>5, <2>1
  <2>3. \A i, j \in DOMAIN logs' : i < j =>
          \A m \in logs'[i].lines, n \in logs'[j].lines : n < m
    BY <1>1, <1>2, <1>5, <2>1 DEF LogInv, LogKeptInOrder
  <2>4. ASSUME NEW i \in DOMAIN logs', NEW n \in logs'[i].lines, NEW m \in n..written'
        PROVE  \E j \in DOMAIN logs' : m \in logs'[j].lines
    <3>1. CASE m = new
      BY <3>1, <1>2, <2>1
    <3>2. CASE m # new
      <4>1. m \in n..written /\ i \in DOMAIN logs /\ n \in logs[i].lines
        BY <3>2, <1>1, <1>2, <1>5, <2>1, <2>2
      <4>2. PICK j \in DOMAIN logs : m \in logs[j].lines
        BY <4>1 DEF LogInv, LogKeptInOrder
      <4> QED BY <4>2, <1>1, <1>2, <1>5
    <3> QED BY <3>1, <3>2
  <2>5. \A i \in DOMAIN logs' :
          logs'[i].size <= LogLimit \/ \E n \in 1..written' : logs'[i].lines = {n}
    BY <1>1, <1>2, <1>5, <2>1 DEF LogInv, LogKeptInOrder
  <2>6. LogTypeOK'
    BY <1>1, <1>2, <1>3, <2>2 DEF LogTypeOK
  <2> QED BY <2>3, <2>4, <2>5, <2>6 DEF LogKeptInOrder
<1> QED BY <1>4, <1>5

LEMMA LogStepInv == LogInv /\ [LogNext]_logVars => LogInv'
<1> SUFFICES ASSUME LogInv, [LogNext]_logVars PROVE LogInv'
  OBVIOUS
<1> USE LogAssumption
<1> USE DEF Outside, Writing
<1>1. ASSUME NEW w \in Writers, LogCall(w) PROVE LogInv'
  <2>1. LogTypeOK' /\ LogKeptInOrder'
    BY <1>1 DEF LogInv, LogTypeOK, LogKeptInOrder, LogCall
  <2>2. \A v \in Writers : v # w => doing'[v] = Outside
    BY <1>1 DEF LogInv, LogTypeOK, LogCall, TakesLock
  <2>3. doing'[w] = Writing \/ doing'[w] = LogKeep - 1
    BY <1>1 DEF LogInv, LogTypeOK, LogCall
  <2>4. doing'[w] = Writing /\ 0 \in DOMAIN logs => logs[0].size + brings'[w] <= LogLimit
    BY <1>1 DEF LogInv, LogTypeOK, LogCall
  <2> QED BY <1>1, <2>1, <2>2, <2>3, <2>4 DEF LogInv, LogCall
<1>2. ASSUME NEW w \in Writers, ShiftOlder(w) PROVE LogInv'
  <2> DEFINE i == doing[w]
  <2>1. /\ i \in 1..(LogKeep - 1)
        /\ doing' = [doing EXCEPT ![w] = i - 1]
        /\ doing' \in [Writers -> Outside..(LogKeep - 1)]
        /\ UNCHANGED <<written, brings>>
        /\ i = LogKeep - 1 \/ i + 1 \notin DOMAIN logs
    BY <1>2 DEF LogInv, LogTypeOK, ShiftOlder
  <2>2. LogTypeOK' /\ LogKeptInOrder' /\ i \notin DOMAIN logs'
    <3>1. CASE i \in DOMAIN logs
      <4>1. logs' = Moved(i) /\ LogTypeOK /\ LogKeptInOrder
        BY <1>2, <3>1 DEF LogInv, ShiftOlder
      <4> HIDE DEF i
      <4> QED BY <2>1, <3>1, <4>1, MovedKeepsOrder DEF LogTypeOK
    <3>2. CASE i \notin DOMAIN logs
      BY <1>2, <2>1, <3>2 DEF LogInv, LogTypeOK, LogKeptInOrder, ShiftOlder
    <3> QED BY <3>1, <3>2
  <2>3. \A v \in Writers : v # w => doing'[v] = Outside
    BY <1>2, <2>1 DEF LogInv, LogTypeOK
  <2> QED BY <2>1, <2>2, <2>3 DEF LogInv, LogTypeOK
<1>3. ASSUME NEW w \in Writers, MoveAside(w) PROVE LogInv'
  <2>1. /\ 0 \in DOMAIN logs /\ logs' = Moved(0)
        /\ doing' = [doing EXCEPT ![w] = Writing]
        /\ UNCHANGED <<written, brings>>
        /\ 0 = LogKeep - 1 \/ 0 + 1 \notin DOMAIN logs
        /\ LogTypeOK /\ LogKeptInOrder
    BY <1>3 DEF LogInv, LogTypeOK, MoveAside
  <2>2. LogTypeOK' /\ LogKeptInOrder' /\ 0 \notin DOMAIN logs'
    BY <2>1, MovedKeepsOrder DEF LogTypeOK
  <2>3. \A v \in Writers : v # w => doing'[v] = Outside
    BY <1>3, <2>1 DEF LogInv, LogTypeOK, MoveAside
  <2> QED BY <2>1, <2>2, <2>3 DEF LogInv, LogTypeOK
<1>4. ASSUME NEW w \in Writers, WriteLine(w) PROVE LogInv'
  <2>1. \A v \in Writers : doing'[v] = Outside
    BY <1>4 DEF LogInv, LogTypeOK, WriteLine
  <2> QED BY <1>4, <2>1, WriteKeepsOrder DEF LogInv
<1>5. ASSUME NEW w \in Writers, LogFails(w) PROVE LogInv'
  <2>1. \A v \in Writers : doing'[v] = Outside
    BY <1>5 DEF LogInv, LogTypeOK, LogFails
  <2>2. CASE UNCHANGED logs \/ 0 \in DOMAIN logs
    <3>1. DOMAIN logs' = DOMAIN logs /\ \A j \in DOMAIN logs : logs'[j] = logs[j]
      BY <1>5, <2>2 DEF LogFails, WithCurrent, Current
    <3>2. LogTypeOK'
      BY <1>5, <3>1 DEF LogInv, LogTypeOK, LogFails
    <3>3. LogKeptInOrder'
      BY <1>5, <3>1 DEF LogInv, LogKeptInOrder, LogFails
    <3> QED BY <2>1, <3>2, <3>3 DEF LogInv
  <2>3. CASE logs' = WithCurrent(Current) /\ 0 \notin DOMAIN logs
    <3>1. /\ DOMAIN logs' = DOMAIN logs \cup {0}
          /\ \A j \in DOMAIN logs : logs'[j] = logs[j]
          /\ logs'[0].lines = {} /\ logs'[0].size = 0
          /\ logs'[0] = EmptyLog
      BY <2>3 DEF WithCurrent, Current, EmptyLog
    <3>2. LogTypeOK'
      BY <1>5, <3>1 DEF LogInv, LogTypeOK, LogFails, EmptyLog
    <3>3. LogKeptInOrder'
      BY <1>5, <3>1 DEF LogInv, LogTypeOK, LogKeptInOrder, LogFails
    <3> QED BY <2>1, <3>2, <3>3 DEF LogInv
  <2> QED BY <1>5, <2>2, <2>3 DEF LogFails
<1>6. ASSUME LogDies PROVE LogInv'
  BY <1>6 DEF LogInv, LogTypeOK, LogKeptInOrder, LogDies
<1>7. ASSUME UNCHANGED logVars PROVE LogInv'
  BY <1>7 DEF LogInv, LogTypeOK, LogKeptInOrder, logVars
<1> QED BY <1>1, <1>2, <1>3, <1>4, <1>5, <1>6, <1>7 DEF LogNext

(* FR-4.13: whichever threads log, and wherever the process dies or the    *)
(* disk refuses, the lines that are left are the last ones, in order.      *)
THEOREM LogIsKeptInOrder == LogSpec => []LogKeptInOrder
<1>1. LogInv => LogKeptInOrder
  BY DEF LogInv
<1> QED BY LogInitInv, LogStepInv, <1>1, PTL DEF LogSpec

(* The values of the log and of those who write to it have their types.    *)
THEOREM LogTypes == LogSpec => []LogTypeOK
<1>1. LogInv => LogTypeOK
  BY DEF LogInv
<1> QED BY LogInitInv, LogStepInv, <1>1, PTL DEF LogSpec

-----------------------------------------------------------------------------
\* The installer

(* The commands of an install that follow a given one. *)
AfterEnable  == {"unregister", "register", "verify"}
AfterReload  == AfterEnable \cup {"enable"}
AfterCopies  == AfterReload \cup {"reload"}
AfterSocket  == AfterCopies \cup {"copy service"}
AfterShim    == AfterSocket \cup {"check", "copy socket"}
AfterService == AfterShim \cup {"tool skid-mcp"}

(* The commands of an uninstall that follow a given one. *)
AfterForget  == {"remove skid-mcp", "remove skid"}
AfterUnload  == AfterForget \cup {"forget"}
AfterRemoval == AfterUnload \cup {"reload away"}
AfterDisable == AfterRemoval \cup {"stop", "remove units"}

(* What the commands that have run have brought about is still so.         *)
InstallSoFar ==
  /\ at \in AfterService \cup {"tool skid"} => job = "install"
  /\ at \in AfterService => "skid" \in tools
  /\ at \in AfterShim => "skid-mcp" \in tools
  /\ at \in AfterSocket => "skid.socket" \in units
  /\ at \in AfterCopies => units = Units
  /\ at \in AfterReload => known = Units
  /\ at \in AfterEnable => enabled /\ listening

UninstallSoFar ==
  /\ at \in AfterDisable \cup {"disable"} => job = "uninstall"
  /\ at \in AfterDisable => ~enabled /\ ~listening
  /\ at \in AfterRemoval => units = {}
  /\ at \in AfterUnload => known = {}
  /\ at \in AfterForget => registration = "none"
  /\ at = "remove skid" => "skid-mcp" \notin tools

(* The plan made at the beginning fits the registration when its turn      *)
(* comes: what is to be added was removed, where anything was found.       *)
PlanFits ==
  /\ at \in AfterService \cup {"tool skid"} =>
       /\ owed = {} => registration = "ours"
       /\ owed # {} /\ found => "unregister" \in owed
  /\ at = "unregister" => owed # {}
  /\ at = "register" =>
       owed # {} /\ ("unregister" \in owed => registration = "none")
  /\ at = "verify" => registration # "none" /\ (found => registration = "ours")

(* A run that goes on has no result yet, and an environment without its    *)
(* model is due to a fault.                                                *)
RunIsOpen ==
  /\ at # "rest" => result = "none"
  /\ at \in AfterService => model \/ faulted

InstallInv ==
  /\ InstallTypeOK
  /\ NothingDangles
  /\ ResultIsTrue
  /\ InstallSoFar
  /\ UninstallSoFar
  /\ PlanFits
  /\ RunIsOpen

(* A machine without skid is one no run has begun on.                      *)
LEMMA InstallInitInv == InstallInit => InstallInv
  BY DEF InstallInit, InstallInv, InstallTypeOK, NothingDangles, ResultIsTrue,
         InstallSoFar, UninstallSoFar, PlanFits, RunIsOpen,
         AfterEnable, AfterReload, AfterCopies, AfterSocket, AfterShim, AfterService,
         AfterForget, AfterUnload, AfterRemoval, AfterDisable

(* Where nothing changes, neither does what is said of it. *)
LEMMA InstallStutter == InstallInv /\ UNCHANGED installVars => InstallInv'
<1> SUFFICES ASSUME InstallInv, UNCHANGED installVars PROVE InstallInv'
  OBVIOUS
<1>1. UNCHANGED <<tools, model, units, known, enabled, listening, registration,
                  job, at, owed, found, faulted, result>>
  BY DEF installVars, machine
<1>2. InstallTypeOK' = InstallTypeOK
  BY ONLY <1>1 DEF InstallTypeOK
<1>3. NothingDangles' = NothingDangles
  BY ONLY <1>1 DEF NothingDangles
<1>4. ResultIsTrue' = ResultIsTrue
  BY ONLY <1>1 DEF ResultIsTrue, Installed, Removed
<1>5. InstallSoFar' = InstallSoFar /\ UninstallSoFar' = UninstallSoFar
  BY ONLY <1>1 DEF InstallSoFar, UninstallSoFar
<1>6. PlanFits' = PlanFits /\ RunIsOpen' = RunIsOpen
  BY ONLY <1>1 DEF PlanFits, RunIsOpen
<1> QED BY <1>2, <1>3, <1>4, <1>5, <1>6 DEF InstallInv

(* Each command keeps what those before it made, and needs no more; a run  *)
(* that is stopped leaves what it has made.                                *)
LEMMA InstallStepInv == InstallInv /\ [InstallNext]_installVars => InstallInv'
<1> SUFFICES ASSUME InstallInv, [InstallNext]_installVars PROVE InstallInv'
  OBVIOUS
<1> USE DEF InstallInv, InstallTypeOK, NothingDangles, ResultIsTrue, InstallSoFar,
          UninstallSoFar, PlanFits, RunIsOpen, machine, Tools, Units,
          AfterEnable, AfterReload, AfterCopies, AfterSocket, AfterShim, AfterService,
          AfterForget, AfterUnload, AfterRemoval, AfterDisable
<1>1. ASSUME InstallDeclined PROVE InstallInv'
  BY <1>1 DEF InstallDeclined, Present
<1>2. ASSUME InstallBegin PROVE InstallInv'
  BY <1>2 DEF InstallBegin, RegistrationSteps, Present
<1>3. ASSUME InstallService PROVE InstallInv'
  BY <1>3 DEF InstallService, Step
<1>4. ASSUME InstallShim PROVE InstallInv'
  BY <1>4 DEF InstallShim, Step
<1>5. ASSUME CheckUnits PROVE InstallInv'
  BY <1>5 DEF CheckUnits, Step
<1>6. ASSUME CopyUnit PROVE InstallInv'
  BY <1>6 DEF CopyUnit, Step
<1>7. ASSUME Reload PROVE InstallInv'
  BY <1>7 DEF Reload, Step
<1>8. ASSUME Enable PROVE InstallInv'
  BY <1>8 DEF Enable, Step
<1>9. ASSUME Unregister PROVE InstallInv'
  BY <1>9 DEF Unregister, Step
<1>10. ASSUME Register PROVE InstallInv'
  BY <1>10 DEF Register, Step
<1>11. ASSUME Verify PROVE InstallInv'
  <2>1. UNCHANGED <<tools, model, units, known, enabled, listening, registration>>
    BY <1>11 DEF Verify
  <2>2. ResultIsTrue'
    <3>1. tools = {"skid", "skid-mcp"} /\ units = Units /\ known = Units
      BY <1>11 DEF Verify, Step
    <3>2. enabled /\ listening /\ model
      BY <1>11 DEF Verify, Step, Works
    <3>3. job' = "install" /\ registration # "none" /\ (found' => registration = "ours")
      BY <1>11 DEF Verify, Step
    <3> QED BY <2>1, <3>1, <3>2, <3>3 DEF Installed
  <2> HIDE DEF ResultIsTrue
  <2> QED BY <1>11, <2>2 DEF Verify, Step
<1>12. ASSUME UninstallBegin PROVE InstallInv'
  BY <1>12 DEF UninstallBegin, FirstToUndo
<1>13. ASSUME Disable PROVE InstallInv'
  BY <1>13 DEF Disable, Step
<1>14. ASSUME StopService PROVE InstallInv'
  BY <1>14 DEF StopService, Step
<1>15. ASSUME RemoveUnits PROVE InstallInv'
  BY <1>15 DEF RemoveUnits, Step
<1>16. ASSUME ReloadAway PROVE InstallInv'
  BY <1>16 DEF ReloadAway, Step
<1>17. ASSUME Forget PROVE InstallInv'
  BY <1>17 DEF Forget, Step
<1>18. ASSUME RemoveShim PROVE InstallInv'
  BY <1>18 DEF RemoveShim, Step
<1>19. ASSUME RemoveService PROVE InstallInv'
  BY <1>19 DEF RemoveService, Step, Removed
<1>20. ASSUME AlreadySo PROVE InstallInv'
  BY <1>20 DEF AlreadySo, Works, Tolerated
<1>21. ASSUME StepFails PROVE InstallInv'
  BY <1>21 DEF StepFails
<1>22. ASSUME Cut PROVE InstallInv'
  BY <1>22 DEF Cut
<1>23. ASSUME Reboot PROVE InstallInv'
  <2>1. ResultIsTrue'
    <3>1. CASE at = "rest"
      <4>1. listening' = enabled /\ known' = units
            /\ UNCHANGED <<tools, model, units, enabled, registration, job, found, result>>
        BY <1>23, <3>1 DEF Reboot
      <4> QED BY <4>1 DEF Installed, Removed
    <3>2. CASE at # "rest"
      BY <1>23, <3>2 DEF Reboot
    <3> QED BY <3>1, <3>2
  <2> HIDE DEF ResultIsTrue
  <2> QED BY <1>23, <2>1 DEF Reboot
<1>24. ASSUME RegisterByHand PROVE InstallInv'
  BY <1>24 DEF RegisterByHand
<1>25. ASSUME UNCHANGED installVars PROVE InstallInv'
  BY ONLY InstallInv, <1>25, InstallStutter
<1> QED BY <1>1, <1>2, <1>3, <1>4, <1>5, <1>6, <1>7, <1>8, <1>9, <1>10, <1>11, <1>12,
           <1>13, <1>14, <1>15, <1>16, <1>17, <1>18, <1>19, <1>20, <1>21, <1>22, <1>23, <1>24, <1>25
        DEF InstallNext, Installing, Uninstalling

(* Every command leaves the machine in a state its types describe.         *)
THEOREM InstallTypes == InstallSpec => []InstallTypeOK
<1>1. InstallInv => InstallTypeOK
  BY DEF InstallInv
<1> QED BY InstallInitInv, InstallStepInv, <1>1, PTL DEF InstallSpec

(* FR-9.6, FR-9.13: wherever install() and uninstall() are stopped, an     *)
(* enabled socket has its unit files, and these the command they start.    *)
THEOREM NothingEverDangles == InstallSpec => []NothingDangles
<1>1. InstallInv => NothingDangles
  BY DEF InstallInv
<1> QED BY InstallInitInv, InstallStepInv, <1>1, PTL DEF InstallSpec

(* FR-9.9, FR-9.11, FR-9.13: run() returns 0 only where its job is done,   *)
(* tolerated steps and leftovers of earlier runs included.                 *)
THEOREM ResultsAreTrue == InstallSpec => []ResultIsTrue
<1>1. InstallInv => ResultIsTrue
  BY DEF InstallInv
<1> QED BY InstallInitInv, InstallStepInv, <1>1, PTL DEF InstallSpec

(* What has come past its first command was installed from a checkout.     *)
CheckoutInv == job = "install" /\ (at \in AfterService \/ result = "done") => AtCheckout

(* FR-9.10, install.py:592: run from a checkout an install fails by a      *)
(* fault alone, as what each command needs was made by those before it;    *)
(* run from anywhere else, which is where checkout_root() leads, no        *)
(* install ever ends well.                                                 *)
THEOREM OnlyTheCheckoutDecides == InstallSpec => []EndsAsItMust
<1>1. InstallInit => EndsAsItMust /\ CheckoutInv
  BY DEF InstallInit, EndsAsItMust, CheckoutInv, AfterEnable, AfterReload, AfterCopies,
         AfterSocket, AfterShim, AfterService
<1>2. InstallInv /\ CheckoutInv /\ [InstallNext]_installVars => CheckoutInv'
  <2> SUFFICES ASSUME InstallInv, CheckoutInv, [InstallNext]_installVars,
                      job' = "install", at' \in AfterService \/ result' = "done"
               PROVE  AtCheckout
    BY DEF CheckoutInv
  <2>1. CASE InstallService
    BY <2>1 DEF InstallService, Step, Works
  <2> USE DEF AfterEnable, AfterReload, AfterCopies, AfterSocket, AfterShim,
            AfterService, AfterForget, AfterUnload, AfterRemoval, AfterDisable
  <2>2. CASE InstallShim \/ CheckUnits \/ CopyUnit \/ Reload \/ Enable \/ Unregister
             \/ Register \/ Verify
    <3>1. at \in AfterService /\ job' = job
      BY <2>2 DEF InstallShim, CheckUnits, CopyUnit, Reload, Enable, Unregister,
                  Register, Verify, Step
    <3> QED BY <3>1 DEF CheckoutInv
  <2>3. CASE Uninstalling
    <3>1. at \in AfterDisable \cup {"disable"} /\ job' = job
      BY <2>3 DEF Uninstalling, Disable, StopService, RemoveUnits, ReloadAway, Forget,
                  RemoveShim, RemoveService, Step
    <3> QED BY <3>1 DEF InstallInv, UninstallSoFar
  <2>4. CASE AlreadySo
    <3>1. at \in {"unregister", "register", "forget"} /\ job' = job
      BY <2>4 DEF AlreadySo, Tolerated
    <3>2. at = "forget" => job = "uninstall"
      BY DEF InstallInv, UninstallSoFar
    <3> QED BY <3>1, <3>2 DEF CheckoutInv
  <2>5. CASE InstallDeclined \/ InstallBegin \/ UninstallBegin \/ RegisterByHand
    BY <2>5 DEF InstallDeclined, InstallBegin, UninstallBegin, RegisterByHand
  <2>6. CASE StepFails \/ Cut
    BY <2>6 DEF StepFails, Cut
  <2>7. CASE Reboot
    BY <2>7 DEF Reboot, CheckoutInv
  <2>8. CASE UNCHANGED installVars
    BY <2>8 DEF installVars, CheckoutInv
  <2> QED BY <2>1, <2>2, <2>3, <2>4, <2>5, <2>6, <2>7, <2>8
          DEF InstallNext, Installing
<1>3. ASSUME AtCheckout
      PROVE  InstallInv /\ RerunSucceeds /\ [InstallNext]_installVars => RerunSucceeds'
  <2> SUFFICES ASSUME InstallInv, RerunSucceeds, [InstallNext]_installVars,
                      job' = "install", result' = "failed"
               PROVE  faulted'
    BY DEF RerunSucceeds
  <2>1. CASE StepFails
    <3>1. CASE at \in AfterService \cup {"tool skid"}
      <4>1. Works \/ Tolerated \/ faulted
        BY <1>3, <3>1
           DEF Works, Tolerated, InstallInv, InstallTypeOK, InstallSoFar, PlanFits,
               RunIsOpen, Units, AfterEnable, AfterReload, AfterCopies, AfterSocket,
               AfterShim, AfterService
      <4>2. faulted' = TRUE \/ (~Works /\ ~Tolerated /\ faulted' = faulted)
        BY <2>1, Zenon DEF StepFails
      <4> QED BY <4>1, <4>2, Zenon
    <3>2. CASE at \notin AfterService \cup {"tool skid"}
      BY <2>1, <3>2
         DEF StepFails, InstallInv, InstallTypeOK, UninstallSoFar, AfterEnable,
             AfterReload, AfterCopies, AfterSocket, AfterShim, AfterService,
             AfterForget, AfterUnload, AfterRemoval, AfterDisable
    <3> QED BY <3>1, <3>2
  <2>2. CASE ~StepFails
    BY <2>2 DEF RerunSucceeds, InstallInv, RunIsOpen, installVars, machine, InstallNext,
       Installing, Uninstalling, Step, InstallDeclined, InstallBegin, InstallService,
       InstallShim, CheckUnits, CopyUnit, Reload, Enable, Unregister, Register, Verify,
       UninstallBegin, Disable, StopService, RemoveUnits, ReloadAway, Forget,
       RemoveShim, RemoveService, Cut, Reboot, RegisterByHand, AlreadySo
  <2> QED BY <2>1, <2>2
<1>4. (AtCheckout => RerunSucceeds) /\ CheckoutInv <=> EndsAsItMust /\ CheckoutInv
  BY DEF EndsAsItMust, RerunSucceeds, CheckoutInv
<1>5. InstallInv /\ CheckoutInv /\ EndsAsItMust /\ [InstallNext]_installVars
        => EndsAsItMust'
  BY <1>2, <1>3, <1>4 DEF EndsAsItMust, RerunSucceeds, CheckoutInv
<1> QED BY InstallInitInv, InstallStepInv, <1>1, <1>2, <1>5, PTL DEF InstallSpec
-----------------------------------------------------------------------------
\* The parts together

(* A behaviour of the composition is one of every part: the part it is of  *)
(* takes its steps and the others stutter.                                 *)
THEOREM PartsImplementEach ==
  PartsSpec => Spec /\ RequestsSpec /\ InstallSpec /\ LogSpec /\ TwoSpec
<1>1. PartsInit => Init /\ RequestsInit /\ InstallInit /\ LogInit /\ TwoInit
  BY DEF PartsInit
<1>2. [PartsNext]_partsVars =>
        /\ [Next]_vars /\ [RequestsNext]_requestVars /\ [InstallNext]_installVars
        /\ [LogNext]_logVars /\ [TwoNext]_processVars
  BY DEF PartsNext, partsVars
<1> QED BY <1>1, <1>2, PTL
         DEF PartsSpec, Spec, RequestsSpec, InstallSpec, LogSpec, TwoSpec

(* The types of the five parts, in the run that checks them together: its  *)
(* texts, requests and entries are any that the constants allow.           *)
THEOREM PartsTypes == PartsSpec => []PartsTypeOK
<1>1. TypeOK /\ RequestsTypeOK /\ InstallTypeOK /\ LogTypeOK /\ TwoTypeOK
        => PartsTypeOK
  BY DEF PartsTypeOK
<1> QED BY PartsImplementEach, SubstitutionTypes, RequestsTypes, InstallTypes,
           LogTypes, TwoTypes, <1>1, PTL
=============================================================================
