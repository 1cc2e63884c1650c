---------------------------- MODULE SpeechQueue ----------------------------
(***************************************************************************)
(* What skid promises of the submissions it accepts, whatever keeps them:  *)
(* accepted means queued; the queue is spoken one submission at a time, in *)
(* the order in which the callers were answered, each at most once; and a  *)
(* submission leaves the queue only by being spoken or discarded.          *)
(***************************************************************************)

CONSTANT Submissions

VARIABLES
  standing,   \* standing[s]: where s stands
  promised,   \* the submissions whose caller was told yes
  ahead       \* ahead[s]: those promised before s was asked for

vars == <<standing, promised, ahead>>

Standings == {"unasked", "asked", "refused", "queued", "speaking", "spoken",
              "discarded"}

Init ==
  /\ standing = [s \in Submissions |-> "unasked"]
  /\ promised = {}
  /\ ahead = [s \in Submissions |-> {}]

Move(s, from, to) ==
  /\ standing[s] = from
  /\ standing' = [standing EXCEPT ![s] = to]

Ask(s) ==
  /\ Move(s, "unasked", "asked")
  /\ ahead' = [ahead EXCEPT ![s] = promised]
  /\ UNCHANGED promised

Enqueue(s) == Move(s, "asked", "queued") /\ UNCHANGED <<promised, ahead>>

(* The caller is told yes only of what is in the queue. *)
Promise(s) ==
  /\ standing[s] = "queued"
  /\ promised' = promised \cup {s}
  /\ UNCHANGED <<standing, ahead>>

(* Calls end without an answer of yes, several at once when skid dies. *)
Refuse(S) ==
  /\ S # {}
  /\ \A s \in S : standing[s] = "asked"
  /\ standing' = [s \in Submissions |->
                    IF s \in S THEN "refused" ELSE standing[s]]
  /\ UNCHANGED <<promised, ahead>>

(* Nothing else is being spoken, and nothing promised earlier still waits. *)
Speak(s) ==
  /\ \A r \in Submissions : standing[r] # "speaking"
  /\ \A r \in ahead[s] : standing[r] # "queued"
  /\ Move(s, "queued", "speaking")
  /\ UNCHANGED <<promised, ahead>>

Finish(s) == Move(s, "speaking", "spoken") /\ UNCHANGED <<promised, ahead>>

(* For its age while it waited, or because skid died in the middle of it. *)
Discard(s) ==
  /\ Move(s, "queued", "discarded") \/ Move(s, "speaking", "discarded")
  /\ UNCHANGED <<promised, ahead>>

Next ==
  \/ \E s \in Submissions :
       Ask(s) \/ Enqueue(s) \/ Promise(s) \/ Speak(s) \/ Finish(s) \/ Discard(s)
  \/ \E S \in SUBSET Submissions : Refuse(S)

Spec == Init /\ [][Next]_vars

(* FR-7.2, FR-4.4 at a glance: a promise is kept until the submission is   *)
(* spoken or discarded, and one submission is spoken at a time.            *)
PromisesKept ==
  /\ \A s \in promised :
       standing[s] \in {"queued", "speaking", "spoken", "discarded"}
  /\ \A r, s \in Submissions :
       standing[r] = "speaking" /\ standing[s] = "speaking" => r = s
=============================================================================
