---------------------------- MODULE TwoProcesses ----------------------------
(***************************************************************************)
(* skid.main: the process systemd starts, and processes a person starts by *)
(* hand, which find out that they are not wanted after they have recovered *)
(* the spool that all of them share and have begun to speak from it.       *)
(*                                                                         *)
(* The files of the spool are known by their paths alone.  All submissions *)
(* are of one name here, so that a path is the number in it; numbers come  *)
(* from the directory (module Spool) and are used again.  Nothing expires. *)
(***************************************************************************)
EXTENDS Integers

CONSTANTS
  ByHand,         \* the processes started by hand
  MaxSubmissions  \* bound: how many submissions there are

ASSUME TwoProcessesAssumption ==
  /\ "unit" \notin ByHand
  /\ MaxSubmissions \in Nat

Processes == ByHand \cup {"unit"}

Submissions == 1..MaxSubmissions

VARIABLES
  put,      \* how many submissions were put: 1..put
  num,      \* num[s]: the number in the path of s
  queue,    \* the submissions waiting in the spool
  aside,    \* those under taken/
  place,    \* place[p]: the number in the path the serve thread of p is at
  entry,    \* entry[p]: the submission it has read there, or 0
  thread,   \* thread[p]: "off", "parked", "drain", "listed", "read",
            \* "speaking", "dead"
  main,     \* main[p]: "off", "built", "free", "up", "refused"
  socket,   \* the unit's socket: is systemd listening?
  path,     \* whose socket the path leads to: a process, or "stale", "none"
  begun,    \* begun[p][s]: how often p began to speak s (history)
  together  \* have two processes ever been up at once? (history)

spoolVars   == <<put, num, queue, aside>>
takeVars    == <<place, entry, thread>>
socketVars  == <<main, socket, path>>
processVars == <<spoolVars, takeVars, socketVars, begun, together>>

TwoInit ==
  /\ put = 0 /\ queue = {} /\ aside = {}
  /\ num = [s \in Submissions |-> 0]
  /\ place = [p \in Processes |-> 0]
  /\ entry = [p \in Processes |-> 0]
  /\ thread = [p \in Processes |-> "off"]
  /\ main = [p \in Processes |-> "off"]
  /\ socket \in BOOLEAN
  /\ path \in IF socket THEN {"unit"} ELSE {"stale", "none"}
  /\ begun = [p \in Processes |-> [s \in Submissions |-> 0]]
  /\ together = FALSE

(* The file with number n in its path among those of S: none, or one. *)
FileAt(S, n) == {s \in S : num[s] = n}

-----------------------------------------------------------------------------
\* main()

OthersUp(p) == \E q \in Processes \ {p} : main[q] # "off"

(* Mutant of Build: what was interrupted is put back. *)
BuildReplays(p) ==
  /\ main[p] = "off"
  /\ p = "unit" => socket
  /\ main' = [main EXCEPT ![p] = "built"]
  /\ aside' = {}
  /\ queue' = queue \cup aside
  /\ thread' = [thread EXCEPT ![p] = IF queue' = {} THEN "parked" ELSE "drain"]
  /\ together' = (together \/ OthersUp(p))
  /\ UNCHANGED <<put, num, place, entry, socket, path, begun>>

(* build(): start() recovers the spool and starts the serve thread, before *)
(* anything is known of the socket.                                        *)
Build(p) ==
  /\ main[p] = "off"
  /\ p = "unit" => socket
  /\ main' = [main EXCEPT ![p] = "built"]
  /\ aside' = {}
  /\ thread' = [thread EXCEPT ![p] = IF queue = {} THEN "parked" ELSE "drain"]
  /\ together' = (together \/ OthersUp(p))
  /\ UNCHANGED <<put, num, queue, place, entry, socket, path, begun>>

(* recover() has emptied taken/ and listed a file that another process     *)
(* moves before it is read: the read raises and the process is over.       *)
BuildFails(p) ==
  /\ main[p] = "off"
  /\ p = "unit" => socket
  /\ \E q \in Processes \ {p} : thread[q] = "read" /\ FileAt(queue, place[q]) # {}
  /\ aside' = {}
  /\ together' = TRUE
  /\ UNCHANGED <<put, num, queue, takeVars, socketVars, begun>>

(* inherited_socket(): systemd's, as fd 3. *)
Inherit ==
  /\ main["unit"] = "built"
  /\ main' = [main EXCEPT !["unit"] = "up"]
  /\ UNCHANGED <<spoolVars, takeVars, socket, path, begun, together>>

(* someone_is_listening(): a connection is accepted, by systemd for a unit *)
(* that is not running too.                                                *)
Listening == path \in Processes

Look(p) ==
  /\ p \in ByHand
  /\ main[p] = "built"
  /\ main' = [main EXCEPT ![p] = IF Listening THEN "refused" ELSE "free"]
  /\ UNCHANGED <<spoolVars, takeVars, socket, path, begun, together>>

(* bound_socket(): whatever is at the path is unlinked. *)
BindSocket(p) ==
  /\ main[p] = "free"
  /\ main' = [main EXCEPT ![p] = "up"]
  /\ path' = p
  /\ UNCHANGED <<spoolVars, takeVars, socket, begun, together>>

(* The end of a process, whether killed, refused (stop() waits thirty      *)
(* seconds for its thread at most), or told to stop.                       *)
Exit(p) ==
  /\ main[p] # "off"
  /\ main' = [main EXCEPT ![p] = "off"]
  /\ thread' = [thread EXCEPT ![p] = "off"]
  /\ entry' = [entry EXCEPT ![p] = 0]
  /\ place' = [place EXCEPT ![p] = 0]
  /\ path' = IF path = p /\ p \in ByHand THEN "stale" ELSE path
  /\ UNCHANGED <<spoolVars, socket, begun, together>>

(* A person stops the socket unit: its file stays. *)
StopSocket ==
  /\ socket
  /\ main["unit"] = "off"
  /\ socket' = FALSE
  /\ path' = IF path = "unit" THEN "stale" ELSE path
  /\ UNCHANGED <<spoolVars, takeVars, main, begun, together>>

(* It is started again: systemd binds over what is there.  A process       *)
(* started by hand that has looked before binds over that in its turn.     *)
StartSocket ==
  /\ ~socket
  /\ socket' = TRUE
  /\ path' = "unit"
  /\ UNCHANGED <<spoolVars, takeVars, main, begun, together>>

-----------------------------------------------------------------------------
\* The spool between them

(* Whoever the path leads to puts a submission, numbered past the highest  *)
(* that waits, and wakes its own thread.                                   *)
Put(p) ==
  /\ path = p
  /\ main[p] = "up"
  /\ put < MaxSubmissions
  /\ put' = put + 1
  /\ \E n \in {0} \cup {num[s] + 1 : s \in queue} :
       /\ \A s \in queue : num[s] < n
       /\ num' = [num EXCEPT ![put + 1] = n]
  /\ queue' = queue \cup {put + 1}
  /\ thread' = [thread EXCEPT ![p] = IF @ = "parked" THEN "drain" ELSE @]
  /\ UNCHANGED <<aside, place, entry, socketVars, begun, together>>

(* take() lists the directory; _serve() parks when it is empty. *)
TakeList(p) ==
  /\ thread[p] = "drain"
  /\ \/ /\ queue = {}
        /\ thread' = [thread EXCEPT ![p] = "parked"]
        /\ UNCHANGED place
     \/ \E s \in queue :
          /\ \A t \in queue : num[s] <= num[t]
          /\ place' = [place EXCEPT ![p] = num[s]]
          /\ thread' = [thread EXCEPT ![p] = "listed"]
  /\ UNCHANGED <<spoolVars, entry, socketVars, begun, together>>

(* The first file of the listing is read.  Where another process has moved *)
(* it by then that raises, outside of any try, and the serve thread is over.*)
TakeRead(p) ==
  /\ thread[p] = "listed"
  /\ \/ /\ FileAt(queue, place[p]) = {}
        /\ thread' = [thread EXCEPT ![p] = "dead"]
        /\ UNCHANGED entry
     \/ \E s \in FileAt(queue, place[p]) :
          /\ entry' = [entry EXCEPT ![p] = s]
          /\ thread' = [thread EXCEPT ![p] = "read"]
  /\ UNCHANGED <<spoolVars, place, socketVars, begun, together>>

(* Whatever is at the path by now is moved aside, over what has that name  *)
(* under taken/, and what was read is spoken.  Where nothing is there the  *)
(* rename raises, and the serve thread is over.                            *)
TakeAside(p) ==
  LET moved == FileAt(queue, place[p]) IN
  /\ thread[p] = "read"
  /\ IF moved = {}
       THEN /\ thread' = [thread EXCEPT ![p] = "dead"]
            /\ UNCHANGED <<queue, aside, begun>>
       ELSE /\ thread' = [thread EXCEPT ![p] = "speaking"]
            /\ queue' = queue \ moved
            /\ aside' = (aside \ FileAt(aside, place[p])) \cup moved
            /\ begun' = [begun EXCEPT ![p][entry[p]] = @ + 1]
  /\ UNCHANGED <<put, num, place, entry, socketVars, together>>

(* done(): the file may have been recovered or replaced by another process.*)
SpokenDone(p) ==
  /\ thread[p] = "speaking"
  /\ aside' = aside \ FileAt(aside, place[p])
  /\ entry' = [entry EXCEPT ![p] = 0]
  /\ place' = [place EXCEPT ![p] = 0]
  /\ thread' = [thread EXCEPT ![p] = "drain"]
  /\ UNCHANGED <<put, num, queue, socketVars, begun, together>>

TwoNext ==
  \/ \E p \in Processes :
       Build(p) \/ BuildFails(p) \/ Look(p) \/ BindSocket(p) \/ Exit(p)
       \/ Put(p) \/ TakeList(p) \/ TakeRead(p) \/ TakeAside(p) \/ SpokenDone(p)
  \/ Inherit \/ StopSocket \/ StartSocket

TwoSpec == TwoInit /\ [][TwoNext]_processVars

-----------------------------------------------------------------------------
TwoTypeOK ==
  /\ put \in 0..MaxSubmissions
  /\ num \in [Submissions -> Nat]
  /\ queue \subseteq Submissions
  /\ aside \subseteq Submissions
  /\ place \in [Processes -> Nat]
  /\ entry \in [Processes -> Submissions \cup {0}]
  /\ thread \in [Processes ->
       {"off", "parked", "drain", "listed", "read", "speaking", "dead"}]
  /\ main \in [Processes -> {"off", "built", "free", "up", "refused"}]
  /\ socket \in BOOLEAN
  /\ path \in Processes \cup {"stale", "none"}
  /\ begun \in [Processes -> [Submissions -> Nat]]
  /\ together \in BOOLEAN

(* Was s begun to be spoken by p? *)
Began(p, s) == begun[p][s] > 0

(* FR-4.8: however many processes are started on one spool, and wherever   *)
(* they end, none begins a submission twice and none that was begun waits. *)
(* As long as they ran one at a time, nothing that was put is lost, and    *)
(* what one of them began no other begins.                                 *)
BegunOnce ==
  /\ \A p \in Processes, s \in Submissions :
       begun[p][s] <= 1 /\ (s \in queue => ~Began(p, s))
  /\ ~together => \A s \in 1..put :
       /\ s \in queue \/ \E p \in Processes : Began(p, s)
       /\ \A p, q \in Processes : Began(p, s) /\ Began(q, s) => p = q
=============================================================================
