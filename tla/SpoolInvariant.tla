-------------------------- MODULE SpoolInvariant --------------------------
(***************************************************************************)
(* Why the invariants of Spool hold: the parts of two inductive invariants *)
(* of it.  OrderInv holds whatever callers do; IInv where they never have  *)
(* two calls of one name in progress.                                      *)
(***************************************************************************)
EXTENDS Spool

(* A submission has a fate, or a file anywhere, only once it was written,  *)
(* and none yet while it waits.                                            *)
WrittenFirst ==
  /\ \A c \in waiting :
       put[c] \in {"written", "accepted", "lost"} /\ fate[c] = "none"
  /\ \A c \in Calls : fate[c] # "none" \/ c \in taken =>
       put[c] \in {"written", "accepted", "refused", "lost"}
  /\ taken \cap waiting = {}

(* What the serve thread is at, in each mode. *)
ThreadByMode ==
  /\ mode # "up" => entry = NoEntry
  /\ mode = "down" => scan = "none"
  /\ scan = "take" => mode = "up"
  /\ scan # "none" => entry = NoEntry
  /\ entry # NoEntry => fate[entry] = "speaking"

(* The paths a scan has still to visit are there.  The one it has read is  *)
(* the first of them; another submission may have that path by now, and    *)
(* still what was read has not met its fate.                               *)
ScanIsOfPaths ==
  /\ unseen \subseteq Paths(waiting)
  /\ unseen # {} => scan # "none"
  /\ held # NoEntry =>
       /\ IsFirst(Path(held), unseen)
       /\ fate[held] = "none"
       /\ put[held] \in {"written", "accepted", "refused", "lost"}

(* What was accepted before d began is numbered below d, is still to be    *)
(* visited if d is, by its file or by one d is about to replace, and is    *)
(* gone by the time take() has read d.                                     *)
AheadIsFirst ==
  /\ \A d \in Calls : \A c \in before[d] :
       put[c] = "accepted" /\ put[d] # "none"
  /\ \A d \in Calls : \A c \in before[d] \cap waiting :
       put[d] = "numbered" \/ d \in waiting =>
         /\ seq[c] < seq[d]
         /\ scan = "take" /\ Path(d) \in unseen => Path(c) \in unseen
  /\ scan = "take" /\ held # NoEntry => before[held] \cap waiting = {}

(* The clock a scan was given is not ahead of the clock. *)
ClockIsKept == asOf <= now

OrderInv ==
  /\ TypeOK
  /\ WrittenFirst /\ ThreadByMode /\ ScanIsOfPaths
  /\ AheadIsFirst /\ InOrder
  /\ ClockIsKept

-----------------------------------------------------------------------------
(* What callers promise: one call in progress to a safe name. *)
OneCallPerName ==
  \A c, d \in Calls :
    InProgress(c) /\ InProgress(d) /\ SafeName[c] = SafeName[d] => c = d

(* A number that has been read is above every other waiting file of its    *)
(* name, so the path it makes is free, and stays so until the put returns. *)
NumberIsFree ==
  \A c \in Calls : put[c] \in {"numbered", "written"} =>
    \A d \in waiting \ {c} : SafeName[c] = SafeName[d] => seq[d] < seq[c]

OneFilePerPath == \A c, d \in waiting : Path(c) = Path(d) => c = d

(* What was written is waiting or has its fate. *)
WrittenIsKept ==
  \A c \in Calls :
    put[c] \in {"written", "accepted"} => c \in waiting \/ fate[c] # "none"

(* taken/ against the memory of the serve thread, in each mode. *)
TakenByMode ==
  /\ taken = {c \in Calls : fate[c] = "speaking"}
  /\ \A c, d \in taken : c = d
  /\ mode = "up" => taken = (IF entry = NoEntry THEN {} ELSE {entry})
  /\ mode = "recovering" => taken = {}

(* What the scan has read is what its path still holds. *)
ScanIsOfFiles == held # NoEntry => held \in waiting

IInv ==
  /\ OrderInv
  /\ OneCallPerName /\ NumberIsFree /\ OneFilePerPath
  /\ WrittenIsKept /\ TakenByMode /\ ScanIsOfFiles
=============================================================================
