---------------------------- MODULE SpoolProofs ----------------------------
(***************************************************************************)
(* Spool keeps its invariants, for every set of calls and names, every TTL *)
(* and any number of crashes.  Types and the order of the queue hold       *)
(* whatever the callers do; that nothing is lost or discarded early and    *)
(* that fates are final, where no two calls of one safe name are in        *)
(* progress at once.  Then it implements SpeechQueue, the queue a caller   *)
(* is promised.                                                            *)
(***************************************************************************)
EXTENDS SpoolInvariant, TLAPS

(* Types are kept whatever the callers do. *)
THEOREM TypeCorrect == Spec => []TypeOK
<1> USE SpoolAssumption DEF TypeOK
<1>1. Init => TypeOK
  BY DEF Init
<1>2. TypeOK /\ [Next]_vars => TypeOK'
  <2> SUFFICES ASSUME TypeOK, [Next]_vars PROVE TypeOK'
    OBVIOUS
  <2> USE DEF putVars, diskVars, scanVars
  <2>1. ASSUME NEW c \in Calls, PutCall(c) PROVE TypeOK'
    BY <2>1 DEF PutCall
  <2>2. ASSUME NEW c \in Calls, PutNumber(c) PROVE TypeOK'
    BY <2>2 DEF PutNumber, NextSequence
  <2>3. ASSUME NEW c \in Calls, PutWrite(c) PROVE TypeOK'
    BY <2>3 DEF PutWrite, At
  <2>4. ASSUME NEW c \in Calls, PutFail(c) PROVE TypeOK'
    BY <2>4 DEF PutFail
  <2>5. ASSUME NEW c \in Calls, PutReturn(c) PROVE TypeOK'
    BY <2>5 DEF PutReturn
  <2>6. CASE TakeExpiredBegin
    BY <2>6 DEF TakeExpiredBegin, ScanBegin, Paths, Path
  <2>7. CASE TakeBegin
    BY <2>7 DEF TakeBegin, ScanBegin, Paths, Path
  <2>8. CASE ScanRead
    BY <2>8 DEF ScanRead, IsFirst
  <2>9. CASE ScanUnlink
    BY <2>9 DEF ScanUnlink
  <2>10. CASE TakeRename
    BY <2>10 DEF TakeRename, At
  <2>11. CASE ScanEnd
    BY <2>11 DEF ScanEnd
  <2>12. ASSUME NEW c \in Calls, RecordDiscard(c) PROVE TypeOK'
    BY <2>12 DEF RecordDiscard
  <2>13. CASE Done
    BY <2>13 DEF Done
  <2>14. CASE Recover
    BY <2>14 DEF Recover, Paths, Path
  <2>15. CASE Recovered
    BY <2>15 DEF Recovered
  <2>16. CASE Crash
    BY <2>16 DEF Crash, InProgress
  <2>17. CASE Tick
    BY <2>17 DEF Tick
  <2>18. CASE UNCHANGED vars
    BY <2>18 DEF vars
  <2> QED
    BY <2>1, <2>2, <2>3, <2>4, <2>5, <2>6, <2>7, <2>8, <2>9, <2>10,
       <2>11, <2>12, <2>13, <2>14, <2>15, <2>16, <2>17, <2>18
       DEF Next, Put, Serve
<1> QED BY <1>1, <1>2, PTL DEF Spec

-----------------------------------------------------------------------------
\* Whatever the callers do

LEMMA OrderInit == Init => OrderInv
  BY SpoolAssumption
     DEF Init, OrderInv, TypeOK, WrittenFirst, ThreadByMode, ScanIsOfPaths,
         AheadIsFirst, InOrder, ClockIsKept, Paths

(* A new call: its stamp and the calls before it are new, and it has       *)
(* no file.                                                                *)
LEMMA PutCallOrders ==
  ASSUME OrderInv, NEW c \in Calls, PutCall(c)
  PROVE  OrderInv'
<1> USE SpoolAssumption
       DEF OrderInv, TypeOK, PutCall, putVars, diskVars, scanVars,
           InProgress, Path, Paths, At, Expired
<1>1. TypeOK'
  OBVIOUS
<1>2. WrittenFirst'
  BY DEF WrittenFirst
<1>3. ThreadByMode'
  BY DEF ThreadByMode
<1>4. ScanIsOfPaths'
  BY DEF ScanIsOfPaths, WrittenFirst
<1>5. AheadIsFirst'
  BY DEF AheadIsFirst, WrittenFirst, ScanIsOfPaths
<1>6. InOrder'
  BY DEF InOrder, WrittenFirst
<1>7. ClockIsKept'
  BY DEF ClockIsKept
<1> QED BY <1>1, <1>2, <1>3, <1>4, <1>5, <1>6, <1>7

(* The number is above every waiting file, so above those accepted         *)
(* before, and no scan has yet to visit its path.                          *)
LEMMA PutNumberOrders ==
  ASSUME OrderInv, NEW c \in Calls, PutNumber(c)
  PROVE  OrderInv'
<1> USE SpoolAssumption
       DEF OrderInv, TypeOK, PutNumber, NextSequence, putVars, diskVars, scanVars,
           InProgress, Path, Paths, At, Expired
<1>1. TypeOK'
  OBVIOUS
<1>2. WrittenFirst'
  BY DEF WrittenFirst
<1>3. ScanIsOfPaths'
  BY DEF ScanIsOfPaths, WrittenFirst
<1>4. AheadIsFirst'
  BY DEF AheadIsFirst, WrittenFirst, ScanIsOfPaths
<1>5. ThreadByMode' /\ InOrder' /\ ClockIsKept'
  BY DEF ThreadByMode, InOrder, ClockIsKept
<1> QED BY <1>1, <1>2, <1>3, <1>4, <1>5

(* Whatever had the path is replaced, and what was accepted before is      *)
(* still to be visited if the path is.                                     *)
LEMMA PutWriteOrders ==
  ASSUME OrderInv, NEW c \in Calls, PutWrite(c)
  PROVE  OrderInv'
<1> USE SpoolAssumption
       DEF OrderInv, TypeOK, PutWrite, putVars, diskVars, scanVars,
           InProgress, Path, Paths, At, Expired
<1>1. TypeOK'
  OBVIOUS
<1>2. WrittenFirst'
  BY DEF WrittenFirst
<1>3. ScanIsOfPaths'
  BY DEF ScanIsOfPaths
<1>4. AheadIsFirst'
  BY DEF AheadIsFirst
<1>5. InOrder'
  BY DEF InOrder, AheadIsFirst
<1>6. ThreadByMode' /\ ClockIsKept'
  BY DEF ThreadByMode, ClockIsKept
<1> QED BY <1>1, <1>2, <1>3, <1>4, <1>5, <1>6

(* Nothing was written. *)
LEMMA PutFailOrders ==
  ASSUME OrderInv, NEW c \in Calls, PutFail(c)
  PROVE  OrderInv'
<1> USE SpoolAssumption
       DEF OrderInv, TypeOK, PutFail, putVars, diskVars, scanVars,
           InProgress, Path, Paths, At, Expired
<1>1. TypeOK'
  OBVIOUS
<1>2. WrittenFirst'
  BY DEF WrittenFirst
<1>3. ScanIsOfPaths'
  BY DEF ScanIsOfPaths
<1>4. AheadIsFirst'
  BY DEF AheadIsFirst
<1>5. ThreadByMode' /\ InOrder' /\ ClockIsKept'
  BY DEF ThreadByMode, InOrder, ClockIsKept
<1> QED BY <1>1, <1>2, <1>3, <1>4, <1>5

(* Only the answer is new. *)
LEMMA PutReturnOrders ==
  ASSUME OrderInv, NEW c \in Calls, PutReturn(c)
  PROVE  OrderInv'
<1> USE SpoolAssumption
       DEF OrderInv, TypeOK, PutReturn, putVars, diskVars, scanVars,
           InProgress, Path, Paths, At, Expired
<1>1. TypeOK'
  OBVIOUS
<1>2. WrittenFirst'
  BY DEF WrittenFirst
<1>3. ScanIsOfPaths'
  BY DEF ScanIsOfPaths
<1>4. AheadIsFirst'
  BY DEF AheadIsFirst
<1>5. ThreadByMode' /\ InOrder' /\ ClockIsKept'
  BY DEF ThreadByMode, InOrder, ClockIsKept
<1> QED BY <1>1, <1>2, <1>3, <1>4, <1>5

(* Every waiting file is listed. *)
LEMMA TakeExpiredBeginOrders ==
  ASSUME OrderInv, TakeExpiredBegin
  PROVE  OrderInv'
<1> USE SpoolAssumption
       DEF OrderInv, TypeOK, TakeExpiredBegin, ScanBegin, putVars, diskVars, scanVars,
           InProgress, Path, Paths, At, Expired
<1>1. TypeOK'
  OBVIOUS
<1>2. WrittenFirst'
  BY DEF WrittenFirst
<1>3. ScanIsOfPaths'
  BY DEF ScanIsOfPaths, IsFirst
<1>4. AheadIsFirst'
  BY DEF AheadIsFirst
<1>5. ThreadByMode' /\ InOrder' /\ ClockIsKept'
  BY DEF ThreadByMode, InOrder, ClockIsKept
<1> QED BY <1>1, <1>2, <1>3, <1>4, <1>5

(* Every waiting file is listed, so those accepted before are. *)
LEMMA TakeBeginOrders ==
  ASSUME OrderInv, TakeBegin
  PROVE  OrderInv'
<1> USE SpoolAssumption
       DEF OrderInv, TypeOK, TakeBegin, ScanBegin, putVars, diskVars, scanVars,
           InProgress, Path, Paths, At, Expired
<1>1. TypeOK'
  OBVIOUS
<1>2. WrittenFirst'
  BY DEF WrittenFirst
<1>3. ScanIsOfPaths'
  BY DEF ScanIsOfPaths, IsFirst
<1>4. AheadIsFirst'
  BY DEF AheadIsFirst, ScanIsOfPaths, IsFirst
<1>5. ThreadByMode' /\ InOrder' /\ ClockIsKept'
  BY DEF ThreadByMode, InOrder, ClockIsKept
<1> QED BY <1>1, <1>2, <1>3, <1>4, <1>5

(* The first listed path is read, so nothing accepted before it still      *)
(* waits.                                                                  *)
LEMMA ScanReadOrders ==
  ASSUME OrderInv, ScanRead
  PROVE  OrderInv'
<1> USE SpoolAssumption
       DEF OrderInv, TypeOK, ScanRead, putVars, diskVars, scanVars,
           InProgress, Path, Paths, At, Expired
<1>1. TypeOK'
  OBVIOUS
<1>2. WrittenFirst'
  BY DEF WrittenFirst
<1>3. ScanIsOfPaths'
  BY DEF ScanIsOfPaths, IsFirst, WrittenFirst
<1>4. AheadIsFirst'
  <2>1. PICK d \in waiting :
          /\ IsFirst(Path(d), unseen)
          /\ IF scan = "expired" /\ ~Expired(d)
               THEN unseen' = unseen \ {Path(d)} /\ held' = NoEntry
               ELSE held' = d /\ UNCHANGED unseen
    OBVIOUS
  <2>2. ASSUME scan = "take", NEW b \in before[d] \cap waiting
        PROVE  FALSE
    <3>1. Path(b) \in unseen /\ seq[b] < seq[d]
      BY <2>1, <2>2 DEF AheadIsFirst, IsFirst
    <3>2. Path(b) # Path(d)
      BY <3>1
    <3>3. Precedes(Path(d), Path(b))
      BY <2>1, <3>1, <3>2 DEF IsFirst
    <3> QED BY <3>1, <3>3 DEF Precedes
  <2> QED BY <2>1, <2>2 DEF AheadIsFirst, IsFirst
<1>5. ThreadByMode' /\ InOrder' /\ ClockIsKept'
  BY DEF ThreadByMode, InOrder, ClockIsKept
<1> QED BY <1>1, <1>2, <1>3, <1>4, <1>5

(* What was read has no fate yet, and its path goes from the listing       *)
(* too.                                                                    *)
LEMMA ScanUnlinkOrders ==
  ASSUME OrderInv, ScanUnlink
  PROVE  OrderInv'
<1> USE SpoolAssumption
       DEF OrderInv, TypeOK, ScanUnlink, putVars, diskVars, scanVars,
           InProgress, Path, Paths, At, Expired
<1>1. TypeOK'
  OBVIOUS
<1>2. WrittenFirst'
  BY DEF WrittenFirst, ScanIsOfPaths
<1>3. ThreadByMode'
  <2>1. entry = NoEntry
    BY DEF ThreadByMode, ScanIsOfPaths, IsFirst
  <2> QED BY <2>1 DEF ThreadByMode
<1>4. ScanIsOfPaths'
  BY DEF ScanIsOfPaths
<1>5. AheadIsFirst'
  BY DEF AheadIsFirst
<1>6. InOrder'
  BY DEF InOrder
<1>7. ClockIsKept'
  BY DEF ClockIsKept
<1> QED BY <1>1, <1>2, <1>3, <1>4, <1>5, <1>6, <1>7

(* Nothing accepted before what was read waits. *)
LEMMA TakeRenameOrders ==
  ASSUME OrderInv, TakeRename
  PROVE  OrderInv'
<1> USE SpoolAssumption
       DEF OrderInv, TypeOK, TakeRename, putVars, diskVars, scanVars,
           InProgress, Path, Paths, At, Expired
<1>1. TypeOK'
  OBVIOUS
<1>2. WrittenFirst'
  BY DEF WrittenFirst, ScanIsOfPaths
<1>3. ScanIsOfPaths'
  BY DEF ScanIsOfPaths
<1>4. AheadIsFirst'
  BY DEF AheadIsFirst
<1>5. InOrder'
  BY DEF InOrder, AheadIsFirst
<1>6. ThreadByMode' /\ ClockIsKept'
  BY DEF ThreadByMode, ClockIsKept
<1> QED BY <1>1, <1>2, <1>3, <1>4, <1>5, <1>6

(* Nothing is left to visit, so nothing is held. *)
LEMMA ScanEndOrders ==
  ASSUME OrderInv, ScanEnd
  PROVE  OrderInv'
<1> USE SpoolAssumption
       DEF OrderInv, TypeOK, ScanEnd, putVars, diskVars, scanVars,
           InProgress, Path, Paths, At, Expired
<1>1. TypeOK'
  OBVIOUS
<1>2. WrittenFirst'
  BY DEF WrittenFirst
<1>3. ScanIsOfPaths'
  BY DEF ScanIsOfPaths
<1>4. AheadIsFirst'
  BY DEF AheadIsFirst
<1>5. ThreadByMode' /\ InOrder' /\ ClockIsKept'
  BY DEF ThreadByMode, InOrder, ClockIsKept
<1> QED BY <1>1, <1>2, <1>3, <1>4, <1>5

(* Only the log changes. *)
LEMMA RecordDiscardOrders ==
  ASSUME OrderInv, NEW c \in Calls, RecordDiscard(c)
  PROVE  OrderInv'
<1> USE SpoolAssumption
       DEF OrderInv, TypeOK, RecordDiscard, putVars, diskVars, scanVars,
           InProgress, Path, Paths, At, Expired
<1>1. TypeOK'
  OBVIOUS
<1>2. WrittenFirst'
  BY DEF WrittenFirst
<1>3. ScanIsOfPaths'
  BY DEF ScanIsOfPaths
<1>4. AheadIsFirst'
  BY DEF AheadIsFirst
<1>5. ThreadByMode' /\ InOrder' /\ ClockIsKept'
  BY DEF ThreadByMode, InOrder, ClockIsKept
<1> QED BY <1>1, <1>2, <1>3, <1>4, <1>5

(* What was speaking is spoken. *)
LEMMA DoneOrders ==
  ASSUME OrderInv, Done
  PROVE  OrderInv'
<1> USE SpoolAssumption
       DEF OrderInv, TypeOK, Done, putVars, diskVars, scanVars,
           InProgress, Path, Paths, At, Expired
<1>1. TypeOK'
  OBVIOUS
<1>2. WrittenFirst'
  BY DEF WrittenFirst, ThreadByMode
<1>3. ScanIsOfPaths'
  BY DEF ScanIsOfPaths, IsFirst, ThreadByMode
<1>4. AheadIsFirst'
  BY DEF AheadIsFirst
<1>5. InOrder'
  BY DEF InOrder, ThreadByMode
<1>6. ThreadByMode' /\ ClockIsKept'
  BY DEF ThreadByMode, ClockIsKept
<1> QED BY <1>1, <1>2, <1>3, <1>4, <1>5, <1>6

(* What was under taken/ is interrupted, and every waiting file is         *)
(* listed.                                                                 *)
LEMMA RecoverOrders ==
  ASSUME OrderInv, Recover
  PROVE  OrderInv'
<1> USE SpoolAssumption
       DEF OrderInv, TypeOK, Recover, putVars, diskVars, scanVars,
           InProgress, Path, Paths, At, Expired
<1>1. TypeOK'
  OBVIOUS
<1>2. WrittenFirst'
  BY DEF WrittenFirst
<1>3. ScanIsOfPaths'
  BY DEF ScanIsOfPaths, IsFirst, ThreadByMode
<1>4. AheadIsFirst'
  BY DEF AheadIsFirst
<1>5. ThreadByMode' /\ InOrder' /\ ClockIsKept'
  BY DEF ThreadByMode, InOrder, ClockIsKept
<1> QED BY <1>1, <1>2, <1>3, <1>4, <1>5

(* Only the mode changes. *)
LEMMA RecoveredOrders ==
  ASSUME OrderInv, Recovered
  PROVE  OrderInv'
<1> USE SpoolAssumption
       DEF OrderInv, TypeOK, Recovered, putVars, diskVars, scanVars,
           InProgress, Path, Paths, At, Expired
<1>1. TypeOK'
  OBVIOUS
<1>2. WrittenFirst'
  BY DEF WrittenFirst
<1>3. ScanIsOfPaths'
  BY DEF ScanIsOfPaths
<1>4. AheadIsFirst'
  BY DEF AheadIsFirst
<1>5. ThreadByMode' /\ InOrder' /\ ClockIsKept'
  BY DEF ThreadByMode, InOrder, ClockIsKept
<1> QED BY <1>1, <1>2, <1>3, <1>4, <1>5

(* Files and their numbers stay; no call is in progress and no scan. *)
LEMMA CrashOrders ==
  ASSUME OrderInv, Crash
  PROVE  OrderInv'
<1> USE SpoolAssumption
       DEF OrderInv, TypeOK, Crash, putVars, diskVars, scanVars,
           InProgress, Path, Paths, At, Expired
<1>1. TypeOK'
  OBVIOUS
<1>2. WrittenFirst'
  BY DEF WrittenFirst
<1>3. ThreadByMode'
  BY DEF ThreadByMode
<1>4. ScanIsOfPaths'
  BY DEF ScanIsOfPaths
<1>5. AheadIsFirst'
  BY DEF AheadIsFirst
<1>6. InOrder' /\ ClockIsKept'
  BY DEF InOrder, ClockIsKept
<1> QED BY <1>1, <1>2, <1>3, <1>4, <1>5, <1>6

(* Time passes. *)
LEMMA TickOrders ==
  ASSUME OrderInv, Tick
  PROVE  OrderInv'
<1> USE SpoolAssumption
       DEF OrderInv, TypeOK, Tick, putVars, diskVars, scanVars,
           InProgress, Path, Paths, At, Expired
<1>1. TypeOK'
  OBVIOUS
<1>2. WrittenFirst'
  BY DEF WrittenFirst
<1>3. ScanIsOfPaths'
  BY DEF ScanIsOfPaths
<1>4. AheadIsFirst'
  BY DEF AheadIsFirst
<1>5. ThreadByMode' /\ InOrder' /\ ClockIsKept'
  BY DEF ThreadByMode, InOrder, ClockIsKept
<1> QED BY <1>1, <1>2, <1>3, <1>4, <1>5

LEMMA StutterOrders ==
  ASSUME OrderInv, UNCHANGED vars
  PROVE  OrderInv'
<1> USE DEF OrderInv, vars, putVars, diskVars, scanVars, InProgress, Path, Paths
<1>1. TypeOK' /\ WrittenFirst' /\ ThreadByMode'
  BY DEF TypeOK, WrittenFirst, ThreadByMode
<1>2. ScanIsOfPaths'
  BY DEF ScanIsOfPaths
<1>3. AheadIsFirst' /\ InOrder' /\ ClockIsKept'
  BY DEF AheadIsFirst, InOrder, ClockIsKept
<1> QED BY <1>1, <1>2, <1>3

(* OrderInv is inductive, whatever the callers do. *)
LEMMA StepOrders ==
  ASSUME OrderInv, [Next]_vars
  PROVE  OrderInv'
<1>1. ASSUME NEW c \in Calls, PutCall(c) PROVE OrderInv'
  BY <1>1, PutCallOrders
<1>2. ASSUME NEW c \in Calls, PutNumber(c) PROVE OrderInv'
  BY <1>2, PutNumberOrders
<1>3. ASSUME NEW c \in Calls, PutWrite(c) PROVE OrderInv'
  BY <1>3, PutWriteOrders
<1>4. ASSUME NEW c \in Calls, PutFail(c) PROVE OrderInv'
  BY <1>4, PutFailOrders
<1>5. ASSUME NEW c \in Calls, PutReturn(c) PROVE OrderInv'
  BY <1>5, PutReturnOrders
<1>6. CASE TakeExpiredBegin
  BY <1>6, TakeExpiredBeginOrders
<1>7. CASE TakeBegin
  BY <1>7, TakeBeginOrders
<1>8. CASE ScanRead
  BY <1>8, ScanReadOrders
<1>9. CASE ScanUnlink
  BY <1>9, ScanUnlinkOrders
<1>10. CASE TakeRename
  BY <1>10, TakeRenameOrders
<1>11. CASE ScanEnd
  BY <1>11, ScanEndOrders
<1>12. ASSUME NEW c \in Calls, RecordDiscard(c) PROVE OrderInv'
  BY <1>12, RecordDiscardOrders
<1>13. CASE Done
  BY <1>13, DoneOrders
<1>14. CASE Recover
  BY <1>14, RecoverOrders
<1>15. CASE Recovered
  BY <1>15, RecoveredOrders
<1>16. CASE Crash
  BY <1>16, CrashOrders
<1>17. CASE Tick
  BY <1>17, TickOrders
<1>18. CASE UNCHANGED vars
  BY <1>18, StutterOrders
<1> QED
  BY <1>1, <1>2, <1>3, <1>4, <1>5, <1>6, <1>7, <1>8, <1>9, <1>10,
     <1>11, <1>12, <1>13, <1>14, <1>15, <1>16, <1>17, <1>18
     DEF Next, Put, Serve

(* The inductive invariant that needs no promise of the callers. *)
THEOREM OrderAlways == Spec => []OrderInv
<1>1. OrderInv /\ [Next]_vars => OrderInv'
  BY StepOrders
<1> QED BY OrderInit, <1>1, PTL DEF Spec

(* FR-4.3 and FR-7.2: submissions are taken in the order in which their    *)
(* callers were answered, also where two calls of one name got one path.   *)
THEOREM TakenInOrder == Spec => []InOrder
<1>1. OrderInv => InOrder
  BY DEF OrderInv
<1> QED BY OrderAlways, <1>1, PTL

-----------------------------------------------------------------------------
\* Where no two calls of one name overlap

LEMMA InitHolds == Init => IInv
  BY OrderInit, SpoolAssumption
     DEF Init, IInv, OneCallPerName, InProgress, NumberIsFree, OneFilePerPath,
         WrittenIsKept, TakenByMode, ScanIsOfFiles

(* No call of the name is in progress, and the new one has no file. *)
LEMMA PutCallKeeps ==
  ASSUME IInv, Overlap = FALSE, NEW c \in Calls, PutCall(c)
  PROVE  IInv'
<1> USE SpoolAssumption DEF IInv
<1>1. OrderInv'
  BY PutCallOrders
<1> USE DEF OrderInv, TypeOK, PutCall, putVars, diskVars, scanVars,
           InProgress, Path, Paths, At, Expired
<1>2. OneCallPerName'
  BY DEF OneCallPerName
<1>3. NumberIsFree'
  BY DEF NumberIsFree
<1>4. WrittenIsKept'
  BY DEF WrittenIsKept
<1>5. OneFilePerPath' /\ TakenByMode' /\ ScanIsOfFiles'
  BY DEF OneFilePerPath, TakenByMode, ScanIsOfFiles
<1> QED BY <1>1, <1>2, <1>3, <1>4, <1>5

(* The number is above every waiting file, so its path is free. *)
LEMMA PutNumberKeeps ==
  ASSUME IInv, NEW c \in Calls, PutNumber(c)
  PROVE  IInv'
<1> USE SpoolAssumption DEF IInv
<1>1. OrderInv'
  BY PutNumberOrders
<1> USE DEF OrderInv, TypeOK, PutNumber, NextSequence, putVars, diskVars, scanVars,
           InProgress, Path, Paths, At, Expired
<1>2. OneCallPerName'
  BY DEF OneCallPerName
<1>3. NumberIsFree'
  BY DEF NumberIsFree, WrittenFirst
<1>4. OneFilePerPath'
  BY DEF OneFilePerPath, WrittenFirst
<1>5. WrittenIsKept'
  BY DEF WrittenIsKept
<1>6. TakenByMode' /\ ScanIsOfFiles'
  BY DEF TakenByMode, ScanIsOfFiles
<1> QED BY <1>1, <1>2, <1>3, <1>4, <1>5, <1>6

(* The path is free, so nothing is replaced and no listed path comes       *)
(* to hold another file.                                                   *)
LEMMA PutWriteKeeps ==
  ASSUME IInv, NEW c \in Calls, PutWrite(c)
  PROVE  IInv'
<1> USE SpoolAssumption DEF IInv
<1>1. OrderInv'
  BY PutWriteOrders
<1> USE DEF OrderInv, TypeOK, PutWrite, putVars, diskVars, scanVars,
           InProgress, Path, Paths, At, Expired
<1>2. OneCallPerName'
  BY DEF OneCallPerName
<1>3. NumberIsFree'
  BY DEF NumberIsFree, OneCallPerName
<1>4. OneFilePerPath'
  BY DEF OneFilePerPath
<1>5. WrittenIsKept'
  BY DEF WrittenIsKept, NumberIsFree
<1>6. ScanIsOfFiles'
  BY DEF ScanIsOfFiles, NumberIsFree
<1>7. TakenByMode'
  BY DEF TakenByMode
<1> QED BY <1>1, <1>2, <1>3, <1>4, <1>5, <1>6, <1>7

(* Nothing was written. *)
LEMMA PutFailKeeps ==
  ASSUME IInv, NEW c \in Calls, PutFail(c)
  PROVE  IInv'
<1> USE SpoolAssumption DEF IInv
<1>1. OrderInv'
  BY PutFailOrders
<1> USE DEF OrderInv, TypeOK, PutFail, putVars, diskVars, scanVars,
           InProgress, Path, Paths, At, Expired
<1>2. OneCallPerName'
  BY DEF OneCallPerName
<1>3. NumberIsFree'
  BY DEF NumberIsFree
<1>4. WrittenIsKept'
  BY DEF WrittenIsKept
<1>5. OneFilePerPath' /\ TakenByMode' /\ ScanIsOfFiles'
  BY DEF OneFilePerPath, TakenByMode, ScanIsOfFiles
<1> QED BY <1>1, <1>2, <1>3, <1>4, <1>5

(* What is waiting is at its path, so only what was taken is refused. *)
LEMMA PutReturnKeeps ==
  ASSUME IInv, NEW c \in Calls, PutReturn(c)
  PROVE  IInv'
<1> USE SpoolAssumption DEF IInv
<1>1. OrderInv'
  BY PutReturnOrders
<1> USE DEF OrderInv, TypeOK, PutReturn, putVars, diskVars, scanVars,
           InProgress, Path, Paths, At, Expired
<1>2. OneCallPerName'
  BY DEF OneCallPerName
<1>3. NumberIsFree'
  BY DEF NumberIsFree
<1>4. WrittenIsKept'
  BY DEF WrittenIsKept
<1>5. OneFilePerPath' /\ TakenByMode' /\ ScanIsOfFiles'
  BY DEF OneFilePerPath, TakenByMode, ScanIsOfFiles
<1> QED BY <1>1, <1>2, <1>3, <1>4, <1>5

(* No file moves. *)
LEMMA TakeExpiredBeginKeeps ==
  ASSUME IInv, TakeExpiredBegin
  PROVE  IInv'
<1> USE SpoolAssumption DEF IInv
<1>1. OrderInv'
  BY TakeExpiredBeginOrders
<1> USE DEF OrderInv, TypeOK, TakeExpiredBegin, ScanBegin, putVars, diskVars, scanVars,
           InProgress, Path, Paths, At, Expired
<1>2. TakenByMode'
  BY DEF TakenByMode, ThreadByMode
<1>3. OneCallPerName' /\ NumberIsFree' /\ OneFilePerPath'
      /\ WrittenIsKept' /\ ScanIsOfFiles'
  BY DEF OneCallPerName, NumberIsFree, OneFilePerPath, WrittenIsKept,
         ScanIsOfFiles
<1> QED BY <1>1, <1>2, <1>3

(* No file moves. *)
LEMMA TakeBeginKeeps ==
  ASSUME IInv, TakeBegin
  PROVE  IInv'
<1> USE SpoolAssumption DEF IInv
<1>1. OrderInv'
  BY TakeBeginOrders
<1> USE DEF OrderInv, TypeOK, TakeBegin, ScanBegin, putVars, diskVars, scanVars,
           InProgress, Path, Paths, At, Expired
<1>2. TakenByMode'
  BY DEF TakenByMode, ThreadByMode
<1>3. OneCallPerName' /\ NumberIsFree' /\ OneFilePerPath'
      /\ WrittenIsKept' /\ ScanIsOfFiles'
  BY DEF OneCallPerName, NumberIsFree, OneFilePerPath, WrittenIsKept,
         ScanIsOfFiles
<1> QED BY <1>1, <1>2, <1>3

(* What is read is there. *)
LEMMA ScanReadKeeps ==
  ASSUME IInv, ScanRead
  PROVE  IInv'
<1> USE SpoolAssumption DEF IInv
<1>1. OrderInv'
  BY ScanReadOrders
<1> USE DEF OrderInv, TypeOK, ScanRead, putVars, diskVars, scanVars,
           InProgress, Path, Paths, At, Expired
<1>2. ScanIsOfFiles'
  BY DEF ScanIsOfFiles
<1>3. OneCallPerName' /\ NumberIsFree' /\ OneFilePerPath'
      /\ WrittenIsKept' /\ TakenByMode'
  BY DEF OneCallPerName, NumberIsFree, OneFilePerPath, WrittenIsKept,
         TakenByMode
<1> QED BY <1>1, <1>2, <1>3

(* The path that was read still holds what was read, so nothing else       *)
(* goes.                                                                   *)
LEMMA ScanUnlinkKeeps ==
  ASSUME IInv, ScanUnlink
  PROVE  IInv'
<1> USE SpoolAssumption DEF IInv
<1>1. OrderInv'
  BY ScanUnlinkOrders
<1> USE DEF OrderInv, TypeOK, ScanUnlink, putVars, diskVars, scanVars,
           InProgress, Path, Paths, At, Expired
<1>2. NumberIsFree'
  BY DEF NumberIsFree
<1>3. OneFilePerPath'
  BY DEF OneFilePerPath
<1>4. WrittenIsKept'
  BY DEF WrittenIsKept, OneFilePerPath, ScanIsOfFiles
<1>5. TakenByMode'
  <2>1. At(waiting, Path(held)) = {held}
    BY DEF ScanIsOfFiles, OneFilePerPath
  <2>2. fate[held] = "none"
    BY DEF ScanIsOfPaths
  <2>3. \A c \in Calls : (fate'[c] = "speaking") <=> (fate[c] = "speaking")
    BY <2>1, <2>2
  <2> QED BY <2>3 DEF TakenByMode
<1>6. OneCallPerName' /\ ScanIsOfFiles'
  BY DEF OneCallPerName, ScanIsOfFiles
<1> QED BY <1>1, <1>2, <1>3, <1>4, <1>5, <1>6

(* The path that was read still holds what was read, so that and           *)
(* nothing else lies under taken/.                                         *)
LEMMA TakeRenameKeeps ==
  ASSUME IInv, TakeRename
  PROVE  IInv'
<1> USE SpoolAssumption DEF IInv
<1>1. OrderInv'
  BY TakeRenameOrders
<1> USE DEF OrderInv, TypeOK, TakeRename, putVars, diskVars, scanVars,
           InProgress, Path, Paths, At, Expired
<1>2. NumberIsFree'
  BY DEF NumberIsFree
<1>3. OneFilePerPath'
  BY DEF OneFilePerPath
<1>4. WrittenIsKept'
  BY DEF WrittenIsKept, OneFilePerPath, ScanIsOfFiles
<1>5. TakenByMode'
  BY DEF TakenByMode, ThreadByMode, ScanIsOfFiles, OneFilePerPath
<1>6. OneCallPerName' /\ ScanIsOfFiles'
  BY DEF OneCallPerName, ScanIsOfFiles
<1> QED BY <1>1, <1>2, <1>3, <1>4, <1>5, <1>6

(* No file moves. *)
LEMMA ScanEndKeeps ==
  ASSUME IInv, ScanEnd
  PROVE  IInv'
<1> USE SpoolAssumption DEF IInv
<1>1. OrderInv'
  BY ScanEndOrders
<1> USE DEF OrderInv, TypeOK, ScanEnd, putVars, diskVars, scanVars,
           InProgress, Path, Paths, At, Expired
<1>2. OneCallPerName' /\ NumberIsFree' /\ OneFilePerPath'
      /\ WrittenIsKept' /\ TakenByMode' /\ ScanIsOfFiles'
  BY DEF OneCallPerName, NumberIsFree, OneFilePerPath, WrittenIsKept,
         TakenByMode, ScanIsOfFiles
<1> QED BY <1>1, <1>2

(* Only the log changes. *)
LEMMA RecordDiscardKeeps ==
  ASSUME IInv, NEW c \in Calls, RecordDiscard(c)
  PROVE  IInv'
<1> USE SpoolAssumption DEF IInv
<1>1. OrderInv'
  BY RecordDiscardOrders
<1> USE DEF OrderInv, TypeOK, RecordDiscard, putVars, diskVars, scanVars,
           InProgress, Path, Paths, At, Expired
<1>2. OneCallPerName' /\ NumberIsFree' /\ OneFilePerPath'
      /\ WrittenIsKept' /\ TakenByMode' /\ ScanIsOfFiles'
  BY DEF OneCallPerName, NumberIsFree, OneFilePerPath, WrittenIsKept,
         TakenByMode, ScanIsOfFiles
<1> QED BY <1>1, <1>2

(* What was speaking is spoken, and taken/ is empty again. *)
LEMMA DoneKeeps ==
  ASSUME IInv, Done
  PROVE  IInv'
<1> USE SpoolAssumption DEF IInv
<1>1. OrderInv'
  BY DoneOrders
<1> USE DEF OrderInv, TypeOK, Done, putVars, diskVars, scanVars,
           InProgress, Path, Paths, At, Expired
<1>2. WrittenIsKept'
  BY DEF WrittenIsKept
<1>3. TakenByMode'
  BY DEF TakenByMode, ThreadByMode
<1>4. OneCallPerName' /\ NumberIsFree' /\ OneFilePerPath' /\ ScanIsOfFiles'
  BY DEF OneCallPerName, NumberIsFree, OneFilePerPath, ScanIsOfFiles
<1> QED BY <1>1, <1>2, <1>3, <1>4

(* What was under taken/ was speaking, and is no longer anywhere. *)
LEMMA RecoverKeeps ==
  ASSUME IInv, Recover
  PROVE  IInv'
<1> USE SpoolAssumption DEF IInv
<1>1. OrderInv'
  BY RecoverOrders
<1> USE DEF OrderInv, TypeOK, Recover, putVars, diskVars, scanVars,
           InProgress, Path, Paths, At, Expired
<1>2. WrittenIsKept'
  BY DEF WrittenIsKept
<1>3. TakenByMode'
  BY DEF TakenByMode, ThreadByMode
<1>4. OneCallPerName' /\ NumberIsFree' /\ OneFilePerPath' /\ ScanIsOfFiles'
  BY DEF OneCallPerName, NumberIsFree, OneFilePerPath, ScanIsOfFiles
<1> QED BY <1>1, <1>2, <1>3, <1>4

(* Only the mode changes. *)
LEMMA RecoveredKeeps ==
  ASSUME IInv, Recovered
  PROVE  IInv'
<1> USE SpoolAssumption DEF IInv
<1>1. OrderInv'
  BY RecoveredOrders
<1> USE DEF OrderInv, TypeOK, Recovered, putVars, diskVars, scanVars,
           InProgress, Path, Paths, At, Expired
<1>2. TakenByMode'
  BY DEF TakenByMode, ThreadByMode
<1>3. OneCallPerName' /\ NumberIsFree' /\ OneFilePerPath'
      /\ WrittenIsKept' /\ ScanIsOfFiles'
  BY DEF OneCallPerName, NumberIsFree, OneFilePerPath, WrittenIsKept,
         ScanIsOfFiles
<1> QED BY <1>1, <1>2, <1>3

(* Files and their numbers stay; no call is in progress and no scan. *)
LEMMA CrashKeeps ==
  ASSUME IInv, Crash
  PROVE  IInv'
<1> USE SpoolAssumption DEF IInv
<1>1. OrderInv'
  BY CrashOrders
<1> USE DEF OrderInv, TypeOK, Crash, putVars, diskVars, scanVars,
           InProgress, Path, Paths, At, Expired
<1>2. OneCallPerName'
  BY DEF OneCallPerName
<1>3. NumberIsFree'
  BY DEF NumberIsFree
<1>4. WrittenIsKept'
  BY DEF WrittenIsKept
<1>5. TakenByMode'
  BY DEF TakenByMode
<1>6. OneFilePerPath' /\ ScanIsOfFiles'
  BY DEF OneFilePerPath, ScanIsOfFiles
<1> QED BY <1>1, <1>2, <1>3, <1>4, <1>5, <1>6

(* Time passes. *)
LEMMA TickKeeps ==
  ASSUME IInv, Tick
  PROVE  IInv'
<1> USE SpoolAssumption DEF IInv
<1>1. OrderInv'
  BY TickOrders
<1> USE DEF OrderInv, TypeOK, Tick, putVars, diskVars, scanVars,
           InProgress, Path, Paths, At, Expired
<1>2. OneCallPerName' /\ NumberIsFree' /\ OneFilePerPath'
      /\ WrittenIsKept' /\ TakenByMode' /\ ScanIsOfFiles'
  BY DEF OneCallPerName, NumberIsFree, OneFilePerPath, WrittenIsKept,
         TakenByMode, ScanIsOfFiles
<1> QED BY <1>1, <1>2

LEMMA StutterKeeps ==
  ASSUME IInv, UNCHANGED vars
  PROVE  IInv'
<1> USE DEF IInv
<1>1. OrderInv'
  BY StutterOrders
<1> USE DEF vars, putVars, diskVars, scanVars, InProgress, Path
<1>2. OneCallPerName' /\ NumberIsFree' /\ OneFilePerPath'
  BY DEF OneCallPerName, NumberIsFree, OneFilePerPath
<1>3. WrittenIsKept' /\ TakenByMode' /\ ScanIsOfFiles'
  BY DEF WrittenIsKept, TakenByMode, ScanIsOfFiles
<1> QED BY <1>1, <1>2, <1>3

(* IInv is inductive, for callers with one call per name at a time. *)
LEMMA StepKeeps ==
  ASSUME IInv, Overlap = FALSE, [Next]_vars
  PROVE  IInv'
<1>1. ASSUME NEW c \in Calls, PutCall(c) PROVE IInv'
  BY <1>1, PutCallKeeps
<1>2. ASSUME NEW c \in Calls, PutNumber(c) PROVE IInv'
  BY <1>2, PutNumberKeeps
<1>3. ASSUME NEW c \in Calls, PutWrite(c) PROVE IInv'
  BY <1>3, PutWriteKeeps
<1>4. ASSUME NEW c \in Calls, PutFail(c) PROVE IInv'
  BY <1>4, PutFailKeeps
<1>5. ASSUME NEW c \in Calls, PutReturn(c) PROVE IInv'
  BY <1>5, PutReturnKeeps
<1>6. CASE TakeExpiredBegin
  BY <1>6, TakeExpiredBeginKeeps
<1>7. CASE TakeBegin
  BY <1>7, TakeBeginKeeps
<1>8. CASE ScanRead
  BY <1>8, ScanReadKeeps
<1>9. CASE ScanUnlink
  BY <1>9, ScanUnlinkKeeps
<1>10. CASE TakeRename
  BY <1>10, TakeRenameKeeps
<1>11. CASE ScanEnd
  BY <1>11, ScanEndKeeps
<1>12. ASSUME NEW c \in Calls, RecordDiscard(c) PROVE IInv'
  BY <1>12, RecordDiscardKeeps
<1>13. CASE Done
  BY <1>13, DoneKeeps
<1>14. CASE Recover
  BY <1>14, RecoverKeeps
<1>15. CASE Recovered
  BY <1>15, RecoveredKeeps
<1>16. CASE Crash
  BY <1>16, CrashKeeps
<1>17. CASE Tick
  BY <1>17, TickKeeps
<1>18. CASE UNCHANGED vars
  BY <1>18, StutterKeeps
<1> QED
  BY <1>1, <1>2, <1>3, <1>4, <1>5, <1>6, <1>7, <1>8, <1>9, <1>10,
     <1>11, <1>12, <1>13, <1>14, <1>15, <1>16, <1>17, <1>18
     DEF Next, Put, Serve

(* The inductive invariant, for callers with one call per name at a time.  *)
THEOREM Invariance == Overlap = FALSE => (Spec => []IInv)
<1> SUFFICES ASSUME Overlap = FALSE PROVE Spec => []IInv
  OBVIOUS
<1>1. IInv /\ [Next]_vars => IInv'
  BY StepKeeps
<1> QED BY InitHolds, <1>1, PTL DEF Spec

(* spool.py:91, FR-7.2, FR-4.8: nothing accepted is replaced or lost by any*)
(* interleaving of puts with the serve loop and any number of crashes.     *)
THEOREM NothingAcceptedIsLost == Overlap = FALSE => (Spec => []Accounted)
<1> SUFFICES ASSUME Overlap = FALSE PROVE Spec => []Accounted
  OBVIOUS
<1>1. IInv => Accounted
  BY DEF IInv, WrittenIsKept, Accounted
<1> QED BY Invariance, <1>1, PTL

(* spool.py:16-19: while the service is up, taken/ holds what it is        *)
(* speaking and nothing else, so recovery drops the interrupted alone.     *)
THEOREM RecoveryDropsTheInterrupted ==
  Overlap = FALSE => (Spec => []TakenIsEntry)
<1> SUFFICES ASSUME Overlap = FALSE PROVE Spec => []TakenIsEntry
  OBVIOUS
<1>1. IInv => TakenIsEntry
  BY DEF IInv, TakenByMode, TakenIsEntry
<1> QED BY Invariance, <1>1, PTL

(* FR-4.8: a fate is met once, across crashes too: nothing is spoken twice *)
(* and nothing discarded is spoken.                                        *)
THEOREM FatesAreFinal == Overlap = FALSE => (Spec => FateIsFinal)
<1> SUFFICES ASSUME Overlap = FALSE PROVE Spec => FateIsFinal
  OBVIOUS
<1>1. IInv /\ [Next]_vars => [MeetsFateOnce]_vars
  <2> SUFFICES ASSUME IInv, Next PROVE MeetsFateOnce
    BY DEF vars
  <2> USE DEF IInv, OrderInv, TypeOK, MeetsFateOnce
  <2>1. CASE fate' = fate
    BY <2>1
  <2>2. CASE ScanUnlink
    <3>1. At(waiting, Path(held)) = {held}
      BY <2>2 DEF ScanUnlink, At, ScanIsOfFiles, OneFilePerPath
    <3> QED BY <2>2, <3>1 DEF ScanUnlink, ScanIsOfFiles, ScanIsOfPaths
  <2>3. CASE TakeRename
    BY <2>3 DEF TakeRename, ScanIsOfFiles, ScanIsOfPaths
  <2>4. CASE Done
    BY <2>4 DEF Done, ThreadByMode
  <2>5. CASE Recover
    BY <2>5 DEF Recover, TakenByMode
  <2> QED
    BY <2>1, <2>2, <2>3, <2>4, <2>5
       DEF Next, Put, Serve, PutCall, PutNumber, PutWrite, PutFail, PutReturn,
           TakeExpiredBegin, TakeBegin, ScanBegin, ScanRead, ScanEnd,
           RecordDiscard, Recovered, Crash, Tick
<1>2. QED BY Invariance, <1>1, PTL DEF FateIsFinal, Spec

(* FR-4.9: age alone decides between speaking and discarding.  What has     *)
(* been read is still at its path, so nothing else is unlinked with it.    *)
THEOREM DiscardsAreOld == Overlap = FALSE => (Spec => []AgeDecides)
<1> SUFFICES ASSUME Overlap = FALSE PROVE Spec => []AgeDecides
  OBVIOUS
<1>1. Init => AgeDecides
  BY DEF Init, AgeDecides
<1>2. IInv /\ AgeDecides /\ [Next]_vars => AgeDecides'
  <2> SUFFICES ASSUME IInv, AgeDecides, [Next]_vars PROVE AgeDecides'
    OBVIOUS
  <2> USE SpoolAssumption
          DEF IInv, OrderInv, TypeOK, AgeDecides, diskVars, putVars, scanVars
  <2>1. ASSUME NEW c \in Calls, PutCall(c) PROVE AgeDecides'
    BY <2>1 DEF PutCall, WrittenFirst, ThreadByMode
  <2>2. CASE ScanUnlink
    <3>1. At(waiting, Path(held)) = {held}
      BY <2>2 DEF ScanUnlink, At, ScanIsOfFiles, OneFilePerPath
    <3>2. now - stamp[held] > TTL
      BY <2>2 DEF ScanUnlink, Expired, ClockIsKept
    <3> QED BY <2>2, <3>1, <3>2 DEF ScanUnlink
  <2>3. CASE TakeRename
    BY <2>3 DEF TakeRename, Expired
  <2>4. CASE Done \/ Recover \/ Crash \/ Tick
    BY <2>4 DEF Done, Recover, Crash, Tick, ThreadByMode
  <2>5. CASE TakeExpiredBegin \/ TakeBegin
    BY <2>5 DEF TakeExpiredBegin, TakeBegin, ScanBegin
  <2>6. CASE UNCHANGED <<fate, stamp, now, entry, asOf>>
    BY <2>6
  <2> QED
    BY <2>1, <2>2, <2>3, <2>4, <2>5, <2>6
       DEF Next, Put, Serve, PutNumber, PutWrite, PutFail, PutReturn, ScanRead,
           ScanEnd, RecordDiscard, Recovered, vars
<1> QED BY <1>1, <1>2, Invariance, PTL DEF Spec

-----------------------------------------------------------------------------
\* Spool implements SpeechQueue

Promised == {c \in Calls : put[c] = "accepted"}

(* A step that changes where one call stands is a move of the queue. *)
LEMMA OneMoves ==
  ASSUME NEW c \in Calls, NEW from, NEW to,
         Standing(c) = from, Standing(c)' = to,
         \A d \in Calls \ {c} : Standing(d)' = Standing(d)
  PROVE  Queue!Move(c, from, to)
  BY DEF Queue!Move

(* A step that changes nothing a caller was promised is a stutter. *)
LEMMA NoneMoves ==
  ASSUME \A d \in Calls : Standing(d)' = Standing(d),
         UNCHANGED <<Promised, before>>
  PROVE  UNCHANGED Queue!vars
  BY DEF Queue!vars, Promised

LEMMA InitMaps == Init => Queue!Init
  BY DEF Init, Queue!Init, Standing

LEMMA PutCallMaps ==
  ASSUME IInv, NEW c \in Calls, PutCall(c)
  PROVE  Queue!Ask(c)
<1> USE DEF PutCall, IInv, OrderInv, TypeOK, diskVars, scanVars
<1>1. Standing(c) = "unasked" /\ Standing(c)' = "asked"
  BY DEF Standing, WrittenFirst
<1>2. \A d \in Calls \ {c} : Standing(d)' = Standing(d)
  BY DEF Standing
<1>3. before' = [before EXCEPT ![c] = Promised] /\ Promised' = Promised
  BY DEF Promised
<1> QED BY <1>1, <1>2, <1>3, OneMoves DEF Queue!Ask, Promised

LEMMA PutNumberMaps ==
  ASSUME IInv, NEW c \in Calls, PutNumber(c)
  PROVE  UNCHANGED Queue!vars
<1> USE DEF PutNumber, NextSequence, IInv, OrderInv, TypeOK, diskVars, scanVars
<1>1. \A d \in Calls : Standing(d)' = Standing(d)
  BY DEF Standing
<1>2. UNCHANGED <<Promised, before>>
  BY DEF Promised
<1> QED BY <1>1, <1>2, NoneMoves

(* The rename replaces nothing, so one submission joins the queue. *)
LEMMA PutWriteMaps ==
  ASSUME IInv, NEW c \in Calls, PutWrite(c)
  PROVE  Queue!Enqueue(c)
<1> USE DEF PutWrite, IInv, OrderInv, TypeOK, diskVars, scanVars
<1>1. At(waiting, Path(c)) = {}
  BY DEF At, Path, NumberIsFree, WrittenFirst
<1>2. Standing(c) = "asked" /\ Standing(c)' = "queued"
  BY DEF Standing, WrittenFirst
<1>3. \A d \in Calls \ {c} : Standing(d)' = Standing(d)
  BY <1>1 DEF Standing
<1>4. UNCHANGED <<Promised, before>>
  BY DEF Promised
<1> QED BY <1>2, <1>3, <1>4, OneMoves DEF Queue!Enqueue, Promised

LEMMA PutFailMaps ==
  ASSUME IInv, NEW c \in Calls, PutFail(c)
  PROVE  Queue!Refuse({c})
<1> USE DEF PutFail, IInv, OrderInv, TypeOK, diskVars, scanVars
<1>1. Standing(c) = "asked" /\ Standing(c)' = "refused"
  BY DEF Standing, WrittenFirst
<1>2. \A d \in Calls \ {c} : Standing(d)' = Standing(d)
  BY DEF Standing
<1>3. UNCHANGED <<Promised, before>>
  BY DEF Promised
<1> QED BY <1>1, <1>2, <1>3 DEF Queue!Refuse, Promised

(* A put returns to its caller while its file waits, which is the promise, *)
(* or raises once the file is gone, which promises nothing.                *)
LEMMA PutReturnMaps ==
  ASSUME IInv, NEW c \in Calls, PutReturn(c)
  PROVE  Queue!Promise(c) \/ UNCHANGED Queue!vars
<1> USE DEF PutReturn, IInv, OrderInv, TypeOK, diskVars, scanVars
<1>1. \A d \in Calls : Standing(d)' = Standing(d)
  BY DEF Standing, WrittenIsKept
<1>2. CASE c \in waiting
  <2>1. put' = [put EXCEPT ![c] = "accepted"]
    BY <1>2 DEF At
  <2>2. Promised' = Promised \cup {c} /\ Standing(c) = "queued"
    BY <1>2, <2>1 DEF Promised, Standing, WrittenFirst
  <2> QED BY <1>1, <2>2 DEF Queue!Promise, Promised
<1>3. CASE c \notin waiting
  <2>1. fate[c] # "none"
    BY <1>3 DEF WrittenIsKept
  <2>2. At(waiting, Path(c)) = {} => Promised' = Promised
    BY DEF Promised
  <2>3. At(waiting, Path(c)) = {}
    BY <1>3 DEF At, Path, NumberIsFree
  <2> QED BY <1>1, <2>2, <2>3, NoneMoves
<1> QED BY <1>2, <1>3

LEMMA ScanUnlinkMaps ==
  ASSUME IInv, ScanUnlink
  PROVE  held \in Calls /\ Queue!Discard(held)
<1> USE DEF ScanUnlink, IInv, OrderInv, TypeOK, putVars
<1>1. PICK c \in Calls : c = held
  OBVIOUS
<1>2. At(waiting, Path(c)) = {c}
  BY <1>1 DEF At, ScanIsOfFiles, OneFilePerPath
<1>3. Standing(c) = "queued" /\ Standing(c)' = "discarded"
  BY <1>1 DEF Standing, WrittenFirst, ScanIsOfFiles
<1>4. \A d \in Calls \ {c} : Standing(d)' = Standing(d)
  BY <1>1, <1>2 DEF Standing
<1>5. UNCHANGED <<Promised, before>>
  BY DEF Promised
<1>6. Queue!Move(c, "queued", "discarded")
  BY <1>1, <1>3, <1>4, OneMoves
<1> QED BY <1>1, <1>5, <1>6 DEF Queue!Discard, Promised

(* take() moves aside the one file it read; nothing is being spoken, and   *)
(* nothing promised before it waits.                                       *)
LEMMA TakeRenameMaps ==
  ASSUME IInv, TakeRename
  PROVE  held \in Calls /\ Queue!Speak(held)
<1> USE DEF TakeRename, IInv, OrderInv, TypeOK, putVars
<1>1. PICK c \in Calls : c = held
  OBVIOUS
<1>2. At(waiting, Path(c)) = {c}
  BY <1>1 DEF At, ScanIsOfFiles, OneFilePerPath
<1>3. Standing(c) = "queued" /\ Standing(c)' = "speaking"
  BY <1>1 DEF Standing, WrittenFirst, ScanIsOfFiles
<1>4. \A d \in Calls \ {c} : Standing(d)' = Standing(d)
  BY <1>1, <1>2 DEF Standing
<1>5. UNCHANGED <<Promised, before>>
  BY DEF Promised
<1>6. \A d \in Calls : Standing(d) # "speaking"
  BY DEF Standing, TakenByMode, ThreadByMode
<1>7. \A d \in before[c] : d \in Calls /\ Standing(d) # "queued"
  BY <1>1 DEF Standing, AheadIsFirst
<1>8. Queue!Move(c, "queued", "speaking")
  BY <1>1, <1>3, <1>4, OneMoves
<1> QED BY <1>1, <1>5, <1>6, <1>7, <1>8 DEF Queue!Speak, Promised

LEMMA DoneMaps ==
  ASSUME IInv, Done
  PROVE  entry \in Calls /\ Queue!Finish(entry)
<1> USE DEF Done, IInv, OrderInv, TypeOK, putVars, scanVars
<1>1. PICK c \in Calls : c = entry
  OBVIOUS
<1>2. Standing(c) = "speaking" /\ Standing(c)' = "spoken"
  BY <1>1 DEF Standing, ThreadByMode
<1>3. \A d \in Calls \ {c} : Standing(d)' = Standing(d)
  BY <1>1 DEF Standing
<1>4. UNCHANGED <<Promised, before>>
  BY DEF Promised
<1>5. Queue!Move(c, "speaking", "spoken")
  BY <1>1, <1>2, <1>3, OneMoves
<1> QED BY <1>1, <1>4, <1>5 DEF Queue!Finish, Promised

(* A recovery discards the one interrupted submission, if there is one. *)
LEMMA RecoverMaps ==
  ASSUME IInv, Recover
  PROVE  (\E c \in Calls : Queue!Discard(c)) \/ UNCHANGED Queue!vars
<1> USE DEF Recover, IInv, OrderInv, TypeOK, putVars
<1>1. UNCHANGED <<Promised, before>>
  BY DEF Promised
<1>2. CASE taken = {}
  <2>1. fate' = fate
    BY <1>2
  <2>2. \A d \in Calls : Standing(d)' = Standing(d)
    BY <2>1 DEF Standing
  <2> QED BY <1>1, <2>2, NoneMoves
<1>3. ASSUME NEW c \in taken
      PROVE  Queue!Discard(c)
  <2>1. c \in Calls /\ taken = {c}
    BY DEF TakenByMode
  <2>2. Standing(c) = "speaking" /\ Standing(c)' = "discarded"
    BY <2>1 DEF Standing, TakenByMode
  <2>3. \A d \in Calls \ {c} : Standing(d)' = Standing(d)
    BY <2>1 DEF Standing
  <2>4. Queue!Move(c, "speaking", "discarded")
    BY <2>1, <2>2, <2>3, OneMoves
  <2> QED BY <1>1, <2>4 DEF Queue!Discard, Promised
<1> QED BY <1>2, <1>3

(* The callers that had not yet written are refused; the rest stay. *)
LEMMA CrashMaps ==
  ASSUME IInv, Crash
  PROVE  (\E S \in SUBSET Calls : Queue!Refuse(S)) \/ UNCHANGED Queue!vars
<1> USE DEF Crash, IInv, OrderInv, TypeOK, diskVars
<1> DEFINE S == {c \in Calls : put[c] \in {"called", "numbered"}}
<1>1. UNCHANGED <<Promised, before>>
  BY DEF Promised, InProgress
<1>2. \A d \in Calls \ S : Standing(d)' = Standing(d)
  BY DEF Standing, WrittenIsKept, InProgress
<1>3. \A d \in S : Standing(d) = "asked" /\ Standing(d)' = "refused"
  BY DEF Standing, WrittenFirst, InProgress
<1>4. CASE S = {}
  BY <1>1, <1>2, <1>4, NoneMoves
<1>5. CASE S # {}
  <2>1. Queue!Refuse(S)
    BY <1>1, <1>2, <1>3, <1>5 DEF Queue!Refuse, Promised
  <2> QED BY <2>1
<1> QED BY <1>4, <1>5

(* The steps of which the queue knows nothing. *)
LEMMA OthersMap ==
  ASSUME \/ TakeExpiredBegin \/ TakeBegin \/ ScanRead \/ ScanEnd \/ Recovered
         \/ Tick \/ \E c \in Calls : RecordDiscard(c)
         \/ UNCHANGED vars
  PROVE  UNCHANGED Queue!vars
<1>1. UNCHANGED <<put, waiting, fate, before>>
  BY DEF TakeExpiredBegin, TakeBegin, ScanBegin, ScanRead, ScanEnd, Recovered,
         Tick, RecordDiscard, vars, putVars, diskVars
<1> QED BY <1>1, NoneMoves DEF Standing, Promised

(* Every step of the spool is a step of the queue, or none. *)
LEMMA StepMaps ==
  ASSUME IInv, [Next]_vars
  PROVE  [Queue!Next]_(Queue!vars)
<1> USE DEF Queue!Next
<1>1. ASSUME NEW c \in Calls, Put(c) PROVE [Queue!Next]_(Queue!vars)
  BY <1>1, PutCallMaps, PutNumberMaps, PutWriteMaps, PutFailMaps,
     PutReturnMaps DEF Put
<1>2. CASE ScanUnlink
  BY <1>2, ScanUnlinkMaps
<1>3. CASE TakeRename
  BY <1>3, TakeRenameMaps
<1>4. CASE Done
  BY <1>4, DoneMaps
<1>5. CASE Recover
  BY <1>5, RecoverMaps
<1>6. CASE Crash
  BY <1>6, CrashMaps
<1>7. CASE \/ TakeExpiredBegin \/ TakeBegin \/ ScanRead \/ ScanEnd \/ Recovered
           \/ Tick \/ \E c \in Calls : RecordDiscard(c)
           \/ UNCHANGED vars
  BY <1>7, OthersMap
<1> QED
  BY <1>1, <1>2, <1>3, <1>4, <1>5, <1>6, <1>7 DEF Next, Serve

(* FR-4.3, FR-4.4, FR-4.8, FR-7.2 together: the directory of files, read   *)
(* and written by several threads and left behind by crashes, is the queue *)
(* its callers were promised.                                              *)
THEOREM Implements == Overlap = FALSE => (Spec => QueueSpec)
<1> SUFFICES ASSUME Overlap = FALSE PROVE Spec => QueueSpec
  OBVIOUS
<1>1. IInv /\ [Next]_vars => [Queue!Next]_(Queue!vars)
  BY StepMaps
<1> QED BY InitMaps, <1>1, Invariance, PTL DEF Spec, QueueSpec, Queue!Spec
=============================================================================
