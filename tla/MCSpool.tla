------------------------------ MODULE MCSpool ------------------------------
(***************************************************************************)
(* Spool on three calls, two of which share a safe name, and on two calls  *)
(* of one name.                                                            *)
(***************************************************************************)
EXTENDS SpoolInvariant

ThreeCalls == 1..3

TwoCalls == 1..2

(* Calls 1 and 3 share a name, which sorts after the name of call 2. *)
TwoNames == [c \in ThreeCalls |-> IF c = 2 THEN 0 ELSE 1]

OneName == [c \in TwoCalls |-> 0]
=============================================================================
