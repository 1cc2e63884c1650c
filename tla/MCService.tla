----------------------------- MODULE MCService -----------------------------
(***************************************************************************)
(* Service on two calls of one safe name, one of them with two messages.   *)
(***************************************************************************)
EXTENDS Service

TwoCalls == 1..2

OneName == [c \in TwoCalls |-> 0]

OneAndTwo == [c \in TwoCalls |-> c]

OneEach == [c \in TwoCalls |-> 1]
=============================================================================
