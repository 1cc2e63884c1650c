----------------------------- MODULE MCVoices -----------------------------
(***************************************************************************)
(* Voices with three names, two of which fold to one, and two voices under *)
(* three aliases; configs that share a list, that declare a name, and that *)
(* have no list.                                                           *)
(***************************************************************************)
EXTENDS Voices

CONSTANTS ada, Ada, bob, c1, c2, c3, v1, v2

ThreeNames == {ada, Ada, bob}

(* Only ada speaks on a work as well as on none. *)
OnTwoWorks == (ThreeNames \X {NoWork}) \cup {<<ada, w>> : w \in Works}

Folded == [n \in ThreeNames |-> IF n = Ada THEN ada ELSE n]

ThreeChoices == {c1, c2, c3}

TwoVoices == [c \in ThreeChoices |-> IF c = c2 THEN v2 ELSE v1]

Config(list, declared, single) ==
  [voices |-> list, declared |-> declared, voice |-> single]

NoneDeclared == [f \in {ada, bob} |-> NoChoice]

(* One list under two single voices, another that declares bob, and none. *)
SomeConfigs ==
  {Config(<<c1, c2>>, NoneDeclared, v1),
   Config(<<c1, c2>>, NoneDeclared, v2),
   Config(<<c2, c3>>, [NoneDeclared EXCEPT ![bob] = c2], v1),
   Config(<<>>, NoneDeclared, v1)}

=============================================================================
