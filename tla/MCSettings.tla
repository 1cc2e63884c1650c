---------------------------- MODULE MCSettings ----------------------------
(***************************************************************************)
(* Settings with a call of each tool, one of set_voice for a voice that    *)
(* kokoro does not know, and two voices that it knows.                     *)
(***************************************************************************)
EXTENDS Settings

CONSTANTS heart, bella, typo, say, spell

ThreeVoices == {heart, bella, typo}

Tools == 1..4

Asked ==
  [c \in Tools |-> CASE c = 1 -> [op |-> "voice", voice |-> bella]
                     [] c = 2 -> [op |-> "voice", voice |-> typo]
                     [] c = 3 -> [op |-> "add", entry |-> say]
                     [] c = 4 -> [op |-> "remove", entry |-> spell]]

Plain == [voice |-> heart, list |-> {}, subs |-> <<>>]

Listed == [voice |-> heart, list |-> {heart, bella}, subs |-> <<spell, spell>>]

Misspelt == [Plain EXCEPT !.voice = typo]

AtFirst == {Missing, Listed}

GoodEdits == {Listed, [Plain EXCEPT !.subs = <<say>>], Broken}

BadEdits == {Misspelt}
=============================================================================
