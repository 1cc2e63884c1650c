------------------------------- MODULE MCParts -------------------------------
(***************************************************************************)
(* Five parts of skid that share no state with one another, checked in one *)
(* run: a behaviour is of one part, and the others stay as they are.       *)
(*                                                                         *)
(* Substitution: every text of up to four characters (a word character in  *)
(* both cases, another, and punctuation) and every set of up to two of     *)
(* seven entries that overlap, match one another's replacements, match     *)
(* nothing, or have punctuation at an edge.                                *)
(*                                                                         *)
(* Requests: one call of any shape beside a call to speak.                 *)
(***************************************************************************)
EXTENDS Substitution, Requests, Install, LogRotation, TwoProcesses

VARIABLE part   \* the part this behaviour is of

CharSet == {"a", "A", "b", "."}

WordChars == {"a", "A", "b"}

CaseFold == [c \in CharSet |-> IF c = "A" THEN "a" ELSE c]

ShortTexts == UNION {[1..n -> CharSet] : n \in 0..4}

Literal(word, r) == [kind |-> "literal", pattern |-> <<word>>, replacement |-> r]

Regex(alternatives, r) ==
  [kind |-> "regex", pattern |-> alternatives, replacement |-> r]

SomeEntries ==
  {Literal(<<"a">>, <<"b">>),
   Literal(<<"a", "b">>, <<"a", ".", "a">>),
   Literal(<<"a", ".">>, <<>>),
   Literal(<<".", "a">>, <<"a">>),
   Regex(<< <<"b">> >>, <<"a">>),
   Regex(<< <<>>, <<"a">> >>, <<"b">>),
   Regex(<< <<"b", "a">>, <<"b">> >>, <<"b", "b">>)}

ShortLists == UNION {[1..n -> SomeEntries] : n \in 0..2}

TwoCalls == 1..2

Request(client, tool, body) == [client |-> client, tool |-> tool, body |-> body]

Speak == [name |-> "text", messages |-> "texts"]

Spoken ==
  [name : {"empty", "blank", "text"}, messages : {"no items", "texts", "with a long one"}]
  \cup [name : {"number", "text"}, messages : {"texts"}, work : {"empty", "blank", "long"}]
  \cup [messages : {"texts"}]

Shapes ==
  {Request(c, "speak", b) : c \in {"skid-mcp", "skid-say", "curl"}, b \in Spoken}
  \cup {Request(c, "set_voice", b) :
          c \in {"skid-mcp", "skid-say"}, b \in [voice : {"empty", "blank", "text"}]}
  \cup {Request("curl", "add_substitution", b) :
          b \in [pattern : {"empty", "wrong regex"}, replacement : {"empty"},
                 kind : {"literal", "regex", "text"}]
                \cup [pattern : {"wrong regex"}, replacement : {"text"}]
                \cup [pattern : {"text"}]}
  \cup {Request("skid-mcp", "remove_substitution", b) :
          b \in [pattern : {"empty", "wrong regex"}]}
  \cup {Request("curl", t, Speak) : t \in {"list_substitutions", "status"}}

AnyBesideSpeak == {<<any, Request("skid-mcp", "speak", Speak)>> : any \in Shapes}

partsVars == <<part, vars, requestVars, installVars, logVars, processVars>>

PartsInit ==
  /\ part \in {"substitution", "requests", "install", "log", "processes"}
  /\ RequestsInit /\ (part # "requests" => asked[1] = asked[2])
  /\ InstallInit /\ (part # "install" => registration = "none")
  /\ LogInit /\ (part # "log" => \A w \in Writers : brings[w] = 1)
  /\ TwoInit /\ (part # "processes" => path = "unit")
  /\ Init /\ (part # "substitution" => text = <<>> /\ entries = <<>>)

PartsNext ==
  \/ /\ part = "substitution" /\ Next
     /\ UNCHANGED <<part, requestVars, installVars, logVars, processVars>>
  \/ /\ part = "requests" /\ RequestsNext
     /\ UNCHANGED <<part, vars, installVars, logVars, processVars>>
  \/ /\ part = "install" /\ InstallNext
     /\ UNCHANGED <<part, vars, requestVars, logVars, processVars>>
  \/ /\ part = "log" /\ LogNext
     /\ UNCHANGED <<part, vars, requestVars, installVars, processVars>>
  \/ /\ part = "processes" /\ TwoNext
     /\ UNCHANGED <<part, vars, requestVars, installVars, logVars>>

PartsSpec ==
  /\ PartsInit /\ [][PartsNext]_partsVars
  /\ RequestsFairness

PartsTypeOK ==
  TypeOK /\ RequestsTypeOK /\ InstallTypeOK /\ LogTypeOK /\ TwoTypeOK
=============================================================================
