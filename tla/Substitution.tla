---------------------------- MODULE Substitution ----------------------------
(***************************************************************************)
(* apply_substitutions(): one left-to-right scan of a text, in which at    *)
(* each position the entries are tried in file order, the first that       *)
(* matches there is spoken instead, and the scan resumes after what it     *)
(* matched.                                                                *)
(*                                                                         *)
(* A pattern is a sequence of alternatives, tried in order.  A literal has *)
(* one; a regular expression may have several, an empty one among them,    *)
(* which is what the scan sees of a regular expression at a position.      *)
(***************************************************************************)
EXTENDS Integers, Sequences, FiniteSets

CONSTANTS
  Char,        \* the characters
  WordChar,    \* those that \w matches
  Fold,        \* Fold[c]: c without its case
  Texts,       \* the texts spoken
  EntryLists   \* the substitution sets, in file order

Entry == [kind : {"literal", "regex"},
          pattern : Seq(Seq(Char)), replacement : Seq(Char)]

ASSUME SubstitutionAssumption ==
  /\ WordChar \subseteq Char
  /\ Fold \in [Char -> Char]
  /\ Texts \subseteq Seq(Char)
  /\ EntryLists \subseteq Seq(Entry)

VARIABLES
  text,      \* what is to be spoken
  entries,   \* the set in force
  position,  \* the position the scan is at
  out,       \* what it has emitted
  replaced   \* the entry and the span of every replacement (history)

vars == <<text, entries, position, out, replaced>>

First(S) == CHOOSE i \in S : \A j \in S : i <= j

-----------------------------------------------------------------------------
\* _anchored() and match_at()

(* word stands at position i, whatever its case. *)
Reads(word, i) ==
  /\ i + Len(word) - 1 <= Len(text)
  /\ \A k \in DOMAIN word : Fold[word[k]] = Fold[text[i + k - 1]]

IsWord(i) == i \in DOMAIN text /\ text[i] \in WordChar

(* \b between position i - 1 and position i of the text as submitted. *)
Boundary(i) == IsWord(i - 1) # IsWord(i)

(* Mutant of Fenced: the end of a literal is not fenced. *)
FencedBefore(word, i) ==
  word # <<>> /\ Head(word) \in WordChar => Boundary(i)

(* The fence of a literal, where its own edge is a word character. *)
Fenced(word, i) ==
  word # <<>> =>
    /\ Head(word) \in WordChar => Boundary(i)
    /\ word[Len(word)] \in WordChar => Boundary(i + Len(word))

Found(e, i) ==
  {k \in DOMAIN e.pattern :
     Reads(e.pattern[k], i) /\ (e.kind = "literal" => Fenced(e.pattern[k], i))}

(* Mutant of MatchesAt: a match of no character counts. *)
MatchesAtAll(e, i) == Found(e, i) # {}

Length(e, i) == Len(e.pattern[First(Found(e, i))])

(* e matches at i, and at least one character. *)
MatchesAt(e, i) == Found(e, i) # {} /\ Length(e, i) > 0

-----------------------------------------------------------------------------
\* apply_substitutions()

Init ==
  /\ text \in Texts
  /\ entries \in EntryLists
  /\ position = 1
  /\ out = <<>>
  /\ replaced = {}

(* Mutant of Replace: of the entries that match here the last one wins. *)
ReplaceByLast ==
  /\ position <= Len(text)
  /\ \E e \in DOMAIN entries :
       /\ MatchesAt(entries[e], position)
       /\ \A d \in DOMAIN entries : d > e => ~MatchesAt(entries[d], position)
       /\ LET end == position + Length(entries[e], position)
          IN /\ out' = out \o entries[e].replacement
             /\ replaced' = replaced \cup {<<e, position, end>>}
             /\ position' = end
  /\ UNCHANGED <<text, entries>>

(* Mutant of Replace: the scan resumes one character too far. *)
ReplaceAndSkip ==
  /\ position <= Len(text)
  /\ \E e \in DOMAIN entries :
       /\ MatchesAt(entries[e], position)
       /\ \A d \in 1..(e - 1) : ~MatchesAt(entries[d], position)
       /\ LET end == position + Length(entries[e], position)
          IN /\ out' = out \o entries[e].replacement
             /\ replaced' = replaced \cup {<<e, position, end>>}
             /\ position' = end + 1
  /\ UNCHANGED <<text, entries>>

(* The first entry in file order that matches here is spoken instead. *)
Replace ==
  /\ position <= Len(text)
  /\ \E e \in DOMAIN entries :
       /\ MatchesAt(entries[e], position)
       /\ \A d \in 1..(e - 1) : ~MatchesAt(entries[d], position)
       /\ LET end == position + Length(entries[e], position)
          IN /\ out' = out \o entries[e].replacement
             /\ replaced' = replaced \cup {<<e, position, end>>}
             /\ position' = end
  /\ UNCHANGED <<text, entries>>

(* None does: the character is spoken as it stands. *)
Keep ==
  /\ position <= Len(text)
  /\ \A e \in DOMAIN entries : ~MatchesAt(entries[e], position)
  /\ out' = Append(out, text[position])
  /\ position' = position + 1
  /\ UNCHANGED <<text, entries, replaced>>

Next == Replace \/ Keep

Spec == Init /\ [][Next]_vars

-----------------------------------------------------------------------------
\* What the scan comes to, without a scan.

(* The entries with a match at i, and the one that wins there. *)
Candidates(i) ==
  {e \in DOMAIN entries :
     \E k \in Found(entries[e], i) :
       /\ entries[e].pattern[k] # <<>>
       /\ \A j \in Found(entries[e], i) : k <= j}

Span(i) == i..(i + Length(entries[First(Candidates(i))], i) - 1)

(* The only set of starts such that a match is taken exactly if no match   *)
(* that begins earlier and is itself taken overlaps it.                    *)
Starts ==
  CHOOSE S \in SUBSET {i \in DOMAIN text : Candidates(i) # {}} :
    \A i \in {i \in DOMAIN text : Candidates(i) # {}} :
      i \in S <=> \A j \in S : j < i => i \notin Span(j)

Piece(i) ==
  IF i \in Starts THEN entries[First(Candidates(i))].replacement
  ELSE IF \E j \in Starts : i \in Span(j) THEN <<>>
  ELSE <<text[i]>>

(* What is spoken of the first i characters. *)
Rewritten[i \in 0..Len(text)] ==
  IF i = 0 THEN <<>> ELSE Rewritten[i - 1] \o Piece(i)

Reference == Rewritten[Len(text)]

-----------------------------------------------------------------------------
TypeOK ==
  /\ text \in Seq(Char)
  /\ entries \in Seq(Entry)
  /\ position \in 1..(Len(text) + 1)
  /\ out \in Seq(Char)
  /\ replaced \subseteq ((DOMAIN entries) \X Nat \X Nat)

(* FR-8.5: position first, file order second, and nothing that was         *)
(* produced is looked at: what is spoken is the submitted text with the    *)
(* leftmost matches replaced, each by its first entry.                     *)
SpokenAsReference == position > Len(text) => out = Reference

(* FR-8.2: a literal is not spoken for a part of a longer word.            *)
WholeWordsOnly ==
  \A r \in replaced :
    LET word == SubSeq(text, r[2], r[3] - 1)
    IN entries[r[1]].kind = "literal" =>
         /\ IsWord(r[2] - 1) => Head(word) \notin WordChar
         /\ IsWord(r[3]) => word[Len(word)] \notin WordChar

(* Every step reads a character, so the scan of any text ends: a pattern   *)
(* that matches nothing at all cannot hold it.                             *)
EveryStepReads == [][position' > position]_vars
=============================================================================
