------------------------ MODULE SubstitutionProofs ------------------------
(***************************************************************************)
(* What is proved of Substitution, for any text and any entries: the scan  *)
(* reads on, what it says is the declarative reference, and a literal is   *)
(* not said for a part of a longer word.                                   *)
(***************************************************************************)
EXTENDS Substitution, NaturalLemmas, SequenceTheorems, TLAPS

(* The entry that wins at i, and how much of the text it reads there. *)
Winner(i) == First(Candidates(i))

Reach(i) == Length(entries[Winner(i)], i)

(* The starts of the replacements made so far. *)
Taken == {r[2] : r \in replaced}

PieceBy(S, i) ==
  IF i \in S THEN entries[Winner(i)].replacement
  ELSE IF \E j \in S : i \in Span(j) THEN <<>>
  ELSE <<text[i]>>

(* f is the text up to n, piece by piece, with the matches of S replaced.  *)
Pieces(S, n, f) ==
  /\ f \in [0..n -> Seq(Char)]
  /\ f[0] = <<>>
  /\ \A i \in 1..n : f[i] = f[i - 1] \o PieceBy(S, i)

(* Up to n, S is the matches that no earlier one of S overlaps. *)
LeftmostIn(S, n) ==
  \A i \in 1..n : Candidates(i) # {} =>
    (i \in S <=> \A j \in S : j < i => i \notin Span(j))

(* What was replaced is behind the scan, by whom and as far as it should,  *)
(* it is leftmost there, and what was said is the pieces up to the scan.   *)
ScanInv ==
  /\ TypeOK
  /\ \A r \in replaced :
       /\ r[2] \in 1..(position - 1) /\ Candidates(r[2]) # {}
       /\ r[1] = Winner(r[2])
       /\ r[3] = r[2] + Reach(r[2]) /\ r[3] <= position
  /\ LeftmostIn(Taken, position - 1)
  /\ \E f : Pieces(Taken, position - 1, f) /\ out = f[position - 1]

-----------------------------------------------------------------------------
\* The match at one position

(* The first of some naturals is one of them, and above none of them. *)
LEMMA FirstOfNaturals ==
  ASSUME NEW I \in SUBSET Nat, I # {}
  PROVE  First(I) \in I /\ \A j \in I : First(I) <= j
  BY LeastOfNaturals DEF First

LEMMA EntryTypes ==
  ASSUME TypeOK, NEW e \in DOMAIN entries
  PROVE  /\ entries[e].kind \in {"literal", "regex"}
         /\ entries[e].pattern \in Seq(Seq(Char))
         /\ entries[e].replacement \in Seq(Char)
<1>1. entries[e] \in Entry
  BY ElementOfSeq, LenProperties DEF TypeOK
<1> QED BY <1>1 DEF Entry

(* The alternative that reads here is the first that can. *)
LEMMA FoundFirst ==
  ASSUME TypeOK, NEW e \in DOMAIN entries, NEW i, Found(entries[e], i) # {}
  PROVE  LET k == First(Found(entries[e], i))
         IN  /\ k \in Found(entries[e], i)
             /\ k \in DOMAIN entries[e].pattern
             /\ entries[e].pattern[k] \in Seq(Char)
             /\ Length(entries[e], i) = Len(entries[e].pattern[k])
             /\ \A j \in Found(entries[e], i) : k \in Nat /\ j \in Nat /\ k <= j
<1>1. entries[e].pattern \in Seq(Seq(Char))
  BY EntryTypes
<1>2. Found(entries[e], i) \in SUBSET Nat
  BY <1>1 DEF Found
<1>3. First(Found(entries[e], i)) \in Found(entries[e], i)
      /\ \A j \in Found(entries[e], i) : First(Found(entries[e], i)) <= j
  BY <1>2, FirstOfNaturals
<1> DEFINE k == First(Found(entries[e], i))
<1>4. k \in DOMAIN entries[e].pattern
  BY <1>3 DEF Found
<1>5. entries[e].pattern[k] \in Seq(Char)
  BY <1>1, <1>4, ElementOfSeq, LenProperties
<1>6. Length(entries[e], i) = Len(entries[e].pattern[k])
  BY DEF Length
<1>7. \A j \in Found(entries[e], i) : k \in Nat /\ j \in Nat /\ k <= j
  BY <1>2, <1>3
<1> HIDE DEF k
<1> QED BY <1>3, <1>4, <1>5, <1>6, <1>7 DEF k

LEMMA MatchIsCandidate ==
  ASSUME TypeOK, NEW e \in DOMAIN entries, NEW i
  PROVE  MatchesAt(entries[e], i) <=> e \in Candidates(i)
<1>1. CASE Found(entries[e], i) = {}
  BY <1>1 DEF MatchesAt, Candidates
<1>2. CASE Found(entries[e], i) # {}
  <2> DEFINE k == First(Found(entries[e], i))
             w == entries[e].pattern[k]
  <2>1. /\ k \in Found(entries[e], i) /\ w \in Seq(Char)
        /\ Length(entries[e], i) = Len(w)
        /\ \A j \in Found(entries[e], i) : k \in Nat /\ j \in Nat /\ k <= j
    BY <1>2, FoundFirst
  <2>2. Len(w) > 0 <=> w # <<>>
    BY <2>1, EmptySeq
  <2>3. MatchesAt(entries[e], i) <=> w # <<>>
    BY <1>2, <2>1, <2>2 DEF MatchesAt
  <2>4. \A j \in Found(entries[e], i) :
          (\A h \in Found(entries[e], i) : j <= h) <=> j = k
    BY <2>1
  <2>5. e \in Candidates(i) <=> w # <<>>
    BY <2>1, <2>4 DEF Candidates
  <2> QED BY <2>3, <2>5
<1> QED BY <1>1, <1>2

(* Who wins reads at least one character, and within the text. *)
LEMMA WinnerReads ==
  ASSUME TypeOK, NEW i \in Nat, Candidates(i) # {}
  PROVE  /\ Winner(i) \in DOMAIN entries /\ MatchesAt(entries[Winner(i)], i)
         /\ \A d \in Candidates(i) : d \in Nat /\ Winner(i) \in Nat /\ Winner(i) <= d
         /\ Reach(i) \in Nat /\ Reach(i) > 0
         /\ i + Reach(i) - 1 <= Len(text)
         /\ Span(i) = i..(i + Reach(i) - 1)
         /\ entries[Winner(i)].replacement \in Seq(Char)
<1>1. Candidates(i) \in SUBSET Nat /\ Candidates(i) \subseteq DOMAIN entries
  BY DEF Candidates, TypeOK
<1>2. Winner(i) \in Candidates(i) /\ \A d \in Candidates(i) : Winner(i) <= d
  BY <1>1, FirstOfNaturals DEF Winner
<1>3. Winner(i) \in DOMAIN entries /\ MatchesAt(entries[Winner(i)], i)
  BY <1>1, <1>2, MatchIsCandidate
<1>4. Reach(i) \in Nat /\ Reach(i) > 0 /\ i + Reach(i) - 1 <= Len(text)
  <2> DEFINE e == Winner(i)
             k == First(Found(entries[e], i))
  <2>1. k \in Found(entries[e], i) /\ entries[e].pattern[k] \in Seq(Char)
        /\ Reach(i) = Len(entries[e].pattern[k])
    BY <1>3, FoundFirst DEF MatchesAt, Reach
  <2>2. i + Len(entries[e].pattern[k]) - 1 <= Len(text)
    BY <2>1 DEF Found, Reads
  <2> QED BY <1>3, <2>1, <2>2 DEF MatchesAt, Reach
<1>5. Span(i) = i..(i + Reach(i) - 1)
  BY DEF Span, Reach, Winner
<1>6. entries[Winner(i)].replacement \in Seq(Char)
  BY <1>3, EntryTypes
<1> QED BY <1>1, <1>2, <1>3, <1>4, <1>5, <1>6

-----------------------------------------------------------------------------
\* The steps of the scan

LEMMA ReplaceIs ==
  ASSUME TypeOK, Replace
  PROVE  /\ Candidates(position) # {} /\ position \in 1..Len(text)
         /\ out' = out \o entries[Winner(position)].replacement
         /\ replaced' = replaced \cup
              {<<Winner(position), position, position + Reach(position)>>}
         /\ position' = position + Reach(position)
         /\ UNCHANGED <<text, entries>>
<1>1. PICK e \in DOMAIN entries :
        /\ MatchesAt(entries[e], position)
        /\ \A d \in 1..(e - 1) : ~MatchesAt(entries[d], position)
        /\ out' = out \o entries[e].replacement
        /\ replaced' = replaced \cup {<<e, position, position + Length(entries[e], position)>>}
        /\ position' = position + Length(entries[e], position)
  BY DEF Replace
<1>2. position \in Nat /\ DOMAIN entries = 1..Len(entries) /\ Len(entries) \in Nat
  BY DEF TypeOK
<1>3. e \in Candidates(position)
  BY <1>1, MatchIsCandidate
<1>4. /\ Winner(position) \in 1..Len(entries)
      /\ MatchesAt(entries[Winner(position)], position) /\ Winner(position) <= e
  BY <1>2, <1>3, WinnerReads
<1>5. Winner(position) = e
  <2>1. Winner(position) \notin 1..(e - 1)
    BY <1>1, <1>4
  <2> QED BY <1>2, <1>4, <2>1
<1> QED BY <1>1, <1>3, <1>5 DEF Reach, Replace, TypeOK

LEMMA KeepIs ==
  ASSUME TypeOK, Keep
  PROVE  /\ Candidates(position) = {} /\ position \in 1..Len(text)
         /\ out' = out \o <<text[position]>> /\ text[position] \in Char
         /\ position' = position + 1
         /\ UNCHANGED <<text, entries, replaced>>
<1>1. Candidates(position) = {}
  BY MatchIsCandidate DEF Keep, Candidates
<1>2. position \in 1..Len(text) /\ text[position] \in Char
  BY DEF Keep, TypeOK
<1>3. out' = out \o <<text[position]>>
  BY <1>2, AppendIsConcat DEF Keep, TypeOK
<1> QED BY <1>1, <1>2, <1>3 DEF Keep

(* The text and the entries stay, and so does all that is said of them. *)
LEMMA SameText ==
  ASSUME UNCHANGED <<text, entries>>, NEW i
  PROVE  /\ Candidates(i)' = Candidates(i) /\ Winner(i)' = Winner(i)
         /\ Reach(i)' = Reach(i) /\ Span(i)' = Span(i)
<1>1. \A w : Reads(w, i)' = Reads(w, i) /\ Fenced(w, i)' = Fenced(w, i)
  BY DEF Reads, Fenced, Boundary, IsWord
<1>2. \A e : Found(e, i)' = Found(e, i) /\ Length(e, i)' = Length(e, i)
  BY <1>1 DEF Found, Length, First
<1>3. Candidates(i)' = Candidates(i)
  <2>1. \A d : Found(entries[d], i)' = Found(entries[d], i) /\ entries'[d] = entries[d]
    BY <1>2
  <2> QED BY <2>1 DEF Candidates
<1>4. Winner(i)' = Winner(i)
  BY <1>3 DEF Winner, First
<1>5. Reach(i)' = Reach(i)
  BY <1>2, <1>4 DEF Reach
<1> QED BY <1>3, <1>4, <1>5 DEF Reach, Span, Winner

LEMMA TypeInit == Init => TypeOK
  BY SubstitutionAssumption DEF Init, TypeOK

LEMMA TypeStep == TypeOK /\ [Next]_vars => TypeOK'
<1> SUFFICES ASSUME TypeOK, [Next]_vars PROVE TypeOK'
  OBVIOUS
<1>1. CASE Replace
  <2> DEFINE e == Winner(position)
             to == position + Reach(position)
  <2>1. /\ e \in DOMAIN entries /\ position \in Nat /\ to \in 1..(Len(text) + 1)
        /\ entries[e].replacement \in Seq(Char)
    BY <1>1, ReplaceIs, WinnerReads DEF TypeOK
  <2>2. <<e, position, to>> \in (DOMAIN entries) \X Nat \X Nat
    BY <2>1
  <2>3. out' \in Seq(Char)
    <3>1. out \in Seq(Char) /\ out' = out \o entries[e].replacement
      BY <1>1, ReplaceIs DEF TypeOK
    <3> QED BY ONLY <2>1, <3>1, ConcatProperties
  <2> HIDE DEF e
  <2>4. position' = to /\ replaced' = replaced \cup {<<e, position, to>>}
        /\ UNCHANGED <<text, entries>>
    BY <1>1, ReplaceIs DEF e
  <2> QED BY <2>1, <2>2, <2>3, <2>4 DEF TypeOK
<1>2. CASE Keep
  <2>1. out' \in Seq(Char)
    <3>1. out \in Seq(Char) /\ out' = out \o <<text[position]>> /\ text[position] \in Char
      BY <1>2, KeepIs DEF TypeOK
    <3>2. <<text[position]>> \in Seq(Char)
      BY <3>1
    <3> QED BY ONLY <3>1, <3>2, ConcatProperties
  <2> QED BY <1>2, <2>1, KeepIs DEF TypeOK
<1>3. CASE UNCHANGED vars
  BY <1>3 DEF vars, TypeOK
<1> QED BY <1>1, <1>2, <1>3 DEF Next

(* The values of the scan have their types. *)
THEOREM SubstitutionTypes == Spec => []TypeOK
  BY TypeInit, TypeStep, PTL DEF Spec

(* substitution.py:87-94: no step leaves the scan where it is, whatever    *)
(* the entries match.                                                      *)
THEOREM ScanReadsOn == Spec => EveryStepReads
<1>1. TypeOK /\ [Next]_vars => [position' > position]_vars
  <2> SUFFICES ASSUME TypeOK, Next PROVE position' > position
    OBVIOUS
  <2>1. position \in Nat
    BY DEF TypeOK
  <2>2. CASE Replace
    BY <2>1, <2>2, ReplaceIs, WinnerReads
  <2>3. CASE Keep
    BY <2>1, <2>3, KeepIs
  <2> QED BY <2>2, <2>3 DEF Next
<1> QED BY <1>1, SubstitutionTypes, PTL DEF Spec, EveryStepReads

-----------------------------------------------------------------------------
\* What was said so far

LEMMA TakenIsBehind ==
  ASSUME ScanInv, NEW j \in Taken
  PROVE  /\ j \in 1..(position - 1) /\ Candidates(j) # {}
         /\ \A i \in Span(j) : j <= i /\ i \in 1..(position - 1)
<1>1. PICK r \in replaced : j = r[2]
  BY DEF Taken
<1>2. TypeOK /\ j \in 1..(position - 1) /\ Candidates(j) # {} /\ j + Reach(j) <= position
  BY <1>1 DEF ScanInv
<1>3. j \in Nat /\ position \in Nat
  BY <1>2 DEF TypeOK
<1>4. Span(j) = j..(j + Reach(j) - 1) /\ Reach(j) \in Nat
  BY <1>2, <1>3, WinnerReads
<1> QED BY <1>2, <1>3, <1>4

(* The pieces of T up to m are those of S up to n, p, and nothing more. *)
SaysMore(S, n, T, m, p) ==
  /\ n \in Nat /\ m \in Nat /\ n < m /\ p \in Seq(Char)
  /\ \A i \in 1..n : PieceBy(T, i) = PieceBy(S, i)
  /\ PieceBy(T, n + 1) = p
  /\ \A i \in (n + 2)..m : PieceBy(T, i) = <<>>

Longer(f, n, T, m, p) == \E g : Pieces(T, m, g) /\ g[m] = f[n] \o p

LEMMA PiecesGrow ==
  ASSUME NEW S, NEW n, NEW T, NEW m, NEW p, NEW f,
         Pieces(S, n, f), SaysMore(S, n, T, m, p)
  PROVE  Longer(f, n, T, m, p)
<1> USE DEF SaysMore
<1>0. f \in [0..n -> Seq(Char)]
  BY DEF Pieces
<1> DEFINE q == f[n] \o p
           g == [i \in 0..m |-> IF i <= n THEN f[i] ELSE q]
<1>1. q \in Seq(Char)
  <2>1. f[n] \in Seq(Char)
    BY <1>0
  <2> QED BY ONLY <2>1, p \in Seq(Char), ConcatProperties
<1>2. q = f[n] \o p /\ q \o <<>> = q
  BY <1>1, ConcatEmptySeq
<1> HIDE DEF q
<1>3. /\ g \in [0..m -> Seq(Char)]
      /\ \A i \in 0..n : g[i] = f[i]
      /\ \A i \in (n + 1)..m : g[i] = q
  BY <1>0, <1>1
<1> HIDE DEF g
<1>4. g[0] = <<>>
  BY <1>3 DEF Pieces
<1>5. ASSUME NEW i \in 1..m PROVE g[i] = g[i - 1] \o PieceBy(T, i)
  <2>1. CASE i <= n
    <3>1. i \in 1..n /\ i \in 0..n /\ i - 1 \in 0..n
      BY <2>1
    <3>2. g[i] = f[i] /\ g[i - 1] = f[i - 1]
      BY <1>3, <3>1
    <3>3. f[i] = f[i - 1] \o PieceBy(S, i)
      BY <3>1 DEF Pieces
    <3>4. PieceBy(T, i) = PieceBy(S, i)
      BY <3>1
    <3> QED BY ONLY <3>2, <3>3, <3>4
  <2>2. CASE i = n + 1
    <3>1. n \in 0..n /\ n + 1 \in (n + 1)..m /\ i - 1 = n
      BY <2>2
    <3>2. g[i] = q /\ g[i - 1] = f[n] /\ PieceBy(T, i) = p
      BY <1>3, <2>2, <3>1
    <3> QED BY ONLY <1>2, <3>2
  <2>3. CASE i > n + 1
    <3>1. i \in (n + 1)..m /\ i - 1 \in (n + 1)..m /\ i \in (n + 2)..m
      BY <2>3
    <3>2. g[i] = q /\ g[i - 1] = q /\ PieceBy(T, i) = <<>>
      BY <1>3, <3>1
    <3> QED BY ONLY <1>2, <3>2
  <2> QED BY <2>1, <2>2, <2>3
<1>6. g[m] = f[n] \o p
  BY <1>2, <1>3
<1> QED BY <1>3, <1>4, <1>5, <1>6 DEF Pieces, Longer

LEMMA ScanInit == Init => ScanInv
<1> SUFFICES ASSUME Init PROVE ScanInv
  OBVIOUS
<1>1. TypeOK
  BY TypeInit
<1>2. LeftmostIn(Taken, position - 1)
  BY DEF Init, LeftmostIn
<1>3. \E f : Pieces(Taken, position - 1, f) /\ out = f[position - 1]
  <2> DEFINE f == [i \in 0..0 |-> <<>>]
  <2>1. f \in [0..0 -> Seq(Char)] /\ f[0] = <<>>
    OBVIOUS
  <2> HIDE DEF f
  <2> QED BY <2>1 DEF Init, Pieces
<1> QED BY <1>1, <1>2, <1>3 DEF Init, ScanInv

LEMMA ScanReplace ==
  ASSUME ScanInv, TypeOK', Replace
  PROVE  ScanInv'
<1> DEFINE p == position
           w == Winner(p)
           T == Taken \cup {p}
           m == p + Reach(p) - 1
<1>1. TypeOK /\ p \in Nat /\ p >= 1 /\ p - 1 \in Nat
  BY DEF ScanInv, TypeOK
<1>2. /\ Candidates(p) # {} /\ p \in 1..Len(text)
      /\ out' = out \o entries[w].replacement
      /\ replaced' = replaced \cup {<<w, p, p + Reach(p)>>}
      /\ position' = p + Reach(p)
      /\ UNCHANGED <<text, entries>>
  BY <1>1, ReplaceIs
<1>3. /\ Reach(p) \in Nat /\ Reach(p) > 0 /\ m \in Nat /\ p <= m /\ position' - 1 = m
      /\ Span(p) = p..m /\ entries[w].replacement \in Seq(Char)
  BY <1>1, <1>2, WinnerReads
<1>4. Taken' = T
  <2> DEFINE t == <<w, p, p + Reach(p)>>
  <2>1. t[2] = p /\ replaced' = replaced \cup {t}
    BY <1>2
  <2> HIDE DEF t, p
  <2> QED BY ONLY <2>1 DEF Taken, T
<1>5. \A j \in Taken : /\ j \in 1..(p - 1) /\ Candidates(j) # {}
                       /\ \A i \in Span(j) : i \in 1..(p - 1)
  BY TakenIsBehind
<1> HIDE DEF w
<1>6. ASSUME NEW r \in replaced'
      PROVE  /\ r[2] \in 1..(position' - 1) /\ Candidates(r[2]) # {}
             /\ r[1] = Winner(r[2])
             /\ r[3] = r[2] + Reach(r[2]) /\ r[3] <= position'
  <2>1. CASE r \in replaced
    <3>1. /\ r[2] \in 1..(p - 1) /\ Candidates(r[2]) # {}
          /\ r[1] = Winner(r[2])
          /\ r[3] = r[2] + Reach(r[2]) /\ r[3] <= p
      BY <2>1 DEF ScanInv
    <3>2. r[2] \in Nat /\ r[3] \in Nat
      BY <1>1, <2>1 DEF TypeOK
    <3>3. position' \in Nat /\ p <= position'
      BY <1>1, <1>2, <1>3
    <3> HIDE DEF p
    <3>4. r[2] \in 1..(position' - 1) /\ r[3] <= position'
      BY ONLY <1>1, <3>1, <3>2, <3>3
    <3> QED BY <3>1, <3>4
  <2>2. CASE r = <<w, p, p + Reach(p)>>
    <3>1. r[1] = w /\ r[2] = p /\ r[3] = p + Reach(p)
      BY <2>2
    <3> QED BY <1>1, <1>2, <1>3, <3>1 DEF w
  <2> QED BY <1>2, <2>1, <2>2
<1>7. LeftmostIn(T, m)
  <2> SUFFICES ASSUME NEW i \in 1..m, Candidates(i) # {}
               PROVE  i \in T <=> \A j \in T : j < i => i \notin Span(j)
    BY DEF LeftmostIn
  <2>1. CASE i < p
    <3>1. i \in 1..(p - 1)
      BY <1>1, <2>1
    <3>2. i \in Taken <=> \A j \in Taken : j < i => i \notin Span(j)
      BY <3>1 DEF ScanInv, LeftmostIn
    <3>3. i # p /\ ~(p < i)
      BY <1>1, <2>1
    <3> QED BY <3>2, <3>3
  <2>2. CASE i = p
    <3>1. i \in T
      BY <2>2
    <3>2. \A j \in Taken : i \notin Span(j)
      BY <1>1, <1>5, <2>2
    <3>3. ~(p < i)
      BY <1>1, <2>2
    <3> QED BY <3>1, <3>2, <3>3
  <2>3. CASE i > p
    <3>1. i \notin T
      BY <1>1, <1>5, <2>3
    <3>2. p < i /\ i \in Span(p)
      BY <1>1, <1>3, <2>3
    <3> QED BY <3>1, <3>2
  <2> QED BY <1>1, <1>3, <2>1, <2>2, <2>3
<1>8. \E g : Pieces(T, m, g) /\ g[m] = out'
  <2>1. PICK f : Pieces(Taken, p - 1, f) /\ out = f[p - 1]
    BY DEF ScanInv
  <2>2. ASSUME NEW i \in 1..(p - 1) PROVE PieceBy(T, i) = PieceBy(Taken, i)
    <3>1. i # p /\ i \notin Span(p)
      BY <1>1, <1>3
    <3> QED BY <3>1 DEF PieceBy
  <2>3. PieceBy(T, p) = entries[w].replacement
    BY DEF PieceBy, w
  <2>4. ASSUME NEW i \in (p + 1)..m PROVE PieceBy(T, i) = <<>>
    <3>1. i \notin T /\ i \in Span(p)
      BY <1>1, <1>3, <1>5
    <3> QED BY <3>1 DEF PieceBy
  <2>5. p - 1 < m /\ (p - 1) + 1 = p /\ (p - 1) + 2 = p + 1
    BY <1>1, <1>3
  <2> HIDE DEF p, m, T
  <2>6. SaysMore(Taken, p - 1, T, m, entries[w].replacement)
    BY <1>1, <1>3, <2>2, <2>3, <2>4, <2>5 DEF SaysMore
  <2>7. Longer(f, p - 1, T, m, entries[w].replacement)
    BY ONLY <2>1, <2>6, PiecesGrow
  <2> QED BY <1>2, <2>1, <2>7 DEF Longer
<1> HIDE DEF p, m, T
<1>9. LeftmostIn(Taken, position - 1)'
  BY <1>2, <1>3, <1>4, <1>7, SameText DEF LeftmostIn
<1>10. (\E g : Pieces(Taken, position - 1, g) /\ out = g[position - 1])'
  <2>1. \A i : PieceBy(Taken, i)' = PieceBy(T, i)
    BY <1>2, <1>4, SameText DEF PieceBy
  <2>2. PICK g : Pieces(T, m, g) /\ g[m] = out'
    BY <1>8
  <2>3. Pieces(Taken, position - 1, g)'
    BY <1>3, <2>1, <2>2 DEF Pieces
  <2> QED BY <1>3, <2>2, <2>3
<1>11. (\A r \in replaced :
          /\ r[2] \in 1..(position - 1) /\ Candidates(r[2]) # {}
          /\ r[1] = Winner(r[2])
          /\ r[3] = r[2] + Reach(r[2]) /\ r[3] <= position)'
  BY <1>2, <1>6, SameText
<1> QED BY <1>9, <1>10, <1>11 DEF ScanInv

LEMMA ScanKeep ==
  ASSUME ScanInv, TypeOK', Keep
  PROVE  ScanInv'
<1> DEFINE p == position
<1>1. TypeOK /\ p \in Nat /\ p >= 1 /\ p - 1 \in Nat
  BY DEF ScanInv, TypeOK
<1>2. /\ Candidates(p) = {}
      /\ out' = out \o <<text[p]>> /\ text[p] \in Char
      /\ position' = p + 1 /\ position' - 1 = p
      /\ UNCHANGED <<text, entries, replaced>>
  BY <1>1, KeepIs
<1>3. Taken' = Taken
  BY <1>2 DEF Taken
<1>4. \A j \in Taken : /\ j \in 1..(p - 1)
                       /\ \A i \in Span(j) : i \in 1..(p - 1)
  BY TakenIsBehind
<1>5. LeftmostIn(Taken, p)
  <2>1. \A i \in 1..p : Candidates(i) # {} => i \in 1..(p - 1)
    BY <1>1, <1>2
  <2> QED BY <2>1 DEF ScanInv, LeftmostIn
<1>6. \E g : Pieces(Taken, p, g) /\ g[p] = out'
  <2>1. PICK f : Pieces(Taken, p - 1, f) /\ out = f[p - 1]
    BY DEF ScanInv
  <2>2. PieceBy(Taken, p) = <<text[p]>>
    <3>1. p \notin Taken /\ \A j \in Taken : p \notin Span(j)
      BY <1>1, <1>4
    <3> QED BY <3>1 DEF PieceBy
  <2>3. p - 1 < p /\ (p - 1) + 1 = p /\ ((p - 1) + 2)..p = {}
    BY <1>1
  <2>4. <<text[p]>> \in Seq(Char)
    BY <1>2
  <2> HIDE DEF p
  <2>5. SaysMore(Taken, p - 1, Taken, p, <<text[p]>>)
    BY <1>1, <2>2, <2>3, <2>4 DEF SaysMore
  <2>6. Longer(f, p - 1, Taken, p, <<text[p]>>)
    BY ONLY <2>1, <2>5, PiecesGrow
  <2> QED BY <1>2, <2>1, <2>6 DEF Longer
<1> HIDE DEF p
<1>7. LeftmostIn(Taken, position - 1)'
  BY <1>2, <1>3, <1>5, SameText DEF LeftmostIn
<1>8. (\E g : Pieces(Taken, position - 1, g) /\ out = g[position - 1])'
  <2>1. \A i : PieceBy(Taken, i)' = PieceBy(Taken, i)
    BY <1>2, <1>3, SameText DEF PieceBy
  <2>2. PICK g : Pieces(Taken, p, g) /\ g[p] = out'
    BY <1>6
  <2>3. Pieces(Taken, position - 1, g)'
    BY <1>2, <2>1, <2>2 DEF Pieces
  <2> QED BY <1>2, <2>2, <2>3
<1>9. (\A r \in replaced :
          /\ r[2] \in 1..(position - 1) /\ Candidates(r[2]) # {}
          /\ r[1] = Winner(r[2])
          /\ r[3] = r[2] + Reach(r[2]) /\ r[3] <= position)'
  <2> SUFFICES ASSUME NEW r \in replaced
               PROVE  /\ r[2] \in 1..(position' - 1) /\ Candidates(r[2]) # {}
                      /\ r[1] = Winner(r[2])
                      /\ r[3] = r[2] + Reach(r[2]) /\ r[3] <= position'
    BY <1>2, SameText
  <2>1. r[2] \in Nat /\ r[3] \in Nat
    BY <1>1 DEF TypeOK
  <2> QED BY <1>1, <1>2, <2>1 DEF ScanInv, p
<1> QED BY <1>7, <1>8, <1>9 DEF ScanInv

LEMMA ScanStutter == ScanInv /\ UNCHANGED vars => ScanInv'
<1> SUFFICES ASSUME ScanInv, UNCHANGED vars PROVE ScanInv'
  OBVIOUS
<1>1. TypeOK'
  BY TypeStep DEF ScanInv
<1>2. Taken' = Taken /\ UNCHANGED <<text, entries, position, out, replaced>>
  BY DEF Taken, vars
<1>3. \A i : PieceBy(Taken, i)' = PieceBy(Taken, i)
  BY <1>2, SameText DEF PieceBy
<1>4. \A f : Pieces(Taken, position - 1, f)' <=> Pieces(Taken, position - 1, f)
  BY <1>2, <1>3 DEF Pieces
<1>5. LeftmostIn(Taken, position - 1)'
  BY <1>2, SameText DEF ScanInv, LeftmostIn
<1>6. (\E f : Pieces(Taken, position - 1, f) /\ out = f[position - 1])'
  BY <1>2, <1>4 DEF ScanInv
<1> QED BY <1>1, <1>2, <1>5, <1>6, SameText DEF ScanInv

LEMMA ScanAlways == Spec => []ScanInv
<1>1. ScanInv /\ [Next]_vars => ScanInv'
  BY TypeStep, ScanReplace, ScanKeep, ScanStutter DEF Next, ScanInv
<1> QED BY ScanInit, <1>1, PTL DEF Spec

-----------------------------------------------------------------------------
\* The reference

(* Two sets of starts that are both leftmost up to n are one: at the least *)
(* place where they differ they would agree on what comes before.          *)
LEMMA LeftmostIsOne ==
  ASSUME NEW n \in Nat, NEW S, NEW T,
         S \subseteq {i \in 1..n : Candidates(i) # {}},
         T \subseteq {i \in 1..n : Candidates(i) # {}},
         LeftmostIn(S, n), LeftmostIn(T, n)
  PROVE  S = T
<1> DEFINE U == {i \in 1..n : ~(i \in S <=> i \in T)}
<1>1. U = {} => S = T
  OBVIOUS
<1> SUFFICES ASSUME U # {} PROVE FALSE
  BY <1>1
<1>2. U \in SUBSET Nat
  OBVIOUS
<1>3. PICK u \in U : \A i \in U : u <= i
  <2> HIDE DEF U
  <2> QED BY ONLY <1>2, U # {}, LeastOfNaturals
<1>4. u \in 1..n /\ ~(u \in S <=> u \in T) /\ Candidates(u) # {}
  OBVIOUS
<1>5. ASSUME NEW j \in S \cup T, j < u PROVE j \in S /\ j \in T
  <2>1. j \in 1..n /\ ~(u <= j)
    BY <1>4, <1>5
  <2>2. j \notin U
    BY <1>3, <2>1
  <2> QED BY <2>1, <2>2
<1>6. u \in S <=> \A j \in S : j < u => u \notin Span(j)
  BY <1>4 DEF LeftmostIn
<1>7. u \in T <=> \A j \in T : j < u => u \notin Span(j)
  BY <1>4 DEF LeftmostIn
<1> HIDE DEF U
<1> QED BY <1>4, <1>5, <1>6, <1>7

(* What the finished scan has replaced is what the reference replaces. *)
LEMMA StartsAreTaken ==
  ASSUME ScanInv, position - 1 = Len(text)
  PROVE  Starts = Taken
<1> DEFINE D == {i \in DOMAIN text : Candidates(i) # {}}
           Right(S) == \A i \in D : i \in S <=> \A j \in S : j < i => i \notin Span(j)
<1>1. DOMAIN text = 1..Len(text) /\ Len(text) \in Nat
  BY DEF ScanInv, TypeOK
<1>2. ASSUME NEW S PROVE Right(S) <=> LeftmostIn(S, Len(text))
  BY <1>1 DEF LeftmostIn
<1>3. Taken \in SUBSET D
  BY <1>1, TakenIsBehind
<1>4. Right(Taken)
  BY <1>2 DEF ScanInv
<1>5. Starts = CHOOSE S \in SUBSET D : Right(S)
  BY DEF Starts
<1> HIDE DEF Right
<1>6. Starts \in SUBSET D /\ Right(Starts)
  <2> HIDE DEF D
  <2> QED BY ONLY <1>3, <1>4, <1>5
<1>7. LeftmostIn(Starts, Len(text)) /\ LeftmostIn(Taken, Len(text))
  BY <1>2, <1>4, <1>6
<1> QED BY <1>1, <1>3, <1>6, <1>7, LeftmostIsOne

(* A text's pieces are what the recursion of the reference comes to. *)
LEMMA PiecesAreReference ==
  ASSUME TypeOK, NEW f, Pieces(Starts, Len(text), f)
  PROVE  Reference = f[Len(text)]
<1> DEFINE n == Len(text)
           Solves(h) == h = [i \in 0..n |-> IF i = 0 THEN <<>> ELSE h[i - 1] \o Piece(i)]
           h == CHOOSE k : Solves(k)
<1>1. n \in Nat
  BY DEF TypeOK
<1>2. \A i : PieceBy(Starts, i) = Piece(i)
  BY DEF PieceBy, Piece, Winner
<1>3. /\ f \in [0..n -> Seq(Char)] /\ f[0] = <<>>
      /\ \A i \in 1..n : f[i] = f[i - 1] \o Piece(i)
  BY <1>2 DEF Pieces
<1>4. Rewritten = h
  BY DEF Rewritten
<1>5. Reference = Rewritten[n]
  BY DEF Reference
<1> HIDE DEF n
<1>6. Solves(f)
  <2>1. \A i \in 0..n : i = 0 \/ i \in 1..n
    BY <1>1
  <2>2. 0 \notin 1..n
    OBVIOUS
  <2>3. \A i \in 0..n : f[i] = IF i = 0 THEN <<>> ELSE f[i - 1] \o Piece(i)
    BY ONLY <1>3, <2>1, <2>2, Zenon
  <2> QED BY <1>3, <2>3, Zenon
<1>7. Solves(h)
  <2> HIDE DEF Solves
  <2> QED BY <1>6
<1> HIDE DEF h
<1>8. \A i \in 0..n : h[i] = IF i = 0 THEN <<>> ELSE h[i - 1] \o Piece(i)
  BY <1>7, Zenon
<1> HIDE DEF Solves
<1> DEFINE A == {i \in 0..n : h[i] = f[i]}
<1>9. 0 \in A
  BY <1>1, <1>3, <1>8
<1>10. ASSUME NEW i \in 0..(n - 1), i \in A PROVE i + 1 \in A
  <2>1. i + 1 \in 1..n /\ i + 1 \in 0..n /\ i + 1 # 0 /\ (i + 1) - 1 = i
    BY <1>1
  <2>2. h[i + 1] = h[i] \o Piece(i + 1)
    BY <1>8, <2>1
  <2>3. f[i + 1] = f[i] \o Piece(i + 1)
    BY <1>3, <2>1
  <2> QED BY <1>10, <2>1, <2>2, <2>3
<1>11. 0..n \subseteq A
  <2> HIDE DEF A
  <2> QED BY ONLY <1>1, <1>9, <1>10, UpTo
<1>12. n \in 0..n
  BY <1>1
<1> QED BY <1>4, <1>5, <1>11, <1>12 DEF n

(* FR-8.4, FR-8.5: position first, file order second, and nothing that was *)
(* produced is looked at: what apply_substitutions() says of a text is     *)
(* what the reference says of it, for every text and every list.           *)
THEOREM ScanIsTheReference == Spec => []SpokenAsReference
<1>1. ScanInv => SpokenAsReference
  <2> SUFFICES ASSUME ScanInv, position > Len(text) PROVE out = Reference
    BY DEF SpokenAsReference
  <2>1. TypeOK /\ position - 1 = Len(text)
    BY DEF ScanInv, TypeOK
  <2>2. PICK f : Pieces(Taken, position - 1, f) /\ out = f[position - 1]
    BY DEF ScanInv
  <2>3. Pieces(Starts, Len(text), f) /\ out = f[Len(text)]
    BY <2>1, <2>2, StartsAreTaken
  <2> QED BY <2>1, <2>3, PiecesAreReference
<1> QED BY ScanAlways, <1>1, PTL

-----------------------------------------------------------------------------
\* Whole words

(* A character and what reads as it are both of words, or neither is. *)
FoldsKeepWords ==
  \A c, d \in Char : Fold[c] = Fold[d] => (c \in WordChar <=> d \in WordChar)

(* FR-8.2, FR-7.7: the fence of a literal spares every longer word, also   *)
(* right after a replacement, where no case of a character of a word is    *)
(* not of a word.                                                          *)
THEOREM LiteralsAreWholeWords == FoldsKeepWords => (Spec => []WholeWordsOnly)
<1> SUFFICES ASSUME FoldsKeepWords PROVE Spec => []WholeWordsOnly
  OBVIOUS
<1>1. ASSUME ScanInv, NEW r \in replaced, entries[r[1]].kind = "literal"
      PROVE  LET word == SubSeq(text, r[2], r[3] - 1)
             IN  /\ IsWord(r[2] - 1) => Head(word) \notin WordChar
                 /\ IsWord(r[3]) => word[Len(word)] \notin WordChar
  <2> DEFINE i == r[2]
             e == r[1]
             k == First(Found(entries[e], i))
             w == entries[e].pattern[k]
             n == Len(w)
             word == SubSeq(text, r[2], r[3] - 1)
  <2>1. /\ TypeOK /\ i \in Nat /\ i >= 1 /\ Candidates(i) # {} /\ e = Winner(i)
        /\ r[3] = i + Reach(i)
    BY <1>1 DEF ScanInv, TypeOK
  <2>2. e \in DOMAIN entries /\ Found(entries[e], i) # {}
    BY <2>1, WinnerReads DEF MatchesAt
  <2>3. /\ k \in Found(entries[e], i) /\ w \in Seq(Char) /\ Reach(i) = n
    BY <2>1, <2>2, FoundFirst DEF Reach
  <2>4. n \in Nat /\ n > 0 /\ i + n - 1 <= Len(text) /\ DOMAIN w = 1..n /\ w # <<>>
    BY <2>1, <2>3, WinnerReads
  <2>5. /\ \A j \in 1..n : Fold[w[j]] = Fold[text[i + j - 1]]
        /\ Fenced(w, i)
    <3>1. Reads(w, i) /\ Fenced(w, i)
      <4> HIDE DEF i, n
      <4> QED BY <1>1, <2>3 DEF Found
    <3> HIDE DEF w, i
    <3> QED BY ONLY <3>1, <2>4 DEF Reads
  <2> HIDE DEF w, k
  <2>6. /\ w[1] \in WordChar <=> text[i] \in WordChar
        /\ w[n] \in WordChar <=> text[i + n - 1] \in WordChar
        /\ i \in DOMAIN text /\ i + n - 1 \in DOMAIN text
    <3>1. /\ DOMAIN text = 1..Len(text) /\ Len(text) \in Nat
          /\ \A j \in 1..Len(text) : text[j] \in Char
      BY <2>1 DEF TypeOK
    <3>2. i \in 1..Len(text) /\ i + n - 1 \in 1..Len(text) /\ i + 1 - 1 = i
      BY <2>1, <2>4, <3>1
    <3>3. w[1] \in Char /\ w[n] \in Char /\ 1 \in 1..n /\ n \in 1..n
      BY <2>3, <2>4
    <3>4. Fold[w[1]] = Fold[text[i]] /\ Fold[w[n]] = Fold[text[i + n - 1]]
      BY <2>5, <3>2, <3>3
    <3> QED BY <3>1, <3>2, <3>3, <3>4 DEF FoldsKeepWords
  <2>7. /\ w[1] \in WordChar => Boundary(i)
        /\ w[n] \in WordChar => Boundary(i + n)
    BY <2>4, <2>5 DEF Fenced, n
  <2>8. /\ text[i] \in WordChar => ~IsWord(i - 1)
        /\ text[i + n - 1] \in WordChar => ~IsWord(i + n)
    <3>1. (i + n) - 1 = i + n - 1
      BY <2>1, <2>4
    <3> QED BY <2>6, <2>7, <3>1 DEF Boundary, IsWord
  <2>9. /\ r[3] = i + n
        /\ word \in Seq(Char) /\ Len(word) = n
        /\ word[1] = text[i] /\ word[n] = text[i + n - 1]
    <3>1. r[3] = i + n /\ r[3] - 1 = i + n - 1
      BY <2>1, <2>3, <2>4
    <3>2. /\ i \in Int /\ i + n - 1 \in Int /\ i <= i + n - 1
          /\ (i + n - 1) - i + 1 = n /\ i + 1 - 1 = i
          /\ 1 \in 1..n /\ n \in 1..n
      BY <2>1, <2>4
    <3>3. \A j \in i..(i + n - 1) : text[j] \in Char
      BY <2>1, <2>4 DEF TypeOK
    <3> HIDE DEF n
    <3>4. /\ SubSeq(text, i, i + n - 1) \in Seq(Char)
          /\ Len(SubSeq(text, i, i + n - 1)) = n
          /\ \A j \in 1..n : SubSeq(text, i, i + n - 1)[j] = text[i + j - 1]
      BY ONLY <3>2, <3>3, SubSeqProperties
    <3> QED BY <3>1, <3>2, <3>4
  <2> HIDE DEF word, n
  <2>10. Head(word) = word[1]
    BY <2>9
  <2> QED BY <2>6, <2>8, <2>9, <2>10 DEF word
<1>2. ScanInv => WholeWordsOnly
  BY <1>1 DEF WholeWordsOnly
<1> QED BY ScanAlways, <1>2, PTL
=============================================================================
