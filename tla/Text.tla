-------------------------------- MODULE Text --------------------------------
(***************************************************************************)
(* Text as the search knows it: characters, upper and lower case, the      *)
(* bytes of UTF-8, and looking for one text in another.  Whole words that  *)
(* only the query language knows ("ext:", "today", "kb") are one character *)
(* of several bytes.                                                       *)
(***************************************************************************)
EXTENDS Integers, FiniteSets, Sequences, SequencesExt

CONSTANTS
  Letters,  \* the characters, in the order of their code points
  Lower,    \* the lower-case letter of every upper-case one
  Bytes     \* how many bytes a character takes, where it is more than one

ASSUME TextAssumption ==
  /\ Letters \in Seq(ToSet(Letters))
  /\ \A c \in DOMAIN Lower : c \in ToSet(Letters) /\ Lower[c] \in ToSet(Letters)
  /\ \A c \in DOMAIN Bytes : Bytes[c] \in Nat \ {0}

CodeOf == [c \in ToSet(Letters) |-> CHOOSE k \in DOMAIN Letters : Letters[k] = c]

Codes(text) == [k \in DOMAIN text |-> CodeOf[text[k]]]

\* to_lowercase, one character at a time; the few that become several, or another
\* one at the end of a word, are left out.
Folded(text) ==
  [k \in DOMAIN text |-> IF text[k] \in DOMAIN Lower THEN Lower[text[k]] ELSE text[k]]

Width(c) == IF c \in DOMAIN Bytes THEN Bytes[c] ELSE 1

\* The bytes of a text; a byte is a character and a place in it.
BytesOf(text) ==
  FlattenSeq([k \in DOMAIN text |-> [n \in 1..Width(text[k]) |-> <<text[k], n>>]])

\* All that is three bytes long in a text
Trigrams(text) ==
  LET bytes == BytesOf(text)
  IN  {SubSeq(bytes, k, k + 2) : k \in 1..(Len(bytes) - 2)}

\* Where one text is found in another, from a place on
Places(part, text, from) ==
  {k \in from..(Len(text) - Len(part) + 1) : SubSeq(text, k, k + Len(part) - 1) = part}

Occurs(part, text) == Places(part, text, 1) # {}

First(S) == CHOOSE k \in S : \A j \in S : k <= j
Final(S) == CHOOSE k \in S : \A j \in S : j <= k

\* The parts of a text between the separators
Parts(text, separator) ==
  FoldLeft(LAMBDA parts, c :
             IF c = separator THEN Append(parts, <<>>)
             ELSE [parts EXCEPT ![Len(parts)] = Append(@, c)],
           <<<<>>>>, text)

\* What is left of a text without the given characters at its ends
Trimmed(text, chars) ==
  LET kept == {k \in DOMAIN text : text[k] \notin chars}
  IN  IF kept = {} THEN <<>> ELSE SubSeq(text, First(kept), Final(kept))

TrimmedStart(text, chars) ==
  LET kept == {k \in DOMAIN text : text[k] \notin chars}
  IN  IF kept = {} THEN <<>> ELSE SubSeq(text, First(kept), Len(text))

TrimmedEnd(text, chars) ==
  LET kept == {k \in DOMAIN text : text[k] \notin chars}
  IN  IF kept = {} THEN <<>> ELSE SubSeq(text, 1, Final(kept))

\* Sequences of numbers in lexicographic order
LexLess(s, t) ==
  \E n \in 0..Len(s) :
    /\ n < Len(t)
    /\ SubSeq(s, 1, n) = SubSeq(t, 1, n)
    /\ n = Len(s) \/ s[n + 1] < t[n + 1]

=============================================================================
