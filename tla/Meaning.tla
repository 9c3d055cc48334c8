------------------------------- MODULE Meaning -------------------------------
(***************************************************************************)
(* What a query means (README.md, "Search Syntax", and the user guide),    *)
(* said of the text and the file names and without the steps of the        *)
(* program: no tokens, no candidates, no scores.                           *)
(***************************************************************************)
EXTENDS Search

\* How each character is read: outside or inside of quotation marks, or as one
\* that a backslash there protects
Reading(query) ==
  LET mode[k \in 0..Len(query)] ==
        IF k = 0 THEN "outside"
        ELSE LET before == mode[k - 1]
             IN  CASE before = "inside" /\ query[k] = Backslash -> "protected"
                   [] before = "inside" /\ query[k] = Quote     -> "outside"
                   [] before = "outside" /\ query[k] = Quote    -> "inside"
                   [] before = "protected"                      -> "inside"
                   [] OTHER                                     -> before
  IN  mode

Mark(query, k) ==
  \/ query[k] = Quote /\ Reading(query)[k - 1] # "protected"
  \/ Reading(query)[k] = "protected"

Gap(query, k) == query[k] = Space /\ Reading(query)[k - 1] = "outside"

\* The first and the last character of every word
Words(query) ==
  {w \in (DOMAIN query) \X (DOMAIN query) :
     /\ w[1] <= w[2] /\ \A k \in w[1]..w[2] : ~Gap(query, k)
     /\ w[1] = 1 \/ Gap(query, w[1] - 1)
     /\ w[2] = Len(query) \/ Gap(query, w[2] + 1)}

\* A word without its marks
Word(query, w) ==
  LET kept(k) == IF Mark(query, k) THEN <<>> ELSE <<query[k]>>
  IN  [text   |-> FlattenSeq([n \in 1..(w[2] - w[1] + 1) |-> kept(w[1] + n - 1)]),
       quoted |-> \E k \in w[1]..w[2] : query[k] = Quote /\ Mark(query, k)]

WordsOf(query) == {Word(query, w) : w \in Words(query)} \ {[text |-> <<>>, quoted |-> TRUE]}

\* A star stands for any text: how much of the text the first p characters of the
\* pattern may stand for.
Glob(pattern, text) ==
  LET ends[p \in 0..Len(pattern)] ==
        IF p = 0 THEN {0}
        ELSE IF pattern[p] = "*" THEN {u \in 0..Len(text) : \E t \in ends[p - 1] : t <= u}
        ELSE {u \in 1..Len(text) : u - 1 \in ends[p - 1] /\ text[u] = pattern[p]}
  IN  Len(text) \in ends[Len(pattern)]

Exclusion(word) == ~word.quoted /\ Len(word.text) > 1 /\ word.text[1] \in {"!", "-"}
Wanted(word)    == IF Exclusion(word) THEN Tail(word.text) ELSE word.text
IsFilter(word)  == ~word.quoted /\ Wanted(word)[1] \in Filters

\* "size:0", "size:>10mb", "size:<4kb", "size:1mb..100mb"
SizeIs(text, size) ==
  LET than == Sizes(Operand(text))
  IN  CASE Comparison(text) = ".." ->
             /\ \A n \in Sizes(LowerPart(text)) : n <= size
             /\ \A n \in Sizes(UpperPart(text)) : size <= n
        [] Comparison(text) = ">"  -> \A n \in than : size > n
        [] Comparison(text) = ">=" -> \A n \in than : size >= n
        [] Comparison(text) = "<"  -> \A n \in than : size < n
        [] Comparison(text) = "<=" -> \A n \in than : size <= n
        [] Comparison(text) = "="  -> \A n \in than : size = n

\* "mtime:today", "mtime:yesterday", "mtime:<7d", "mtime:2026-01-01..2026-06-01"
\* The day that a clock on the wall shows
DayOf(time) == (time + Offset) \div DayLength

TimeIs(text, mtime) ==
  CASE text = <<"today">>     -> DayOf(mtime) = DayOf(Now)
    [] text = <<"yesterday">> -> DayOf(mtime) + 1 = DayOf(Now)
    [] Comparison(text) = ".." ->
         /\ \A n \in DaysIn(LowerPart(text)) : n <= DayOf(mtime)
         /\ \A n \in DaysIn(UpperPart(text)) : DayOf(mtime) <= n
    [] Comparison(text) = "<" ->
         /\ mtime <= Now
         /\ \A n \in Numbers(Front(Tail(text))) : Now - mtime <= n * DayLength
    [] OTHER -> \A n \in DaysIn(text) : DayOf(mtime) = n

TimeForm(text) ==
  \/ text \in {<<"today">>, <<"yesterday">>}
  \/ Comparison(text) = ".." /\ DaysIn(LowerPart(text)) # {} /\ DaysIn(UpperPart(text)) # {}
  \/ /\ Comparison(text) \in {"<", "<=", ">", ">="}
     /\ DaysAgo(Operand(text)) \cup DaysIn(Operand(text)) # {}
  \/ Comparison(text) = "=" /\ DaysIn(text) # {}

SizeForm(text) ==
  IF Comparison(text) = ".." THEN Sizes(LowerPart(text)) # {} /\ Sizes(UpperPart(text)) # {}
  ELSE Sizes(Operand(text)) # {}

\* An extension without the blanks around it and the dots before it
Bare(part) == Trimmed(TrimmedStart(Trimmed(part, {Space}), {"."}), {Space})

\* What follows a filter makes sense.
FilterForm(filter, text) ==
  CASE filter = "ext:"   -> \E part \in ToSet(Parts(text, ",")) : Bare(part) # <<>>
    [] filter = "path:"  -> text # <<>>
    [] filter = "type:"  -> FileTypes(text) # {}
    [] filter = "size:"  -> SizeForm(text)
    [] filter = "mtime:" -> TimeForm(text)

\* The query can be understood.
WellFormed(query) ==
  /\ Reading(query)[Len(query)] = "outside"
  /\ \A word \in WordsOf(query) :
       IsFilter(word) => FilterForm(Wanted(word)[1], Tail(Wanted(word)))

\* What may be asked, and no documentation says what it means: times compared with a
\* date, or with an age other than "less than"; sizes below 0, for which the program
\* finds what is empty; and ages in days whose seconds no i64 can hold, for which it
\* computes with a wrong one.
Undocumented(filter, text) ==
  \/ /\ filter = "mtime:" /\ Comparison(text) \in {"<", "<=", ">", ">="}
     /\ ~(Comparison(text) = "<" /\ DaysAgo(Tail(text)) # {})
  \/ /\ filter = "mtime:" /\ Comparison(text) = "<"
     /\ \E n \in Numbers(Front(Tail(text))) : n * DayLength > MaxTime
  \/ filter = "size:" /\ Comparison(text) = "<" /\ 0 \in Sizes(Operand(text))

Documented(query) ==
  \A word \in WordsOf(query) :
    IsFilter(word) => ~Undocumented(Wanted(word)[1], Tail(Wanted(word)))

HasExtension(name, text) ==
  \E part \in ToSet(Parts(text, ",")) :
    /\ Bare(part) # <<>> /\ "." \notin ToSet(Bare(part))
    /\ IsSuffix(<<".">> \o Folded(Bare(part)), name)

\* One word, of one record
Fits(index, i, word) ==
  LET name == FoldedName(index, i)
      meta == index.records[i].meta
      text == Wanted(word)
      what == Tail(text)
  IN  IF IsFilter(word)
      THEN CASE text[1] = "ext:"   -> HasExtension(name, what)
             [] text[1] = "path:"  -> Occurs(Folded(what), Folded(PathText(index.paths[i])))
             [] text[1] = "type:"  -> meta.kind \in FileTypes(what)
             [] text[1] = "size:"  -> SizeIs(what, meta.size)
             [] text[1] = "mtime:" -> TimeIs(what, meta.mtime)
      ELSE IF "*" \in ToSet(text) THEN Glob(Folded(text), name)
      ELSE Occurs(Folded(text), name)

\* All words together; an exclusion must not fit.
Answers(index, i, query) ==
  \A word \in WordsOf(query) : Fits(index, i, word) # Exclusion(word)

\* Its name is one of the words, and no pattern.
IsExact(index, i, query) ==
  \E word \in WordsOf(query) :
    /\ ~IsFilter(word) /\ ~Exclusion(word) /\ "*" \notin ToSet(Wanted(word))
    /\ Folded(Wanted(word)) = FoldedName(index, i)

=============================================================================
