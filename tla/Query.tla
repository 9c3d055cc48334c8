-------------------------------- MODULE Query --------------------------------
(***************************************************************************)
(* The query language (oxidex-core, index.rs): from the text in the search *)
(* field to a request, a set of clauses that a record must match and a set *)
(* that it must not.  What may be refused is the set of its values: empty, *)
(* if it is.                                                               *)
(***************************************************************************)
EXTENDS Text

CONSTANTS
  MaxSize,    \* u64::MAX (a bound)
  MaxTime,    \* i64::MAX (a bound)
  DayLength,  \* 86 400 seconds in the code
  Now,        \* the time of the search
  Offset,     \* the seconds that the local clock is ahead of UTC
  Dates       \* the words that are dates, and the day each stands for

\* What separates words, extensions and names is no letter that has another case.
ASSUME QueryAssumption ==
  /\ MaxSize \in Nat \ {0} /\ DayLength \in Nat \ {0}
  /\ MaxTime \in Nat /\ Now \in 0..MaxTime /\ Offset \in Int
  /\ \A day \in DOMAIN Dates : Dates[day] \in Nat
  /\ \A c \in DOMAIN Lower : {c, Lower[c]} \cap {" ", ".", ","} = {}

-----------------------------------------------------------------------------
(* Words *)

Quote     == "\""
Backslash == "\\"
Space     == " "

Tokenizing == [tokens |-> <<>>, text |-> <<>>, inside |-> FALSE, quoted |-> FALSE,
               escaped |-> FALSE]

\* The token that is being read is complete, if there is one.
EndToken(s) ==
  IF s.text = <<>> /\ ~s.quoted THEN s
  ELSE [s EXCEPT !.tokens = Append(@, [text |-> s.text, quoted |-> s.quoted]),
                 !.text = <<>>, !.quoted = FALSE]

\* One round of the loop in tokenize_query
ReadChar(s, c) ==
  CASE s.escaped                 -> [s EXCEPT !.text = Append(@, c), !.escaped = FALSE]
    [] ~s.escaped /\ c = Quote   -> [s EXCEPT !.inside = ~@, !.quoted = TRUE]
    [] ~s.escaped /\ c = Backslash /\ s.inside -> [s EXCEPT !.escaped = TRUE]
    [] ~s.escaped /\ c = Space /\ ~s.inside    -> EndToken(s)
    [] OTHER                     -> [s EXCEPT !.text = Append(@, c)]

\* tokenize_query; a quotation that does not end is refused.
Tokens(query) ==
  LET end == FoldLeft(ReadChar, Tokenizing, query)
  IN  IF end.inside THEN {} ELSE {ToSet(EndToken(end).tokens)}

\* split_negation
Negated(token) == ~token.quoted /\ Len(token.text) > 1 /\ token.text[1] \in {"!", "-"}
Positive(token) == IF Negated(token) THEN Tail(token.text) ELSE token.text

-----------------------------------------------------------------------------
(* Filters *)

\* normalize_extension
Extension(text) ==
  Trimmed(Folded(TrimmedStart(Trimmed(text, {Space}), {"."})), {Space})

\* SearchFilters::add_extensions
Extensions(text) == {Extension(part) : part \in ToSet(Parts(text, ","))} \ {<<>>}

ExtensionClause(exts)   == [kind |-> "extension", exts |-> exts]
TypeClause(type)        == [kind |-> "type", type |-> type]
PathClause(text)        == [kind |-> "path", text |-> text]
RangeClause(kind, a, b) == [kind |-> kind, min |-> a, max |-> b]
NameClause(kind, text)  == [kind |-> kind, text |-> text]

\* parse_file_type
FileTypes(text) ==
  CASE text \in {<<"file">>}            -> {"file"}
    [] text \in {<<"dir">>, <<"folder">>} -> {"dir"}
    [] text \in {<<"symlink">>, <<"link">>} -> {"symlink"}
    [] OTHER                            -> {}

Digits == [c \in {"0", "1", "2", "3", "7"} |->
             CASE c = "0" -> 0 [] c = "1" -> 1 [] c = "2" -> 2 [] c = "3" -> 3 [] c = "7" -> 7]

\* A number, if it is one and fits
Numbers(text) ==
  IF text = <<>> \/ ~(ToSet(text) \subseteq DOMAIN Digits) THEN {}
  ELSE {FoldLeft(LAMBDA n, c : 10 * n + Digits[c], 0, text)} \cap 0..MaxSize

Multipliers == [u \in {<<>>, <<"b">>, <<"kb">>, <<"kib">>} |->
                  CASE u = <<"kb">> -> 1000 [] u = <<"kib">> -> 1024 [] OTHER -> 1]

\* parse_size_value
Sizes(text) ==
  LET digits == {k \in DOMAIN text : ToSet(SubSeq(text, 1, k)) \subseteq DOMAIN Digits}
      unit   == SubSeq(text, Cardinality(digits) + 1, Len(text))
  IN  IF unit \notin DOMAIN Multipliers THEN {}
      ELSE {n * Multipliers[unit] : n \in Numbers(SubSeq(text, 1, Cardinality(digits)))}
             \cap 0..MaxSize

\* How a range is written, and what is compared with
Comparison(text) ==
  IF Occurs(<<".", ".">>, text) THEN ".."
  ELSE IF IsPrefix(<<">", "=">>, text) THEN ">="
  ELSE IF IsPrefix(<<">">>, text) THEN ">"
  ELSE IF IsPrefix(<<"<", "=">>, text) THEN "<="
  ELSE IF IsPrefix(<<"<">>, text) THEN "<" ELSE "="

Operand(text) ==
  CASE Comparison(text) \in {">=", "<="} -> SubSeq(text, 3, Len(text))
    [] Comparison(text) \in {">", "<"}   -> Tail(text)
    [] Comparison(text) \in {"..", "="}  -> text

\* The texts around the first ".."
LowerPart(text) == SubSeq(text, 1, First(Places(<<".", ".">>, text, 1)) - 1)
UpperPart(text) == SubSeq(text, First(Places(<<".", ".">>, text, 1)) + 2, Len(text))

Ranges(kind, mins, maxs) == {RangeClause(kind, a, b) : a \in mins, b \in maxs}

\* parse_size_filter; no bound is 0 or MaxSize, where the arithmetic saturates.
SizeClauses(text) ==
  LET given == Sizes(Operand(text))
  IN  CASE Comparison(text) = ".." -> Ranges("size", Sizes(LowerPart(text)), Sizes(UpperPart(text)))
        [] Comparison(text) = ">=" -> Ranges("size", given, {MaxSize})
        [] Comparison(text) = ">"  ->
             Ranges("size", {IF n = MaxSize THEN n ELSE n + 1 : n \in given}, {MaxSize})
        [] Comparison(text) = "<=" -> Ranges("size", {0}, given)
        [] Comparison(text) = "<"  -> Ranges("size", {0}, {IF n = 0 THEN n ELSE n - 1 : n \in given})
        [] Comparison(text) = "="  -> {RangeClause("size", n, n) : n \in given}

\* What the arithmetic of an i64 makes of a number in a release build
Wrapped(n) == ((n + MaxTime + 1) % (2 * MaxTime + 2)) - (MaxTime + 1)

\* parse_relative_days, and the time so long ago, which is not checked to fit.
DaysAgo(text) ==
  IF text # <<>> /\ Last(text) = "d"
  THEN {Wrapped(Now - n * DayLength) : n \in Numbers(Front(text)) \cap 0..MaxTime}
  ELSE {}

\* date_to_unix at the first and at the last second of a day of the local clock, with
\* the offset that it has now
DayStart(day) == day * DayLength - Offset
DayEnd(day)   == DayStart(day) + DayLength - 1

\* local_day_range: the local day of today
Today == (Now + Offset) \div DayLength
DaysIn(text) == IF Len(text) = 1 /\ text[1] \in DOMAIN Dates THEN {Dates[text[1]]} ELSE {}

\* parse_time_bound
TimesFrom(text) == IF DaysAgo(text) # {} THEN DaysAgo(text) ELSE {DayStart(n) : n \in DaysIn(text)}
TimesTo(text)   == IF DaysAgo(text) # {} THEN DaysAgo(text) ELSE {DayEnd(n) : n \in DaysIn(text)}

DayRange(days) == {RangeClause("mtime", DayStart(n), DayEnd(n)) : n \in days}
EndOfTime == MaxTime

\* parse_time_filter; no bound is 0 or the end of time.  "less than some days" is
\* meant as an age, every other comparison as a time.
TimeClauses(text) ==
  LET given == Operand(text)
  IN  IF text = <<"today">> THEN DayRange({Today})
      ELSE IF text = <<"yesterday">> THEN DayRange({Today - 1})
      ELSE CASE Comparison(text) = ".." ->
                  Ranges("mtime", {DayStart(n) : n \in DaysIn(LowerPart(text))},
                                  {DayEnd(n) : n \in DaysIn(UpperPart(text))})
             [] Comparison(text) \in {">", ">="} -> Ranges("mtime", TimesFrom(given), {EndOfTime})
             [] Comparison(text) = "<=" -> Ranges("mtime", {0}, TimesTo(given))
             [] Comparison(text) = "<" /\ DaysAgo(given) # {} -> Ranges("mtime", DaysAgo(given), {Now})
             [] Comparison(text) = "<" /\ DaysAgo(given) = {} -> Ranges("mtime", {0}, TimesFrom(given))
             [] Comparison(text) = "=" -> DayRange(DaysIn(text))

Filters == {"ext:", "path:", "type:", "size:", "mtime:"}

\* The clause of a filter, if what follows its name makes sense
FilterClauses(filter, text) ==
  CASE filter = "ext:"   -> IF Extensions(text) = {} THEN {} ELSE {ExtensionClause(Extensions(text))}
    [] filter = "path:"  -> IF text = <<>> THEN {} ELSE {PathClause(Folded(text))}
    [] filter = "type:"  -> {TypeClause(t) : t \in FileTypes(text)}
    [] filter = "size:"  -> SizeClauses(text)
    [] filter = "mtime:" -> TimeClauses(text)

-----------------------------------------------------------------------------
(* Requests *)

\* parse_clause
Clauses(text, quoted) ==
  IF ~quoted /\ text[1] \in Filters THEN FilterClauses(text[1], Tail(text))
  ELSE {NameClause(CASE "*" \in ToSet(text)  -> "wildcard"
                     [] "*" \notin ToSet(text) /\ quoted  -> "phrase"
                     [] "*" \notin ToSet(text) /\ ~quoted -> "contains", Folded(text))}

\* The clause of a token; what is empty is left out.
ClausesOf(token) == IF token.text = <<>> THEN {} ELSE Clauses(Positive(token), token.quoted)

\* parse_search_query
Requests(query) ==
  {[include |-> UNION {ClausesOf(t) : t \in {t \in tokens : ~Negated(t)}},
    exclude |-> UNION {ClausesOf(t) : t \in {t \in tokens : Negated(t)}}] :
     tokens \in {ts \in Tokens(query) : \A t \in ts : t.text # <<>> => ClausesOf(t) # {}}}

=============================================================================
