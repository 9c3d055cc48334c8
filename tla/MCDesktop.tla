------------------------------ MODULE MCDesktop ------------------------------
(* Desktop for TLC: names and how they are written, files, and scenarios.    *)
EXTENDS Desktop

MCNames == {"run", "Run.n", "urun", "nun.N", "wide"}

MCSpelling ==
  [n \in MCNames |->
     CASE n = "run"   -> <<"r", "u", "n">>
       [] n = "Run.n" -> <<"R", "u", "n", ".", "n">>
       [] n = "urun"  -> <<"u", "r", "u", "n">>
       [] n = "nun.N" -> <<"n", "u", "n", ".", "N">>
       [] n = "wide"  -> <<"w">>]

MCLetters == <<" ", "!", "*", "-", ".", "/", "N", "R", "\\", "n", "r", "u", "w">>

MCLower == [c \in {"N", "R"} |-> IF c = "N" THEN "n" ELSE "r"]

MCBytes == [c \in {"w"} \cup Filters |-> IF c = "w" THEN 3 ELSE 4]

MCDates == [c \in {"day1", "day2"} |-> IF c = "day1" THEN 293 ELSE 299]

\* A clock behind that of UTC, where the second content is one day older
MCOffset == -3

\* Two contents of files; the second is older and as large as 2 kb.
Small == [size |-> 2, mtime |-> 2995]
Large == [size |-> 2000, mtime |-> 2940]
MCVersions == {Small, Large}

\* /, a directory, a file in it and one beside it
MCFiles ==
  [p \in {<<>>, <<"run">>, <<"run", "Run.n">>, <<"wide">>} |->
     CASE p \in {<<>>, <<"run">>} -> Dir
       [] p = <<"run", "Run.n">>  -> File(Small)
       [] p = <<"wide">>          -> File(Large)]

MCArchive ==
  [p \in {<<>>, <<"urun">>, <<"urun", "run">>, <<"nun.N">>} |->
     CASE p \in {<<>>, <<"urun">>} -> Dir
       [] p = <<"urun", "run">>    -> File(Large)
       [] p = <<"nun.N">>          -> [kind |-> "symlink", size |-> 5, mtime |-> 0]]

-----------------------------------------------------------------------------
(* Scenarios: what the user types, *)

Chars(s) == {<<c>> : c \in s}

Run == <<"r", "u", "n">>

\* Nothing happens to the files, and the user only types.
Typing(keys, length) ==
  [names |-> {}, files |-> MCFiles, rules |-> NoRules, ops |-> 0, may |-> {},
   keys |-> keys, length |-> length, exts |-> {}, pathFilters |-> {}, controls |-> {},
   managed |-> {}, served |-> Devices, limit |-> 4]

Queries ==
  {Typing({<<"r", "u">>} \cup Chars({"n", "*", " ", "!"}), 5),
   Typing(Chars({Quote, Backslash, " ", "-"}) \cup {<<"u", "n">>}, 5),
   Typing(Chars({"ext:", "path:", "type:", "dir", ".", "n", "!", "/"}), 4),
   Typing(Chars({"ext:", ",", "n", "r", "."}), 5),
   Typing(Chars({"size:", ">", "<", "=", ".", "2"}) \cup {<<"2", "kb">>}, 4),
   Typing(Chars({"mtime:", "<", "7", "d"}), 6),
   Typing(Chars({"mtime:", ".", "day1", "day2", "today", "yesterday"}), 4)}

\* ... what else the user has,
Using(keys, length, uses) == [Typing(keys, length) EXCEPT !.controls = uses]

Controls ==
  {Using({Run, <<"n">>}, 5, {"erase", "compose", "select", "fail"}),
   [Using({Run}, 3, {"filters", "compose"}) EXCEPT !.exts = {<<>>, <<"n">>}, !.pathFilters = {<<>>, <<"u">>}],
   Using({Run, <<"*">>}, 4, {"sort", "scope", "select"}),
   [Using({Run, <<"w">>}, 3, {"filters", "windows", "select"}) EXCEPT
      !.exts = {<<>>, <<".", "N">>, <<"r", ",", "n">>}, !.pathFilters = {<<>>, <<" ", "R", "u">>}],
   [Using({Run}, 3, {"select", "scope", "open"}) EXCEPT !.managed = {Watched}],
   [Using({Run}, 3, {"open"}) EXCEPT !.managed = {Watched}, !.served = {2}],
   [Using({Run}, 3, {"select", "scope", "fail"}) EXCEPT !.managed = Devices, !.limit = 2],
   Using({Run}, 3, {"open", "select", "mount"})}

\* ... what changes while the user searches,
Changing(times, may, uses) ==
  [Using({Run}, 3, uses) EXCEPT !.names = {"run", "Run.n"}, !.ops = times, !.may = may]

Changes ==
  {Changing(2, {"dirs", "mkdir"}, {}), Changing(2, {"mkdir"}, {"open"}),
   Changing(1, {"dirs", "mkdir"}, {"select", "open"}),
   [Changing(1, {"mkdir"}, {"open"}) EXCEPT !.names = {"run"}, !.managed = {Watched}, !.served = {Watched}]}

-----------------------------------------------------------------------------
(* and what changes when nobody searches: a directory with a file in it, and a *)
(* file beside it.                                                             *)

TwoNames == {"run", "wide"}

Nested == [p \in {<<>>, <<"run">>, <<"wide">>, <<"run", "wide">>} |->
             IF p \in {<<>>, <<"run">>} THEN Dir ELSE File(Small)]

Alone(rules, times, may) ==
  [Typing({}, 0) EXCEPT !.names = TwoNames, !.files = Nested, !.rules = rules,
                        !.ops = times, !.may = may]

\* One name is excluded, or everything below one name.
ExcludeSets ==
  {[includes |-> {}, excludes |-> {NameRule({n})}] : n \in TwoNames}
    \cup {[includes |-> {}, excludes |-> {PathRule({<<n, m>> : m \in TwoNames})}]
            : n \in TwoNames}

LiveChanges ==
  {Alone(NoRules, 4, {"dirs", "mkdir"}), Alone(NoRules, 4, {"lag"}), Alone(NoRules, 3, {"batch", "mkdir"}),
   Alone(NoRules, 3, {"batch", "dirs", "mkdir", "over"}),
   Alone(NoRules, 2, {"lag", "dirs", "mkdir", "over", "border"})}
    \cup {Alone(r, 3, {"lag"}) : r \in ExcludeSets} \cup {Alone(r, 3, {"mkdir"}) : r \in ExcludeSets}

\* A device that is scanned again while its files change
Rescanning ==
  {[Alone(NoRules, 2, {}) EXCEPT !.managed = {Watched}, !.served = {Watched}]}

DesktopScenarios == Queries \cup Controls \cup Changes \cup LiveChanges

=============================================================================
