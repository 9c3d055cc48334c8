---------------------------- MODULE MCLiveUpdates ----------------------------
(* LiveUpdates for TLC: the files where a scan begins, the rules, and what   *)
(* may happen.                                                               *)
EXTENDS LiveUpdates

a == CHOOSE n \in Names : TRUE
b == CHOOSE n \in Names \ {a} : TRUE

\* Contents of files
TwoVersions == {[size |-> 2, mtime |-> 2995], [size |-> 2000, mtime |-> 2940]}
OneVersion  == {[size |-> 2, mtime |-> 2995]}

FilesAt(dirs, files) == [p \in {<<>>} \cup dirs \cup files |->
                           IF p \in files THEN File(CHOOSE v \in Versions : TRUE) ELSE Dir]

\* A directory with a file in it, and a file beside it
NestedTree == FilesAt({<<a>>}, {<<b>>, <<a, b>>})

\* A directory and as many files as there are further names
FlatTree == FilesAt({<<a>>}, {<<n>> : n \in Names \ {a}})

\* One name is excluded, or everything below one name.
ExcludeSets ==
  {[includes |-> {}, excludes |-> {NameRule({n})}] : n \in Names}
    \cup {[includes |-> {}, excludes |-> {PathRule({<<n, m>> : m \in Names})}]
            : n \in Names}

\* Files of one name are included.
IncludeSets == {[includes |-> {NameRule({n})}, excludes |-> {}] : n \in Names}

Live(files, rules, times, may) ==
  [names |-> Names, files |-> files, rules |-> rules, ops |-> times, may |-> may]

\* One scenario for every configuration that shows where live updates go wrong
Batches     == {Live(NestedTree, NoRules, 3, {"batch", "mkdir"})}
FlatBatches == {Live(FlatTree, NoRules, 3, {"batch", "mkdir"})}
LongBatches == {Live(NestedTree, NoRules, 4, {"batch", "mkdir"})}
Borders     == {Live(NestedTree, NoRules, 3, {"border", "mkdir"})}
Replacing   == {Live(NestedTree, NoRules, 3, {"over", "mkdir"})}
LateDirs    == {Live(NestedTree, NoRules, 3, {"lag", "dirs", "mkdir"})}
AgainDirs   == {Live(FilesAt({}, {}), NoRules, 6, {"lag", "mkdir"})}
Excluding   == {Live(NestedTree, r, 3, {"dirs", "mkdir"}) : r \in ExcludeSets}
ExcludingOne == {Live(FilesAt({}, {}), [includes |-> {}, excludes |-> {PathRule({<<n>>})}],
                      2, {"mkdir"}) : n \in Names}
Including   == {Live(FlatTree, r, 3, {"mkdir"}) : r \in IncludeSets}

=============================================================================
