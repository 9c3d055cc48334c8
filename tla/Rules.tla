-------------------------------- MODULE Rules --------------------------------
(***************************************************************************)
(* Include and exclude rules of a device (oxidex-core, rules.rs).  A rule  *)
(* is what its glob matches: a set of paths if the pattern begins with a   *)
(* slash, else a set of names.                                             *)
(***************************************************************************)
EXTENDS SearchIndex

NameRule(names) == [full |-> FALSE, matches |-> names]
PathRule(paths) == [full |-> TRUE, matches |-> paths]

NoRules == [includes |-> {}, excludes |-> {}]

NameAt(path) == IF path = <<>> THEN NoName ELSE Last(path)

\* Mutant: only the name itself is looked at, not the directories above it.
RuleMatchesLast(rule, path, name) ==
  IF rule.full THEN path \in rule.matches ELSE name \in rule.matches

\* CompiledRule::matches
RuleMatches(rule, path, name) ==
  IF rule.full
  THEN path \in rule.matches
  ELSE name \in rule.matches \/ \E k \in DOMAIN path : path[k] \in rule.matches

\* CompiledRules::matches: an exclude wins over an include.
Allows(rules, path) ==
  /\ rules.includes = {} \/ \E r \in rules.includes : RuleMatches(r, path, NameAt(path))
  /\ ~\E r \in rules.excludes : RuleMatches(r, path, NameAt(path))

\* The records on the way from a record up to the root; the walk ends at a
\* record that is its own parent, and after as many steps as there are records.
Ancestors(records, record) ==
  LET up[k \in Nat] ==
        IF k = 0 THEN {records[record].parent} \cap DOMAIN records
        ELSE LET found == up[k - 1]
             IN  found \cup ({records[i].parent : i \in found} \cap DOMAIN records)
  IN  up[Len(records)]

\* filter_index: the selected records, and the directories they are in
FilterIndex(index, rules) ==
  LET selected == {i \in DOMAIN index.records : Allows(rules, index.paths[i])}
      kept     == {i \in DOMAIN index.records :
                     i \in selected \/ \E j \in selected : i \in Ancestors(index.records, j)}
  IN  IF rules = NoRules THEN index ELSE Rebuilt(Compacted(index.records, kept))

=============================================================================
