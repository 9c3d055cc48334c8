------------------------------- MODULE Search -------------------------------
(***************************************************************************)
(* A search over the indexes of several devices (oxidex-core, index.rs):   *)
(* candidates from trigrams, the clauses of the request, the score of a    *)
(* name, and the order of the hits.  Devices are numbers, in the order of  *)
(* their names.                                                            *)
(***************************************************************************)
EXTENDS SearchIndex, Query

CONSTANT Spelling   \* how a name is written

ASSUME SearchAssumption ==
  "/" \in ToSet(Letters) /\ \A n \in Names : Spelling[n] \in Seq(ToSet(Letters))

Hit(device, record) == [device |-> device, record |-> record]

FoldedName(index, i) ==
  IF index.records[i].name \in Names THEN Folded(Spelling[index.records[i].name]) ELSE <<>>

\* How a path is written
PathText(path) ==
  IF path = <<>> THEN <<"/">> ELSE FlattenSeq([k \in DOMAIN path |-> <<"/">> \o Spelling[path[k]]])

-----------------------------------------------------------------------------
(* One record and one clause *)

\* wildcard_matches: each part is looked for after the one before; rest is where
\* the text goes on, 0 if a part was not found.
WildcardMatches(pattern, text) ==
  LET parts == Parts(pattern, "*")
      after(rest, k) ==
        LET found == Places(parts[k], text, rest)
        IN  IF rest = 0 \/ parts[k] = <<>> THEN rest
            ELSE IF k = 1 THEN IF IsPrefix(parts[1], text) THEN Len(parts[1]) + 1 ELSE 0
            ELSE IF found = {} THEN 0 ELSE First(found) + Len(parts[k])
  IN  IF Len(parts) = 1 THEN pattern = text
      ELSE /\ FoldLeft(after, 1, [k \in DOMAIN parts |-> k]) # 0
           /\ IsSuffix(Last(parts), text)

\* file_extension: what follows the last dot
ExtensionsOf(name) ==
  LET dots == {k \in DOMAIN name : name[k] = "."}
  IN  IF dots = {} THEN {} ELSE {SubSeq(name, Final(dots) + 1, Len(name))} \ {<<>>}

Between(n, clause) == clause.min <= n /\ n <= clause.max

\* matches_clause
MatchesClause(index, i, clause) ==
  LET name == FoldedName(index, i)
      meta == index.records[i].meta
  IN  CASE clause.kind \in {"contains", "phrase"} -> Occurs(clause.text, name)
        [] clause.kind = "wildcard"  -> WildcardMatches(clause.text, name)
        [] clause.kind = "extension" -> ExtensionsOf(name) \cap clause.exts # {}
        [] clause.kind = "type"      -> meta.kind = clause.type
        [] clause.kind = "path"      -> Occurs(clause.text, Folded(PathText(index.paths[i])))
        [] clause.kind = "size"      -> Between(meta.size, clause)
        [] clause.kind = "mtime"     -> Between(meta.mtime, clause)

\* matches_request
MatchesRequest(index, i, request) ==
  /\ \A clause \in request.include : MatchesClause(index, i, clause)
  /\ \A clause \in request.exclude : ~MatchesClause(index, i, clause)

-----------------------------------------------------------------------------
(* Candidates *)

Plain(request, kinds) == {c \in request.include : c.kind \in kinds}

\* Mutant: a whole pattern is looked up like a name.
CandidateTokensWhole(request) == {c.text : c \in Plain(request, {"contains", "phrase", "wildcard"})}

\* request_candidate_tokens
CandidateTokens(request) ==
  {c.text : c \in Plain(request, {"contains", "phrase"})}
    \cup UNION {{part \in ToSet(Parts(c.text, "*")) : Len(BytesOf(part)) >= 3} :
                  c \in Plain(request, {"wildcard"})}

\* candidates_for_tokens over the entries of build_trigram_index: the records in
\* whose names all trigrams of all tokens occur; tokens that are too short are
\* left to the clauses.
Candidates(index, tokens) ==
  LET wanted == UNION {Trigrams(t) : t \in tokens}
  IN  {i \in DOMAIN index.records : wanted \subseteq Trigrams(FoldedName(index, i))}

\* search_request_with_relevance_context, as far as it concerns what is found;
\* merge_search_request sorts anew.
Found(index, request) ==
  IF request.include \cup request.exclude = {} THEN DOMAIN index.records
  ELSE {i \in Candidates(index, CandidateTokens(request)) : MatchesRequest(index, i, request)}

-----------------------------------------------------------------------------
(* Order *)

\* RelevanceContext::recency_bucket
RecencyBucket(mtime) ==
  LET age == IF Now > mtime THEN Now - mtime ELSE 0
  IN  IF mtime = 0 THEN 5
      ELSE Cardinality({days \in {1, 7, 30, 180} : age > days * DayLength})

\* How well a name fits one clause
ClauseScore(name, clause) ==
  CASE clause.kind \in {"contains", "phrase"} /\ name = clause.text -> 0
    [] clause.kind \in {"contains", "phrase"} /\ name # clause.text ->
         IF IsPrefix(clause.text, name) THEN 10 ELSE IF Occurs(clause.text, name) THEN 20 ELSE 80
    [] clause.kind = "wildcard" /\ WildcardMatches(clause.text, name) ->
         IF Trimmed(clause.text, {"*"}) = name THEN 5
         ELSE IF Last(clause.text) = "*" /\ IsPrefix(TrimmedEnd(clause.text, {"*"}), name)
              THEN 15 ELSE 30
    [] OTHER -> 100

MatchScore(name, request) ==
  First({100} \cup {ClauseScore(name, clause) : clause \in request.include})

\* Mutant: what is recent comes first.
RelevanceRecentFirst(index, i, request) ==
  LET name == FoldedName(index, i)
  IN  <<RecencyBucket(index.records[i].meta.mtime), MatchScore(name, request),
        Len(BytesOf(name)), Len(index.paths[i])>>

\* relevance_score, with the order of RelevanceScore
Relevance(index, i, request) ==
  LET name == FoldedName(index, i)
  IN  <<MatchScore(name, request), RecencyBucket(index.records[i].meta.mtime),
        Len(BytesOf(name)), Len(index.paths[i])>>

\* compare_hits: the numbers that are compared one after the other; a text ends
\* with a number below all letters.
SortKey(indexes, hit, key, request) ==
  LET index == indexes[hit.device]
      i     == hit.record
      name  == Codes(FoldedName(index, i)) \o <<0>>
      path  == Codes(PathText(index.paths[i])) \o <<0>>
      meta  == index.records[i].meta
  IN  (CASE key = "relevance" -> Relevance(index, i, request) \o name
         [] key = "name"      -> name
         [] key = "path"      -> path
         [] key = "size"      -> <<meta.size>> \o name
         [] key = "mtime"     -> <<meta.mtime>> \o name)
      \o <<hit.device, hit.record>>

\* The hits in the order of their keys
InOrderOf(keys) ==
  LET before == [h \in DOMAIN keys |-> {g \in DOMAIN keys : LexLess(keys[g], keys[h])}]
  IN  [n \in 1..Cardinality(DOMAIN keys) |->
         CHOOSE h \in DOMAIN keys : Cardinality(before[h]) = n - 1]

Keyed(indexes, hits, request, key) == [h \in hits |-> SortKey(indexes, h, key, request)]

Turned(hits, desc) == IF desc THEN Reverse(hits) ELSE hits

\* What is found; scope is the device that is searched, or nothing.
Hits(indexes, scope, request) ==
  UNION {{Hit(d, i) : i \in Found(indexes[d], request)} :
           d \in IF scope = {} THEN DOMAIN indexes ELSE DOMAIN indexes \cap scope}

\* merge_search_request
MergeSearch(indexes, scope, request, key, desc) ==
  Turned(InOrderOf(Keyed(indexes, Hits(indexes, scope, request), request, key)), desc)

=============================================================================
