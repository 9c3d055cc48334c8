---------------------------- MODULE DesktopProofs ----------------------------
(***************************************************************************)
(* What holds of the desktop window, for all files, queries and scenarios. *)
(*                                                                         *)
(* What is selected is shown, and what is opened is what its row says      *)
(* while the index of its device is the one from which the row was made    *)
(* (WindowInv), whatever a search finds.                                   *)
(*                                                                         *)
(* The live updates go on while searches go on: the window does not touch  *)
(* what UpdatesInv and ShowInv speak of, except when a device is scanned   *)
(* again, which needs that the user asked for it.                          *)
(*                                                                         *)
(* The rows answer the query, and exact names come first: SearchProofs     *)
(* says what is found in one index that can be searched, and that is every *)
(* index there is (HasPaths, IndexSearchable); the merge ranks all hits of *)
(* all devices by their keys (MergeIs), and the keys are in the order that *)
(* is meant (KeysInOrder); and the rows are those that the last search for *)
(* the controls made, unless something has changed since (TableInv).       *)
(***************************************************************************)
EXTENDS Desktop, LiveProofs, SearchProofs

-----------------------------------------------------------------------------
(* The inductive invariant: a row of a device that has not changed shows    *)
(* the path of its record.                                                  *)

RowsCurrent ==
  \A n \in DOMAIN rows : rows[n].hit.device \notin changed => rows[n].path = PathOf(rows[n].hit)

WindowInv == SelectionShown /\ RowsCurrent

LEMMA WindowInvInit == DesktopInit => WindowInv
BY DEF DesktopInit, WindowInv, SelectionShown, RowsCurrent

\* The rows of an answer are made from the indexes as they are.
LEMMA AnswerCurrent ==
  ASSUME NEW request, NEW c, NEW n \in DOMAIN Answer(request, c)
  PROVE  Answer(request, c)[n].path = PathOf(Answer(request, c)[n].hit)
BY DEF Answer, Rows, RowFor, PathOf

\* Nothing that the invariant speaks of changes.
LEMMA WindowKept ==
  ASSUME WindowInv, UNCHANGED <<rows, selected, changed, index>>
  PROVE  WindowInv'
BY DEF WindowInv, SelectionShown, Shown, RowsCurrent, PathOf, IndexOf

\* A search while the indexes stay what they are
LEMMA RecomputeKeeps ==
  ASSUME WindowInv, NEW c, Recompute(c), UNCHANGED index
  PROVE  WindowInv'
<1>1. \A h : PathOf(h)' = PathOf(h)
  BY DEF PathOf, IndexOf
<1>2. CASE rows' = <<>> /\ selected' = NoHit
  BY <1>2 DEF WindowInv, SelectionShown, RowsCurrent
<1>3. CASE UNCHANGED <<rows, selected, changed>>
  BY <1>3, WindowKept
<1>4. CASE /\ \E r \in RequestsOf(c) : rows' = Answer(r, c)
           /\ selected' = IF \E n \in DOMAIN rows' : rows'[n].hit = selected
                          THEN selected ELSE NoHit
  <2>1. SelectionShown'
    BY <1>4 DEF SelectionShown, Shown
  <2>2. RowsCurrent'
    BY <1>1, <1>4, AnswerCurrent DEF RowsCurrent
  <2> QED BY <2>1, <2>2 DEF WindowInv
<1> QED BY <1>2, <1>3, <1>4 DEF Recompute

\* The index of one device is replaced, and the device counts as changed.
LEMMA ReplacedKeeps ==
  ASSUME WindowInv, NEW d, UNCHANGED <<rows, selected>>,
         changed' = changed \cup {d}, d = Watched \/ UNCHANGED index
  PROVE  WindowInv'
<1>1. SelectionShown'
  BY DEF WindowInv, SelectionShown, Shown
<1>2. ASSUME NEW n \in DOMAIN rows, rows[n].hit.device \notin changed \cup {d}
      PROVE  PathOf(rows[n].hit)' = PathOf(rows[n].hit)
  BY <1>2 DEF PathOf, IndexOf
<1>3. RowsCurrent'
  BY <1>2 DEF WindowInv, RowsCurrent, PathOf
<1> QED BY <1>1, <1>3 DEF WindowInv

LEMMA ElsewhereKeeps ==
  ASSUME WindowInv, Elsewhere
  PROVE  WindowInv'
<1>1. CASE index' = index
  BY <1>1, WindowKept DEF Elsewhere, guiVars
<1>2. CASE index' # index
  BY <1>2, ReplacedKeeps DEF Elsewhere, guiVars
<1> QED BY <1>1, <1>2

LEMMA ForgetKeeps ==
  ASSUME WindowInv, NEW d, Forget(d)
  PROVE  WindowInv'
<1> DEFINE kept == {n \in DOMAIN rows : rows[n].hit.device # d}
<1>1. DOMAIN rows' = kept /\ \A n \in kept : rows'[n] = rows[n]
  BY DEF Forget, RowsWithout, Restrict
<1>2. changed' = changed \cup {d} /\ index' = index
  BY DEF Forget, vars
<1>3. SelectionShown'
  <2>1. CASE selected.device = d
    BY <2>1 DEF Forget, SelectionShown
  <2>2. CASE selected.device # d
    <3>1. selected' = selected
      BY <2>2 DEF Forget
    <3>2. Shown(selected) => \E n \in kept : rows[n].hit = selected
      BY <2>2 DEF Shown
    <3> QED BY <1>1, <3>1, <3>2 DEF WindowInv, SelectionShown, Shown
  <2> QED BY <2>1, <2>2
<1>4. RowsCurrent'
  BY <1>1, <1>2 DEF WindowInv, RowsCurrent, PathOf, IndexOf
<1> QED BY <1>3, <1>4 DEF WindowInv

LEMMA ScanEndsKeeps ==
  ASSUME WindowInv, NEW d \in Devices, ScanEnds(d)
  PROVE  WindowInv'
<1>1. d = Watched \/ UNCHANGED index
  BY DEF ScanEnds
<1> QED BY <1>1, ReplacedKeeps DEF ScanEnds, guiVars

-----------------------------------------------------------------------------

LEMMA WindowInvStep == WindowInv /\ [DesktopNext]_allVars => WindowInv'
<1> SUFFICES ASSUME WindowInv, [DesktopNext]_allVars PROVE WindowInv'
  OBVIOUS
<1> USE DEF vars, otherVars, guiVars
<1>1. ASSUME NEW text, Type(text) \/ Commit(text) PROVE WindowInv'
  BY <1>1, RecomputeKeeps DEF Type, Commit, Ask
<1>2. ASSUME NEW text, Compose(text) PROVE WindowInv'
  BY <1>2, WindowKept DEF Compose
<1>3. CASE Erase
  BY <1>3, RecomputeKeeps DEF Erase, Ask
<1>4. ASSUME NEW scope, ChooseScope(scope) PROVE WindowInv'
  BY <1>4, RecomputeKeeps DEF ChooseScope, Ask
<1>5. ASSUME NEW exts, NEW path, NEW type, Filter(exts, path, type) PROVE WindowInv'
  BY <1>5, RecomputeKeeps DEF Filter, Ask
<1>17. ASSUME NEW exts, NEW path, ComposeFilter(exts, path) PROVE WindowInv'
  BY <1>17, WindowKept DEF ComposeFilter
<1>6. ASSUME NEW key, Sort(key) PROVE WindowInv'
  BY <1>6, RecomputeKeeps DEF Sort, Ask
<1>7. ASSUME NEW n \in DOMAIN rows, Select(n) \/ DoubleClick(n) PROVE WindowInv'
  <2>1. UNCHANGED <<rows, changed, index>> /\ selected' = rows[n].hit
    BY <1>7 DEF Select, DoubleClick
  <2>2. SelectionShown'
    BY <2>1 DEF SelectionShown, Shown
  <2> QED BY <2>1, <2>2 DEF WindowInv, RowsCurrent, PathOf, IndexOf
<1>8. CASE OpenSelected
  BY <1>8, WindowKept DEF OpenSelected
<1>9. ASSUME NEW w, ShowWindow(w) PROVE WindowInv'
  BY <1>9, WindowKept DEF ShowWindow
<1>10. CASE Escape
  <2>1. UNCHANGED <<rows, changed, index>> /\ selected' \in {NoHit, selected}
    BY <1>10 DEF Escape
  <2> QED BY <2>1 DEF WindowInv, SelectionShown, Shown, RowsCurrent, PathOf, IndexOf
<1>11. CASE RefreshAll
  BY <1>11, RecomputeKeeps DEF RefreshAll
<1>12. CASE ShowIndexes
  BY <1>12, WindowKept DEF ShowIndexes
<1>13. ASSUME NEW d \in Devices, Scan(d) \/ Cancel(d) \/ Forget(d) PROVE WindowInv'
  <2>1. CASE Scan(d)
    BY <2>1, RecomputeKeeps DEF Scan
  <2>2. CASE Cancel(d)
    BY <2>2, WindowKept DEF Cancel
  <2>3. CASE Forget(d)
    BY <2>3, ForgetKeeps
  <2> QED BY <1>13, <2>1, <2>2, <2>3
<1>14. ASSUME NEW d \in Devices, ScanEnds(d) \/ Mount(d) PROVE WindowInv'
  <2>1. CASE ScanEnds(d)
    BY <2>1, ScanEndsKeeps
  <2>2. CASE Mount(d)
    BY <2>2, ReplacedKeeps DEF Mount
  <2> QED BY <1>14, <2>1, <2>2
<1>15. CASE Elsewhere
  BY <1>15, ElsewhereKeeps
<1>16. CASE UNCHANGED allVars
  BY <1>16, WindowKept DEF allVars
<1> QED BY <1>1, <1>2, <1>3, <1>4, <1>5, <1>6, <1>7, <1>8, <1>9, <1>10, <1>11, <1>12, <1>13,
           <1>14, <1>15, <1>16, <1>17
        DEF DesktopNext, IndexManager

-----------------------------------------------------------------------------
(* The theorems.                                                           *)

\* The selected hit (DaemonGuiApp::selected_hit) is in the table, whatever was
\* searched, forgotten, scanned or changed meanwhile.
THEOREM SelectionHolds == DesktopSpec => []SelectionShown
<1>1. WindowInv => SelectionShown
  BY DEF WindowInv
<1> QED BY <1>1, WindowInvInit, WindowInvStep, PTL DEF DesktopSpec

\* open_selected opens the path that its row shows, unless the index or the mount
\* of the device has changed since the rows were made.
THEOREM OpenHolds == DesktopSpec => OpensShown
<1>1. ASSUME WindowInv, [DesktopNext]_allVars, opened' # opened,
             opened'.hit.device \notin changed
      PROVE  \E n \in DOMAIN rows : rows[n].hit = opened'.hit /\ rows[n].path = opened'.path
  <2> USE DEF WindowInv, RowsCurrent
  <2>1. CASE OpenSelected
    <3>1. opened'.hit = selected /\ opened'.path = PathOf(selected) /\ Shown(selected)
      BY <2>1 DEF OpenSelected, Openable
    <3> QED BY <1>1, <3>1 DEF Shown
  <2>2. ASSUME NEW n \in DOMAIN rows, DoubleClick(n)
        PROVE  \E k \in DOMAIN rows : rows[k].hit = opened'.hit /\ rows[k].path = opened'.path
    <3>1. opened'.hit = rows[n].hit /\ opened'.path = PathOf(rows[n].hit)
      BY <2>2 DEF DoubleClick
    <3> QED BY <1>1, <3>1
  <2>3. OpenSelected \/ \E n \in DOMAIN rows : DoubleClick(n)
    BY <1>1 DEF DesktopNext, allVars, guiVars, IndexManager, Elsewhere, Type, Compose, Commit,
       Erase, ChooseScope, Filter, ComposeFilter, Sort, Ask, Select, ShowWindow, Escape, RefreshAll,
       ShowIndexes, Scan, Cancel, Forget, ScanEnds, Mount
  <2> QED BY <2>1, <2>2, <2>3
<1>2. WindowInv /\ [DesktopNext]_allVars
        => [opened' # opened /\ opened'.hit.device \notin changed =>
              \E n \in DOMAIN rows : rows[n].hit = opened'.hit /\ rows[n].path = opened'.path]_allVars
  BY <1>1
<1> QED BY <1>2, WindowInvInit, WindowInvStep, PTL DEF DesktopSpec, OpensShown

-----------------------------------------------------------------------------
(* The files and the index                                                 *)

\* Everything but the end of a scan is a step of LiveUpdates or leaves the files alone.
LEMMA DesktopMoves ==
  ASSUME [DesktopNext]_allVars
  PROVE  \/ \E d \in Devices : ScanEnds(d)
         \/ FilesNext \/ Callback \/ Apply
         \/ UNCHANGED vars
BY DEF DesktopNext, FilesNext, allVars, vars, IndexManager, Type, Compose, Commit, Erase,
   ChooseScope, Filter, ComposeFilter, Sort, Ask, Select, DoubleClick, OpenSelected, ShowWindow, Escape,
   RefreshAll, ShowIndexes, Scan, Cancel, Forget, Mount

LEMMA UpdatesUnderDesktop == UpdatesInv /\ [DesktopNext]_allVars => UpdatesInv'
<1> SUFFICES ASSUME UpdatesInv, [DesktopNext]_allVars PROVE UpdatesInv'
  OBVIOUS
<1>1. ASSUME NEW d \in Devices, ScanEnds(d) PROVE UpdatesInv'
  <2>1. UNCHANGED <<scenario, tree, told, pending, base, ops>>
    BY <1>1 DEF ScanEnds
  <2>2. CASE d = Watched
    <3>1. PICK order \in ScanOrders(tree) : index' = FilterIndex(Scanned(tree, order), scenario.rules)
      BY <1>1, <2>2 DEF ScanEnds
    <3> QED BY <2>1, <3>1, UpdatesInvScanned
  <2>3. CASE d # Watched
    BY <1>1, <2>1, <2>3, UpdatesInvKept DEF ScanEnds, vars
  <2> QED BY <2>2, <2>3
<1> QED BY <1>1, DesktopMoves, UpdatesInvStep, UpdatesInvKept

LEMMA UpdatesUnderDesktopInit == DesktopInit => UpdatesInv
BY UpdatesInvInit DEF DesktopInit

\* The index that is served is one that read_index accepts (validate_index), whatever
\* the files do, whenever a device is scanned again and whatever its rules are, as
\* long as events are applied one by one.
THEOREM LoadableHolds == DesktopSpec => []StaysLoadable
BY UpdatesUnderDesktopInit, UpdatesUnderDesktop, UpdatesInvImplies, PTL DEF DesktopSpec

\* What the scanner daemon sends is all that has happened to the files, renames of
\* directories with all that is in them included.
THEOREM TellsHolds == DesktopSpec => []BatchTellsAll
BY UpdatesUnderDesktopInit, UpdatesUnderDesktop, UpdatesInvImplies, PTL DEF DesktopSpec

\* coalesce_watch_events leaves of a batch without renames what it means, however
\* often a path was created, changed and removed in it.
THEOREM CoalescingHolds == DesktopSpec => []CoalescingIsSafeUnrenamed
BY UpdatesUnderDesktopInit, UpdatesUnderDesktop, UpdatesInvImplies, PTL DEF DesktopSpec

\* Only what the user scans is scanned.
ScanInv == /\ scanning \subseteq scenario.managed
           /\ Watched \notin scenario.managed => ShowInv

LEMMA ScanInvInit == DesktopInit => ScanInv
BY ShowInit DEF DesktopInit, ScanInv

LEMMA ScenarioStays ==
  ASSUME FilesInv, [DesktopNext]_allVars
  PROVE  scenario' = scenario
<1>1. CASE \E d \in Devices : ScanEnds(d)
  BY <1>1 DEF ScanEnds
<1>2. CASE FilesNext \/ Callback \/ Apply
  BY <1>2, ReportsTyped DEF Callback, Apply
<1> QED BY <1>1, <1>2, DesktopMoves DEF vars

LEMMA ScanningStays ==
  ASSUME scanning \subseteq scenario.managed, [DesktopNext]_allVars
  PROVE  scanning' \subseteq scenario.managed
<1>1. CASE UNCHANGED scanning
  BY <1>1
<1>2. ASSUME NEW d \in Devices, Scan(d) \/ Cancel(d) \/ ScanEnds(d)
      PROVE  scanning' \subseteq scenario.managed
  BY <1>2 DEF Scan, Cancel, ScanEnds
<1>3. UNCHANGED scanning \/ \E d \in Devices : Scan(d) \/ Cancel(d) \/ ScanEnds(d)
  BY DEF DesktopNext, allVars, otherVars, desktopVars, IndexManager, Type, Compose, Commit,
     Erase, ChooseScope, Filter, ComposeFilter, Sort, Ask, Recompute, Select, DoubleClick, OpenSelected, ShowWindow, Escape, RefreshAll,
     ShowIndexes, Forget, Mount, Elsewhere
<1> QED BY <1>1, <1>2, <1>3

LEMMA ScanInvStep == ASSUME FilesInv, ScanInv, [DesktopNext]_allVars PROVE ScanInv'
<1>1. scenario' = scenario /\ scanning' \subseteq scenario.managed
  BY ScenarioStays, ScanningStays DEF ScanInv
<1>2. ASSUME Watched \notin scenario.managed PROVE ShowInv'
  <2>1. ShowInv /\ Watched \notin scanning
    BY <1>2 DEF ScanInv
  <2>2. ASSUME NEW d \in Devices, ScanEnds(d) PROVE ShowInv'
    <3>1. UNCHANGED vars
      BY <2>1, <2>2 DEF ScanEnds, vars
    <3> QED BY <2>1, <3>1, ShowKept
  <2> QED BY <2>1, <2>2, DesktopMoves, ShowStep, ShowKept
<1> QED BY <1>1, <1>2 DEF ScanInv

\* The index that the window searches shows the files, as a new scan would, once all
\* has been told and applied: whatever is searched, selected, forgotten or mounted
\* meanwhile, unless the user has the device scanned while it changes.
THEOREM UnscannedHolds == DesktopSpec => []ShowsUnscanned
<1> DEFINE Inv == UpdatesInv /\ ScanInv
<1>1. DesktopInit => Inv
  BY UpdatesUnderDesktopInit, ScanInvInit
<1>2. Inv /\ [DesktopNext]_allVars => Inv'
  BY UpdatesUnderDesktop, ScanInvStep DEF UpdatesInv, LiveInv
<1>3. Inv => ShowsUnscanned
  BY ShowIs DEF UpdatesInv, LiveInv, ScanInv, ShowsUnscanned
<1> QED BY <1>1, <1>2, <1>3, PTL DEF DesktopSpec

-----------------------------------------------------------------------------
(* The filter panel                                                        *)

LEMMA PanelKinds ==
  ASSUME NEW c, NEW clause \in PanelClauses(c)
  PROVE  clause.kind \notin NameKinds
<1>1. CASE \E e : clause = ExtensionClause(e)
  BY <1>1 DEF ExtensionClause, NameKinds
<1>2. CASE \E t : clause = TypeClause(t)
  BY <1>2 DEF TypeClause, NameKinds
<1>3. CASE \E p : clause = PathClause(p)
  BY <1>3 DEF PathClause, NameKinds
<1> QED BY <1>1, <1>2, <1>3 DEF PanelClauses

\* What is typed into the controls
Typable(C, c) ==
  /\ c.query \in Seq(C) /\ c.exts \in Seq(C) /\ c.path \in Seq(C)
  /\ c.type = {} \/ \E t : c.type = {t}

PanelFits(ix, i, c) ==
  /\ c.type = {} \/ ix.records[i].meta.kind \in c.type
  /\ FilterForm("ext:", c.exts) => HasExtension(FoldedName(ix, i), c.exts)
  /\ Occurs(Folded(Trimmed(c.path, {Space})), Folded(PathText(ix.paths[i])))

LEMMA PanelMeans ==
  ASSUME NEW C, ToSet(Letters) \subseteq C, "." \in C, NEW c, Typable(C, c),
         NEW ix, NEW i \in DOMAIN ix.records, Searchable(C, ix)
  PROVE  (\A clause \in PanelClauses(c) : MatchesClause(ix, i, clause)) <=> PanelFits(ix, i, c)
<1> DEFINE name == FoldedName(ix, i)
           path == Folded(PathText(ix.paths[i]))
           exts == {ExtensionClause(e) : e \in {Extensions(c.exts)} \ {{}}}
           types == {TypeClause(t) : t \in c.type}
           paths == {PathClause(Folded(p)) : p \in {Trimmed(c.path, {Space})} \ {<<>>}}
<1>1. PanelClauses(c) = exts \cup types \cup paths
  BY DEF PanelClauses
<1>2. (\A clause \in exts : MatchesClause(ix, i, clause)) <=>
           (FilterForm("ext:", c.exts) => HasExtension(name, c.exts))
  <2>1. c.exts \in Seq(C) /\ name \in Seq(C)
    BY DEF Typable, Searchable, Suited
  <2>2. /\ Extensions(c.exts) # {} <=> \E part \in ToSet(Parts(c.exts, ",")) : Bare(part) # <<>>
        /\ ExtensionsOf(name) \cap Extensions(c.exts) # {} <=> HasExtension(name, c.exts)
    <3> HIDE DEF name
    <3> QED BY <2>1, ExtensionFilter
  <2>3. FilterForm("ext:", c.exts) <=> Extensions(c.exts) # {}
    BY <2>2 DEF FilterForm
  <2>4. MatchesClause(ix, i, ExtensionClause(Extensions(c.exts))) <=>
          ExtensionsOf(name) \cap Extensions(c.exts) # {}
    BY DEF MatchesClause, ExtensionClause
  <2>5. exts = IF Extensions(c.exts) = {} THEN {} ELSE {ExtensionClause(Extensions(c.exts))}
    OBVIOUS
  <2> HIDE DEF exts, name
  <2> QED BY <2>2, <2>3, <2>4, <2>5
<1>3. (\A clause \in types : MatchesClause(ix, i, clause)) <=>
           (c.type = {} \/ ix.records[i].meta.kind \in c.type)
  <2>1. \A t : MatchesClause(ix, i, TypeClause(t)) <=> ix.records[i].meta.kind = t
    BY DEF MatchesClause, TypeClause
  <2>3. c.type = {} \/ \E t : c.type = {t}
    BY DEF Typable
  <2> QED BY <2>1, <2>3
<1>4. (\A clause \in paths : MatchesClause(ix, i, clause)) <=>
           Occurs(Folded(Trimmed(c.path, {Space})), path)
  <2> DEFINE p == Trimmed(c.path, {Space})
  <2>1. CASE p = <<>>
    <3>1. path \in Seq(C)
      BY FoldedText, WideSame DEF Searchable
    <3>2. Occurs(<<>>, path)
      <4> HIDE DEF path
      <4> QED BY <3>1, NothingOccurs
    <3>3. Folded(p) = <<>>
      BY <2>1, FoldedEmpty
    <3>4. paths = {}
      BY <2>1
    <3> QED BY <3>2, <3>3, <3>4
  <2>2. CASE p # <<>>
    <3>1. paths = {PathClause(Folded(p))}
      BY <2>2
    <3>2. MatchesClause(ix, i, PathClause(Folded(p))) <=> Occurs(Folded(p), path)
      BY DEF MatchesClause, PathClause
    <3> HIDE DEF paths, p, path
    <3> QED BY <3>1, <3>2 DEF p
  <2> QED BY <2>1, <2>2
<1> HIDE DEF exts, types, paths
<1>5. (\A clause \in PanelClauses(c) : MatchesClause(ix, i, clause)) <=> PanelFits(ix, i, c)
  BY <1>1, <1>2, <1>3, <1>4 DEF PanelFits
<1> QED BY <1>5

-----------------------------------------------------------------------------
(* What is found                                                           *)

\* A search in one index finds what the query and the filter panel mean, whatever
\* candidates the trigrams leave (search_request).
THEOREM SearchFinds ==
  ASSUME NEW C, ToSet(Letters) \subseteq C, "." \in C, NEW c, Typable(C, c), Documented(c.query),
         NEW ix, Searchable(C, ix), NEW r \in RequestsOf(c)
  PROVE  Found(ix, r) =
           {i \in DOMAIN ix.records : Answers(ix, i, c.query) /\ PanelFits(ix, i, c)}
<1>1. PICK q \in Requests(c.query) : r = [q EXCEPT !.include = @ \cup PanelClauses(c)]
  BY DEF RequestsOf
<1>2. c.query \in Seq(C)
  BY DEF Typable
<1>3. WellFormed(c.query) /\ RequestOf(c.query, q) /\ DOMAIN q = {"include", "exclude"}
  BY <1>1, <1>2, RequestsAre
<1>4. r.include = q.include \cup PanelClauses(c) /\ r.exclude = q.exclude
  BY <1>1, <1>3
<1>5. ASSUME NEW i \in DOMAIN ix.records
      PROVE  MatchesRequest(ix, i, r) <=> Answers(ix, i, c.query) /\ PanelFits(ix, i, c)
  <2>1. Suited(C, ix, i)
    BY DEF Searchable
  <2>2. MatchesRequest(ix, i, q) <=> Answers(ix, i, c.query)
    BY <1>2, <1>3, <2>1, RequestMeans
  <2>3. (\A clause \in PanelClauses(c) : MatchesClause(ix, i, clause)) <=> PanelFits(ix, i, c)
    BY PanelMeans
  <2>4. MatchesRequest(ix, i, r) <=>
          /\ MatchesRequest(ix, i, q)
          /\ \A clause \in PanelClauses(c) : MatchesClause(ix, i, clause)
    BY <1>4 DEF MatchesRequest
  <2> QED BY <2>2, <2>3, <2>4
<1>6. ASSUME NEW clause \in r.include, clause.kind \in NameKinds PROVE clause.text \in Seq(C)
  <2>1. CASE clause \in q.include
    BY <1>2, <1>3, <1>6, <2>1, RequestTexts
  <2>2. CASE clause \in PanelClauses(c)
    BY <1>6, <2>2, PanelKinds
  <2> QED BY <1>4, <2>1, <2>2
<1>7. Found(ix, r) = {i \in DOMAIN ix.records : MatchesRequest(ix, i, r)}
  BY <1>6, FoundAre
<1> QED BY <1>5, <1>7

-----------------------------------------------------------------------------
(* The indexes                                                             *)

\* What is known of a file, of either device
Contents == Metas \cup {Archive[p] : p \in DOMAIN Archive}

LEMMA ContentsAre == ASSUME NEW m \in Contents PROVE IsContent(m)
<1>1. MaxSize \in Nat \ {0}
  BY QueryAssumption
<1>2. CASE m = Dir
  BY <1>1, <1>2 DEF Dir, IsContent
<1>3. ASSUME NEW v \in Versions, m = File(v) PROVE IsContent(m)
  <2>1. IsContent(v)
    BY DesktopAssumption
  <2>2. m.size = v.size /\ m.mtime = v.mtime
    BY <1>3 DEF File
  <2> QED BY <2>1, <2>2 DEF IsContent
<1>4. CASE m \in {Archive[p] : p \in DOMAIN Archive}
  BY <1>4, DesktopAssumption
<1> QED BY <1>2, <1>3, <1>4 DEF Contents, Metas

\* Records, whatever their parents: several events in one batch may leave parents that
\* do not exist.
Entry == [parent : Nat, name : Names \cup {NoName}, meta : Contents]

HasPaths(ix) ==
  /\ ix.records \in Seq(Entry) /\ DOMAIN ix.paths = DOMAIN ix.records
  /\ \A i \in DOMAIN ix.paths : ix.paths[i] \in Path

LEMMA EntriesOf == Seq(Record) \subseteq Seq(Entry)
<1>1. Record \subseteq Entry
  BY DEF Record, Entry, Contents
<1> QED BY <1>1, SeqWider

LEMMA EntryAt ==
  ASSUME NEW records \in Seq(Entry)
  PROVE  /\ DOMAIN records = 1..Len(records) /\ Len(records) \in Nat
         /\ \A i \in DOMAIN records :
              /\ records[i].parent \in Nat /\ records[i].name \in Names \cup {NoName}
              /\ records[i].meta \in Contents
<1>1. DOMAIN records = 1..Len(records) /\ Len(records) \in Nat /\ \A i \in DOMAIN records : records[i] \in Entry
  OBVIOUS
<1> QED BY <1>1 DEF Entry

\* build_path_for makes a path, even where it breaks off.
LEMMA PathForTyped ==
  ASSUME NEW records \in Seq(Entry), NEW i \in DOMAIN records
  PROVE  PathFor(records, i) \in Path
<1> DEFINE path == CHOOSE f : f = Walk(records, f)
<1>1. PathFor(records, i) = path[<<i, 0>>]
  BY DEF PathFor, Walk, NextOnWalk
<1>2. path = Walk(records, path)
  <2>1. \A k \in DOMAIN records : records[k].parent \in Nat
    BY EntryAt
  <2> QED BY <2>1, WalkEnds
<1> HIDE DEF path
<1>3. MaxDepth \in Nat /\ i \in Nat
  BY IndexAssumption, EntryAt
<1> DEFINE T == {m \in Nat : \A k, d \in Nat : d + m > MaxDepth => path[<<k, d>>] \in Path}
<1>4. ASSUME NEW k \in Nat, NEW d \in Nat
      PROVE  \/ path[<<k, d>>] = <<>>
             \/ /\ k \in DOMAIN records /\ ~(d > MaxDepth) /\ records[k].name \in Names
                /\ \/ path[<<k, d>>] = <<records[k].name>>
                   \/ path[<<k, d>>] = Append(path[<<records[k].parent, d + 1>>], records[k].name)
  <2>1. path[<<k, d>>] = NextOnWalk(records, path, k, d)
    BY <1>2, WalkAt
  <2>2. k \in DOMAIN records /\ records[k].name # NoName => records[k].name \in Names
    BY EntryAt
  <2> QED BY <2>1, <2>2 DEF NextOnWalk
<1>5. <<>> \in Path /\ \A n \in Names : <<n>> \in Path
  BY DEF Path
<1>6. 0 \in T
  <2>1. ASSUME NEW k \in Nat, NEW d \in Nat, d + 0 > MaxDepth PROVE path[<<k, d>>] \in Path
    <3>1. d > MaxDepth
      BY <1>3, <2>1
    <3> QED BY <1>4, <1>5, <3>1
  <2> QED BY <2>1
<1>7. ASSUME NEW m \in Nat, m \in T PROVE m + 1 \in T
  <2>1. ASSUME NEW k \in Nat, NEW d \in Nat, d + (m + 1) > MaxDepth PROVE path[<<k, d>>] \in Path
    <3>1. ASSUME k \in DOMAIN records PROVE path[<<records[k].parent, d + 1>>] \in Path
      <4>1. records[k].parent \in Nat /\ d + 1 \in Nat /\ (d + 1) + m > MaxDepth
        BY <1>3, <2>1, <3>1, EntryAt
      <4> QED BY <1>7, <4>1
    <3>2. ASSUME NEW p \in Path, NEW n \in Names PROVE Append(p, n) \in Path
      BY DEF Path
    <3> QED BY <1>4, <1>5, <3>1, <3>2
  <2> QED BY <2>1
<1> HIDE DEF T
<1>8. MaxDepth + 1 \in T
  <2>1. Nat \subseteq T
    BY <1>6, <1>7, ApplyFold!NatSet
  <2> QED BY <1>3, <2>1
<1>9. path[<<i, 0>>] \in Path
  <2>1. 0 \in Nat /\ 0 + (MaxDepth + 1) > MaxDepth
    BY <1>3
  <2> QED BY <1>3, <1>8, <2>1 DEF T
<1> QED BY <1>1, <1>9

LEMMA RebuiltHasPaths == ASSUME NEW records \in Seq(Entry) PROVE HasPaths(Rebuilt(records))
<1>1. Rebuilt(records).records = records
      /\ Rebuilt(records).paths = [i \in DOMAIN records |-> PathFor(records, i)]
  BY DEF Rebuilt
<1> QED BY <1>1, PathForTyped DEF HasPaths

LEMMA CompactedEntries ==
  ASSUME NEW records \in Seq(Entry), NEW keep \in SUBSET (DOMAIN records)
  PROVE  Compacted(records, keep) \in Seq(Entry)
<1> DEFINE new == Compacted(records, keep)
           c   == Cardinality(keep)
           parent(p) == IF p \in keep THEN Cardinality({k \in keep : k <= p}) ELSE RootParent
           old == Kept(keep)
<1>1. DOMAIN records = 1..Len(records) /\ Len(records) \in Nat /\ \A i \in DOMAIN records : records[i] \in Entry
  OBVIOUS
<1>2. /\ c \in Nat
      /\ \A p \in keep : Cardinality({k \in keep : k <= p}) \in 1..c
      /\ \A m \in 1..c : old[m] \in keep
  BY <1>1, KeptNumbers
<1>3. \A p : parent(p) \in Nat
  BY <1>2 DEF RootParent
<1> HIDE DEF parent
<1>4. DOMAIN old = 1..c
  BY DEF Kept
<1>5. new = [m \in 1..c |-> [records[old[m]] EXCEPT !.parent = parent(@)]]
  BY <1>4 DEF Compacted, parent
<1> HIDE DEF new, old, c
<1>6. ASSUME NEW m \in 1..c PROVE [records[old[m]] EXCEPT !.parent = parent(@)] \in Entry
  <2>1. records[old[m]] \in Entry /\ parent(records[old[m]].parent) \in Nat
    BY <1>1, <1>2, <1>3
  <2> QED BY <2>1 DEF Entry
<1>7. new \in [1..c -> Entry]
  BY <1>5, <1>6
<1> QED BY <1>2, <1>7, SeqFrom DEF new

LEMMA FilteredHasPaths ==
  ASSUME NEW ix, HasPaths(ix), NEW rules
  PROVE  HasPaths(FilterIndex(ix, rules))
<1> DEFINE chosen == {i \in DOMAIN ix.records : Allows(rules, ix.paths[i])}
           kept     == {i \in DOMAIN ix.records :
                          i \in chosen \/ \E j \in chosen : i \in Ancestors(ix.records, j)}
<1>1. kept \in SUBSET (DOMAIN ix.records) /\ ix.records \in Seq(Entry)
  BY DEF HasPaths
<1>2. HasPaths(Rebuilt(Compacted(ix.records, kept)))
  <2> HIDE DEF kept
  <2> QED BY <1>1, CompactedEntries, RebuiltHasPaths
<1> QED BY <1>2 DEF FilterIndex

\* An index in the middle of a batch: the paths are those from before.
MidBatch(paths) == [records : Seq(Entry), paths : {paths}, changed : BOOLEAN]

LEMMA RefreshMidBatch ==
  ASSUME NEW paths, NEW ix \in MidBatch(paths), NEW i, NEW m \in Contents
  PROVE  Refresh(ix, i, m) \in MidBatch(paths)
<1>1. ix.records \in Seq(Entry)
  BY DEF MidBatch
<1>2. CASE i \in DOMAIN ix.records
  <2>1. Refresh(ix, i, m) = [ix EXCEPT !.records = [ix.records EXCEPT ![i] = [ix.records[i] EXCEPT !.meta = m]],
                                       !.changed = TRUE]
    BY <1>2 DEF Refresh, MidBatch
  <2>2. [ix.records[i] EXCEPT !.meta = m] \in Entry
    <3>1. ix.records[i] \in Entry
      BY <1>1, <1>2
    <3> QED BY <3>1 DEF Entry
  <2>3. [ix.records EXCEPT ![i] = [ix.records[i] EXCEPT !.meta = m]] \in Seq(Entry)
    <3> HIDE DEF Entry
    <3> QED BY <1>1, <1>2, <2>2, ExceptSeq
  <2> QED BY <2>1, <2>3 DEF MidBatch
<1>3. CASE i \notin DOMAIN ix.records
  BY <1>3 DEF Refresh
<1> QED BY <1>2, <1>3

\* A record that gets its name from a path
LEMMA NewEntry ==
  ASSUME NEW n \in Nat, NEW paths, DOMAIN paths = 1..n, NEW ix \in MidBatch(paths),
         NEW p \in Path, p # <<>>, NEW m \in Contents
  PROVE  RecordOf(Lookup(ix, Front(p)), Last(p), m) \in Entry
<1>1. ix.paths = paths
  BY DEF MidBatch
<1>2. Lookup(ix, Front(p)) \in Nat
  <2>1. Lookup(ix, Front(p)) \in 0..n
    BY <1>1, LookupFinds
  <2> QED BY <2>1
<1>3. Last(p) \in Names
  BY FrontOf
<1> QED BY <1>2, <1>3 DEF RecordOf, Entry

LEMMA AddMidBatch ==
  ASSUME NEW n \in Nat, NEW paths, DOMAIN paths = 1..n, NEW ix \in MidBatch(paths),
         NEW p \in Path, NEW m \in Contents
  PROVE  AddRecord(ix, p, m) \in MidBatch(paths)
<1>1. CASE Lookup(ix, p) # 0
  BY <1>1, RefreshMidBatch DEF AddRecord
<1>2. CASE Lookup(ix, p) = 0 /\ p = <<>>
  BY <1>2 DEF AddRecord
<1>3. CASE Lookup(ix, p) = 0 /\ p # <<>>
  <2> DEFINE r == RecordOf(Lookup(ix, Front(p)), Last(p), m)
  <2>1. r \in Entry
    BY <1>3, NewEntry
  <2> HIDE DEF r
  <2>2. AddRecord(ix, p, m) = [ix EXCEPT !.records = Append(ix.records, r), !.changed = TRUE]
    BY <1>3 DEF AddRecord, r, MidBatch
  <2>3. Append(ix.records, r) \in Seq(Entry)
    BY <2>1 DEF MidBatch
  <2> QED BY <2>2, <2>3 DEF MidBatch
<1> QED BY <1>1, <1>2, <1>3

LEMMA RenameMidBatch ==
  ASSUME NEW n \in Nat, NEW paths, DOMAIN paths = 1..n, NEW ix \in MidBatch(paths), NEW i,
         NEW p \in Path, NEW m \in Contents
  PROVE  RenameRecord(ix, i, p, m) \in MidBatch(paths)
<1>1. CASE p = <<>> \/ i \notin DOMAIN ix.records
  BY <1>1 DEF RenameRecord
<1>2. CASE p # <<>> /\ i \in DOMAIN ix.records
  <2> DEFINE r == RecordOf(Lookup(ix, Front(p)), Last(p), m)
  <2>1. r \in Entry
    BY <1>2, NewEntry
  <2> HIDE DEF r
  <2>2. RenameRecord(ix, i, p, m) = [ix EXCEPT !.records = [ix.records EXCEPT ![i] = r], !.changed = TRUE]
    BY <1>2 DEF RenameRecord, r, MidBatch
  <2>3. [ix.records EXCEPT ![i] = r] \in Seq(Entry)
    BY <1>2, <2>1, ExceptSeq DEF MidBatch
  <2> QED BY <2>2, <2>3 DEF MidBatch
<1> QED BY <1>1, <1>2

LEMMA RemoveMidBatch ==
  ASSUME NEW paths, NEW ix \in MidBatch(paths), NEW i
  PROVE  RemoveSubtree(ix, i) \in MidBatch(paths)
<1> DEFINE left == DOMAIN ix.records \ Subtree(ix.records, i)
           new  == Compacted(ix.records, left)
<1>1. new \in Seq(Entry)
  <2>1. left \in SUBSET (DOMAIN ix.records) /\ ix.records \in Seq(Entry)
    BY DEF MidBatch
  <2> HIDE DEF left
  <2> QED BY <2>1, CompactedEntries
<1>2. CASE i \in DOMAIN ix.records
  <2>1. RemoveSubtree(ix, i) = [ix EXCEPT !.records = new, !.changed = TRUE]
    BY <1>2 DEF RemoveSubtree, MidBatch
  <2> HIDE DEF new
  <2> QED BY <1>1, <2>1 DEF MidBatch
<1>3. CASE i \notin DOMAIN ix.records
  BY <1>3 DEF RemoveSubtree
<1> QED BY <1>2, <1>3

LEMMA ApplyMidBatch ==
  ASSUME NEW n \in Nat, NEW paths, DOMAIN paths = 1..n, NEW ix \in MidBatch(paths), NEW e \in LiveType
  PROVE  ApplyEvent(ix, e) \in MidBatch(paths)
<1>1. e.kind \in {"created", "removed", "metadata", "renamed"} /\ e.path \in Path
      /\ (e.kind # "removed" => e.meta \in Contents)
  BY DEF LiveType, Event, Contents
<1>2. CASE e.kind = "created"
  BY <1>1, <1>2, AddMidBatch DEF ApplyEvent
<1>3. CASE e.kind = "removed"
  BY <1>3, RemoveMidBatch DEF ApplyEvent
<1>4. CASE e.kind = "renamed"
  BY <1>1, <1>4, AddMidBatch, RenameMidBatch DEF ApplyEvent
<1>5. CASE e.kind = "metadata"
  BY <1>1, <1>5, RefreshMidBatch DEF ApplyEvent
<1> QED BY <1>1, <1>2, <1>3, <1>4, <1>5

LEMMA CollapsedEvents ==
  ASSUME NEW out \in Seq(Event), NEW e \in Event
  PROVE  CollapseOne(out, e) \in Seq(Event)
<1> DEFINE k == LastOf({k \in DOMAIN out : out[k].kind = "renamed" /\ out[k].path = e.old})
           f == [out[k] EXCEPT !.path = e.path, !.meta = e.meta]
<1> HIDE DEF k
<1>1. Append(out, e) \in Seq(Event)
  OBVIOUS
<1>2. CASE k \in DOMAIN out
  <2>1. f \in Event
    <3>1. out[k] \in Event
      BY <1>2
    <3> QED BY <3>1 DEF Event
  <2>2. [out EXCEPT ![k] = f] \in Seq(Event)
    <3> HIDE DEF f
    <3> QED BY <1>2, <2>1, ExceptSeq
  <2>3. [out EXCEPT ![k].path = e.path, ![k].meta = e.meta] = [out EXCEPT ![k] = f]
    <3>1. out[k] \in Event
      BY <1>2
    <3> QED BY <1>2, <3>1 DEF Event
  <2> QED BY <1>1, <2>2, <2>3 DEF CollapseOne, k
<1>3. CASE k \notin DOMAIN out
  <2>1. [out EXCEPT ![k].path = e.path, ![k].meta = e.meta] = out
    BY <1>3
  <2> QED BY <1>1, <2>1 DEF CollapseOne, k
<1> QED BY <1>2, <1>3

LEMMA CoalescedEvents ==
  ASSUME NEW out \in Seq(Event), NEW e \in Event
  PROVE  CoalesceOne(out, e) \in Seq(Event)
<1> DEFINE k == LastOf({k \in DOMAIN out : out[k].path = e.path /\ out[k].kind \in Supersedes(e.kind)})
           f == [out[k] EXCEPT !.meta = e.meta]
<1> HIDE DEF k
<1>1. Append(out, e) \in Seq(Event)
  OBVIOUS
<1>2. CASE k \in DOMAIN out
  <2>1. f \in Event
    <3>1. out[k] \in Event
      BY <1>2
    <3> QED BY <3>1 DEF Event
  <2>2. [out EXCEPT ![k] = f] \in Seq(Event) /\ [out EXCEPT ![k] = e] \in Seq(Event)
    <3> HIDE DEF f
    <3> QED BY <1>2, <2>1, ExceptSeq
  <2>3. [out EXCEPT ![k].meta = e.meta] = [out EXCEPT ![k] = f]
    OBVIOUS
  <2> QED BY <1>1, <2>2, <2>3 DEF CoalesceOne, k
<1>3. CASE k \notin DOMAIN out
  <2>1. [out EXCEPT ![k].meta = e.meta] = out /\ [out EXCEPT ![k] = e] = out
    BY <1>3
  <2> QED BY <1>1, <2>1 DEF CoalesceOne, k
<1> QED BY <1>2, <1>3

LEMMA BatchCoalesced ==
  ASSUME NEW events \in Seq(Event)
  PROVE  Coalesced(events) \in Seq(Event)
<1>1. <<>> \in Seq(Event)
  OBVIOUS
<1>2. CollapseFold!Fold(0, <<>>, events) \in Seq(Event)
  BY <1>1, CollapsedEvents, CollapseFold!FoldKeeps
<1>3. ASSUME NEW s \in Seq(Event) PROVE CoalesceFold!Fold(0, <<>>, s) \in Seq(Event)
  BY <1>1, CoalescedEvents, CoalesceFold!FoldKeeps
<1> QED BY <1>2, <1>3, Folds DEF Coalesced

\* A batch, of whatever events
LEMMA BatchHasPaths ==
  ASSUME NEW ix, HasPaths(ix), NEW rules, NEW events \in Seq(Event)
  PROVE  HasPaths(ApplyBatch(ix, rules, events))
<1> DEFINE live  == LiveEvents(rules, Coalesced(events))
           start == [records |-> ix.records, paths |-> ix.paths, changed |-> FALSE]
           after == FoldLeft(ApplyEvent, start, live)
<1>1. live \in Seq(LiveType)
  BY BatchCoalesced, LiveEventsTyped
<1>2. start \in MidBatch(ix.paths)
  BY DEF HasPaths, MidBatch
<1>3. Len(ix.records) \in Nat /\ DOMAIN ix.paths = 1..Len(ix.records)
  BY EntryAt DEF HasPaths
<1> HIDE DEF live, start
<1>4. ApplyFold!Fold(0, start, live) \in MidBatch(ix.paths)
  <2>1. \A x \in MidBatch(ix.paths), e \in LiveType : ApplyEvent(x, e) \in MidBatch(ix.paths)
    BY <1>3, ApplyMidBatch
  <2> QED BY <1>1, <1>2, <2>1, ApplyFold!FoldKeeps
<1>5. after \in MidBatch(ix.paths)
  BY <1>4, Folds
<1>6. ApplyBatch(ix, rules, events) = IF after.changed THEN Rebuilt(after.records) ELSE ix
  BY DEF ApplyBatch, ApplyEvents, live, start
<1> HIDE DEF after
<1>7. HasPaths(Rebuilt(after.records))
  BY <1>5, RebuiltHasPaths DEF MidBatch
<1> QED BY <1>6, <1>7

\* An index can be searched whatever batch was applied to it.
LEMMA IndexSearchable ==
  ASSUME NEW C, ToSet(Letters) \subseteq C, NEW ix, HasPaths(ix)
  PROVE  Searchable(C, ix)
<1> SUFFICES ASSUME NEW i \in DOMAIN ix.records
             PROVE  Suited(C, ix, i) /\ PathText(ix.paths[i]) \in Seq(C)
  BY DEF Searchable
<1>1. /\ ix.records[i].name \in Names \cup {NoName}
      /\ ix.records[i].meta \in Contents
      /\ ix.paths[i] \in Seq(Names)
  BY EntryAt DEF HasPaths, Path
<1>2. IsContent(ix.records[i].meta)
  BY <1>1, ContentsAre
<1>3. FoldedName(ix, i) \in Seq(C)
  <2>1. CASE ix.records[i].name \in Names
    <3>1. Spelling[ix.records[i].name] \in Seq(ToSet(Letters))
      BY <2>1, SearchAssumption
    <3>2. Seq(ToSet(Letters)) \subseteq Seq(C)
      BY SeqWider
    <3>3. Folded(Spelling[ix.records[i].name]) \in Seq(C)
      BY <3>1, <3>2, FoldedText, WideSame
    <3> QED BY <2>1, <3>3 DEF FoldedName
  <2>2. CASE ix.records[i].name \notin Names
    <3>1. <<>> \in Seq(C)
      OBVIOUS
    <3> QED BY <2>2, <3>1 DEF FoldedName
  <2> QED BY <2>1, <2>2
<1>4. PathText(ix.paths[i]) \in Seq(C)
  BY <1>1, PathTyped
<1> QED BY <1>2, <1>3, <1>4 DEF Suited, IsContent

\* A scan yields a record of every file of a device.
LEMMA ScannedEntries ==
  ASSUME NEW files, DOMAIN files \subseteq Path, IsFiniteSet(DOMAIN files),
         \A p \in DOMAIN files : files[p] \in Contents /\ (p # <<>> => Front(p) \in DOMAIN files),
         NEW order, Enumerates(order, DOMAIN files)
  PROVE  HasPaths(Scanned(files, order))
<1> DEFINE n == Cardinality(DOMAIN files)
           number(p) == CHOOSE i \in DOMAIN order : order[i] = p
           records == ScanRecords(files, order)
<1>1. n \in Nat
  BY FS_CardinalityType
<1>2. order \in [1..n -> DOMAIN files] /\ DOMAIN order = 1..n /\ \A i, j \in 1..n : order[i] = order[j] => i = j
  BY DEF Enumerates
<1> HIDE DEF n
<1>3. order \in Injection(1..n, DOMAIN files)
  BY <1>2 DEF Injection, IsInjective
<1>4. order \in Surjection(1..n, DOMAIN files)
  <2>1. Cardinality(1..n) = n
    BY <1>1, FS_Interval
  <2> QED BY <1>1, <1>3, <2>1, FS_Injection DEF n
<1>5. \A p \in DOMAIN files : number(p) \in 1..n
  BY <1>2, <1>4 DEF Surjection
<1> HIDE DEF number
<1>6. records = [i \in 1..n |->
         IF order[i] = <<>> THEN RecordOf(RootParent, NoName, files[<<>>])
         ELSE RecordOf(number(Front(order[i])), Last(order[i]), files[order[i]])]
  BY <1>2 DEF ScanRecords, number
<1> HIDE DEF records
<1>7. ASSUME NEW i \in 1..n
      PROVE  (IF order[i] = <<>> THEN RecordOf(RootParent, NoName, files[<<>>])
              ELSE RecordOf(number(Front(order[i])), Last(order[i]), files[order[i]])) \in Entry
  <2>1. order[i] \in DOMAIN files /\ order[i] \in Path
    BY <1>2
  <2>2. CASE order[i] = <<>>
    BY <2>1, <2>2 DEF RecordOf, Entry, RootParent
  <2>3. CASE order[i] # <<>>
    <3>1. Last(order[i]) \in Names
      BY <2>1, <2>3, FrontOf
    <3>2. number(Front(order[i])) \in Nat
      BY <1>5, <2>1, <2>3
    <3> QED BY <2>1, <2>3, <3>1, <3>2 DEF RecordOf, Entry
  <2> QED BY <2>2, <2>3
<1>8. records \in [1..n -> Entry]
  BY <1>6, <1>7
<1>9. records \in Seq(Entry)
  BY <1>1, <1>8, SeqFrom
<1> QED BY <1>9, ScannedIs, RebuiltHasPaths DEF records

LEMMA TreeHasPaths ==
  ASSUME IsTree(tree), NEW order \in ScanOrders(tree), NEW rules
  PROVE  HasPaths(FilterIndex(Scanned(tree, order), rules))
<1>1. Enumerates(order, DOMAIN tree)
  BY ScanOrdersEnumerate
<1>2. /\ DOMAIN tree \subseteq Path /\ IsFiniteSet(DOMAIN tree)
      /\ \A p \in DOMAIN tree : tree[p] \in Contents /\ (p # <<>> => Front(p) \in DOMAIN tree)
  BY DEF IsTree, Path, Contents
<1>3. HasPaths(Scanned(tree, order))
  BY <1>1, <1>2, ScannedEntries
<1> QED BY <1>3, FilteredHasPaths

LEMMA ArchiveHasPaths == HasPaths(ArchiveIndex)
<1>1. /\ DOMAIN Archive \subseteq Path /\ IsFiniteSet(DOMAIN Archive)
      /\ \A p \in DOMAIN Archive : Archive[p] \in Contents /\ (p # <<>> => Front(p) \in DOMAIN Archive)
  BY DesktopAssumption DEF Path, Contents
<1>2. Enumerates(SetToSeq(DOMAIN Archive), DOMAIN Archive)
  BY <1>1, SetListed
<1> QED BY <1>1, <1>2, ScannedEntries DEF ArchiveIndex

LEMMA IndexesAre ==
  ASSUME HasPaths(index), NEW d
  PROVE  HasPaths(IndexOf(d))
BY ArchiveHasPaths DEF IndexOf

LEMMA PathsUnderDesktopInit == DesktopInit => FilesInv /\ HasPaths(index)
<1> SUFFICES ASSUME DesktopInit PROVE HasPaths(index)
  BY UpdatesUnderDesktopInit DEF UpdatesInv, LiveInv
<1>1. IsTree(tree)
  BY UpdatesUnderDesktopInit DEF UpdatesInv, LiveInv, FilesInv
<1>2. PICK order \in ScanOrders(tree) : index = FilterIndex(Scanned(tree, order), scenario.rules)
  BY DEF DesktopInit, Init
<1> QED BY <1>1, <1>2, TreeHasPaths

LEMMA PathsUnderDesktop ==
  ASSUME FilesInv, HasPaths(index), [DesktopNext]_allVars
  PROVE  FilesInv' /\ HasPaths(index')
<1>1. CASE UNCHANGED vars
  BY <1>1, FilesInvKept DEF vars
<1>2. ASSUME NEW d \in Devices, ScanEnds(d) PROVE FilesInv' /\ HasPaths(index')
  <2>1. FilesInv'
    BY <1>2, FilesInvKept DEF ScanEnds
  <2>2. CASE d = Watched
    <3>1. PICK order \in ScanOrders(tree) : index' = FilterIndex(Scanned(tree, order), scenario.rules)
      BY <1>2, <2>2 DEF ScanEnds
    <3> QED BY <2>1, <3>1, TreeHasPaths DEF FilesInv
  <2>3. CASE d # Watched
    BY <1>2, <2>1, <2>3 DEF ScanEnds
  <2> QED BY <2>2, <2>3
<1>3. CASE FilesNext
  <2>1. UNCHANGED index
    BY <1>3, ReportsTyped
  <2> QED BY <1>3, <2>1, FilesInvStep
<1>4. CASE Callback
  BY <1>4, FilesInvStep DEF Callback
<1>5. CASE Apply
  BY <1>5, FilesInvStep, BatchHasPaths DEF Apply, FilesInv
<1> QED BY <1>1, <1>2, <1>3, <1>4, <1>5, DesktopMoves

-----------------------------------------------------------------------------
(* The order of the hits                                                   *)

\* What comes before the device and the number of the record in a key
KeyHead(ix, i, key, request) ==
  LET name == Codes(FoldedName(ix, i)) \o <<0>>
      path == Codes(PathText(ix.paths[i])) \o <<0>>
  IN  CASE key = "relevance" -> Relevance(ix, i, request) \o name
        [] key = "name"      -> name
        [] key = "path"      -> path
        [] key = "size"      -> <<ix.records[i].meta.size>> \o name
        [] key = "mtime"     -> <<ix.records[i].meta.mtime>> \o name

SortKeys == {"relevance", "name", "path", "size", "mtime"}

LEMMA SortKeyIs ==
  ASSUME NEW indexes, NEW hit, NEW key, NEW request
  PROVE  SortKey(indexes, hit, key, request) =
           KeyHead(indexes[hit.device], hit.record, key, request) \o <<hit.device, hit.record>>
BY DEF SortKey, KeyHead

LEMMA NamesAreCodes ==
  ASSUME NEW ix, HasPaths(ix), NEW i \in DOMAIN ix.records
  PROVE  /\ FoldedName(ix, i) \in Seq(ToSet(Letters)) /\ PathText(ix.paths[i]) \in Seq(ToSet(Letters))
         /\ Codes(FoldedName(ix, i)) \in Seq(Nat \ {0}) /\ Codes(PathText(ix.paths[i])) \in Seq(Nat \ {0})
         /\ ix.records[i].meta.size \in Nat /\ ix.records[i].meta.mtime \in Nat
<1>1. Searchable(ToSet(Letters), ix)
  BY IndexSearchable
<1>2. /\ FoldedName(ix, i) \in Seq(ToSet(Letters)) /\ PathText(ix.paths[i]) \in Seq(ToSet(Letters))
      /\ ix.records[i].meta.size \in 0..(MaxSize - 1) /\ ix.records[i].meta.mtime \in Nat
  BY <1>1 DEF Searchable, Suited
<1>3. ix.records[i].meta.size \in Nat
  BY <1>2, QueryAssumption
<1> QED BY <1>2, <1>3, CodesAre

LEMMA RelevanceIs ==
  ASSUME NEW ix, HasPaths(ix), NEW i \in DOMAIN ix.records, NEW request
  PROVE  /\ Relevance(ix, i, request) \in Seq(Nat) /\ Len(Relevance(ix, i, request)) = 4
         /\ Relevance(ix, i, request)[1] = MatchScore(FoldedName(ix, i), request)
<1>1. MatchScore(FoldedName(ix, i), request) \in Nat
  BY MatchScores
<1>2. RecencyBucket(ix.records[i].meta.mtime) \in Nat
  BY NamesAreCodes, Recency
<1>3. Len(BytesOf(FoldedName(ix, i))) \in Nat
  BY NamesAreCodes, BytesTyped
<1>4. Len(ix.paths[i]) \in Nat
  <2>1. ix.paths[i] \in Path
    BY DEF HasPaths
  <2> QED BY <2>1 DEF Path
<1> QED BY <1>1, <1>2, <1>3, <1>4 DEF Relevance

LEMMA KeyHeadTyped ==
  ASSUME NEW ix, HasPaths(ix), NEW i \in DOMAIN ix.records, NEW key \in SortKeys, NEW request
  PROVE  KeyHead(ix, i, key, request) \in Seq(Nat)
<1> DEFINE name == Codes(FoldedName(ix, i)) \o <<0>>
           path == Codes(PathText(ix.paths[i])) \o <<0>>
<1>1. \A s \in Seq(Nat \ {0}) : s \o <<0>> \in Seq(Nat)
  <2>1. Seq(Nat \ {0}) \subseteq Seq(Nat)
    BY SeqWider
  <2> QED BY <2>1
<1>2. name \in Seq(Nat) /\ path \in Seq(Nat)
  BY <1>1, NamesAreCodes
<1>3. <<ix.records[i].meta.size>> \in Seq(Nat) /\ <<ix.records[i].meta.mtime>> \in Seq(Nat)
  BY NamesAreCodes
<1>4. Relevance(ix, i, request) \in Seq(Nat)
  BY RelevanceIs
<1>5. KeyHead(ix, i, key, request) =
        CASE key = "relevance" -> Relevance(ix, i, request) \o name
          [] key = "name"      -> name
          [] key = "path"      -> path
          [] key = "size"      -> <<ix.records[i].meta.size>> \o name
          [] key = "mtime"     -> <<ix.records[i].meta.mtime>> \o name
  BY DEF KeyHead
<1>6. \A s, t \in Seq(Nat) : s \o t \in Seq(Nat)
  OBVIOUS
<1> HIDE DEF name, path
<1>7. CASE key = "relevance"
  BY <1>2, <1>4, <1>5, <1>6, <1>7
<1>8. CASE key = "name"
  BY <1>2, <1>5, <1>8
<1>9. CASE key = "path"
  BY <1>2, <1>5, <1>9
<1>10. CASE key = "size"
  BY <1>2, <1>3, <1>5, <1>6, <1>10
<1>11. CASE key = "mtime"
  BY <1>2, <1>3, <1>5, <1>6, <1>11
<1> QED BY <1>7, <1>8, <1>9, <1>10, <1>11 DEF SortKeys

LEMMA SortKeyTyped ==
  ASSUME NEW indexes, NEW hit, hit.device \in Nat, HasPaths(indexes[hit.device]),
         hit.record \in DOMAIN indexes[hit.device].records, NEW key \in SortKeys, NEW request
  PROVE  SortKey(indexes, hit, key, request) \in Seq(Nat)
<1>1. KeyHead(indexes[hit.device], hit.record, key, request) \in Seq(Nat)
  BY KeyHeadTyped
<1>2. hit.record \in Nat
  <2>1. DOMAIN indexes[hit.device].records \subseteq Nat
    BY EntryAt DEF HasPaths
  <2> QED BY <2>1
<1>3. <<hit.device, hit.record>> \in Seq(Nat)
  BY <1>2
<1>4. \A s, t \in Seq(Nat) : s \o t \in Seq(Nat)
  OBVIOUS
<1> QED BY <1>1, <1>3, <1>4, SortKeyIs

\* What the user means by the order (Desktop.Precedes), of two records
Before(ix, i, iy, j, key) ==
  LET less(s, t) == LexLess(Codes(s), Codes(t))
  IN  CASE key = "size"  -> ix.records[i].meta.size < iy.records[j].meta.size
        [] key = "mtime" -> ix.records[i].meta.mtime < iy.records[j].meta.mtime
        [] key = "name"  -> less(FoldedName(ix, i), FoldedName(iy, j))
        [] key = "path"  -> less(PathText(ix.paths[i]), PathText(iy.paths[j]))
        [] key = "relevance" -> FALSE

\* The keys are in the order that is meant.
LEMMA KeysInOrder ==
  ASSUME NEW ix, HasPaths(ix), NEW i \in DOMAIN ix.records,
         NEW iy, HasPaths(iy), NEW j \in DOMAIN iy.records,
         NEW key \in SortKeys, NEW request, NEW u \in Seq(Nat), NEW v \in Seq(Nat),
         Before(ix, i, iy, j, key)
  PROVE  LexLess(KeyHead(ix, i, key, request) \o u, KeyHead(iy, j, key, request) \o v)
<1> DEFINE nx == Codes(FoldedName(ix, i))
           ny == Codes(FoldedName(iy, j))
           px == Codes(PathText(ix.paths[i]))
           py == Codes(PathText(iy.paths[j]))
           sx == ix.records[i].meta.size
           sy == iy.records[j].meta.size
           mx == ix.records[i].meta.mtime
           my == iy.records[j].meta.mtime
<1>1. /\ nx \in Seq(Nat \ {0}) /\ ny \in Seq(Nat \ {0}) /\ px \in Seq(Nat \ {0}) /\ py \in Seq(Nat \ {0})
      /\ sx \in Nat /\ sy \in Nat /\ mx \in Nat /\ my \in Nat
  BY NamesAreCodes
<1>2. /\ key = "size"  => KeyHead(ix, i, key, request) = <<sx>> \o (nx \o <<0>>)
                           /\ KeyHead(iy, j, key, request) = <<sy>> \o (ny \o <<0>>)
      /\ key = "mtime" => KeyHead(ix, i, key, request) = <<mx>> \o (nx \o <<0>>)
                           /\ KeyHead(iy, j, key, request) = <<my>> \o (ny \o <<0>>)
      /\ key = "name"  => KeyHead(ix, i, key, request) = nx \o <<0>> /\ KeyHead(iy, j, key, request) = ny \o <<0>>
      /\ key = "path"  => KeyHead(ix, i, key, request) = px \o <<0>> /\ KeyHead(iy, j, key, request) = py \o <<0>>
  BY DEF KeyHead
<1>3. /\ key = "size"  => sx < sy
      /\ key = "mtime" => mx < my
      /\ key = "name"  => LexLess(nx, ny)
      /\ key = "path"  => LexLess(px, py)
      /\ key # "relevance"
  BY DEF Before
<1>4. ASSUME NEW a \in Nat, NEW b \in Nat, a < b
      PROVE  LexLess((<<a>> \o (nx \o <<0>>)) \o u, (<<b>> \o (ny \o <<0>>)) \o v)
  <2>1. nx \o <<0>> \in Seq(Nat) /\ ny \o <<0>> \in Seq(Nat)
    <3>1. Seq(Nat \ {0}) \subseteq Seq(Nat)
      BY SeqWider
    <3>2. nx \in Seq(Nat) /\ ny \in Seq(Nat)
      BY <1>1, <3>1
    <3> HIDE DEF nx, ny
    <3> QED BY <3>2
  <2> DEFINE ex == nx \o <<0>>
             ey == ny \o <<0>>
  <2> HIDE DEF ex, ey
  <2>2. ex \in Seq(Nat) /\ ey \in Seq(Nat)
    BY <2>1 DEF ex, ey
  <2>3. (<<a>> \o ex) \o u = <<a>> \o (ex \o u) /\ (<<b>> \o ey) \o v = <<b>> \o (ey \o v)
    <3> DEFINE N == Nat
    <3> HIDE DEF N
    <3>1. ex \in Seq(N) /\ ey \in Seq(N) /\ u \in Seq(N) /\ v \in Seq(N) /\ a \in N /\ b \in N
      BY <2>2 DEF N
    <3> QED BY <3>1, Prepended
  <2>4. ex \o u \in Seq(Nat) /\ ey \o v \in Seq(Nat)
    BY <2>2
  <2>5. LexLess(<<a>> \o (ex \o u), <<b>> \o (ey \o v))
    BY <1>4, <2>4, FirstNumber
  <2> QED BY <2>3, <2>5 DEF ex, ey
<1> HIDE DEF nx, ny, px, py, sx, sy, mx, my
<1>5. CASE key = "size"
  BY <1>1, <1>2, <1>3, <1>4, <1>5
<1>6. CASE key = "mtime"
  BY <1>1, <1>2, <1>3, <1>4, <1>6
<1>7. CASE key = "name"
  BY <1>1, <1>2, <1>3, <1>7, Ended
<1>8. CASE key = "path"
  BY <1>1, <1>2, <1>3, <1>8, Ended
<1> QED BY <1>3, <1>5, <1>6, <1>7, <1>8 DEF SortKeys

-----------------------------------------------------------------------------
(* What a search over several devices yields                               *)

\* The indexes that are searched
Served(indexes) == DOMAIN indexes \subseteq Devices /\ \A d \in DOMAIN indexes : HasPaths(indexes[d])

LEMMA HitsAre ==
  ASSUME NEW indexes, Served(indexes), NEW scope, NEW r
  PROVE  /\ IsFiniteSet(Hits(indexes, scope, r))
         /\ \A h : h \in Hits(indexes, scope, r) <=>
              \E d \in DOMAIN indexes : /\ scope = {} \/ d \in scope
                                        /\ \E i \in Found(indexes[d], r) : h = Hit(d, i)
<1> DEFINE D == IF scope = {} THEN DOMAIN indexes ELSE DOMAIN indexes \cap scope
           of(d) == {Hit(d, i) : i \in Found(indexes[d], r)}
<1>1. Hits(indexes, scope, r) = UNION {of(d) : d \in D}
  BY DEF Hits
<1>2. ASSUME NEW d \in D PROVE IsFiniteSet(of(d))
  <2>1. Found(indexes[d], r) \subseteq DOMAIN indexes[d].records
    BY DEF Found, Candidates
  <2>2. DOMAIN indexes[d].records = 1..Len(indexes[d].records) /\ Len(indexes[d].records) \in Nat
    BY EntryAt DEF Served, HasPaths
  <2>3. IsFiniteSet(1..Len(indexes[d].records))
    BY <2>2, FS_Interval
  <2>4. IsFiniteSet(Found(indexes[d], r))
    BY <2>1, <2>2, <2>3, FS_Subset
  <2>5. [i \in Found(indexes[d], r) |-> Hit(d, i)] \in Surjection(Found(indexes[d], r), of(d))
    BY DEF Surjection
  <2> QED BY <2>4, <2>5, FS_Surjection
<1> DEFINE part(d) == IF d \in D THEN of(d) ELSE {}
<1>3. \A d : IsFiniteSet(part(d))
  <2> HIDE DEF of, D
  <2> QED BY <1>2, FS_EmptySet
<1>4. UNION {of(d) : d \in D} = part(1) \cup part(2)
  <2>1. D \subseteq {1, 2}
    BY DEF Served, Devices, Watched
  <2> HIDE DEF of, D
  <2>2. 1 \in D \/ D \subseteq {2}
    BY <2>1
  <2> QED BY <2>1
<1>5. IsFiniteSet(UNION {of(d) : d \in D})
  <2> HIDE DEF part, of, D
  <2>1. IsFiniteSet(part(1)) /\ IsFiniteSet(part(2))
    BY <1>3
  <2> QED BY <1>4, <2>1, FS_Union
<1>6. \A h : h \in UNION {of(d) : d \in D} <=> \E d \in D : \E i \in Found(indexes[d], r) : h = Hit(d, i)
  OBVIOUS
<1>7. \A d : d \in D <=> d \in DOMAIN indexes /\ (scope = {} \/ d \in scope)
  BY DEF D
<1> QED BY <1>1, <1>5, <1>6, <1>7

LEMMA HitAt ==
  ASSUME NEW indexes, Served(indexes), NEW scope, NEW r, NEW h \in Hits(indexes, scope, r)
  PROVE  /\ h.device \in DOMAIN indexes /\ h.device \in Nat /\ HasPaths(indexes[h.device])
         /\ h.record \in DOMAIN indexes[h.device].records /\ h.record \in Nat
         /\ h = Hit(h.device, h.record)
<1>1. PICK d \in DOMAIN indexes : \E i \in Found(indexes[d], r) : h = Hit(d, i)
  BY HitsAre
<1>2. PICK i \in Found(indexes[d], r) : h = Hit(d, i)
  BY <1>1
<1>3. h.device = d /\ h.record = i /\ h = Hit(h.device, h.record)
  BY <1>2 DEF Hit
<1>4. i \in DOMAIN indexes[d].records
  BY <1>2 DEF Found, Candidates
<1>5. HasPaths(indexes[d]) /\ d \in Nat
  BY DEF Served, Devices, Watched
<1>6. i \in Nat
  <2>1. DOMAIN indexes[d].records \subseteq Nat
    BY <1>5, EntryAt DEF HasPaths
  <2> QED BY <1>4, <2>1
<1> QED BY <1>3, <1>4, <1>5, <1>6

LEMMA HitKeys ==
  ASSUME NEW indexes, Served(indexes), NEW scope, NEW r, NEW key \in SortKeys,
         NEW g \in Hits(indexes, scope, r), NEW h \in Hits(indexes, scope, r)
  PROVE  /\ SortKey(indexes, g, key, r) \in Seq(Nat)
         /\ SortKey(indexes, g, key, r) = SortKey(indexes, h, key, r) => g = h
<1>1. /\ g.device \in Nat /\ HasPaths(indexes[g.device]) /\ g.record \in DOMAIN indexes[g.device].records
      /\ g.record \in Nat /\ g = Hit(g.device, g.record)
  BY HitAt
<1>2. /\ h.device \in Nat /\ HasPaths(indexes[h.device]) /\ h.record \in DOMAIN indexes[h.device].records
      /\ h.record \in Nat /\ h = Hit(h.device, h.record)
  BY HitAt
<1>3. SortKey(indexes, g, key, r) \in Seq(Nat)
  BY <1>1, SortKeyTyped
<1> DEFINE s == KeyHead(indexes[g.device], g.record, key, r)
           t == KeyHead(indexes[h.device], h.record, key, r)
<1>4. s \in Seq(Nat) /\ t \in Seq(Nat)
  BY <1>1, <1>2, KeyHeadTyped
<1>5. /\ SortKey(indexes, g, key, r) = Two(s, g.device, g.record)
      /\ SortKey(indexes, h, key, r) = Two(t, h.device, h.record)
  BY SortKeyIs DEF Two
<1> HIDE DEF s, t
<1>6. SortKey(indexes, g, key, r) = SortKey(indexes, h, key, r) => g.device = h.device /\ g.record = h.record
  <2> DEFINE x == Two(s, g.device, g.record)
             y == Two(t, h.device, h.record)
  <2>1. x[Len(x) - 1] = g.device /\ x[Len(x)] = g.record
    BY <1>1, <1>4, TwoEnd
  <2>2. y[Len(y) - 1] = h.device /\ y[Len(y)] = h.record
    BY <1>2, <1>4, TwoEnd
  <2> HIDE DEF x, y
  <2>3. x = y => g.device = h.device /\ g.record = h.record
    BY <2>1, <2>2
  <2> QED BY <1>5, <2>3 DEF x, y
<1> QED BY <1>1, <1>2, <1>3, <1>6

\* All hits, each once, in the order of their keys, or in the reverse order
Ranked(indexes, H, s, request, key, desc) ==
  /\ Cardinality(H) \in Nat /\ s \in Seq(H) /\ Len(s) = Cardinality(H)
  /\ \A m, n \in 1..Len(s) : s[m] = s[n] => m = n
  /\ \A h \in H : \E n \in 1..Len(s) : s[n] = h
  /\ \A m, n \in 1..Len(s) :
       m < n => IF desc THEN LexLess(SortKey(indexes, s[n], key, request), SortKey(indexes, s[m], key, request))
                ELSE LexLess(SortKey(indexes, s[m], key, request), SortKey(indexes, s[n], key, request))

\* merge_search_request puts all hits of the devices that are searched, each once,
\* into the order of compare_hits, or into the reverse order.
THEOREM MergeIs ==
  ASSUME NEW indexes, Served(indexes), NEW scope, NEW r, NEW key \in SortKeys, NEW desc \in BOOLEAN
  PROVE  Ranked(indexes, Hits(indexes, scope, r), MergeSearch(indexes, scope, r, key, desc), r, key, desc)
<1> DEFINE H == Hits(indexes, scope, r)
           keys == Keyed(indexes, H, r, key)
           list == InOrderOf(keys)
           N == Cardinality(H)
           k(h) == SortKey(indexes, h, key, r)
<1>1. IsFiniteSet(H)
  BY HitsAre
<1>2. DOMAIN keys = H /\ \A h \in H : keys[h] = k(h)
  BY DEF Keyed
<1>3. \A g, h \in H : k(g) \in Seq(Nat) /\ (k(g) = k(h) => g = h)
  BY HitKeys
<1> HIDE DEF keys, H, k
<1>4. /\ N \in Nat
      /\ list \in Bijection(1..N, H)
      /\ \A m, n \in 1..N : m < n => LexLess(keys[list[m]], keys[list[n]])
  <2>1. \A h \in H : keys[h] \in Seq(Nat)
    BY <1>2, <1>3
  <2>2. \A g, h \in H : keys[g] = keys[h] => g = h
    BY <1>2, <1>3
  <2>3. DOMAIN keys = H
    BY <1>2
  <2> QED BY <1>1, <2>1, <2>2, <2>3, Sorted
<1> HIDE DEF list, N
<1>5. list \in [1..N -> H] /\ (\A m, n \in 1..N : list[m] = list[n] => m = n) /\ \A h \in H : \E n \in 1..N : list[n] = h
  BY <1>4 DEF Bijection, Injection, Surjection, IsInjective
<1>6. list \in Seq(H) /\ Len(list) = N
  BY <1>4, <1>5, SeqFrom
<1>7. \A m, n \in 1..N : m < n => LexLess(k(list[m]), k(list[n]))
  BY <1>2, <1>4, <1>5
<1>8. MergeSearch(indexes, scope, r, key, desc) = IF desc THEN Reverse(list) ELSE list
  BY DEF MergeSearch, Turned, H, keys, list
<1>9. CASE ~desc
  <2>1. MergeSearch(indexes, scope, r, key, desc) = list
    BY <1>8, <1>9
  <2>2. Ranked(indexes, H, list, r, key, desc)
    BY <1>4, <1>5, <1>6, <1>7, <1>9 DEF Ranked, N, k
  <2> QED BY <2>1, <2>2 DEF H
<1>10. CASE desc
  <2> DEFINE back == Reverse(list)
  <2>1. MergeSearch(indexes, scope, r, key, desc) = back
    BY <1>8, <1>10
  <2>2. /\ back \in Seq(H) /\ Len(back) = N
        /\ \A n \in 1..N : N + 1 - n \in 1..N /\ back[n] = list[N + 1 - n]
    BY <1>6, Reversed
  <2> HIDE DEF back
  <2>3. \A m, n \in 1..N : back[m] = back[n] => m = n
    <3>1. ASSUME NEW m \in 1..N, NEW n \in 1..N, back[m] = back[n] PROVE m = n
      <4>1. N + 1 - m = N + 1 - n
        BY <1>5, <2>2, <3>1
      <4> QED BY <1>4, <4>1
    <3> QED BY <3>1
  <2>4. ASSUME NEW h \in H PROVE \E n \in 1..N : back[n] = h
    <3>1. PICK n \in 1..N : list[n] = h
      BY <1>5
    <3>2. N + 1 - n \in 1..N /\ N + 1 - (N + 1 - n) = n
      BY <1>4
    <3> QED BY <2>2, <3>1, <3>2
  <2>5. ASSUME NEW m \in 1..N, NEW n \in 1..N, m < n PROVE LexLess(k(back[n]), k(back[m]))
    <3>1. N + 1 - n \in 1..N /\ N + 1 - m \in 1..N /\ N + 1 - n < N + 1 - m
      BY <1>4, <2>5
    <3> QED BY <1>7, <2>2, <3>1
  <2>6. Ranked(indexes, H, back, r, key, desc)
    BY <1>4, <1>10, <2>2, <2>3, <2>4, <2>5 DEF Ranked, N, k
  <2> QED BY <2>1, <2>6 DEF H
<1> QED BY <1>9, <1>10

-----------------------------------------------------------------------------
(* What the daemon answers                                                 *)

\* The characters that can come into a text
Characters ==
  ToSet(Letters) \cup {"."}
    \cup UNION {UNION {ToSet(t) : t \in s.keys \cup s.exts \cup s.pathFilters} : s \in Scenarios}

Panel == [query : Seq(Characters), scope : SUBSET Devices, exts : Seq(Characters), path : Seq(Characters),
          type : {{}, {"file"}, {"dir"}, {"symlink"}}, sort : SortKeys, desc : BOOLEAN]

\* What a search reads
SearchTyped ==
  /\ HasPaths(index) /\ served \subseteq Devices /\ controls \in Panel
  /\ scenario.limit \in Nat \ {0}

Indexes == [d \in served |-> IndexOf(d)]

LEMMA LettersTyped == ToSet(Letters) \subseteq Characters /\ "." \in Characters
BY DEF Characters

LEMMA PanelTypable ==
  ASSUME controls \in Panel
  PROVE  /\ Typable(Characters, controls) /\ controls.query \in Seq(Characters)
         /\ controls.sort \in SortKeys /\ controls.desc \in BOOLEAN
<1>1. /\ controls.query \in Seq(Characters) /\ controls.exts \in Seq(Characters) /\ controls.path \in Seq(Characters)
      /\ controls.type \in {{}, {"file"}, {"dir"}, {"symlink"}}
      /\ controls.sort \in SortKeys /\ controls.desc \in BOOLEAN
  BY DEF Panel
<1>2. controls.type = {} \/ \E t : controls.type = {t}
  BY <1>1
<1> QED BY <1>1, <1>2 DEF Typable

LEMMA IndexesServed == ASSUME SearchTyped PROVE Served(Indexes)
BY IndexesAre DEF SearchTyped, Served, Indexes

\* What is found is what is expected.
LEMMA ExpectedAre ==
  ASSUME SearchTyped, Documented(controls.query), NEW r \in RequestsOf(controls)
  PROVE  Hits(Indexes, controls.scope, r) = Expected
<1> DEFINE D == IF controls.scope = {} THEN DOMAIN Indexes ELSE DOMAIN Indexes \cap controls.scope
           found(d) == {Hit(d, i) : i \in Found(Indexes[d], r)}
           wanted(d) == {Hit(d, i) : i \in {i \in DOMAIN IndexOf(d).records : Matches(d, i)}}
<1>1. ASSUME NEW d \in served
      PROVE  Found(Indexes[d], r) =
               {i \in DOMAIN IndexOf(d).records : Answers(IndexOf(d), i, controls.query) /\ PanelFits(IndexOf(d), i, controls)}
  <2>1. Indexes[d] = IndexOf(d)
    BY DEF Indexes
  <2>2. HasPaths(IndexOf(d))
    BY IndexesAre DEF SearchTyped
  <2>3. Searchable(Characters, IndexOf(d))
    BY <2>2, LettersTyped, IndexSearchable
  <2>4. Typable(Characters, controls)
    BY PanelTypable DEF SearchTyped
  <2> QED BY <2>1, <2>3, <2>4, LettersTyped, SearchFinds
<1>2. ASSUME NEW d \in served, NEW i \in DOMAIN IndexOf(d).records
      PROVE  Matches(d, i) <=> /\ controls.scope = {} \/ d \in controls.scope
                               /\ i \in Found(Indexes[d], r)
  BY <1>1 DEF Matches, PanelFits
<1>3. ASSUME NEW d \in served PROVE Found(Indexes[d], r) \subseteq DOMAIN IndexOf(d).records
  BY <1>1
<1>4. DOMAIN Indexes = served
  BY DEF Indexes
<1>5. Hits(Indexes, controls.scope, r) = UNION {found(d) : d \in D}
  BY DEF Hits
<1>6. Expected = UNION {wanted(d) : d \in served}
  BY DEF Expected
<1>7. \A d \in served : wanted(d) = IF d \in D THEN found(d) ELSE {}
  <2> SUFFICES ASSUME NEW d \in served PROVE wanted(d) = IF d \in D THEN found(d) ELSE {}
    OBVIOUS
  <2>1. d \in D <=> controls.scope = {} \/ d \in controls.scope
    BY <1>4
  <2> HIDE DEF D
  <2>2. {i \in DOMAIN IndexOf(d).records : Matches(d, i)} = IF d \in D THEN Found(Indexes[d], r) ELSE {}
    BY <1>2, <1>3, <2>1
  <2> QED BY <2>2
<1>8. D \subseteq served
  BY <1>4
<1> HIDE DEF D, found, wanted
<1> QED BY <1>5, <1>6, <1>7, <1>8

\* The table: as many hits as it may hold, in the order of the search
LEMMA AnswerRows ==
  ASSUME SearchTyped, NEW r
  PROVE  \E s, k :
           /\ Ranked(Indexes, Hits(Indexes, controls.scope, r), s, r, controls.sort, controls.desc)
           /\ k \in Nat /\ k <= Len(s) /\ k = First({Len(s), scenario.limit})
           /\ k = Len(s) \/ k = scenario.limit
           /\ DOMAIN Answer(r, controls) = 1..k /\ Len(Answer(r, controls)) = k
           /\ \A n \in 1..k : Answer(r, controls)[n].hit = s[n]
<1> DEFINE s == MergeSearch(Indexes, controls.scope, r, controls.sort, controls.desc)
           k == First({Len(s), scenario.limit})
<1>1. Ranked(Indexes, Hits(Indexes, controls.scope, r), s, r, controls.sort, controls.desc)
  <2>1. controls.sort \in SortKeys /\ controls.desc \in BOOLEAN
    BY PanelTypable DEF SearchTyped
  <2> QED BY <2>1, IndexesServed, MergeIs
<1>2. Answer(r, controls) = Rows(s)
  BY DEF Answer, Indexes
<1> HIDE DEF s
<1>3. Len(s) \in Nat /\ s \in Seq(Hits(Indexes, controls.scope, r)) /\ scenario.limit \in Nat
  BY <1>1 DEF Ranked, SearchTyped
<1>4. k \in Nat /\ k <= Len(s) /\ (k = Len(s) \/ k = scenario.limit)
  <2>1. k \in {Len(s), scenario.limit} /\ \A j \in {Len(s), scenario.limit} : k <= j
    BY <1>3, FirstIs
  <2> QED BY <1>3, <2>1
<1>5. DOMAIN Rows(s) = 1..k /\ \A n \in 1..k : Rows(s)[n] = RowFor(s[n], n)
  BY DEF Rows
<1>6. \A n \in 1..k : Rows(s)[n].hit = s[n]
  <2> SUFFICES ASSUME NEW n \in 1..k PROVE Rows(s)[n].hit = s[n]
    OBVIOUS
  <2>1. Rows(s)[n] = RowFor(s[n], n)
    BY <1>5
  <2>2. RowFor(s[n], n).hit = s[n]
    BY DEF RowFor
  <2> QED BY <2>1, <2>2
<1>7. Len(Rows(s)) = k
  <2> DEFINE T == {RowFor(s[n], n) : n \in 1..k}
  <2>1. Rows(s) \in [1..k -> T]
    BY <1>5 DEF Rows
  <2> HIDE DEF T, k
  <2> QED BY <1>4, <2>1, SeqFrom
<1> HIDE DEF k
<1>8. k = First({Len(s), scenario.limit})
  BY DEF k
<1> QED BY <1>1, <1>2, <1>4, <1>5, <1>6, <1>7, <1>8

-----------------------------------------------------------------------------
(* The order of the rows                                                   *)

LEMMA HitServed ==
  ASSUME SearchTyped, NEW r, NEW h \in Hits(Indexes, controls.scope, r)
  PROVE  /\ Indexes[h.device] = IndexOf(h.device) /\ HasPaths(IndexOf(h.device))
         /\ h.record \in DOMAIN IndexOf(h.device).records
         /\ h.device \in Nat /\ h.record \in Nat
<1>1. /\ h.device \in DOMAIN Indexes /\ h.device \in Nat /\ HasPaths(Indexes[h.device])
      /\ h.record \in DOMAIN Indexes[h.device].records /\ h.record \in Nat
  BY IndexesServed, HitAt
<1>2. Indexes[h.device] = IndexOf(h.device)
  BY <1>1 DEF Indexes
<1> QED BY <1>1, <1>2

LEMMA PrecedesIs ==
  ASSUME NEW a, NEW b
  PROVE  Precedes(a, b) = Before(IndexOf(a.device), a.record, IndexOf(b.device), b.record, controls.sort)
BY DEF Precedes, Before, PathOf

LEMMA PrecedesByKey ==
  ASSUME SearchTyped, NEW r, NEW a \in Hits(Indexes, controls.scope, r),
         NEW b \in Hits(Indexes, controls.scope, r), Precedes(a, b)
  PROVE  LexLess(SortKey(Indexes, a, controls.sort, r), SortKey(Indexes, b, controls.sort, r))
<1>1. /\ Indexes[a.device] = IndexOf(a.device) /\ HasPaths(IndexOf(a.device))
      /\ a.record \in DOMAIN IndexOf(a.device).records
      /\ Indexes[b.device] = IndexOf(b.device) /\ HasPaths(IndexOf(b.device))
      /\ b.record \in DOMAIN IndexOf(b.device).records
  BY HitServed
<1>2. controls.sort \in SortKeys
  BY PanelTypable DEF SearchTyped
<1>3. <<a.device, a.record>> \in Seq(Nat) /\ <<b.device, b.record>> \in Seq(Nat)
  <2>1. a.device \in Nat /\ a.record \in Nat /\ b.device \in Nat /\ b.record \in Nat
    BY HitServed
  <2> QED BY <2>1
<1>4. Before(IndexOf(a.device), a.record, IndexOf(b.device), b.record, controls.sort)
  BY PrecedesIs
<1> DEFINE u == <<a.device, a.record>>
           v == <<b.device, b.record>>
<1>5. /\ SortKey(Indexes, a, controls.sort, r) = KeyHead(IndexOf(a.device), a.record, controls.sort, r) \o u
      /\ SortKey(Indexes, b, controls.sort, r) = KeyHead(IndexOf(b.device), b.record, controls.sort, r) \o v
  BY <1>1, SortKeyIs
<1> HIDE DEF u, v
<1>6. u \in Seq(Nat) /\ v \in Seq(Nat)
  BY <1>3 DEF u, v
<1>7. LexLess(KeyHead(IndexOf(a.device), a.record, controls.sort, r) \o u,
              KeyHead(IndexOf(b.device), b.record, controls.sort, r) \o v)
  BY <1>1, <1>2, <1>4, <1>6, KeysInOrder
<1> QED BY <1>5, <1>7

\* Of two hits, the one that the search ranks first is not the later one.
LEMMA RankedInOrder ==
  ASSUME SearchTyped, NEW r, NEW s,
         Ranked(Indexes, Hits(Indexes, controls.scope, r), s, r, controls.sort, controls.desc),
         NEW m \in 1..Len(s), NEW n \in 1..Len(s), m < n
  PROVE  InOrder(s[m], s[n])
<1> DEFINE H == Hits(Indexes, controls.scope, r)
           key(h) == SortKey(Indexes, h, controls.sort, r)
<1>1. s[m] \in H /\ s[n] \in H
  BY DEF Ranked
<1>2. controls.desc \in BOOLEAN /\ controls.sort \in SortKeys
  BY PanelTypable DEF SearchTyped
<1>3. \A h \in H : key(h) \in Seq(Nat)
  BY <1>2, IndexesServed, HitKeys
<1>4. \A a, b \in H : Precedes(a, b) => LexLess(key(a), key(b))
  BY PrecedesByKey
<1>5. \A a, b \in H : ~(LexLess(key(a), key(b)) /\ LexLess(key(b), key(a)))
  <2> SUFFICES ASSUME NEW a \in H, NEW b \in H, LexLess(key(a), key(b)), LexLess(key(b), key(a)) PROVE FALSE
    OBVIOUS
  <2>1. key(a) \in Seq(Nat) /\ key(b) \in Seq(Nat)
    BY <1>3
  <2> HIDE DEF key
  <2>2. LexLess(key(a), key(a))
    BY <2>1, LexTransitive
  <2> QED BY <2>1, <2>2, LexIrreflexive
<1>6. IF controls.desc THEN LexLess(key(s[n]), key(s[m])) ELSE LexLess(key(s[m]), key(s[n]))
  BY DEF Ranked
<1> HIDE DEF key, H
<1>7. IF controls.desc THEN ~Precedes(s[m], s[n]) ELSE ~Precedes(s[n], s[m])
  BY <1>1, <1>4, <1>5, <1>6
<1> QED BY <1>7 DEF InOrder

-----------------------------------------------------------------------------
(* The rows                                                                *)

\* The last part of RowsAnswerQuery
TableAnswers ==
  LET hits == {rows[n].hit : n \in DOMAIN rows}
  IN  /\ hits \subseteq Expected
      /\ Len(rows) = First({Cardinality(Expected), scenario.limit}) /\ Cardinality(hits) = Len(rows)
      /\ \A m, n \in DOMAIN rows : m < n => InOrder(rows[m].hit, rows[n].hit)
      /\ \A h \in Expected \ hits, n \in DOMAIN rows : InOrder(rows[n].hit, h)

LEMMA MadeAnswers ==
  ASSUME SearchTyped, Documented(controls.query), NEW r \in RequestsOf(controls), rows = Answer(r, controls)
  PROVE  TableAnswers
<1> DEFINE H == Hits(Indexes, controls.scope, r)
           hits == {rows[n].hit : n \in DOMAIN rows}
<1>1. H = Expected
  BY ExpectedAre
<1>2. PICK s, k :
        /\ Ranked(Indexes, H, s, r, controls.sort, controls.desc)
        /\ k \in Nat /\ k <= Len(s) /\ k = First({Len(s), scenario.limit})
        /\ k = Len(s) \/ k = scenario.limit
        /\ DOMAIN rows = 1..k /\ Len(rows) = k
        /\ \A n \in 1..k : rows[n].hit = s[n]
  BY AnswerRows
<1>3. \A m, n \in 1..Len(s) : m < n => InOrder(s[m], s[n])
  BY <1>2, RankedInOrder
<1> HIDE DEF H
<1>4. /\ s \in Seq(H) /\ Len(s) = Cardinality(H) /\ Len(s) \in Nat
      /\ \A m, n \in 1..Len(s) : s[m] = s[n] => m = n
      /\ \A h \in H : \E n \in 1..Len(s) : s[n] = h
  BY <1>2 DEF Ranked
<1>5. \A n \in 1..k : n \in 1..Len(s) /\ s[n] \in H
  BY <1>2, <1>4
<1>6. hits = {s[n] : n \in 1..k}
  BY <1>2
<1>7. Cardinality(hits) = k
  <2> DEFINE f == [n \in 1..k |-> s[n]]
  <2>1. f \in Surjection(1..k, hits)
    BY <1>6 DEF Surjection
  <2>2. \A m, n \in 1..k : f[m] = f[n] => m = n
    BY <1>4, <1>5
  <2>3. f \in Injection(1..k, hits)
    BY <2>1, <2>2 DEF Injection, IsInjective, Surjection
  <2> HIDE DEF f, hits
  <2>4. IsFiniteSet(1..k) /\ Cardinality(1..k) = k
    <3>1. 1 \in Int /\ k \in Int
      BY <1>2
    <3>2. IsFiniteSet(1..k) /\ Cardinality(1..k) = IF 1 > k THEN 0 ELSE k - 1 + 1
      BY <3>1, FS_Interval
    <3> QED BY <1>2, <3>2
  <2>5. Cardinality(hits) = Cardinality(1..k)
    BY <2>1, <2>3, <2>4, FS_Surjection
  <2> QED BY <2>4, <2>5
<1>8. hits \subseteq H
  BY <1>5, <1>6
<1>9. Len(rows) = First({Cardinality(Expected), scenario.limit})
  BY <1>1, <1>2, <1>4
<1>10. \A m, n \in DOMAIN rows : m < n => InOrder(rows[m].hit, rows[n].hit)
  <2> SUFFICES ASSUME NEW m \in DOMAIN rows, NEW n \in DOMAIN rows, m < n
               PROVE  InOrder(rows[m].hit, rows[n].hit)
    OBVIOUS
  <2>1. m \in 1..k /\ n \in 1..k
    BY <1>2
  <2>2. m \in 1..Len(s) /\ n \in 1..Len(s) /\ rows[m].hit = s[m] /\ rows[n].hit = s[n]
    BY <1>2, <1>5, <2>1
  <2> QED BY <1>3, <2>2
<1>11. ASSUME NEW h \in H \ hits, NEW n \in DOMAIN rows PROVE InOrder(rows[n].hit, h)
  <2>1. PICK j \in 1..Len(s) : s[j] = h
    BY <1>4
  <2>2. j \notin 1..k
    BY <1>6, <2>1
  <2>3. n \in 1..k /\ n < j
    BY <1>2, <2>1, <2>2
  <2> QED BY <1>2, <1>3, <1>5, <2>1, <2>3
<1> QED BY <1>1, <1>2, <1>7, <1>8, <1>9, <1>10, <1>11 DEF TableAnswers

-----------------------------------------------------------------------------
(* Exact names                                                             *)

LEMMA ExactIs ==
  ASSUME controls \in Panel, NEW r \in RequestsOf(controls), NEW ix, NEW i
  PROVE  IsExact(ix, i, controls.query) <=> MatchScore(FoldedName(ix, i), r) = 0
<1>1. PICK q \in Requests(controls.query) : r = [q EXCEPT !.include = @ \cup PanelClauses(controls)]
  BY DEF RequestsOf
<1>2. controls.query \in Seq(Characters)
  BY PanelTypable
<1>3. WellFormed(controls.query) /\ RequestOf(controls.query, q) /\ DOMAIN q = {"include", "exclude"}
  BY <1>1, <1>2, LettersTyped, RequestsAre
<1>4. r.include = q.include \cup PanelClauses(controls)
  BY <1>1, <1>3
<1>5. NameTexts(r.include) = NameTexts(q.include)
  <2>1. \A c \in PanelClauses(controls) : c.kind \notin {"contains", "phrase"}
    BY PanelKinds DEF NameKinds
  <2>2. {c \in r.include : c.kind \in {"contains", "phrase"}} = {c \in q.include : c.kind \in {"contains", "phrase"}}
    BY <1>4, <2>1
  <2> QED BY <2>2 DEF NameTexts
<1>6. NameTexts(q.include) =
        {Folded(Wanted(w)) : w \in {w \in WordsOf(controls.query) : Literal(w) /\ ~Exclusion(w)}}
  BY <1>2, <1>3, LettersTyped, RequestTexts
<1>7. IsExact(ix, i, controls.query) <=> FoldedName(ix, i) \in NameTexts(q.include)
  BY <1>6 DEF IsExact, Literal
<1> QED BY <1>5, <1>7, MatchScores

\* The key of the order by relevance begins with the score of the name.
LEMMA RelevanceFirst ==
  ASSUME SearchTyped, NEW r, NEW h \in Hits(Indexes, controls.scope, r)
  PROVE  /\ SortKey(Indexes, h, "relevance", r) \in Seq(Nat)
         /\ Len(SortKey(Indexes, h, "relevance", r)) >= 1
         /\ SortKey(Indexes, h, "relevance", r)[1] = MatchScore(FoldedName(IndexOf(h.device), h.record), r)
<1> DEFINE ix == IndexOf(h.device)
           i == h.record
           name == Codes(FoldedName(ix, i)) \o <<0>>
           first == Relevance(ix, i, r)
           u == <<h.device, h.record>>
<1>1. Indexes[h.device] = ix /\ HasPaths(ix) /\ i \in DOMAIN ix.records /\ h.device \in Nat /\ h.record \in Nat
  BY HitServed
<1>2. first \in Seq(Nat) /\ Len(first) = 4 /\ first[1] = MatchScore(FoldedName(ix, i), r)
  BY <1>1, RelevanceIs
<1>3. name \in Seq(Nat)
  <2>1. Codes(FoldedName(ix, i)) \in Seq(Nat)
    <3>1. Codes(FoldedName(ix, i)) \in Seq(Nat \ {0})
      BY <1>1, NamesAreCodes
    <3>2. Seq(Nat \ {0}) \subseteq Seq(Nat)
      BY SeqWider
    <3> QED BY <3>1, <3>2
  <2> QED BY <2>1
<1>4. u \in Seq(Nat)
  BY <1>1
<1>5. KeyHead(ix, i, "relevance", r) = first \o name
  BY DEF KeyHead
<1>6. SortKey(Indexes, h, "relevance", r) = KeyHead(ix, i, "relevance", r) \o u
  BY <1>1, SortKeyIs
<1> HIDE DEF ix, i, name, first, u
<1>7. (first \o name)[1] = first[1] /\ first \o name \in Seq(Nat) /\ Len(first \o name) >= 1
  BY <1>2, <1>3, HeadKept
<1> DEFINE head == KeyHead(ix, i, "relevance", r)
<1>8. head[1] = first[1] /\ head \in Seq(Nat) /\ Len(head) >= 1
  BY <1>5, <1>7
<1> HIDE DEF head
<1>9. (head \o u)[1] = head[1] /\ head \o u \in Seq(Nat) /\ Len(head \o u) >= 1
  BY <1>4, <1>8, HeadKept
<1> QED BY <1>2, <1>6, <1>8, <1>9 DEF head, ix, i

ExactFirstly ==
  \A m, n \in DOMAIN rows :
    m < n /\ IsExact(IndexOf(rows[n].hit.device), rows[n].hit.record, controls.query)
      => IsExact(IndexOf(rows[m].hit.device), rows[m].hit.record, controls.query)

LEMMA MadeExact ==
  ASSUME SearchTyped, NEW r \in RequestsOf(controls), rows = Answer(r, controls),
         controls.sort = "relevance", ~controls.desc
  PROVE  ExactFirstly
<1> DEFINE H == Hits(Indexes, controls.scope, r)
           key(h) == SortKey(Indexes, h, controls.sort, r)
           score(h) == MatchScore(FoldedName(IndexOf(h.device), h.record), r)
           exact(h) == IsExact(IndexOf(h.device), h.record, controls.query)
<1>1. \A h : exact(h) <=> score(h) = 0
  BY ExactIs DEF SearchTyped
<1>2. \A h : score(h) \in Nat
  BY MatchScores
<1>3. \A h \in H : key(h) \in Seq(Nat) /\ Len(key(h)) >= 1 /\ key(h)[1] = score(h)
  BY RelevanceFirst
<1>4. PICK s, k :
        /\ Ranked(Indexes, H, s, r, controls.sort, controls.desc)
        /\ k \in Nat /\ k <= Len(s) /\ k = First({Len(s), scenario.limit})
        /\ k = Len(s) \/ k = scenario.limit
        /\ DOMAIN rows = 1..k /\ Len(rows) = k
        /\ \A n \in 1..k : rows[n].hit = s[n]
  BY AnswerRows
<1>5. /\ s \in Seq(H) /\ Len(s) \in Nat
      /\ \A m, n \in 1..Len(s) : m < n => LexLess(key(s[m]), key(s[n]))
  BY <1>4 DEF Ranked
<1> HIDE DEF H, key, score, exact
<1>6. ASSUME NEW m \in DOMAIN rows, NEW n \in DOMAIN rows, m < n, exact(rows[n].hit)
      PROVE  exact(rows[m].hit)
  <2>1. /\ m \in 1..Len(s) /\ n \in 1..Len(s) /\ rows[m].hit = s[m] /\ rows[n].hit = s[n]
    <3>1. m \in 1..k /\ n \in 1..k
      BY <1>4
    <3>2. \A j \in 1..k : j \in 1..Len(s)
      BY <1>4, <1>5
    <3> QED BY <1>4, <3>1, <3>2
  <2>2. s[m] \in H /\ s[n] \in H
    BY <1>5, <2>1
  <2>3. LexLess(key(s[m]), key(s[n]))
    BY <1>5, <1>6, <2>1
  <2>4. key(s[m])[1] <= key(s[n])[1]
    BY <1>3, <2>2, <2>3, FirstDecides
  <2>5. score(s[n]) = 0
    BY <1>1, <1>6, <2>1
  <2>6. score(s[m]) = 0
    BY <1>2, <1>3, <2>2, <2>4, <2>5
  <2> QED BY <1>1, <2>1, <2>6
<1> QED BY <1>6 DEF ExactFirstly, exact

-----------------------------------------------------------------------------
(* The inductive invariant of the table                                    *)

\* How the last search ended, and the rows it made from the indexes as they are
RowsMade ==
  /\ answered = "error" => RequestsOf(controls) = {}
  /\ answered = "rows" => RequestsOf(controls) # {}
  /\ answered = "rows" /\ changed = {} => \E r \in RequestsOf(controls) : rows = Answer(r, controls)

AskedInv ==
  /\ controls \in Panel /\ composing \in Nat
  /\ served \subseteq Devices /\ listed \subseteq Devices
  /\ RowsMade

LEMMA AnswerKept ==
  ASSUME UNCHANGED <<index, served, mounted, scenario>>, NEW r, NEW c
  PROVE  Answer(r, c)' = Answer(r, c)
BY DEF Answer, Rows, RowFor, IndexOf

\* Nothing that the table is made from changes.
LEMMA RowsMadeKept ==
  ASSUME RowsMade, UNCHANGED <<controls, rows, answered, changed>>,
         changed = {} => UNCHANGED <<index, served, mounted, scenario>>
  PROVE  RowsMade'
<1>1. RequestsOf(controls)' = RequestsOf(controls)
  BY DEF RequestsOf
<1>2. ASSUME answered = "rows", changed = {}
      PROVE  \E r \in RequestsOf(controls)' : rows' = Answer(r, controls)'
  <2>1. PICK r \in RequestsOf(controls) : rows = Answer(r, controls)
    BY <1>2 DEF RowsMade
  <2>2. Answer(r, controls)' = Answer(r, controls)
    BY <1>2, AnswerKept
  <2> QED BY <1>1, <2>1, <2>2
<1> QED BY <1>1, <1>2 DEF RowsMade

\* Something changes, and is counted.
LEMMA RowsMadeChanged ==
  ASSUME RowsMade, UNCHANGED <<controls, answered>>, NEW d, changed' = changed \cup {d}
  PROVE  RowsMade'
<1>1. RequestsOf(controls)' = RequestsOf(controls)
  BY DEF RequestsOf
<1> QED BY <1>1 DEF RowsMade

LEMMA RecomputeMakes ==
  ASSUME RowsMade, NEW c, Recompute(c), UNCHANGED <<index, served, mounted, scenario>>
  PROVE  RowsMade'
<1>1. controls' = c
  BY DEF Recompute
<1>2. RequestsOf(controls)' = RequestsOf(c)
  BY <1>1 DEF RequestsOf
<1>3. CASE answered' \in {"short", "failed"}
  BY <1>3 DEF RowsMade
<1>4. CASE answered' = "error" /\ RequestsOf(c) = {}
  BY <1>2, <1>4 DEF RowsMade
<1>5. CASE answered' = "rows" /\ \E r \in RequestsOf(c) : rows' = Answer(r, c)
  <2>1. PICK r \in RequestsOf(c) : rows' = Answer(r, c)
    BY <1>5
  <2>2. Answer(r, controls)' = Answer(r, c)
    BY <1>1 DEF Answer, Rows, RowFor, IndexOf
  <2> QED BY <1>2, <1>5, <2>1, <2>2 DEF RowsMade
<1> QED BY <1>3, <1>4, <1>5 DEF Recompute

-----------------------------------------------------------------------------
(* What is typed and chosen                                                *)

LEMMA TextsTyped ==
  ASSUME NEW s \in Scenarios, NEW text \in s.keys \cup s.exts \cup s.pathFilters
  PROVE  text \in Seq(Characters)
<1>1. text \in Seq(ToSet(text))
  BY DesktopAssumption DEF IsText
<1>2. ToSet(text) \subseteq Characters
  BY DEF Characters
<1> QED BY <1>1, <1>2, SeqWider

LEMMA ScenarioTexts ==
  ASSUME scenario \in Scenarios
  PROVE  /\ \A text \in {<<>>} \cup scenario.keys : text \in Seq(Characters)
         /\ \A text \in scenario.exts \cup scenario.pathFilters : text \in Seq(Characters)
         /\ scenario.served \subseteq Devices /\ scenario.limit \in Nat \ {0}
<1>1. \A text \in scenario.keys \cup scenario.exts \cup scenario.pathFilters : text \in Seq(Characters)
  BY TextsTyped
<1>2. <<>> \in Seq(Characters)
  OBVIOUS
<1>3. scenario.served \subseteq Devices /\ scenario.limit \in Nat \ {0}
  BY DesktopAssumption
<1> QED BY <1>1, <1>2, <1>3

LEMMA PanelWith ==
  ASSUME controls \in Panel
  PROVE  /\ \A q \in Seq(Characters) : [controls EXCEPT !.query = q] \in Panel
         /\ \A scope \in SUBSET Devices : [controls EXCEPT !.scope = scope] \in Panel
         /\ \A exts \in Seq(Characters), path \in Seq(Characters), type \in {{}, {"file"}, {"dir"}, {"symlink"}} :
              [controls EXCEPT !.exts = exts, !.path = path, !.type = type] \in Panel
         /\ \A exts \in Seq(Characters), path \in Seq(Characters) :
              [controls EXCEPT !.exts = exts, !.path = path] \in Panel
         /\ \A key \in SortKeys, desc \in BOOLEAN : [controls EXCEPT !.sort = key, !.desc = desc] \in Panel
<1> DEFINE T == Seq(Characters)
           D == SUBSET Devices
           K == {{}, {"file"}, {"dir"}, {"symlink"}}
<1>1. Panel = [query : T, scope : D, exts : T, path : T, type : K, sort : SortKeys, desc : BOOLEAN]
  BY DEF Panel
<1> HIDE DEF T, D, K
<1>2. \A q \in T : [controls EXCEPT !.query = q] \in Panel
  BY <1>1
<1>3. \A scope \in D : [controls EXCEPT !.scope = scope] \in Panel
  BY <1>1
<1>4. \A exts \in T, path \in T, type \in K :
        [controls EXCEPT !.exts = exts, !.path = path, !.type = type] \in Panel
  BY <1>1
<1>5. \A key \in SortKeys, desc \in BOOLEAN : [controls EXCEPT !.sort = key, !.desc = desc] \in Panel
  BY <1>1
<1>6. \A exts \in T, path \in T : [controls EXCEPT !.exts = exts, !.path = path] \in Panel
  BY <1>1
<1> QED BY <1>2, <1>3, <1>4, <1>5, <1>6 DEF T, D, K

-----------------------------------------------------------------------------
(* The invariant is kept.                                                  *)

LEMMA AskKeeps ==
  ASSUME AskedInv, NEW c \in Panel, Recompute(c), UNCHANGED <<index, served, mounted, scenario>>,
         listed' \subseteq Devices, composing' \in Nat
  PROVE  AskedInv'
<1>1. RowsMade'
  BY RecomputeMakes DEF AskedInv
<1>2. controls' = c
  BY DEF Recompute
<1> QED BY <1>1, <1>2 DEF AskedInv, Panel, Devices, Watched

LEMMA AskedKept ==
  ASSUME AskedInv, UNCHANGED <<controls, composing, served, rows, answered, changed>>,
         listed' \subseteq Devices,
         changed = {} => UNCHANGED <<index, mounted, scenario>>
  PROVE  AskedInv'
<1>1. RowsMade'
  BY RowsMadeKept DEF AskedInv
<1> QED BY <1>1 DEF AskedInv, Panel, Devices, Watched

LEMMA AskedChanged ==
  ASSUME AskedInv, UNCHANGED <<controls, composing, answered, listed>>, served' \subseteq Devices,
         NEW d, changed' = changed \cup {d}
  PROVE  AskedInv'
<1>1. RowsMade'
  BY RowsMadeChanged DEF AskedInv
<1> QED BY <1>1 DEF AskedInv, Panel, Devices, Watched

LEMMA RefreshTyped ==
  ASSUME AskedInv, RefreshLists
  PROVE  listed' \subseteq Devices
BY DEF AskedInv, RefreshLists

\* A forgotten device leaves the scope; what was found is no longer what is shown.
LEMMA ForgetAsked ==
  ASSUME AskedInv, NEW d \in Devices, Forget(d)
  PROVE  AskedInv'
<1>1. /\ served' \subseteq Devices /\ listed' \subseteq Devices /\ composing' = composing
      /\ controls' = [controls EXCEPT !.scope = @ \ {d}] /\ changed' # {}
      /\ answered' \in {"no", answered}
  BY DEF Forget, AskedInv
<1>2. controls \in Panel /\ controls.scope \in SUBSET Devices
  BY DEF AskedInv, Panel
<1>3. controls.scope \ {d} \in SUBSET Devices
  BY <1>2
<1>4. controls' \in Panel
  BY <1>1, <1>2, <1>3, PanelWith
<1>5. controls'.query = controls.query /\ PanelClauses(controls)' = PanelClauses(controls)
  <2>1. /\ controls'.query = controls.query /\ controls'.exts = controls.exts
        /\ controls'.type = controls.type /\ controls'.path = controls.path
    BY <1>1, <1>2 DEF Panel
  <2> QED BY <2>1 DEF PanelClauses
<1>6. RequestsOf(controls)' = RequestsOf(controls)
  BY <1>5 DEF RequestsOf
<1>7. RowsMade'
  BY <1>1, <1>6 DEF RowsMade, AskedInv
<1> QED BY <1>1, <1>4, <1>7 DEF AskedInv, Panel, Devices, Watched

LEMMA TypeAsked ==
  ASSUME AskedInv, scenario \in Scenarios, NEW text \in {<<>>} \cup scenario.keys,
         Type(text) \/ Compose(text) \/ Commit(text)
  PROVE  AskedInv'
<1>1. text \in Seq(Characters) /\ controls \in Panel /\ controls.query \in Seq(Characters) /\ composing \in Nat
  BY ScenarioTexts, PanelTypable DEF AskedInv
<1>2. controls.query \o text \in Seq(Characters)
  BY <1>1, TextsMade
<1>3. Typed(text) \in Panel
  <2>1. Typed(text) = [controls EXCEPT !.query = controls.query \o text]
    BY DEF Typed
  <2> QED BY <1>1, <1>2, <2>1, PanelWith
<1>4. listed \subseteq Devices
  BY DEF AskedInv
<1>5. CASE Type(text)
  BY <1>1, <1>3, <1>4, <1>5, AskKeeps DEF Type, Ask, vars
<1>6. CASE Compose(text)
  <2>1. /\ controls' = Typed(text) /\ composing' = Len(text) /\ answered' = "no"
        /\ UNCHANGED <<served, listed>>
    BY <1>6 DEF Compose, otherVars
  <2>2. Len(text) \in Nat
    BY <1>1
  <2>3. RowsMade'
    BY <2>1 DEF RowsMade
  <2> QED BY <1>3, <2>1, <2>2, <2>3 DEF AskedInv, Panel, Devices, Watched
<1>7. CASE Commit(text)
  <2> DEFINE before == SubSeq(controls.query, 1, Len(controls.query) - composing)
             c == [controls EXCEPT !.query = before \o text]
  <2>1. before \in Seq(Characters)
    <3>1. Len(controls.query) \in Nat
      BY <1>1
    <3>2. Len(controls.query) - composing \in Int /\ Len(controls.query) - composing <= Len(controls.query)
      BY <1>1, <3>1
    <3> QED BY <1>1, <3>2, TextsMade
  <2>2. before \o text \in Seq(Characters)
    <3> HIDE DEF before
    <3> QED BY <1>1, <2>1, TextsMade
  <2>3. c \in Panel
    <3> HIDE DEF before
    <3> QED BY <1>1, <2>2, PanelWith
  <2>4. Ask(c) /\ composing' = 0
    BY <1>7 DEF Commit
  <2> HIDE DEF c
  <2> QED BY <1>4, <2>3, <2>4, AskKeeps DEF Ask, vars
<1> QED BY <1>5, <1>6, <1>7

LEMMA EraseAsked == ASSUME AskedInv, Erase PROVE AskedInv'
<1>1. PICK rest \in {<<>>, Front(controls.query)} : Ask([controls EXCEPT !.query = rest])
  BY DEF Erase
<1>2. controls.query \in Seq(Characters) /\ controls.query # <<>> /\ controls \in Panel
  BY PanelTypable DEF AskedInv, Erase
<1>3. rest \in Seq(Characters)
  <2>1. Front(controls.query) \in Seq(Characters)
    BY <1>2, TextsMade
  <2>2. <<>> \in Seq(Characters)
    OBVIOUS
  <2> QED BY <2>1, <2>2
<1>4. [controls EXCEPT !.query = rest] \in Panel
  BY <1>2, <1>3, PanelWith
<1>5. UNCHANGED <<composing, listed>> /\ composing \in Nat /\ listed \subseteq Devices
  BY <1>1 DEF Erase, Ask, Recompute, AskedInv
<1> QED BY <1>1, <1>4, <1>5, AskKeeps DEF Ask, vars

LEMMA ChooseAsked ==
  ASSUME AskedInv, scenario \in Scenarios
  PROVE  /\ \A scope \in {{}} \cup {{d} : d \in listed} : ChooseScope(scope) => AskedInv'
         /\ \A exts \in scenario.exts, path \in scenario.pathFilters,
               type \in {{}, {"file"}, {"dir"}, {"symlink"}} :
              Filter(exts, path, type) \/ ComposeFilter(exts, path) => AskedInv'
         /\ \A key \in SortKeys : Sort(key) => AskedInv'
<1>1. controls \in Panel /\ composing \in Nat /\ listed \subseteq Devices
  BY DEF AskedInv
<1>2. ASSUME NEW c \in Panel, Ask(c), UNCHANGED composing PROVE AskedInv'
  BY <1>1, <1>2, AskKeeps DEF Ask, vars
<1>3. ASSUME NEW scope \in {{}} \cup {{d} : d \in listed}, ChooseScope(scope) PROVE AskedInv'
  <2>1. scope \in SUBSET Devices
    BY <1>1
  <2>2. [controls EXCEPT !.scope = scope] \in Panel
    BY <1>1, <2>1, PanelWith
  <2> QED BY <1>2, <1>3, <2>2 DEF ChooseScope
<1>4. ASSUME NEW exts \in scenario.exts, NEW path \in scenario.pathFilters,
             NEW type \in {{}, {"file"}, {"dir"}, {"symlink"}}, Filter(exts, path, type)
      PROVE  AskedInv'
  <2>1. exts \in Seq(Characters) /\ path \in Seq(Characters)
    BY ScenarioTexts
  <2>2. [controls EXCEPT !.exts = exts, !.path = path, !.type = type] \in Panel
    BY <1>1, <2>1, PanelWith
  <2> QED BY <1>2, <1>4, <2>2 DEF Filter
<1>6. ASSUME NEW exts \in scenario.exts, NEW path \in scenario.pathFilters, ComposeFilter(exts, path)
      PROVE  AskedInv'
  <2>1. exts \in Seq(Characters) /\ path \in Seq(Characters)
    BY ScenarioTexts
  <2>2. [controls EXCEPT !.exts = exts, !.path = path] \in Panel
    BY <1>1, <2>1, PanelWith
  <2>3. /\ controls' \in Panel /\ answered' = "no"
        /\ UNCHANGED <<served, listed, composing>>
    BY <1>6, <2>2 DEF ComposeFilter, otherVars
  <2>4. RowsMade'
    BY <2>3 DEF RowsMade
  <2> QED BY <2>3, <2>4 DEF AskedInv, Panel, Devices, Watched
<1>5. ASSUME NEW key \in SortKeys, Sort(key) PROVE AskedInv'
  <2> DEFINE desc == key = controls.sort /\ ~controls.desc
  <2>1. desc \in BOOLEAN
    OBVIOUS
  <2>2. [controls EXCEPT !.sort = key, !.desc = desc] \in Panel
    <3> HIDE DEF desc
    <3> QED BY <1>1, <2>1, PanelWith
  <2>3. Ask([controls EXCEPT !.sort = key, !.desc = desc]) /\ UNCHANGED composing
    BY <1>5 DEF Sort
  <2> QED BY <1>2, <2>2, <2>3
<1> QED BY <1>3, <1>4, <1>5, <1>6

LEMMA IndexesAsked ==
  ASSUME AskedInv
  PROVE  /\ RefreshAll => AskedInv'
         /\ ShowIndexes => AskedInv'
         /\ \A d \in Devices : Scan(d) \/ Cancel(d) \/ Forget(d) \/ ScanEnds(d) \/ Mount(d) => AskedInv'
<1>1. controls \in Panel /\ composing \in Nat /\ listed \subseteq Devices /\ served \subseteq Devices
  BY DEF AskedInv
<1>2. CASE RefreshAll
  BY <1>1, <1>2, RefreshTyped, AskKeeps DEF RefreshAll, vars
<1>3. CASE ShowIndexes
  BY <1>3, RefreshTyped, AskedKept DEF ShowIndexes, vars, otherVars
<1>4. ASSUME NEW d \in Devices, Scan(d) PROVE AskedInv'
  BY <1>1, <1>4, RefreshTyped, AskKeeps DEF Scan, vars
<1>5. ASSUME NEW d \in Devices, Cancel(d) PROVE AskedInv'
  BY <1>1, <1>5, AskedKept DEF Cancel, vars, guiVars
<1>6. ASSUME NEW d \in Devices, ScanEnds(d) PROVE AskedInv'
  BY <1>1, <1>6, AskedChanged DEF ScanEnds, guiVars
<1>7. ASSUME NEW d \in Devices, Mount(d) PROVE AskedInv'
  BY <1>1, <1>7, AskedChanged DEF Mount, guiVars
<1> QED BY <1>2, <1>3, <1>4, <1>5, <1>6, <1>7, ForgetAsked

LEMMA ElsewhereAsked ==
  ASSUME AskedInv, Elsewhere, scenario' = scenario
  PROVE  AskedInv'
<1>1. listed \subseteq Devices /\ served \subseteq Devices
  BY DEF AskedInv
<1>2. CASE index' = index
  BY <1>1, <1>2, AskedKept DEF Elsewhere, guiVars
<1>3. CASE index' # index
  BY <1>1, <1>3, AskedChanged DEF Elsewhere, guiVars
<1> QED BY <1>2, <1>3

-----------------------------------------------------------------------------
(* The theorems about the table                                            *)

LEMMA AskedInit == DesktopInit => AskedInv
<1> SUFFICES ASSUME DesktopInit PROVE AskedInv
  OBVIOUS
<1>1. scenario \in Scenarios
  BY UpdatesUnderDesktopInit DEF UpdatesInv, LiveInv, FilesInv
<1>2. served \subseteq Devices /\ listed \subseteq Devices
  BY <1>1, ScenarioTexts DEF DesktopInit
<1>3. controls \in Panel
  <2>1. <<>> \in Seq(Characters)
    OBVIOUS
  <2>2. "relevance" \in SortKeys /\ FALSE \in BOOLEAN /\ {} \in SUBSET Devices
    BY DEF SortKeys
  <2>3. controls = [query |-> <<>>, scope |-> {}, exts |-> <<>>, path |-> <<>>, type |-> {},
                    sort |-> "relevance", desc |-> FALSE]
    BY DEF DesktopInit
  <2> QED BY <2>1, <2>2, <2>3 DEF Panel
<1>4. composing \in Nat /\ RowsMade
  BY DEF DesktopInit, RowsMade
<1> QED BY <1>2, <1>3, <1>4 DEF AskedInv

LEMMA AskedStep ==
  ASSUME FilesInv, AskedInv, [DesktopNext]_allVars
  PROVE  AskedInv'
<1>1. scenario \in Scenarios /\ scenario' = scenario
  BY ScenarioStays DEF FilesInv
<1>2. listed \subseteq Devices
  BY DEF AskedInv
<1>3. ASSUME NEW text \in {<<>>} \cup scenario.keys, Type(text) \/ Compose(text) \/ Commit(text)
      PROVE  AskedInv'
  BY <1>1, <1>3, TypeAsked
<1>4. CASE Erase
  BY <1>4, EraseAsked
<1>5. CASE \/ \E scope \in {{}} \cup {{d} : d \in listed} : ChooseScope(scope)
           \/ \E exts \in scenario.exts, path \in scenario.pathFilters,
                 type \in {{}, {"file"}, {"dir"}, {"symlink"}} :
                Filter(exts, path, type) \/ ComposeFilter(exts, path)
           \/ \E key \in SortKeys : Sort(key)
  BY <1>1, <1>5, ChooseAsked
<1>6. CASE \E n \in DOMAIN rows : Select(n) \/ DoubleClick(n)
  BY <1>1, <1>2, <1>6, AskedKept DEF Select, DoubleClick, vars, otherVars
<1>7. CASE OpenSelected
  BY <1>1, <1>2, <1>7, AskedKept DEF OpenSelected, vars, otherVars
<1>8. CASE (\E w \in {"properties", "settings", "filters"} : ShowWindow(w)) \/ Escape
  BY <1>1, <1>2, <1>8, AskedKept DEF ShowWindow, Escape, vars, otherVars
<1>9. CASE RefreshAll \/ ShowIndexes \/ IndexManager
  BY <1>9, IndexesAsked DEF IndexManager
<1>10. CASE \E d \in Devices : ScanEnds(d) \/ Mount(d)
  BY <1>10, IndexesAsked
<1>11. CASE Elsewhere
  BY <1>1, <1>11, ElsewhereAsked
<1>12. CASE UNCHANGED allVars
  BY <1>2, <1>12, AskedKept DEF allVars
<1> QED BY <1>3, <1>4, <1>5, <1>6, <1>7, <1>8, <1>9, <1>10, <1>11, <1>12 DEF DesktopNext, SortKeys

\* The rows are what the last search made, and every index can be searched.
TableInv == FilesInv /\ HasPaths(index) /\ AskedInv

LEMMA TableInvInit == DesktopInit => TableInv
BY PathsUnderDesktopInit, AskedInit DEF TableInv

LEMMA TableInvStep == TableInv /\ [DesktopNext]_allVars => TableInv'
BY PathsUnderDesktop, AskedStep DEF TableInv

LEMMA TableTyped == ASSUME TableInv PROVE SearchTyped
<1>1. scenario.limit \in Nat \ {0}
  BY ScenarioTexts DEF TableInv, FilesInv
<1> QED BY <1>1 DEF TableInv, AskedInv, SearchTyped

LEMMA TableAnswersQuery == TableInv => RowsAnswerQuery
<1> SUFFICES ASSUME TableInv PROVE RowsAnswerQuery
  OBVIOUS
<1>1. SearchTyped /\ RowsMade
  BY TableTyped DEF TableInv, AskedInv
<1>2. Requests(controls.query) # {} <=> WellFormed(controls.query)
  <2>1. controls.query \in Seq(Characters)
    BY <1>1, PanelTypable DEF SearchTyped
  <2> QED BY <2>1, LettersTyped, RequestsAre
<1>3. RequestsOf(controls) # {} <=> Requests(controls.query) # {}
  BY DEF RequestsOf
<1>4. answered = "error" => ~WellFormed(controls.query)
  BY <1>1, <1>2, <1>3 DEF RowsMade
<1>5. answered = "rows" => WellFormed(controls.query)
  BY <1>1, <1>2, <1>3 DEF RowsMade
<1>6. answered = "rows" /\ changed = {} /\ Documented(controls.query) => TableAnswers
  BY <1>1, MadeAnswers DEF RowsMade
<1> QED BY <1>4, <1>5, <1>6 DEF RowsAnswerQuery, TableAnswers

LEMMA TableExact == TableInv => ExactFirst
<1> SUFFICES ASSUME TableInv, answered = "rows", changed = {}, controls.sort = "relevance", ~controls.desc
             PROVE  ExactFirstly
  BY DEF ExactFirst, ExactFirstly
<1>1. SearchTyped /\ RowsMade
  BY TableTyped DEF TableInv, AskedInv
<1> QED BY <1>1, MadeExact DEF RowsMade

\* The table of the window (recompute_rows, search.query) holds what the query, the
\* scope and the filter panel mean, all of it or as many rows as it may, in the order
\* that is chosen, and what is left out is not before what is shown; the daemon refuses
\* the queries that cannot be understood, and no others.  For all texts that can be
\* typed, pasted or composed, all files, and whatever else the user does.
THEOREM RowsHold == DesktopSpec => []RowsAnswerQuery
BY TableInvInit, TableInvStep, TableAnswersQuery, PTL DEF DesktopSpec

\* In the order of relevance a file whose name is one of the words of the query comes
\* before all others (relevance_score), over all devices.
THEOREM ExactHolds == DesktopSpec => []ExactFirst
BY TableInvInit, TableInvStep, TableExact, PTL DEF DesktopSpec

=============================================================================
