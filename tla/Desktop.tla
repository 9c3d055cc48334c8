------------------------------- MODULE Desktop -------------------------------
(***************************************************************************)
(* From a change of a file to an opened search result: the desktop window  *)
(* (oxidex, DaemonGuiApp) asks oxidexd to search the indexes of two        *)
(* devices, one watched (LiveUpdates), one that nobody changes.  Rows keep *)
(* what the daemon answered; files are opened by the number of a record.   *)
(***************************************************************************)
EXTENDS LiveUpdates, Meaning

CONSTANT Archive   \* the files of the second device

Watched == 1
Devices == {Watched, 2}

\* Scenarios also name
\*   keys      what can be typed, pasted or composed at once
\*   length    of a query (a bound)
\*   exts, pathFilters  what can be typed into the filter panel
\*   controls  what else the user does: erase, compose, scope, filters, sort,
\*             select, windows, open; and what happens: mount, fail
\*   managed   the devices that the user scans and forgets
\*   served    the devices that are indexed at first
\*   limit     of the number of rows (search.max_results)
IsText(text) == text \in Seq(ToSet(text))

\* A file has a size, below u64::MAX, and a time of modification.
IsContent(v) == v.size \in 0..(MaxSize - 1) /\ v.mtime \in Nat

ASSUME DesktopAssumption ==
  /\ \A s \in Scenarios :
       /\ s.length \in Nat /\ s.limit \in Nat \ {0} /\ s.served \subseteq Devices
       /\ \A text \in s.keys \cup s.exts \cup s.pathFilters : IsText(text)
  /\ \A v \in Versions : IsContent(v)
  /\ IsFiniteSet(DOMAIN Archive) /\ DOMAIN Archive \subseteq Seq(Names)
  /\ <<>> \in DOMAIN Archive /\ \A p \in DOMAIN Archive \ {<<>>} : Front(p) \in DOMAIN Archive
  /\ \A p \in DOMAIN Archive : IsContent(Archive[p])

VARIABLES
  served,    \* oxidexd: the devices whose indexes it has
  scanning,  \* the devices whose scans were asked for and have not ended
  mounted,   \* the devices that are mounted
  controls,  \* the query, the scope, the filter panel and the sort order
  composing, \* how much of the query an input method shows and has not committed
  windows,   \* what can be closed by Escape
  listed,    \* the indexes as the window knows them
  rows,      \* the table
  selected,  \* the hit that is selected
  opened,    \* the path that was opened last
  answered,  \* how the last search for these controls ended, "no" if there was none
  changed    \* history: the devices that changed since the rows were made

guiVars   == <<controls, composing, windows, listed, rows, selected, opened, answered>>
otherVars == <<served, scanning, mounted, changed>>
desktopVars == <<served, scanning, mounted, changed, controls, composing, windows, listed,
                 rows, selected, opened, answered>>
allVars   == <<scenario, tree, told, pending, index, base, ops, served, scanning, mounted,
               changed, controls, composing, windows, listed, rows, selected, opened, answered>>

NoHit == Hit(0, 0)

Allowed(control) == control \in scenario.controls

-----------------------------------------------------------------------------
(* oxidexd *)

ArchiveIndex ==
  Scanned(Archive, SetToSeq(DOMAIN Archive))

IndexOf(d) == IF d = Watched THEN index ELSE ArchiveIndex

\* Mutant: rows are numbered as they come.
RowNumbered(hit, n) ==
  [hit  |-> Hit(hit.device, n),
   path |-> IndexOf(hit.device).paths[hit.record],
   meta |-> IndexOf(hit.device).records[hit.record].meta,
   mounted |-> hit.device \in mounted]

\* rows_for_hits; the path is shown below the mount point or the label.
RowFor(hit, n) ==
  [hit  |-> hit,
   path |-> IndexOf(hit.device).paths[hit.record],
   meta |-> IndexOf(hit.device).records[hit.record].meta,
   mounted |-> hit.device \in mounted]

Rows(hits) == [n \in 1..First({Len(hits), scenario.limit}) |-> RowFor(hits[n], n)]

\* search.query
Answer(request, c) ==
  Rows(MergeSearch([d \in served |-> IndexOf(d)], c.scope, request, c.sort, c.desc))

\* resolve_path
Resolvable(hit) ==
  hit.device \in served /\ hit.record \in DOMAIN IndexOf(hit.device).records

-----------------------------------------------------------------------------
(* The window: searching *)

\* search_query_ready
Ready(query) == Len(BytesOf(Trimmed(query, {Space}))) >= 3

\* panel_filters and SearchRequest::add_filters
PanelClauses(c) ==
  {ExtensionClause(e) : e \in {Extensions(c.exts)} \ {{}}}
    \cup {TypeClause(t) : t \in c.type}
    \cup {PathClause(Folded(p)) : p \in {Trimmed(c.path, {Space})} \ {<<>>}}

\* search_request
RequestsOf(c) == {[r EXCEPT !.include = @ \cup PanelClauses(c)] : r \in Requests(c.query)}

Shown(hit) == \E n \in DOMAIN rows : rows[n].hit = hit

\* recompute_rows: a query that is too short clears the table, one that cannot be
\* understood and a search that fails leave it.
Recompute(c) ==
  /\ controls' = c
  /\ \/ /\ ~Ready(c.query)
        /\ rows' = <<>> /\ selected' = NoHit
        /\ answered' = "short" /\ changed' = {}
     \/ /\ Ready(c.query) /\ RequestsOf(c) = {}
        /\ answered' = "error"
        /\ UNCHANGED <<rows, selected, changed>>
     \/ /\ Ready(c.query)
        /\ \E r \in RequestsOf(c) : rows' = Answer(r, c)
        /\ selected' = IF \E n \in DOMAIN rows' : rows'[n].hit = selected THEN selected ELSE NoHit
        /\ answered' = "rows" /\ changed' = {}
     \/ /\ Ready(c.query) /\ RequestsOf(c) # {} /\ Allowed("fail")
        /\ answered' = "failed"
        /\ UNCHANGED <<rows, selected, changed>>

\* A control is changed, and the search is made again.
Ask(c) ==
  /\ Recompute(c)
  /\ UNCHANGED <<vars, served, scanning, mounted, windows, listed, opened>>

Typed(text) == [controls EXCEPT !.query = @ \o text]

\* The query field changes.
Type(text) ==
  /\ composing = 0 /\ Len(controls.query \o text) <= scenario.length
  /\ Ask(Typed(text)) /\ UNCHANGED composing

Erase ==
  /\ Allowed("erase") /\ composing = 0 /\ controls.query # <<>>
  /\ \E rest \in {<<>>, Front(controls.query)} : Ask([controls EXCEPT !.query = rest])
  /\ UNCHANGED composing

\* ime_frame_from_events: while an input method composes, the field shows the text
\* and nothing is searched; another text may be committed.
Compose(text) ==
  /\ Allowed("compose") /\ composing = 0 /\ Len(controls.query \o text) <= scenario.length
  /\ controls' = Typed(text) /\ composing' = Len(text) /\ answered' = "no"
  /\ UNCHANGED <<vars, otherVars, windows, listed, rows, selected, opened>>

Commit(text) ==
  LET before == SubSeq(controls.query, 1, Len(controls.query) - composing)
  IN  /\ composing > 0 /\ composing' = 0
      /\ Len(before \o text) <= scenario.length
      /\ Ask([controls EXCEPT !.query = before \o text])

\* The scope is chosen from the indexes that the window knows.
ChooseScope(scope) ==
  /\ Allowed("scope")
  /\ Ask([controls EXCEPT !.scope = scope]) /\ UNCHANGED composing

\* daemon_filter_panel: a text is typed, replaced or committed, a type chosen, or
\* everything cleared.
Filter(exts, path, type) ==
  /\ Allowed("filters") /\ "filters" \in windows
  /\ Ask([controls EXCEPT !.exts = exts, !.path = path, !.type = type])
  /\ UNCHANGED composing

\* ... or a text is composed, and nothing is searched before it is committed.
ComposeFilter(exts, path) ==
  /\ Allowed("filters") /\ Allowed("compose") /\ "filters" \in windows /\ composing = 0
  /\ controls' = [controls EXCEPT !.exts = exts, !.path = path] /\ answered' = "no"
  /\ UNCHANGED <<vars, otherVars, composing, windows, listed, rows, selected, opened>>

\* sort_button: the active key turns the order round.
Sort(key) ==
  /\ Allowed("sort")
  /\ Ask([controls EXCEPT !.sort = key, !.desc = (key = controls.sort /\ ~@)])
  /\ UNCHANGED composing

-----------------------------------------------------------------------------
(* The window: results *)

\* A row is clicked, with either button; the table is there if the window knows
\* of an index.
Select(n) ==
  /\ Allowed("select") /\ listed # {}
  /\ selected' = rows[n].hit
  /\ UNCHANGED <<vars, otherVars, controls, composing, windows, listed, rows, opened, answered>>

\* selected_row, then resolve_path
Openable(hit) == Shown(hit) /\ Resolvable(hit) /\ hit.device \in mounted

PathOf(hit) == IndexOf(hit.device).paths[hit.record]

\* open_selected, by Enter, button or menu; without a mounted device only the
\* status line changes.
OpenSelected ==
  /\ Allowed("open") /\ Openable(selected)
  /\ opened' = [hit |-> selected, path |-> PathOf(selected)]
  /\ UNCHANGED <<vars, otherVars, controls, composing, windows, listed, rows, selected, answered>>

\* A double click selects, then opens.
DoubleClick(n) ==
  /\ Allowed("open") /\ listed # {} /\ Openable(rows[n].hit)
  /\ selected' = rows[n].hit
  /\ opened' = [hit |-> rows[n].hit, path |-> PathOf(rows[n].hit)]
  /\ UNCHANGED <<vars, otherVars, controls, composing, windows, listed, rows, answered>>

ShowWindow(w) ==
  /\ Allowed("windows")
  /\ w = "properties" => Shown(selected)
  /\ windows' = IF w = "filters" THEN SymDiff(windows, {w}) ELSE windows \cup {w}
  /\ UNCHANGED <<vars, otherVars, controls, composing, listed, rows, selected, opened, answered>>

\* One thing after the other is closed, and at last the selection given up.
Escape ==
  /\ Allowed("windows")
  /\ windows' = IF "properties" \in windows THEN windows \ {"properties"}
                ELSE IF "settings" \in windows THEN windows \ {"settings"} ELSE {}
  /\ selected' = IF windows = {} THEN NoHit ELSE selected
  /\ UNCHANGED <<vars, otherVars, controls, composing, listed, rows, opened, answered>>

-----------------------------------------------------------------------------
(* The window: indexes *)

\* refresh_lists: all lists are fetched, or none is replaced.
RefreshLists == listed' = served \/ (Allowed("fail") /\ UNCHANGED listed)

\* The button Refresh
RefreshAll ==
  /\ scenario.managed # {}
  /\ RefreshLists
  /\ Recompute(controls)
  /\ UNCHANGED <<vars, served, scanning, mounted, composing, windows, opened>>

\* The index manager is opened, or one of its refresh buttons used.
ShowIndexes ==
  /\ scenario.managed # {}
  /\ RefreshLists
  /\ UNCHANGED <<vars, otherVars, controls, composing, windows, rows, selected, opened, answered>>

\* scan_device: the scan is queued, the lists and the table are made again.
Scan(d) ==
  /\ d \in scenario.managed
  /\ scanning' = scanning \cup {d}
  /\ RefreshLists
  /\ Recompute(controls)
  /\ UNCHANGED <<vars, served, mounted, composing, windows, opened>>

\* cancel_scan, in time; what it finds too late has ended with ScanEnds.
Cancel(d) ==
  /\ d \in scenario.managed /\ d \in scanning
  /\ scanning' = scanning \ {d}
  /\ UNCHANGED <<vars, served, mounted, changed, guiVars>>

\* The daemon publishes the scan; its records may be numbered otherwise.
ScanEnds(d) ==
  /\ d \in scanning
  /\ scanning' = scanning \ {d}
  /\ served' = served \cup {d}
  /\ changed' = changed \cup {d}
  /\ IF d = Watched
     THEN \E order \in ScanOrders(tree) :
            index' = FilterIndex(Scanned(tree, order), scenario.rules)
     ELSE UNCHANGED index
  /\ UNCHANGED <<scenario, tree, told, pending, base, ops, mounted, guiVars>>

\* The rows of the other devices, each at its place
RowsWithout(d) == Restrict(rows, {n \in DOMAIN rows : rows[n].hit.device # d})

\* Mutant: the selection outlives its row.
ForgetKeepingSelection(d) ==
  /\ d \in scenario.managed /\ d \in listed
  /\ served' = served \ {d}
  /\ listed' = served'
  /\ rows' = RowsWithout(d)
  /\ controls' = [controls EXCEPT !.scope = @ \ {d}]
  /\ answered' = IF d \in controls.scope THEN "no" ELSE answered
  /\ changed' = changed \cup {d}
  /\ UNCHANGED <<vars, scanning, mounted, composing, windows, selected, opened>>

\* forget_index: what the window shows of the device goes; nothing is searched.
Forget(d) ==
  /\ d \in scenario.managed /\ d \in listed
  /\ served' = served \ {d}
  /\ listed' = served'
  /\ rows' = RowsWithout(d)
  /\ selected' = IF selected.device = d THEN NoHit ELSE selected
  /\ controls' = [controls EXCEPT !.scope = @ \ {d}]
  /\ answered' = IF d \in controls.scope THEN "no" ELSE answered
  /\ changed' = changed \cup {d}
  /\ UNCHANGED <<vars, scanning, mounted, composing, windows, opened>>

\* daemon_index_manager, and the menu of a row
IndexManager == \E d \in Devices : Scan(d) \/ Cancel(d) \/ Forget(d)

-----------------------------------------------------------------------------
(* What happens outside the window *)

Mount(d) ==
  /\ Allowed("mount")
  /\ mounted' = SymDiff(mounted, {d})
  /\ changed' = changed \cup {d}
  /\ UNCHANGED <<vars, served, scanning, guiVars>>

\* The files and the daemons go on as in LiveUpdates.
Elsewhere ==
  /\ changed' = IF index' = index THEN changed ELSE changed \cup {Watched}
  /\ UNCHANGED <<served, scanning, mounted, guiVars>>

DesktopInit ==
  /\ Init
  /\ served = scenario.served /\ listed = served
  /\ scanning = {} /\ mounted = Devices
  /\ controls = [query |-> <<>>, scope |-> {}, exts |-> <<>>, path |-> <<>>, type |-> {},
                 sort |-> "relevance", desc |-> FALSE]
  /\ composing = 0
  /\ windows = {"filters"}
  /\ rows = <<>> /\ selected = NoHit /\ opened = [hit |-> NoHit, path |-> <<>>]
  /\ answered = "short" /\ changed = {}

DesktopNext ==
  \/ \E text \in scenario.keys : Type(text) \/ Compose(text)
  \/ \E text \in {<<>>} \cup scenario.keys : Commit(text)
  \/ Erase
  \/ \E scope \in {{}} \cup {{d} : d \in listed} : ChooseScope(scope)
  \/ \E exts \in scenario.exts, path \in scenario.pathFilters,
        type \in {{}, {"file"}, {"dir"}, {"symlink"}} :
       Filter(exts, path, type) \/ ComposeFilter(exts, path)
  \/ \E key \in {"relevance", "name", "path", "size", "mtime"} : Sort(key)
  \/ \E n \in DOMAIN rows : Select(n) \/ DoubleClick(n)
  \/ OpenSelected
  \/ \E w \in {"properties", "settings", "filters"} : ShowWindow(w)
  \/ Escape \/ RefreshAll \/ ShowIndexes \/ IndexManager
  \/ \E d \in Devices : ScanEnds(d) \/ Mount(d)
  \/ \E p \in Paths :
       \/ \E m \in Metas : Create(p, m) /\ Elsewhere
       \/ Modify(p) /\ Elsewhere
       \/ Delete(p) /\ Elsewhere
       \/ MoveOut(p) /\ Elsewhere
       \/ \E q \in Paths : Rename(p, q) /\ Elsewhere
       \/ \E v \in Versions : MoveIn(p, v) /\ Elsewhere
  \/ Callback /\ Elsewhere
  \/ Apply /\ Elsewhere

DesktopSpec == DesktopInit /\ [][DesktopNext]_allVars

-----------------------------------------------------------------------------
(* Properties *)

\* The device is searched, and the record is what the query and the panel want.
Matches(d, i) ==
  /\ controls.scope = {} \/ d \in controls.scope
  /\ Answers(IndexOf(d), i, controls.query)
  /\ controls.type = {} \/ IndexOf(d).records[i].meta.kind \in controls.type
  /\ FilterForm("ext:", controls.exts) => HasExtension(FoldedName(IndexOf(d), i), controls.exts)
  /\ Occurs(Folded(Trimmed(controls.path, {Space})), Folded(PathText(IndexOf(d).paths[i])))

Expected ==
  UNION {{Hit(d, i) : i \in {i \in DOMAIN IndexOf(d).records : Matches(d, i)}} : d \in served}

\* a belongs before b in the order that is chosen.
Precedes(a, b) ==
  LET x == IndexOf(a.device).records[a.record].meta
      y == IndexOf(b.device).records[b.record].meta
      less(s, t) == LexLess(Codes(s), Codes(t))
  IN  CASE controls.sort = "size"  -> x.size < y.size
        [] controls.sort = "mtime" -> x.mtime < y.mtime
        [] controls.sort = "name"  -> less(FoldedName(IndexOf(a.device), a.record),
                                           FoldedName(IndexOf(b.device), b.record))
        [] controls.sort = "path"  -> less(PathText(PathOf(a)), PathText(PathOf(b)))
        [] controls.sort = "relevance" -> FALSE

InOrder(a, b) == IF controls.desc THEN ~Precedes(a, b) ELSE ~Precedes(b, a)

\* Once everything has been told and applied, the index shows the files, whatever the
\* user does with the window.  A scan that ends while events are on their way is left
\* out: these are applied to its result, which they are not about (v_scan_late.cfg).
ShowsUnscanned == Watched \notin scenario.managed => ShowsTheFiles

\* The table holds what the query means, all of it or as much as it may, in
\* order, if it is documented; a query that cannot be understood is reported, and no
\* other.
RowsAnswerQuery ==
  LET hits == {rows[n].hit : n \in DOMAIN rows}
  IN  /\ answered = "error" => ~WellFormed(controls.query)
      /\ answered = "rows" => WellFormed(controls.query)
      /\ answered = "rows" /\ changed = {} /\ Documented(controls.query) =>
           /\ hits \subseteq Expected
           /\ Len(rows) = First({Cardinality(Expected), scenario.limit}) /\ Cardinality(hits) = Len(rows)
           /\ \A m, n \in DOMAIN rows : m < n => InOrder(rows[m].hit, rows[n].hit)
           /\ \A h \in Expected \ hits, n \in DOMAIN rows : InOrder(rows[n].hit, h)

\* "Text match quality remains the strongest signal: exact basenames, ..."
\* (docs/user-guide.md:318): a name that is one of the words comes before all others.
ExactFirst ==
  answered = "rows" /\ changed = {} /\ controls.sort = "relevance" /\ ~controls.desc =>
    \A m, n \in DOMAIN rows :
      m < n /\ IsExact(IndexOf(rows[n].hit.device), rows[n].hit.record, controls.query)
        => IsExact(IndexOf(rows[m].hit.device), rows[m].hit.record, controls.query)

\* What is selected is in the table, so that no button acts on what cannot be seen.
SelectionShown == selected = NoHit \/ Shown(selected)

\* What is opened is what its row says, as long as the index of its device and its
\* mount are those from which the row was made.
OpensShown ==
  [][opened' # opened /\ opened'.hit.device \notin changed =>
       \E n \in DOMAIN rows : rows[n].hit = opened'.hit /\ rows[n].path = opened'.path]_allVars

\* ... and always?
AlwaysOpensShown ==
  [][opened' # opened =>
       \E n \in DOMAIN rows : rows[n].hit = opened'.hit /\ rows[n].path = opened'.path]_allVars

=============================================================================
