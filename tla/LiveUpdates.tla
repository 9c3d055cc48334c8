----------------------------- MODULE LiveUpdates -----------------------------
(***************************************************************************)
(* One watched device: its files change, the watcher tells the scanner     *)
(* daemon, which looks at each path and sends an event; the events are     *)
(* collected in a batch, which is coalesced, filtered and applied to the   *)
(* index.  The index begins as a scan of the files left it.                *)
(***************************************************************************)
EXTENDS Coalesce

CONSTANTS
  Versions,  \* of the contents of a file: its size and time of modification
  Scenarios  \* what may happen, each a record:
             \*   names  that files are given
             \*   files  when the device is scanned
             \*   rules  of the device
             \*   ops    how many times files change (a bound)
             \*   may    what the files and the timing may do:
             \*            lag     files change again before the scanner daemon has
             \*                    looked at a path
             \*            batch   more than one event reaches the index at a time
             \*            over    a rename replaces a file
             \*            mkdir   directories are made and removed
             \*            dirs    directories are renamed
             \*            border  files are moved into what is watched, and out of it

VARIABLES
  scenario, \* the one that is played
  tree,     \* the files: the paths that exist, and what each is
  told,     \* what the watcher has reported and the scanner daemon not looked at
  pending,  \* the batch
  index,    \* the index that is served
  base,     \* history: the files at the last settled moment, unless a batch was cut
            \* in the middle of what the watcher had told
  ops       \* changes so far

vars == <<scenario, tree, told, pending, index, base, ops>>

May(what) == what \in scenario.may

-----------------------------------------------------------------------------
(* Files *)

Dir     == [kind |-> "dir", size |-> 0, mtime |-> 0]
File(v) == [kind |-> "file", size |-> v.size, mtime |-> v.mtime]
Metas   == {Dir} \cup {File(v) : v \in Versions}

\* What a device holds: every path but "/" is in a directory.
IsTree(files) ==
  /\ DOMAIN files \subseteq Seq(Names) /\ IsFiniteSet(DOMAIN files)
  /\ files \in [DOMAIN files -> Metas]
  /\ <<>> \in DOMAIN files /\ files[<<>>] = Dir
  /\ \A p \in DOMAIN files \ {<<>>} : Front(p) \in DOMAIN files /\ files[Front(p)] = Dir

ASSUME LiveUpdatesAssumption ==
  /\ NoMeta \notin Metas /\ MaxDepth >= 2
  /\ \A s \in Scenarios :
       /\ IsTree(s.files) /\ \A p \in DOMAIN s.files : Len(p) <= MaxDepth
       /\ s.names \subseteq Names
       /\ s.ops \in Nat /\ s.may \subseteq {"lag", "batch", "over", "mkdir", "dirs", "border"}

Paths  == UNION {[1..n -> scenario.names] : n \in 0..2}

Below(p) == {q \in DOMAIN tree : IsPrefix(p, q)}
IsDir(p) == p \in DOMAIN tree /\ tree[p] = Dir

\* The directory is there, the name is free.
Free(p) == p \in Paths \ DOMAIN tree /\ p # <<>> /\ IsDir(Front(p))

\* The orders in which a raw scan may come upon the files; a directory has its
\* number before what it holds.
ScanOrders(files) ==
  {o \in [1..Cardinality(DOMAIN files) -> DOMAIN files] :
     \A i, j \in DOMAIN o : i < j => o[i] # o[j] /\ ~IsPrefix(o[j], o[i])}

\* What the scan yields: a record of every file
Scanned(files, order) ==
  LET number(p) == CHOOSE i \in DOMAIN order : order[i] = p
  IN  Rebuilt([i \in DOMAIN order |->
        IF order[i] = <<>> THEN RecordOf(RootParent, NoName, files[<<>>])
        ELSE RecordOf(number(Front(order[i])), Last(order[i]), files[order[i]])])

\* The index that a scan of the files as they are now would give; what it shows does
\* not depend on the order.
Rescanned == FilterIndex(Scanned(tree, SetToSeq(DOMAIN tree)), scenario.rules)

-----------------------------------------------------------------------------
(* The watcher (the notify crate over inotify) and the files *)

Told(kind, path, old) == [kind |-> kind, path |-> path, old |-> old]

\* A change of the files, and what the watcher says of it.
Change(files, reports) ==
  /\ ops < scenario.ops /\ ops' = ops + 1
  /\ May("lag") \/ told = <<>>
  /\ tree' = files
  /\ told' = told \o reports
  /\ UNCHANGED <<scenario, pending, index, base>>

Create(p, meta) ==
  /\ Free(p) /\ (meta = Dir => May("mkdir"))
  /\ Change([q \in DOMAIN tree \cup {p} |-> IF q = p THEN meta ELSE tree[q]],
            <<Told("create", p, p)>>)

Modify(p) ==
  /\ \E v \in Versions :
       /\ p \in DOMAIN tree /\ tree[p] \in {File(w) : w \in Versions \ {v}}
       /\ Change([tree EXCEPT ![p] = File(v)], <<Told("modify", p, p)>>)

\* unlink, or rmdir of an empty directory
Delete(p) ==
  /\ p # <<>> /\ p \in DOMAIN tree /\ Below(p) = {p}
  /\ IsDir(p) => May("mkdir")
  /\ Change([q \in DOMAIN tree \ {p} |-> tree[q]], <<Told("remove", p, p)>>)

\* The files after p has become q
Moved(p, q) ==
  LET new(r) == q \o SubSeq(r, Len(p) + 1, Len(r))
      moved  == {new(r) : r \in Below(p)}
      stays  == DOMAIN tree \ (Below(p) \cup {q})
  IN  [r \in stays \cup moved |->
         IF r \in moved THEN tree[p \o SubSeq(r, Len(q) + 1, Len(r))] ELSE tree[r]]

\* A rename is told three times: from, to, and both.  A directory whose contents
\* would lie deeper than Paths go is left alone (a bound).
Rename(p, q) ==
  /\ p # <<>> /\ p \in DOMAIN tree
  /\ ~IsPrefix(p, q)
  /\ IsDir(p) => May("dirs") /\ \A r \in Below(p) : Len(q) + Len(r) - Len(p) <= 2
  /\ \/ Free(q)
     \/ May("over") /\ q \in DOMAIN tree /\ ~IsDir(p) /\ ~IsDir(q)
  /\ Change(Moved(p, q),
            <<Told("modify", p, p), Told("modify", q, q), Told("both", q, p)>>)

\* A file from elsewhere: only its arrival is told, and only its departure.
MoveIn(p, v) ==
  /\ May("border") /\ Free(p)
  /\ Change([q \in DOMAIN tree \cup {p} |-> IF q = p THEN File(v) ELSE tree[q]],
            <<Told("modify", p, p)>>)

MoveOut(p) ==
  /\ May("border") /\ p # <<>> /\ p \in DOMAIN tree /\ Below(p) = {p}
  /\ Change([q \in DOMAIN tree \ {p} |-> tree[q]], <<Told("modify", p, p)>>)

-----------------------------------------------------------------------------
(* oxidex-scannerd *)

\* metadata_for_live_path: what is there now
MetaNow(p) == IF p \in DOMAIN tree THEN tree[p] ELSE NoMeta

\* Mutant: a rename is sent as the creation of the new name.
EventOfCreating(t) ==
  CASE t.kind \in {"create", "both"} -> WatchEvent("created", t.path, t.path, MetaNow(t.path))
    [] t.kind = "remove" -> WatchEvent("removed", t.path, t.path, NoMeta)
    [] t.kind = "modify" -> WatchEvent("metadata", t.path, t.path, MetaNow(t.path))

\* scanner_watch_events
EventOf(t) ==
  CASE t.kind = "create" -> WatchEvent("created", t.path, t.path, MetaNow(t.path))
    [] t.kind = "remove" -> WatchEvent("removed", t.path, t.path, NoMeta)
    [] t.kind = "both"   -> WatchEvent("renamed", t.path, t.old, MetaNow(t.path))
    [] t.kind = "modify" -> WatchEvent("metadata", t.path, t.path, MetaNow(t.path))

\* The callback looks at one path and sends one event.
Callback ==
  /\ told # <<>>
  /\ May("batch") \/ pending = <<>>
  /\ pending' = Append(pending, EventOf(Head(told)))
  /\ told' = Tail(told)
  /\ UNCHANGED <<scenario, tree, index, base, ops>>

-----------------------------------------------------------------------------
(* oxidexd *)

\* The debounce has passed.
Apply ==
  /\ pending # <<>>
  /\ index' = ApplyBatch(index, scenario.rules, pending)
  /\ pending' = <<>>
  /\ base' = IF told = <<>> THEN tree ELSE NoMeta
  /\ UNCHANGED <<scenario, tree, told, ops>>

-----------------------------------------------------------------------------
\* The device has been scanned with these rules.
Init ==
  /\ scenario \in Scenarios
  /\ tree = scenario.files
  /\ told = <<>> /\ pending = <<>>
  /\ \E order \in ScanOrders(tree) : index = FilterIndex(Scanned(tree, order), scenario.rules)
  /\ base = tree
  /\ ops = 0

Next ==
  \/ \E p \in Paths :
       \/ \E m \in Metas : Create(p, m)
       \/ Modify(p) \/ Delete(p) \/ MoveOut(p)
       \/ \E q \in Paths : Rename(p, q)
       \/ \E v \in Versions : MoveIn(p, v)
  \/ Callback \/ Apply

Spec == Init /\ [][Next]_vars

-----------------------------------------------------------------------------
(* Properties *)

Settled == told = <<>> /\ pending = <<>>

\* When every change has been told and applied, search results are those that a
\* new scan would give: no file is missing, none is shown that has gone, none
\* twice, none at another path or with old metadata.
AlwaysShowsTheFiles ==
  Settled => /\ Listing(index) = Listing(Rescanned)
             /\ Len(index.records) = Len(Rescanned.records)

\* What a rule excludes, it excludes with all that is below it.
ExcludesBelow(rules) ==
  \A p, q \in DOMAIN scenario.files \cup Paths :
    IsPrefix(p, q) /\ Allows(rules, q) => Allows(rules, p)

\* ... unless what happens is known to go wrong: several events in one batch,
\* files replaced, files moved across the border of the device, directories that
\* change before their files have been looked at, include rules, rules that exclude
\* a directory and not what is in it, a directory renamed where there are rules.
Tame ==
  /\ scenario.may \cap {"batch", "over", "border"} = {}
  /\ ~May("lag") \/ scenario.may \cap {"dirs", "mkdir"} = {}
  /\ \/ scenario.rules = NoRules
     \/ scenario.rules.includes = {} /\ ExcludesBelow(scenario.rules) /\ ~May("dirs")

ShowsTheFiles == Tame => AlwaysShowsTheFiles

\* Nothing is shown that does not exist.
ShownFilesExist ==
  Settled => \A i \in DOMAIN index.paths : index.paths[i] \in DOMAIN tree

\* "record {i} parent out of bounds" (oxidex-core/src/snapshot.rs:299): the
\* snapshot that the next flush writes is one that read_index accepts.
AlwaysLoadable == Loadable(index)

\* ... as long as every event is a batch of its own.
StaysLoadable == ~May("batch") => AlwaysLoadable

\* What a batch does to files that are looked up as they are at that moment
Meant(files, e) ==
  LET below == {q \in DOMAIN files : IsPrefix(e.old, q)}
      at(q) == e.path \o SubSeq(q, Len(e.old) + 1, Len(q))
      stays == {q \in DOMAIN files \ below : ~IsPrefix(e.path, q)}
      with(p, m) == [q \in DOMAIN files \cup {p} |-> IF q = p THEN m ELSE files[q]]
  IN  CASE e.kind = "created"  -> with(e.path, e.meta)
        [] e.kind = "metadata" -> IF e.path \in DOMAIN files THEN with(e.path, e.meta) ELSE files
        [] e.kind = "removed"  -> [q \in DOMAIN files \ below |-> files[q]]
        [] e.kind = "renamed"  ->
             IF below = {} THEN with(e.path, e.meta)
             ELSE [q \in stays \cup {at(r) : r \in below} |->
                     IF q = e.path THEN e.meta
                     ELSE IF q \in stays THEN files[q]
                     ELSE files[CHOOSE r \in below : at(r) = q]]

MeaningOf(events) == FoldLeft(Meant, base, LiveEvents(NoRules, events))

\* "watch_event_coalescing_collapses_safe_duplicates" (oxidex-daemon/src/main.rs:2512):
\* when all changes have been told, what is left of the batch, carried out on the
\* files as they were, gives the files as they are.
CoalescingIsSafe == base # NoMeta /\ told = <<>> => MeaningOf(Coalesced(pending)) = tree

\* ... at least if nothing is renamed, and the batch tells what has happened.
CoalescingIsSafeUnrenamed ==
  scenario.may \cap {"lag", "border"} = {} =>
    ((\A i \in DOMAIN pending : pending[i].kind # "renamed") => CoalescingIsSafe)

\* The whole batch means what has happened, if files are looked at in time and do
\* not cross the border: what is lost then, is lost in coalescing.
BatchTellsAll ==
  scenario.may \cap {"lag", "border"} = {} =>
    (base # NoMeta /\ told = <<>> => MeaningOf(pending) = tree)

=============================================================================
