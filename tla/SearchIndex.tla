----------------------------- MODULE SearchIndex -----------------------------
(***************************************************************************)
(* The records of an index of one device, the paths computed from them,    *)
(* and the live updates that change them (oxidex-core, index.rs).          *)
(*                                                                         *)
(* A path is the sequence of its names, <<>> is "/".  Records are numbered *)
(* from 1, so that 0 can stand for ROOT_PARENT and for "not found", which  *)
(* the code turns into ROOT_PARENT.  Offsets into the pools of names are   *)
(* abstracted to the names; the sort orders belong to Search.              *)
(***************************************************************************)
EXTENDS Naturals, FiniteSets, Sequences, SequencesExt

CONSTANTS
  Names,     \* names of files and directories
  NoName,    \* the empty name of the record of "/"
  MaxDepth   \* 4096 in the code (a bound)

ASSUME IndexAssumption == NoName \notin Names /\ MaxDepth \in Nat

RootParent == 0

\* meta is whatever LiveRecordMetadata tells: the kind, the size, the time.
RecordOf(parent, name, meta) == [parent |-> parent, name |-> name, meta |-> meta]

-----------------------------------------------------------------------------
(* Paths *)

\* build_path_for
PathFor(records, record) ==
  LET path[at \in Nat \X Nat] ==
        LET i     == at[1]
            depth == at[2]
        IN  IF i \notin DOMAIN records \/ depth > MaxDepth \/ records[i].name = NoName THEN <<>>
            ELSE IF records[i].parent \in {RootParent, i} THEN <<records[i].name>>
            ELSE Append(path[<<records[i].parent, depth + 1>>], records[i].name)
  IN  path[<<record, 0>>]

\* rebuild_accelerators, as far as it concerns paths
Rebuilt(records) ==
  [records |-> records, paths |-> [i \in DOMAIN records |-> PathFor(records, i)]]

\* record_by_internal_path: the first record with that path
Lookup(index, path) ==
  LET found == {i \in DOMAIN index.paths : index.paths[i] = path}
  IN  IF found = {} THEN 0 ELSE CHOOSE i \in found : \A j \in found : i <= j

-----------------------------------------------------------------------------
(* Removing records *)

\* The record and everything below it
Subtree(records, record) ==
  LET below[k \in Nat] ==
        IF k = 0 THEN {record}
        ELSE LET found == below[k - 1]
             IN  found \cup {i \in DOMAIN records : records[i].parent \in found}
  IN  below[Len(records)]

\* The numbers of the records that are kept, in their order
Kept(keep) ==
  [n \in 1..Cardinality(keep) |->
     CHOOSE i \in keep : Cardinality({k \in keep : k <= i}) = n]

\* Mutant: the records keep the numbers of their parents.
CompactedKeepingParents(records, keep) == [n \in DOMAIN Kept(keep) |-> records[Kept(keep)[n]]]

\* rebuild_from_keep: what is kept, closed up, with the parents renumbered; a
\* record whose parent goes moves to the root.
Compacted(records, keep) ==
  LET parent(p) == IF p \in keep THEN Cardinality({k \in keep : k <= p}) ELSE RootParent
      old       == Kept(keep)
  IN  [n \in DOMAIN old |-> [records[old[n]] EXCEPT !.parent = parent(@)]]

\* remove_subtree
RemoveSubtree(index, record) ==
  IF record \in DOMAIN index.records
  THEN [index EXCEPT
          !.records = Compacted(@, DOMAIN @ \ Subtree(@, record)), !.changed = TRUE]
  ELSE index

-----------------------------------------------------------------------------
(* One event.  The paths are those from before the batch. *)

\* refresh_record_metadata
Refresh(index, record, meta) ==
  IF record \in DOMAIN index.records
  THEN [index EXCEPT !.records[record].meta = meta, !.changed = TRUE]
  ELSE index

\* add_live_record; a parent that is not found is taken for the root.
AddRecord(index, path, meta) ==
  IF Lookup(index, path) # 0 THEN Refresh(index, Lookup(index, path), meta)
  ELSE IF path = <<>> THEN index
  ELSE [index EXCEPT
          !.records = Append(@, RecordOf(Lookup(index, Front(path)), Last(path), meta)),
          !.changed = TRUE]

\* Mutant: a renamed record stays where it was.
RenameRecordInPlace(index, record, path, meta) ==
  IF path = <<>> \/ record \notin DOMAIN index.records THEN index
  ELSE [index EXCEPT !.records[record].name = Last(path), !.records[record].meta = meta,
                     !.changed = TRUE]

\* rename_live_record; a record that has the new path already stays.
RenameRecord(index, record, path, meta) ==
  IF path = <<>> \/ record \notin DOMAIN index.records THEN index
  ELSE [index EXCEPT !.records[record] = RecordOf(Lookup(index, Front(path)), Last(path), meta),
                     !.changed = TRUE]

\* apply_live_event_without_rebuild
ApplyEvent(index, e) ==
  CASE e.kind = "created"  -> AddRecord(index, e.path, e.meta)
    [] e.kind = "removed"  -> RemoveSubtree(index, Lookup(index, e.path))
    [] e.kind = "renamed"  ->
         IF Lookup(index, e.old) # 0
         THEN RenameRecord(index, Lookup(index, e.old), e.path, e.meta)
         ELSE AddRecord(index, e.path, e.meta)
    [] e.kind = "metadata" -> Refresh(index, Lookup(index, e.path), e.meta)

\* apply_live_events: the paths are made anew at the end of the batch.
ApplyEvents(index, events) ==
  LET after == FoldLeft(ApplyEvent,
                        [records |-> index.records, paths |-> index.paths, changed |-> FALSE],
                        events)
  IN  IF after.changed THEN Rebuilt(after.records) ELSE index

-----------------------------------------------------------------------------
(* What an index says *)

\* Every record with its path, as search results show it
Listing(index) == {<<index.paths[i], index.records[i].meta>> : i \in DOMAIN index.records}

\* validate_index, which read_index applies to every snapshot it loads, as far
\* as it concerns records and paths
Loadable(index) ==
  /\ Len(index.paths) = Len(index.records)
  /\ \A i \in DOMAIN index.records : index.records[i].parent \in 0..Len(index.records)

=============================================================================
