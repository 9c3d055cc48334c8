------------------------------ MODULE Coalesce ------------------------------
(***************************************************************************)
(* What happens to the events of a batch before they reach the index:      *)
(* coalesce_watch_events and the conversion in                             *)
(* apply_scanner_watch_events_batch (oxidex-daemon).  All events of a      *)
(* batch belong to one device.                                             *)
(***************************************************************************)
EXTENDS Rules

CONSTANT NoMeta   \* the path was not there any more when the watcher looked

ASSUME CoalesceAssumption == NoMeta \notin Names

\* ScannerWatchEvent; old is only looked at for a rename.
WatchEvent(kind, path, old, meta) == [kind |-> kind, path |-> path, old |-> old, meta |-> meta]

LastOf(S) == CHOOSE k \in S : \A j \in S : j <= k

\* One step of collapse_rename_chains: a -> b, b -> c becomes a -> c, at the
\* place of the first.
CollapseOne(out, e) ==
  LET before == {k \in DOMAIN out : out[k].kind = "renamed" /\ out[k].path = e.old}
  IN  IF e.kind = "renamed" /\ before # {}
      THEN [out EXCEPT ![LastOf(before)].path = e.path, ![LastOf(before)].meta = e.meta]
      ELSE Append(out, e)

\* What an event takes the place of
Supersedes(kind) ==
  CASE kind \in {"metadata", "removed"} -> {"created", "metadata"}
    [] kind = "created"                 -> {"removed"}
    [] kind = "renamed"                 -> {}

\* Mutant: a removal makes up for a creation, and both are dropped.
CoalesceOneCancelling(out, e) ==
  LET before == {k \in DOMAIN out : out[k].path = e.path /\ out[k].kind \in Supersedes(e.kind)}
  IN  IF before = {} THEN Append(out, e)
      ELSE IF e.kind = "removed" THEN RemoveAt(out, LastOf(before))
      ELSE IF e.kind = "metadata" THEN [out EXCEPT ![LastOf(before)].meta = e.meta]
      ELSE [out EXCEPT ![LastOf(before)] = e]

\* coalesce_with_existing
CoalesceOne(out, e) ==
  LET before == {k \in DOMAIN out : out[k].path = e.path /\ out[k].kind \in Supersedes(e.kind)}
  IN  IF before = {} THEN Append(out, e)
      ELSE IF e.kind = "metadata" THEN [out EXCEPT ![LastOf(before)].meta = e.meta]
      ELSE [out EXCEPT ![LastOf(before)] = e]

\* coalesce_watch_events
Coalesced(events) == FoldLeft(CoalesceOne, <<>>, FoldLeft(CollapseOne, <<>>, events))

\* Mutant: a creation counts although the file is gone already.
LiveEventBlind(rules, e) ==
  CASE e.kind = "created"  -> IF Allows(rules, e.path) THEN <<e>> ELSE <<>>
    [] e.kind = "removed"  -> <<e>>
    [] e.kind = "renamed"  ->
         IF e.meta # NoMeta /\ Allows(rules, e.path) THEN <<e>>
         ELSE <<WatchEvent("removed", e.old, e.old, NoMeta)>>
    [] e.kind = "metadata" -> IF e.meta # NoMeta THEN <<e>> ELSE <<>>

\* The event as apply_live_events gets it, or none
LiveEvent(rules, e) ==
  CASE e.kind = "created"  -> IF e.meta # NoMeta /\ Allows(rules, e.path) THEN <<e>> ELSE <<>>
    [] e.kind = "removed"  -> <<e>>
    [] e.kind = "renamed"  ->
         IF e.meta # NoMeta /\ Allows(rules, e.path) THEN <<e>>
         ELSE <<WatchEvent("removed", e.old, e.old, NoMeta)>>
    [] e.kind = "metadata" -> IF e.meta # NoMeta THEN <<e>> ELSE <<>>

LiveEvents(rules, events) ==
  FoldLeft(LAMBDA out, e : out \o LiveEvent(rules, e), <<>>, events)

\* apply_scanner_watch_events_batch
ApplyBatch(index, rules, events) == ApplyEvents(index, LiveEvents(rules, Coalesced(events)))

=============================================================================
