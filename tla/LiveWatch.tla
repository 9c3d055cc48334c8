------------------------------ MODULE LiveWatch ------------------------------
(***************************************************************************)
(* The live watch manager of oxidexd (watch_manager_loop and what it       *)
(* calls), the watch side of oxidex-scannerd, and the connection between   *)
(* them, over the index store.  One action of the manager is one critical  *)
(* section of the state lock, one frame, or one file operation of a flush. *)
(*                                                                         *)
(* A change of a watched file system is written to the stream as one event *)
(* frame; applying it adds it to the index that is served.  What happens   *)
(* inside a batch is the subject of Coalesce and LiveUpdates.              *)
(***************************************************************************)
EXTENDS IndexStore, Sequences

CONSTANTS
  Flusher,    \* the manager as a writer of the store
  MaxFrames,  \* frames the stream holds (a bound)
  Scenarios,  \* sets of what may happen besides changes of files, see below
  Overlap     \* with "forget" in it, index.forget may meet a flush of the same
              \* device under way: nothing in the daemon keeps them apart

\* overflow: the kernel drops events and says so with an event without a path
\* notify:   the watcher reports an error instead of an event
\* hangup:   the scanner daemon ends, at a frame boundary or inside a frame
\* skew:     a read times out inside a frame; the bytes read are lost
\* refuse:   scanner.start_watch is refused
\* unmount:  a device is unmounted
\* rules:    the rules of a device do not compile
\* io:       the file system refuses a write
\* busy:     files that were changed already go on changing, without a pause
\* restart:  the daemon dies and is started again
\* denied:   an error that is recorded may say that permission was denied
\* options:  config.set of indexing.watch_mounted, config.reload
\* scan, forget: the requests
EventKinds == {"overflow", "notify", "hangup", "skew", "refuse", "unmount", "rules", "io",
               "busy", "restart", "denied", "options", "scan", "forget"}

ASSUME WatchAssumption ==
  /\ Flusher \in Writers
  /\ MaxFrames \in Nat \ {0}
  /\ Scenarios \subseteq SUBSET EventKinds

VARIABLES
  events,       \* the one of Scenarios that goes on
  at,           \* where the manager is
  link,         \* the connection, as far as its peer is concerned
  skewed,       \* is the manager's reading position inside a frame?
  frames,       \* frames on their way to the manager
  op,           \* the request the manager waits for
  request,      \* how far the scanner daemon is with it
  active,       \* conn.active: devices the manager believes to be watched
  watching,     \* devices the scanner daemon watches for this connection
  stops, starts,\* what is left of a reconciliation
  pending,      \* pending[d]: changes received and not applied
  forced,       \* does this round of applying ignore the debounce?
  dirty,        \* devices changed in memory since their last flush
  due, flushing,\* what is left of this round of flushes, the one under way
  summary,      \* watch_summaries
  watchMounted, \* indexing.watch_mounted
  config,       \* the configuration: enabled devices
  mounted,      \* the mounted devices
  noted         \* history: the changes made while their device was watched

connVars    == <<link, skewed, frames, op, request, active, watching>>
roundVars   == <<stops, starts, forced, due, flushing>>
optionVars  == <<events, watchMounted, config, mounted>>
managerVars == <<at, connVars, roundVars, pending, dirty, summary>>
vars        == <<managerVars, optionVars, noted, storeVars>>

-----------------------------------------------------------------------------
(* Values *)

Places  == {"drain", "drained", "stops", "starts", "await", "apply", "flush", "saving", "saved"}
Links   == {"none", "up", "closed", "broken"}
Answers == {"ok", "refused"}
Frame   == [kind : {"event", "error", "stopped"} \cup Answers,
            dev : Devices, change : Changes \cup {Absent}]
NoOp    == [kind |-> "none", dev |-> Absent]
Summary == [state : {"watching", "stopped", "error", "unavailable", "suppressed"},
            dirty : BOOLEAN]

FrameOf(kind, d) == [kind |-> kind, dev |-> d, change |-> Absent]
EventOf(d, c)    == [kind |-> "event", dev |-> d, change |-> c]

TypeOK ==
  /\ StoreTypeOK
  /\ at \in Places
  /\ link \in Links
  /\ skewed \in BOOLEAN
  /\ frames \in Seq(Frame)
  /\ op \in {NoOp} \cup [kind : {"start", "stop"}, dev : Devices]
  /\ request \in {"none", "sent", "watching"}
  /\ {active, watching, stops, starts, dirty, due, mounted} \subseteq SUBSET Devices
  /\ pending \in [Devices -> SUBSET Changes]
  /\ forced \in BOOLEAN
  /\ flushing \in Devices \cup {Absent}
  /\ summary \in [Devices -> Summary \cup {Absent}]
  /\ watchMounted \in BOOLEAN
  /\ config.enabled \subseteq Devices
  /\ noted \in [Devices -> SUBSET Changes]

\* The daemon has just been started.
ManagerInit ==
  /\ at = "drain" /\ link = "none" /\ skewed = FALSE /\ frames = <<>>
  /\ op = NoOp /\ request = "none"
  /\ active = {} /\ watching = {} /\ stops = {} /\ starts = {}
  /\ pending = [d \in Devices |-> {}]
  /\ forced = FALSE /\ dirty = {} /\ due = {} /\ flushing = Absent
  /\ summary = [d \in Devices |-> Absent]
  /\ watchMounted = TRUE
  /\ mounted = Devices
  /\ noted = [d \in Devices |-> {}]

\* DaemonState::load: devices were scanned in an earlier life of the daemon, or are
\* not indexed.
StoreLoaded ==
  /\ fs = [d \in Devices |-> {}]
  /\ indexes \in [Devices -> {Absent, [seen |-> {}]}]
  /\ indexStates = [d \in Devices |-> IF indexes[d] = Absent THEN Absent ELSE FreshSidecar]
  /\ snapshot = indexes
  /\ sidecar = indexStates
  /\ snapshotTmp = [d \in Devices |-> Absent]
  /\ saver = [w \in Writers |-> IdleSaver]

Init ==
  /\ events \in Scenarios
  /\ ManagerInit
  /\ config = [enabled |-> Devices]
  /\ StoreLoaded

\* The sidecar in memory, or the one that or_insert_with would make.
Health(d) == IF indexStates[d] = Absent THEN NewSidecar ELSE indexStates[d]
Stale(d)  == Health(d).stale # "none"

-----------------------------------------------------------------------------
(* Reports: all of them under the lock, with the sidecar saved.  An error of *)
(* save_index_state is ignored.                                             *)

SaveSidecars(D) ==
  \/ sidecar' = [d \in Devices |-> IF d \in D THEN indexStates'[d] ELSE sidecar[d]]
  \/ "io" \in events /\ UNCHANGED sidecar

Reported(d, state) ==
  [state |-> state, dirty |-> summary[d] # Absent /\ summary[d].dirty]

\* mark_watch_error, for every device of D: the sidecar ...
MarkDesync(D) ==
  /\ indexStates' = [d \in Devices |->
       IF d \in D THEN [stale |-> "watch_desync", live |-> "error"] ELSE indexStates[d]]
  /\ SaveSidecars(D)

\* ... and the report
MarkError(D) ==
  /\ MarkDesync(D)
  /\ summary' = [d \in Devices |-> IF d \in D THEN Reported(d, "error") ELSE summary[d]]

\* What errors say is not modelled: a desync on record may be a denied permission.
MayBeDenied(d) == "denied" \in events /\ Health(d).stale = "watch_desync"

\* mark_watch_setup_unavailable: not watched again before the next scan.  A desync
\* that was a denied permission is not one any more.
MarkUnavailable(d) ==
  /\ \E why \in {Health(d).stale} \cup (IF MayBeDenied(d) THEN {"none"} ELSE {}) :
       indexStates' = [indexStates EXCEPT ![d] = [stale |-> why, live |-> "unavailable"]]
  /\ SaveSidecars({d})
  /\ summary' = [summary EXCEPT ![d] = Reported(d, "unavailable")]

\* Mutant: a device without a report gets one that says nothing else.
WithDirtyMade(d, b) ==
  [summary EXCEPT ![d] = IF @ = Absent THEN [state |-> "none", dirty |-> b] ELSE [@ EXCEPT !.dirty = b]]

\* set_watch_dirty
WithDirty(d, b) ==
  [summary EXCEPT ![d] = IF @ = Absent THEN Absent ELSE [@ EXCEPT !.dirty = b]]

-----------------------------------------------------------------------------
(* Frames and batches *)

\* handle_scanner_watch_frame
HandleFrame(f) ==
  \/ /\ f.kind = "event"
     /\ pending' = [pending EXCEPT ![f.dev] = @ \cup {f.change}]
     /\ UNCHANGED <<indexStates, sidecar, summary>>
  \/ /\ f.kind = "error"
     /\ MarkError({f.dev})
     /\ UNCHANGED pending
  \/ /\ f.kind = "stopped"
     /\ summary' = [summary EXCEPT ![f.dev] =
          IF @ = Absent THEN Absent ELSE [@ EXCEPT !.state = "stopped"]]
     /\ UNCHANGED <<indexStates, sidecar, pending>>

\* flush_device_pending_live_batch: a batch of a device without index is dropped.
Applies(d) == pending[d] # {} /\ indexes[d] # Absent

\* Mutant: the device is not marked dirty.
ApplyPendingClean(d) ==
  /\ pending' = [pending EXCEPT ![d] = {}]
  /\ indexes' = IF Applies(d) THEN [indexes EXCEPT ![d].seen = @ \cup pending[d]] ELSE indexes
  /\ UNCHANGED dirty

\* Mutant: the rebuilt index holds the batch only.
ApplyPendingAlone(d) ==
  /\ pending' = [pending EXCEPT ![d] = {}]
  /\ indexes' = IF Applies(d) THEN [indexes EXCEPT ![d].seen = pending[d]] ELSE indexes
  /\ dirty' = IF Applies(d) THEN dirty \cup {d} ELSE dirty

ApplyPending(d) ==
  /\ pending' = [pending EXCEPT ![d] = {}]
  /\ IF Applies(d)
     THEN /\ indexes' = [indexes EXCEPT ![d].seen = @ \cup pending[d]]
          /\ dirty' = dirty \cup {d}
     ELSE UNCHANGED <<indexes, dirty>>

\* Mutant: what is still pending is thrown away when a watch is stopped.
DropPending(d) ==
  /\ pending' = [pending EXCEPT ![d] = {}]
  /\ UNCHANGED <<indexes, dirty, sidecar, indexStates>>

\* compile_rules fails: the batch is gone, and its index is marked.
RefusePending(d) ==
  /\ "rules" \in events /\ pending[d] # {}
  /\ pending' = [pending EXCEPT ![d] = {}]
  /\ MarkDesync({d})
  /\ UNCHANGED <<indexes, dirty>>

\* The report of a device whose batch has been applied
AppliedReport(d) == IF Applies(d) THEN WithDirty(d, TRUE) ELSE summary

\* reconcile_scanner_watches applies it before it asks for the stop.
ApplyOnStop(d) == ApplyPending(d) /\ UNCHANGED <<sidecar, indexStates>>

-----------------------------------------------------------------------------
(* The loop: connect, drain *)

Connect ==
  /\ at = "drain" /\ link = "none" /\ watchMounted
  /\ link' = "up" /\ skewed' = FALSE /\ frames' = <<>>
  /\ active' = {} /\ watching' = {}
  /\ UNCHANGED <<at, op, request, roundVars, pending, dirty, summary, optionVars,
                 noted, storeVars>>

\* Live updates are switched off, or the scanner daemon cannot be reached.
NoConnection ==
  /\ at = "drain" /\ link = "none"
  /\ at' = "apply" /\ forced' = TRUE
  /\ UNCHANGED <<connVars, stops, starts, due, flushing, pending, dirty, summary,
                 optionVars, noted, storeVars>>

ReadFrame ==
  /\ at = "drain" /\ link # "none" /\ ~skewed /\ frames # <<>>
  /\ HandleFrame(Head(frames))
  /\ frames' = Tail(frames)
  /\ UNCHANGED <<at, link, skewed, op, request, active, watching, roundVars, dirty,
                 optionVars, noted, fs, diskVars, indexes>>

\* Nothing came for 200 ms.  read_frame reports the end of the stream in the
\* same way, so a closed connection goes on being drained.
Quiet == link \in {"up", "closed"} /\ frames = <<>>

DrainTimesOut ==
  /\ at = "drain" /\ Quiet
  /\ at' = "drained"
  /\ UNCHANGED <<connVars, roundVars, pending, dirty, summary, optionVars, noted, storeVars>>

\* Less than 5 s since the last reconciliation.
SkipReconcile ==
  /\ at = "drained"
  /\ at' = "apply" /\ forced' = FALSE
  /\ UNCHANGED <<connVars, stops, starts, due, flushing, pending, dirty, summary,
                 optionVars, noted, storeVars>>

\* A read error: mark_active_watches_desynced, and the connection is dropped.
DropConnection(D) ==
  /\ at = "drain" /\ link # "none"
  /\ (link = "broken" /\ frames = <<>>) \/ skewed
  /\ MarkError(D)
  /\ link' = "none" /\ frames' = <<>> /\ skewed' = FALSE
  /\ active' = {} /\ watching' = {}
  /\ at' = "apply" /\ forced' = FALSE
  /\ UNCHANGED <<op, request, stops, starts, due, flushing, pending, dirty, optionVars,
                 noted, fs, diskVars, indexes>>

DrainFails == DropConnection(active)

\* A read loses the rest of the bytes it took: a frame now, and after that
\* whatever is read until the mismatch shows.
LoseFrames ==
  /\ at \in {"drain", "await"} /\ frames # <<>>
  /\ \/ "skew" \in events /\ ~skewed /\ frames' = Tail(frames)
     \/ skewed /\ frames' = <<>>
  /\ skewed' = TRUE
  /\ UNCHANGED <<at, link, op, request, active, watching, roundVars, pending, dirty,
                 summary, optionVars, noted, storeVars>>

-----------------------------------------------------------------------------
(* reconcile_scanner_watches *)

Indexed == {d \in Devices : indexes[d] # Absent}

\* Mutant: a device stays wanted whatever became of its stream.
CandidatesStale == {d \in Indexed : Health(d).live # "unavailable"}

\* desired_watches
Candidates ==
  {d \in Indexed : Health(d).stale # "watch_desync" /\ Health(d).live # "unavailable"}
Desired    == IF watchMounted THEN Candidates \cap config.enabled \cap mounted ELSE {}
Suppressed == IF watchMounted THEN Candidates \ config.enabled ELSE {}

Reconcile ==
  LET new == {d \in Suppressed : Health(d).live # "suppressed"}
  IN  /\ at = "drained"
      /\ at' = "stops"
      /\ stops' = active \ Desired
      /\ starts' = Desired
      /\ summary' = [d \in Devices |-> IF d \in Suppressed
                       THEN [state |-> "suppressed", dirty |-> FALSE] ELSE summary[d]]
      /\ indexStates' = [d \in Devices |-> IF d \in new
                       THEN [Health(d) EXCEPT !.live = "suppressed"] ELSE indexStates[d]]
      /\ SaveSidecars(new)
      /\ UNCHANGED <<connVars, forced, due, flushing, pending, dirty, optionVars,
                     noted, fs, diskVars, indexes>>

\* A request is written, or the write fails because the peer has gone.
Ask(kind, d) ==
  /\ link = "up"
  /\ op' = [kind |-> kind, dev |-> d]
  /\ request' = "sent"
  /\ at' = "await"

StopWatch(d) ==
  /\ at = "stops" /\ d \in stops /\ Ask("stop", d)
  /\ stops' = stops \ {d}
  /\ active' = active \ {d}
  /\ \/ ApplyOnStop(d) /\ summary' = AppliedReport(d)
     \/ RefusePending(d) /\ summary' = [summary EXCEPT ![d] = Reported(d, "error")]
  /\ UNCHANGED <<link, skewed, frames, watching, starts, forced, due, flushing,
                 optionVars, noted, fs, diskVars>>

\* The result of the request is ignored.
StopWatchFails(d) ==
  /\ at = "stops" /\ d \in stops /\ link # "up"
  /\ stops' = stops \ {d}
  /\ active' = active \ {d}
  /\ ApplyOnStop(d) \/ RefusePending(d)
  /\ summary' = [summary EXCEPT ![d] = Absent]
  /\ UNCHANGED <<at, link, skewed, frames, op, request, watching, starts, forced, due,
                 flushing, optionVars, noted, fs, diskVars>>

StopsDone ==
  /\ at = "stops" /\ stops = {}
  /\ at' = "starts"
  /\ UNCHANGED <<connVars, roundVars, pending, dirty, summary, optionVars, noted, storeVars>>

\* A watch that is wanted and active: its report is made afresh.
KeepWatch(d) ==
  /\ at = "starts" /\ d \in starts \cap active
  /\ starts' = starts \ {d}
  /\ summary' = [summary EXCEPT ![d] = Reported(d, "watching")]
  /\ UNCHANGED <<at, connVars, stops, forced, due, flushing, pending, dirty, optionVars,
                 noted, storeVars>>

StartWatch(d) ==
  /\ at = "starts" /\ d \in starts \ active /\ Ask("start", d)
  /\ starts' = starts \ {d}
  /\ UNCHANGED <<link, skewed, frames, active, watching, stops, forced, due, flushing,
                 pending, dirty, summary, optionVars, noted, storeVars>>

\* The error of the write counts as a refusal; the connection is kept.
StartWatchFails(d) ==
  /\ at = "starts" /\ d \in starts \ active /\ link # "up"
  /\ starts' = starts \ {d}
  /\ MarkUnavailable(d)
  /\ UNCHANGED <<at, connVars, stops, forced, due, flushing, pending, dirty, optionVars,
                 noted, fs, diskVars, indexes>>

StartsDone ==
  /\ at = "starts" /\ starts = {}
  /\ at' = "apply" /\ forced' = FALSE
  /\ UNCHANGED <<connVars, stops, starts, due, flushing, pending, dirty, summary,
                 optionVars, noted, storeVars>>

-----------------------------------------------------------------------------
(* scanner_watch_request: reading until the answer comes, without a limit    *)

\* Mutant: what comes before the answer is skipped.
SkipWhileWaiting(f) == UNCHANGED <<pending, indexStates, sidecar, summary>>

HandleWhileWaiting(f) == HandleFrame(f)

\* Any other frame is handled, and everything pending applied at once.
ReadWhileWaiting ==
  /\ at = "await" /\ ~skewed /\ frames # <<>> /\ Head(frames).kind \notin Answers
  /\ HandleWhileWaiting(Head(frames))
  /\ frames' = Tail(frames)
  /\ at' = "apply" /\ forced' = TRUE
  /\ UNCHANGED <<link, skewed, op, request, active, watching, stops, starts, due, flushing,
                 dirty, optionVars, noted, fs, diskVars, indexes>>

EndWait(place) == at' = place /\ op' = NoOp /\ request' = "none"

Answered(kind, answers) ==
  /\ at = "await" /\ ~skewed /\ frames # <<>>
  /\ op.kind = kind /\ Head(frames).kind \in answers
  /\ frames' = Tail(frames)

StopAnswered ==
  /\ Answered("stop", Answers) /\ EndWait("stops")
  /\ summary' = [summary EXCEPT ![op.dev] = Absent]
  /\ UNCHANGED <<link, skewed, active, watching, roundVars, pending, dirty, optionVars,
                 noted, storeVars>>

Started(answers) ==
  /\ Answered("start", answers) /\ EndWait("starts")
  /\ active' = active \cup {op.dev}
  /\ summary' = [summary EXCEPT ![op.dev] = [state |-> "watching", dirty |-> FALSE]]
  /\ UNCHANGED <<link, skewed, watching, roundVars, pending, dirty, optionVars, noted, storeVars>>

\* Mutant: whatever the answer, the watch counts as started.
StartAnsweredAnyhow == Started(Answers)

StartAnswered == Started({"ok"})

StartRefused ==
  /\ Answered("start", {"refused"}) /\ EndWait("starts")
  /\ MarkUnavailable(op.dev)
  /\ UNCHANGED <<link, skewed, active, watching, roundVars, pending, dirty, optionVars,
                 noted, fs, diskVars, indexes>>

\* A read error: of a stop it is ignored, of a start it counts as a refusal.  A
\* broken connection reports its error once and then only the end of the stream.
WaitFails ==
  /\ at = "await"
  /\ (link = "broken" /\ frames = <<>>) \/ skewed
  /\ link' = IF link = "broken" /\ frames = <<>> THEN "closed" ELSE link
  /\ \/ /\ op.kind = "stop" /\ EndWait("stops")
        /\ summary' = [summary EXCEPT ![op.dev] = Absent]
        /\ UNCHANGED <<indexStates, sidecar>>
     \/ /\ op.kind = "start" /\ EndWait("starts")
        /\ MarkUnavailable(op.dev)
  /\ UNCHANGED <<skewed, frames, active, watching, roundVars, pending, dirty,
                 optionVars, noted, fs, diskVars, indexes>>

-----------------------------------------------------------------------------
(* flush_pending_live_batches *)

ApplyBatch(d) ==
  /\ at = "apply" /\ pending[d] # {}
  /\ ApplyPending(d)
  /\ summary' = AppliedReport(d)
  /\ UNCHANGED <<at, connVars, roundVars, optionVars, noted, fs, diskVars, sidecar, indexStates>>

ApplyFails(d) ==
  /\ at = "apply"
  /\ RefusePending(d)
  /\ summary' = [summary EXCEPT ![d] = Reported(d, "error")]
  /\ UNCHANGED <<at, connVars, roundVars, optionVars, noted, fs, diskVars>>

\* The batches whose last event is younger than the debounce stay.
AppliedAll ==
  /\ at = "apply"
  /\ forced => \A d \in Devices : pending[d] = {}
  /\ UNCHANGED <<connVars, stops, starts, forced, flushing, pending, dirty, summary,
                 optionVars, noted, storeVars>>

BackToRequest ==
  /\ AppliedAll /\ op # NoOp
  /\ at' = "await" /\ UNCHANGED due

\* On to flush_dirty_indexes, with the devices whose time has come.
FlushRound(now) ==
  /\ AppliedAll /\ op = NoOp
  /\ at' = "flush" /\ due' = now

-----------------------------------------------------------------------------
(* flush_dirty_indexes *)

\* The index is cloned under the lock and saved without it.
BeginFlush(d) ==
  /\ at = "flush" /\ d \in due /\ indexes[d] # Absent
  /\ OpenTmp(Flusher, d, indexes[d])
  /\ at' = "saving" /\ flushing' = d /\ due' = due \ {d}
  /\ UNCHANGED <<connVars, stops, starts, forced, pending, dirty, summary, optionVars,
                 noted, fs, sidecar, memoryVars>>

NothingToFlush(d) ==
  /\ at = "flush" /\ d \in due /\ indexes[d] = Absent
  /\ due' = due \ {d} /\ dirty' = dirty \ {d}
  /\ UNCHANGED <<at, connVars, stops, starts, forced, flushing, pending, summary, optionVars,
                 noted, storeVars>>

WriteFlush ==
  /\ at = "saving"
  /\ WriteTmp(Flusher)
  /\ UNCHANGED <<managerVars, optionVars, noted, fs, sidecar, memoryVars>>

RenameFlush ==
  /\ at = "saving" /\ RenameTmp(Flusher)
  /\ at' = "saved"
  /\ UNCHANGED <<connVars, roundVars, pending, dirty, summary, optionVars, noted, fs,
                 sidecar, memoryVars>>

\* The device stays dirty and is tried again.
FlushError(nowDirty) ==
  /\ at = "saving"
  /\ RenameFails(Flusher) \/ ("io" \in events /\ SaveIoError(Flusher))
  /\ MarkError({flushing})
  /\ dirty' = nowDirty
  /\ at' = "flush" /\ flushing' = Absent
  /\ UNCHANGED <<connVars, stops, starts, forced, due, pending, optionVars, noted, fs, indexes>>

\* Mutant: a flush that failed is not tried again.
FlushFailsForGood == FlushError(dirty \ {flushing})

FlushFails == FlushError(dirty)

FlushDone ==
  /\ at = "saved"
  /\ indexStates' = [indexStates EXCEPT ![flushing] = [Health(flushing) EXCEPT !.live = "watching"]]
  /\ SaveSidecars({flushing})
  /\ summary' = WithDirty(flushing, FALSE)
  /\ dirty' = dirty \ {flushing}
  /\ at' = "flush" /\ flushing' = Absent
  /\ UNCHANGED <<connVars, stops, starts, forced, due, pending, optionVars, noted, fs,
                 diskVars, indexes>>

Sleep ==
  /\ at = "flush" /\ due = {}
  /\ at' = "drain"
  /\ UNCHANGED <<connVars, roundVars, pending, dirty, summary, optionVars, noted, storeVars>>

-----------------------------------------------------------------------------
(* oxidex-scannerd: start_watch, stop_watch, the callback of a watcher *)

\* The watcher runs before the request is answered.
ScannerWatches ==
  /\ link = "up" /\ request = "sent" /\ op.kind = "start"
  /\ op.dev \in mounted
  /\ watching' = watching \cup {op.dev}
  /\ request' = "watching"
  /\ UNCHANGED <<at, link, skewed, frames, op, active, roundVars, pending, dirty, summary,
                 optionVars, noted, storeVars>>

Answer(sent) ==
  /\ frames' = frames \o sent
  /\ request' = "none"
  /\ UNCHANGED <<at, link, skewed, op, active, roundVars, pending, dirty, summary,
                 optionVars, noted, storeVars>>

ScannerConfirms ==
  /\ link = "up" /\ request = "watching"
  /\ Answer(<<FrameOf("ok", op.dev)>>)
  /\ UNCHANGED watching

Refuse(D) ==
  /\ link = "up" /\ request = "sent" /\ op.kind = "start"
  /\ op.dev \in D
  /\ Answer(<<FrameOf("refused", op.dev)>>)
  /\ UNCHANGED watching

Refusable == IF "refuse" \in events THEN mounted ELSE {}

\* Mutant: a request for a mount point that has gone is not answered.
ScannerRefusesSilently == Refuse(Refusable)

ScannerRefuses == Refuse(Refusable \cup (Devices \ mounted))

ScannerStops ==
  /\ link = "up" /\ request = "sent" /\ op.kind = "stop"
  /\ watching' = watching \ {op.dev}
  /\ Answer(<<FrameOf("stopped", op.dev), FrameOf("ok", op.dev)>>)

\* What the callback sends for a change of d: the event, an error, or nothing
\* if it is told of an overflow, because that event has no path.
Callback(d, c) ==
  \/ frames' = Append(frames, EventOf(d, c))
  \/ "notify" \in events /\ frames' = Append(frames, FrameOf("error", d))
  \/ "overflow" \in events /\ UNCHANGED frames

-----------------------------------------------------------------------------
(* The world *)

FileChange(d) ==
  /\ ChangeFile(d)
  /\ IF d \in watching
     THEN /\ Len(frames) < MaxFrames
          /\ \E c \in fs'[d] \ fs[d] : Callback(d, c)
          /\ noted' = [noted EXCEPT ![d] = @ \cup (fs'[d] \ fs[d])]
     ELSE UNCHANGED <<frames, noted>>
  /\ UNCHANGED <<at, link, skewed, op, request, active, watching, roundVars, pending, dirty,
                 summary, optionVars, snapshot, snapshotTmp, sidecar, indexes, indexStates, saver>>

\* A file that has changed goes on changing: a further event says nothing new.
KeepsChanging(d) ==
  /\ "busy" \in events /\ d \in watching /\ Len(frames) < MaxFrames
  /\ \E c \in fs[d] : frames' = Append(frames, EventOf(d, c))
  /\ UNCHANGED <<at, link, skewed, op, request, active, watching, roundVars, pending, dirty,
                 summary, optionVars, noted, storeVars>>

\* The scanner daemon ends (a crash, systemctl restart).
Hangup ==
  /\ "hangup" \in events /\ link = "up"
  /\ link' \in {"closed", "broken"}
  /\ watching' = {}
  /\ UNCHANGED <<at, skewed, frames, op, request, active, roundVars, pending, dirty, summary,
                 optionVars, noted, storeVars>>

\* The kernel drops the watches of a file system that is unmounted.
SetMounted(D) ==
  /\ "unmount" \in events
  /\ mounted' = D
  /\ watching' = watching \cap D
  /\ UNCHANGED <<at, link, skewed, frames, op, request, active, roundVars, pending, dirty,
                 summary, events, watchMounted, config, noted, storeVars>>

\* config.set indexing.watch_mounted
SetWatchMounted(b) ==
  /\ "options" \in events
  /\ watchMounted' = b
  /\ UNCHANGED <<managerVars, events, config, mounted, noted, storeVars>>

\* config.reload of a file in which a device was enabled or disabled
SetEnabled(D) ==
  /\ "options" \in events
  /\ config' = [config EXCEPT !.enabled = D]
  /\ UNCHANGED <<managerVars, events, watchMounted, mounted, noted, storeVars>>

\* A flush of d is under way.
FlushUnderWay(d) == flushing = d

\* A scan of d as a whole; its steps are those of ScanJobs.
Rescan(d) ==
  /\ "scan" \in events
  /\ ~FlushUnderWay(d)
  /\ indexes' = [indexes EXCEPT ![d] = [seen |-> fs[d]]]
  /\ snapshot' = [snapshot EXCEPT ![d] = [seen |-> fs[d]]]
  /\ snapshotTmp' = [snapshotTmp EXCEPT ![d] = Absent]
  /\ indexStates' = [indexStates EXCEPT ![d] = FreshSidecar]
  /\ sidecar' = [sidecar EXCEPT ![d] = FreshSidecar]
  /\ UNCHANGED <<managerVars, optionVars, noted, fs, saver>>

ForgetWith(d, kept) ==
  /\ "forget" \in events
  /\ "forget" \in Overlap \/ ~FlushUnderWay(d)
  /\ DeleteSnapshot(d)
  /\ indexes' = [indexes EXCEPT ![d] = kept]
  /\ sidecar' = [sidecar EXCEPT ![d] = Absent]
  /\ indexStates' = [indexStates EXCEPT ![d] = Absent]
  /\ summary' = [summary EXCEPT ![d] = Absent]
  /\ UNCHANGED <<at, connVars, roundVars, pending, dirty, optionVars, noted, fs>>

\* Mutant: the files go, the index stays in memory.
ForgetFilesOnly(d) == ForgetWith(d, indexes[d])

\* index.forget: conn.active, the pending batch and the dirty mark are not touched.
Forget(d) == ForgetWith(d, Absent)

\* The daemon dies and is started again.
Restart ==
  /\ "restart" \in events
  /\ indexes' = LoadedIndexes
  /\ \E denied \in SUBSET (IF "denied" \in events THEN SetupErrors ELSE {}) :
       LoadSidecars(denied, "io" \in events)
  /\ saver' = [w \in Writers |-> IdleSaver]
  /\ at' = "drain" /\ link' = "none" /\ skewed' = FALSE /\ frames' = <<>>
  /\ op' = NoOp /\ request' = "none"
  /\ active' = {} /\ watching' = {} /\ stops' = {} /\ starts' = {}
  /\ pending' = [d \in Devices |-> {}]
  /\ forced' = FALSE /\ dirty' = {} /\ due' = {} /\ flushing' = Absent
  /\ summary' = [d \in Devices |-> Absent]
  /\ noted' = [d \in Devices |-> {}]
  /\ UNCHANGED <<optionVars, fs, snapshot, snapshotTmp>>

-----------------------------------------------------------------------------
(* The specification *)

Manager ==
  \/ Connect \/ NoConnection \/ ReadFrame \/ DrainTimesOut \/ DrainFails
  \/ SkipReconcile \/ Reconcile \/ StopsDone \/ StartsDone
  \/ \E d \in Devices :
       \/ StopWatch(d) \/ StopWatchFails(d)
       \/ KeepWatch(d) \/ StartWatch(d) \/ StartWatchFails(d)
       \/ ApplyBatch(d) \/ ApplyFails(d) \/ BeginFlush(d) \/ NothingToFlush(d)
  \/ ReadWhileWaiting \/ StopAnswered \/ StartAnswered \/ StartRefused \/ WaitFails
  \/ BackToRequest \/ \E D \in SUBSET dirty : FlushRound(D)
  \/ WriteFlush \/ RenameFlush \/ FlushFails \/ FlushDone \/ Sleep

Scanner == ScannerWatches \/ ScannerConfirms \/ ScannerRefuses \/ ScannerStops

World ==
  \/ LoseFrames \/ Hangup
  \/ \E d \in Devices : FileChange(d) \/ KeepsChanging(d) \/ Rescan(d) \/ Forget(d)
  \/ \E D \in SUBSET Devices : SetMounted(D) \/ SetEnabled(D)
  \/ \E b \in BOOLEAN : SetWatchMounted(b)
  \/ Restart

Next == Manager \/ Scanner \/ World

\* The manager and the scanner daemon are threads that are scheduled.  A batch
\* or a dirty index has its turn, because the debounce, live_update_flush_seconds
\* and live_update_max_dirty_seconds pass; so do the 5 s between reconciliations.
Fairness ==
  /\ WF_vars(Manager)
  /\ WF_vars(Scanner)
  /\ SF_vars(Reconcile)
  /\ \A d \in Devices : SF_vars(ApplyBatch(d))
  /\ \A d \in Devices : SF_vars(\E D \in SUBSET dirty : d \in D /\ FlushRound(D))

Spec     == Init /\ [][Next]_vars
FairSpec == Spec /\ Fairness

-----------------------------------------------------------------------------
(* Invariants *)

InStream(d)  == {frames[i].change : i \in {k \in DOMAIN frames :
                   frames[k].kind = "event" /\ frames[k].dev = d}}
ErrorComes(d) == \E i \in DOMAIN frames : frames[i] = FrameOf("error", d)

\* No change that was made under the eyes of a watcher is lost in silence: it is
\* in the index that is served, in the pending batch or in the stream, or the
\* index is reported as stale (or the report is on its way).
NoneLostInSilence ==
  \A d \in Devices :
    \/ indexes[d] = Absent \/ Stale(d) \/ ErrorComes(d) \/ skewed
    \/ noted[d] \subseteq indexes[d].seen \cup pending[d] \cup InStream(d)

\* While the kernel drops no events, no time-out falls inside a frame and no watcher
\* is denied a permission, nothing that was noted is lost in silence, whatever stops,
\* reconciles, fails or is reconfigured.
NotedIsKept == events \cap {"overflow", "skew", "denied"} = {} => NoneLostInSilence

\* A device reported as "watching" is one that the manager counts as active and
\* that, while the connection is up, the scanner daemon watches - except between
\* the request to stop and its answer.
WatchingIsWatched ==
  events \cap {"skew", "unmount"} = {} =>
    \A d \in Devices :
      summary[d] # Absent /\ summary[d].state = "watching" =>
        \/ op = [kind |-> "stop", dev |-> d]
        \/ d \in active /\ (link = "up" => d \in watching)

\* An index that is not dirty, and not being flushed, is on disk as it is served:
\* no live change stays in memory only, without a flush to come.
CleanIsSaved ==
  \A d \in Devices : d \notin dirty /\ flushing # d => snapshot[d] = indexes[d]

\* The file under the snapshot name can always be loaded.
FlushKeepsLoadable == \A d \in Devices : snapshot[d] # Torn

-----------------------------------------------------------------------------
(* Action properties *)

\* What is on disk never gets older, so that a restart never goes back behind
\* an earlier one: a flush writes an index at least as new as the one it replaces.
SnapshotNeverOlder ==
  [][\A d \in Devices : snapshot[d] \in Index /\ snapshot'[d] \in Index =>
        snapshot[d].seen \subseteq snapshot'[d].seen]_vars

\* "Forget This Index: remove the saved index" (docs/user-guide.md:341): a
\* snapshot comes back only with a new scan, never from a flush.
FlushRevivesNothing ==
  [][\A d \in Devices : snapshot[d] = Absent /\ snapshot'[d] # Absent => Rescan(d)]_vars

-----------------------------------------------------------------------------
(* Liveness *)

\* A change made under the eyes of a watcher reaches the snapshot file, or the
\* index is reported as stale, forgotten, or the daemon restarted.
LiveChangesArrive ==
  \A d \in Devices, c \in Changes :
    c \in noted[d] ~> \/ c \notin noted[d]
                      \/ indexes[d] = Absent \/ Stale(d)
                      \/ snapshot[d] \in Index /\ c \in snapshot[d].seen

\* A watch whose stream is known to be incomplete is given up, so that the
\* next scan can begin a new one.
DesyncEndsWatch ==
  \A d \in Devices :
    Health(d).stale = "watch_desync" /\ d \in active ~>
      d \notin active \/ Health(d).stale # "watch_desync"

\* Every request of the manager comes to an end, so that it reads, reconciles and
\* flushes again, whatever is unmounted or refused meanwhile.
RequestEnds == op # NoOp ~> op = NoOp

\* "If ... scanner disconnect ... is detected, the index is marked stale"
\* (README.md:168): a device whose watcher has gone with the scanner daemon does
\* not stay reported as watched and fresh.
DisconnectReported ==
  \A d \in Devices :
    link \in {"closed", "broken"} /\ d \in active ~>
      d \notin active \/ link = "up" \/ Stale(d)

\* "If a device is unmounted ... Oxidex marks the index stale"
\* (docs/user-guide.md:247).
UnmountReported ==
  \A d \in Devices :
    d \in active /\ d \notin mounted /\ indexes[d] # Absent ~>
      Stale(d) \/ indexes[d] = Absent \/ d \in mounted

=============================================================================
