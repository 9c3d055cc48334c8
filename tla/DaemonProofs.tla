---------------------------- MODULE DaemonProofs ----------------------------
(***************************************************************************)
(* The live watch manager, for every set of devices and changes, every     *)
(* length of the stream and every mix of events (LiveWatch: the first      *)
(* part), and oxidexd as a whole, for any devices, changes, jobs, limits   *)
(* and scenarios (Daemon: the second part).                                *)
(*                                                                         *)
(* Of the manager by itself: its types, and that what is in the stream,    *)
(* pending, noted, indexed or on disk has happened.  Then the flush, and   *)
(* the stream, which build upon the two invariants.                        *)
(*                                                                         *)
(* Of the daemon: what holds if of what Overlap names only changes of      *)
(* files meet a scan of their device (that each of the others goes wrong   *)
(* is what the v_ runs show).  A device belongs to at most one of a job    *)
(* and the flush (AloneInv), so that a tmp file holds what its writer gave *)
(* it (WriterInv); what a worker holds misses, of what a watcher has seen, *)
(* only what came after the read of the device (ReadInv), so that a        *)
(* publish loses no more than that (KeptInv(late)); and the file of a      *)
(* device is related to its index in memory, as Saved says, except between *)
(* the rename and the publish of a worker (FilesInv).  For the steps of    *)
(* the manager this is what the first part shows of a flush and of the     *)
(* stream; a worker leaves everything alone but its device.                *)
(***************************************************************************)
EXTENDS Daemon, IndexStoreProofs, SequenceTheorems

-----------------------------------------------------------------------------
(* The inductive invariant of types.  The changes that are in the stream,  *)
(* pending, noted or indexed have been made.                               *)

EventInv ==
  \A i \in 1 .. Len(frames) : frames[i].kind = "event" => frames[i].change \in fs[frames[i].dev]

MadeInv ==
  /\ \A d \in Devices :
       /\ pending[d] \subseteq fs[d]
       /\ noted[d] \subseteq fs[d]
       /\ indexes[d] # Absent => indexes[d].seen \subseteq fs[d]
       /\ snapshot[d] \in Index => snapshot[d].seen \subseteq fs[d]
       /\ snapshotTmp[d] \in Index => snapshotTmp[d].seen \subseteq fs[d]
  /\ \A w \in Writers : saver[w].phase # "idle" =>
       /\ saver[w].dev \in Devices
       /\ saver[w].data \in Index
       /\ saver[w].data.seen \subseteq fs[saver[w].dev]

\* The scanner daemon works on the request that the manager waits for.
RequestInv ==
  /\ request # "none" => op # NoOp
  /\ request = "watching" => op.kind = "start"

WatchTypes == TypeOK /\ EventInv /\ RequestInv /\ "enabled" \in DOMAIN config

\* The part of TypeOK about the variables of the manager, set by set
SetTypes ==
  /\ active \in SUBSET Devices /\ watching \in SUBSET Devices
  /\ stops \in SUBSET Devices /\ starts \in SUBSET Devices
  /\ dirty \in SUBSET Devices /\ due \in SUBSET Devices /\ mounted \in SUBSET Devices

LEMMA SetTypesOK == TypeOK => SetTypes
BY DEF TypeOK, SetTypes

LEMMA TypesOfSets ==
  SetTypes' => {active, watching, stops, starts, dirty, due, mounted}' \subseteq SUBSET Devices
BY DEF SetTypes

LEMMA FramesAppend ==
  ASSUME NEW s \in Seq(Frame), NEW f \in Frame
  PROVE  /\ Append(s, f) \in Seq(Frame)
         /\ Len(Append(s, f)) = Len(s) + 1
         /\ \A i \in 1 .. Len(s) : Append(s, f)[i] = s[i]
         /\ Append(s, f)[Len(s) + 1] = f
OBVIOUS

LEMMA NoFrames == <<>> \in Seq(Frame)
OBVIOUS

LEMMA FramesConcat ==
  ASSUME NEW s \in Seq(Frame), NEW t \in Seq(Frame)
  PROVE  /\ s \o t \in Seq(Frame)
         /\ Len(s \o t) = Len(s) + Len(t)
         /\ \A i \in 1 .. Len(s) : (s \o t)[i] = s[i]
         /\ \A i \in 1 .. Len(t) : (s \o t)[Len(s) + i] = t[i]
OBVIOUS

LEMMA FramesTail ==
  ASSUME NEW s \in Seq(Frame), s # <<>>
  PROVE  /\ Tail(s) \in Seq(Frame)
         /\ Len(Tail(s)) = Len(s) - 1
         /\ \A i \in 1 .. Len(Tail(s)) : Tail(s)[i] = s[i + 1] /\ i + 1 \in 1 .. Len(s)
         /\ Head(s) = s[1] /\ Head(s) \in Frame
         /\ Len(s) \in Nat \ {0} /\ 1 \in 1 .. Len(s)
OBVIOUS

LEMMA HeadOfFrames ==
  ASSUME WatchTypes, frames # <<>>
  PROVE  /\ Head(frames) \in Frame /\ Tail(frames) \in Seq(Frame)
         /\ Head(frames).kind = "event" => /\ Head(frames).change \in fs[Head(frames).dev]
                                           /\ Head(frames).change \in Changes
<1>1. frames \in Seq(Frame)
  BY DEF WatchTypes, TypeOK
<1>2. Head(frames) = frames[1] /\ 1 \in 1 .. Len(frames)
  BY <1>1, FramesTail
<1>3. Head(frames).kind = "event" => Head(frames).change \in fs[Head(frames).dev]
  BY <1>2 DEF WatchTypes, EventInv
<1>4. Head(frames).dev \in Devices => fs[Head(frames).dev] \subseteq Changes
  BY DEF WatchTypes, TypeOK, StoreTypeOK
<1>5. Head(frames) \in Frame
  BY <1>1, FramesTail
<1> QED BY <1>1, <1>3, <1>4, <1>5, FramesTail DEF Frame

LEMMA HealthType ==
  ASSUME TypeOK, NEW d \in Devices
  PROVE  /\ Health(d) \in Sidecar
         /\ \A l \in LiveStates : [Health(d) EXCEPT !.live = l] \in Sidecar
<1>1. NewSidecar \in Sidecar
  BY DEF NewSidecar, Sidecar, StaleReasons, LiveStates
<1>2. Health(d) \in Sidecar
  BY <1>1 DEF Health, TypeOK, StoreTypeOK
<1> QED BY <1>2 DEF Sidecar

SidecarTypes ==
  /\ sidecar \in [Devices -> Sidecar \cup {Absent}]
  /\ indexStates \in [Devices -> Sidecar \cup {Absent}]
  /\ summary \in [Devices -> Summary \cup {Absent}]

LEMMA SidecarTypesOK == TypeOK => SidecarTypes
BY DEF TypeOK, StoreTypeOK, SidecarTypes

LEMMA SaveSidecarsType ==
  ASSUME TypeOK, NEW D, SaveSidecars(D),
         indexStates' \in [Devices -> Sidecar \cup {Absent}]
  PROVE  sidecar' \in [Devices -> Sidecar \cup {Absent}]
BY DEF TypeOK, StoreTypeOK, SaveSidecars

LEMMA ReportedType ==
  ASSUME TypeOK, NEW d \in Devices,
         NEW s \in {"watching", "stopped", "error", "unavailable", "suppressed"}
  PROVE  Reported(d, s) \in Summary
<1>1. summary[d] # Absent => summary[d].dirty \in BOOLEAN
  BY DEF TypeOK, Summary
<1> QED BY <1>1 DEF Reported, Summary

LEMMA WithDirtyType ==
  ASSUME TypeOK, NEW d \in Devices, NEW b \in BOOLEAN
  PROVE  WithDirty(d, b) \in [Devices -> Summary \cup {Absent}]
BY DEF TypeOK, WithDirty, Summary

LEMMA MarkDesyncType ==
  ASSUME TypeOK, NEW D, MarkDesync(D)
  PROVE  /\ indexStates' \in [Devices -> Sidecar \cup {Absent}]
         /\ sidecar' \in [Devices -> Sidecar \cup {Absent}]
<1>1. [stale |-> "watch_desync", live |-> "error"] \in Sidecar
  BY DEF Sidecar, StaleReasons, LiveStates
<1>2. indexStates' \in [Devices -> Sidecar \cup {Absent}]
  BY <1>1 DEF MarkDesync, TypeOK, StoreTypeOK
<1> QED BY <1>2, SaveSidecarsType DEF MarkDesync

LEMMA MarkErrorType ==
  ASSUME TypeOK, NEW D \in SUBSET Devices, MarkError(D)
  PROVE  SidecarTypes'
<1>1. summary' \in [Devices -> Summary \cup {Absent}]
  BY ReportedType DEF MarkError, TypeOK
<1> QED BY <1>1, MarkDesyncType DEF MarkError, SidecarTypes

LEMMA MarkUnavailableType ==
  ASSUME TypeOK, NEW d \in Devices, MarkUnavailable(d)
  PROVE  SidecarTypes'
<1>1. PICK why \in {Health(d).stale, "none"} :
        indexStates' = [indexStates EXCEPT ![d] = [stale |-> why, live |-> "unavailable"]]
  BY DEF MarkUnavailable
<1>2. indexStates' \in [Devices -> Sidecar \cup {Absent}]
  <2>1. [stale |-> why, live |-> "unavailable"] \in Sidecar
    BY HealthType DEF Sidecar, StaleReasons, LiveStates
  <2> QED BY <1>1, <2>1 DEF TypeOK, StoreTypeOK
<1>3. summary' \in [Devices -> Summary \cup {Absent}]
  BY ReportedType DEF MarkUnavailable, TypeOK
<1> QED BY <1>2, <1>3, SaveSidecarsType DEF MarkUnavailable, SidecarTypes

LEMMA HandleFrameType ==
  ASSUME TypeOK, NEW f \in Frame, f.kind = "event" => f.change \in Changes, HandleFrame(f)
  PROVE  SidecarTypes' /\ pending' \in [Devices -> SUBSET Changes]
<1>1. f.dev \in Devices
  BY DEF Frame
<1>2. CASE /\ f.kind = "event"
           /\ pending' = [pending EXCEPT ![f.dev] = @ \cup {f.change}]
           /\ UNCHANGED <<indexStates, sidecar, summary>>
  <2>1. pending \in [Devices -> SUBSET Changes]
    BY DEF TypeOK
  <2>2. pending' \in [Devices -> SUBSET Changes]
    BY <1>1, <1>2, <2>1
  <2>3. SidecarTypes'
    BY <1>2, SidecarTypesOK DEF SidecarTypes
  <2> QED BY <2>2, <2>3
<1>3. CASE MarkError({f.dev}) /\ UNCHANGED pending
  <2>1. {f.dev} \in SUBSET Devices
    BY <1>1
  <2> QED BY <1>3, <2>1, MarkErrorType DEF TypeOK
<1>4. CASE /\ summary' = [summary EXCEPT ![f.dev] =
                IF @ = Absent THEN Absent ELSE [@ EXCEPT !.state = "stopped"]]
           /\ UNCHANGED <<indexStates, sidecar, pending>>
  BY <1>1, <1>4 DEF SidecarTypes, TypeOK, StoreTypeOK, Summary
<1> QED BY <1>2, <1>3, <1>4 DEF HandleFrame

LEMMA FrameOfType ==
  ASSUME NEW d \in Devices
  PROVE  /\ \A k \in {"error", "stopped", "ok", "refused"} : FrameOf(k, d) \in Frame
         /\ \A c \in Changes : EventOf(d, c) \in Frame
BY DEF FrameOf, EventOf, Frame, Answers

LEMMA ApplyPendingType ==
  ASSUME TypeOK, NEW d \in Devices, ApplyPending(d)
  PROVE  /\ pending' \in [Devices -> SUBSET Changes]
         /\ indexes' \in [Devices -> Index \cup {Absent}]
         /\ dirty' \in SUBSET Devices
BY DEF TypeOK, StoreTypeOK, ApplyPending, Applies, Index

LEMMA RefusePendingType ==
  ASSUME TypeOK, NEW d \in Devices, RefusePending(d)
  PROVE  /\ pending' \in [Devices -> SUBSET Changes]
         /\ indexStates' \in [Devices -> Sidecar \cup {Absent}]
         /\ sidecar' \in [Devices -> Sidecar \cup {Absent}]
         /\ UNCHANGED <<indexes, dirty>>
<1>1. pending' \in [Devices -> SUBSET Changes]
  BY DEF RefusePending, TypeOK
<1> QED BY <1>1, MarkDesyncType DEF RefusePending

\* A batch is applied or refused when a watch is stopped.
LEMMA StopPendingType ==
  ASSUME TypeOK, NEW d \in Devices, ApplyOnStop(d) \/ RefusePending(d)
  PROVE  /\ pending' \in [Devices -> SUBSET Changes]
         /\ indexes' \in [Devices -> Index \cup {Absent}]
         /\ dirty' \in SUBSET Devices
         /\ indexStates' \in [Devices -> Sidecar \cup {Absent}]
         /\ sidecar' \in [Devices -> Sidecar \cup {Absent}]
<1>1. CASE ApplyOnStop(d)
  BY <1>1, ApplyPendingType, SidecarTypesOK DEF ApplyOnStop, SidecarTypes
<1>2. CASE RefusePending(d)
  BY <1>2, RefusePendingType DEF TypeOK, StoreTypeOK
<1> QED BY <1>1, <1>2

LEMMA AppliedReportType ==
  ASSUME TypeOK, NEW d \in Devices
  PROVE  AppliedReport(d) \in [Devices -> Summary \cup {Absent}]
BY WithDirtyType DEF TypeOK, AppliedReport

LEMMA ReportType ==
  ASSUME TypeOK, NEW d \in Devices,
         NEW s \in {"watching", "stopped", "error", "unavailable", "suppressed"}
  PROVE  [summary EXCEPT ![d] = Reported(d, s)] \in [Devices -> Summary \cup {Absent}]
BY ReportedType DEF TypeOK

-----------------------------------------------------------------------------
(* Types.                                                                  *)

ManagerTypes ==
  /\ at \in Places /\ link \in Links /\ skewed \in BOOLEAN
  /\ frames \in Seq(Frame)
  /\ op \in {NoOp} \cup [kind : {"start", "stop"}, dev : Devices]
  /\ request \in {"none", "sent", "watching"}
  /\ pending \in [Devices -> SUBSET Changes]
  /\ forced \in BOOLEAN
  /\ flushing \in Devices \cup {Absent}
  /\ summary \in [Devices -> Summary \cup {Absent}]
  /\ watchMounted \in BOOLEAN
  /\ config.enabled \subseteq Devices
  /\ noted \in [Devices -> SUBSET Changes]

LEMMA TypesFlat == TypeOK <=> StoreTypeOK /\ ManagerTypes /\ SetTypes
<1>1. {active, watching, stops, starts, dirty, due, mounted} \subseteq SUBSET Devices <=> SetTypes
  BY DEF SetTypes
<1> QED BY <1>1 DEF TypeOK, ManagerTypes

LEMMA TypesFlatNext == StoreTypeOK' /\ ManagerTypes' /\ SetTypes' => TypeOK'
<1>1. SetTypes' => {active, watching, stops, starts, dirty, due, mounted}' \subseteq SUBSET Devices
  BY DEF SetTypes
<1> QED BY <1>1 DEF TypeOK, ManagerTypes

\* The daemon has just been started.
Loaded ==
  ManagerInit /\ StoreLoaded /\ "enabled" \in DOMAIN config /\ config.enabled = Devices

LEMMA InitLoaded == Init => Loaded
BY DEF Init, Loaded

LEMMA WatchTypeInit == Loaded => WatchTypes
<1> SUFFICES ASSUME Loaded PROVE WatchTypes
  OBVIOUS
<1>1. FreshSidecar \in Sidecar
  BY DEF FreshSidecar, Sidecar, StaleReasons, LiveStates
<1>2. [seen |-> {}] \in Index
  BY DEF Index
<1>3. StoreTypeOK
  <2>1. indexes \in [Devices -> Index \cup {Absent}]
    BY <1>2 DEF Loaded, StoreLoaded
  <2>2. indexStates \in [Devices -> Sidecar \cup {Absent}]
    BY <1>1 DEF Loaded, StoreLoaded
  <2> QED BY <2>1, <2>2, IdleSaverType DEF Loaded, StoreLoaded, StoreTypeOK
<1>4. frames = <<>> /\ "enabled" \in DOMAIN config /\ config.enabled = Devices
  BY DEF Loaded, ManagerInit, StoreLoaded
<1>5. ManagerTypes
  <2>1. frames \in Seq(Frame)
    BY <1>4, NoFrames
  <2>2. summary \in [Devices -> Summary \cup {Absent}]
    BY DEF Loaded, ManagerInit, StoreLoaded
  <2>3. pending \in [Devices -> SUBSET Changes] /\ noted \in [Devices -> SUBSET Changes]
    BY DEF Loaded, ManagerInit, StoreLoaded
  <2>4. at \in Places /\ link \in Links /\ request \in {"none", "sent", "watching"}
    BY DEF Loaded, ManagerInit, StoreLoaded, Places, Links
  <2>5. skewed \in BOOLEAN /\ forced \in BOOLEAN /\ watchMounted \in BOOLEAN
    BY DEF Loaded, ManagerInit, StoreLoaded
  <2>6. flushing = Absent /\ op = NoOp /\ config.enabled = Devices
    BY <1>4 DEF Loaded, ManagerInit, StoreLoaded
  <2> QED BY <2>1, <2>2, <2>3, <2>4, <2>5, <2>6 DEF ManagerTypes
<1>6. SetTypes
  BY DEF Loaded, ManagerInit, StoreLoaded, SetTypes
<1>7. EventInv
  BY <1>4 DEF EventInv
<1>8. RequestInv
  BY DEF Loaded, ManagerInit, StoreLoaded, RequestInv
<1> QED BY <1>3, <1>4, <1>5, <1>6, <1>7, <1>8, TypesFlat DEF WatchTypes

LEMMA WatchTypeStep ==
  ASSUME WatchTypes, [Next]_vars
  PROVE  TypeOK'
<1> SUFFICES StoreTypeOK' /\ ManagerTypes' /\ SetTypes'
  BY TypesFlatNext
<1>0. StoreTypeOK /\ ManagerTypes /\ SetTypes /\ TypeOK
  BY TypesFlat DEF WatchTypes
<1> USE <1>0, StoreAssumption
    DEF StoreTypeOK, ManagerTypes, SetTypes, Places, Links, vars, managerVars, connVars,
        roundVars, optionVars, storeVars, diskVars, memoryVars
<1>1. CASE Connect
  <2>1. frames' \in Seq(Frame)
    BY <1>1, NoFrames DEF Connect
  <2>2. active' = {} /\ watching' = {}
    BY <1>1 DEF Connect
  <2>3. link' = "up" /\ skewed' = FALSE
    BY <1>1 DEF Connect
  <2>4. UNCHANGED <<at, op, request, roundVars, pending, dirty, summary, optionVars, noted, storeVars>>
    BY <1>1 DEF Connect
  <2> QED BY <2>1, <2>2, <2>3, <2>4
<1>2. CASE NoConnection
  BY <1>2 DEF NoConnection
<1>3. CASE ReadFrame
  <2>1. /\ Head(frames) \in Frame /\ Tail(frames) \in Seq(Frame)
        /\ Head(frames).kind = "event" => Head(frames).change \in Changes
    BY <1>3, HeadOfFrames DEF WatchTypes, ReadFrame
  <2>2. SidecarTypes' /\ pending' \in [Devices -> SUBSET Changes]
    BY <1>3, <2>1, HandleFrameType DEF ReadFrame
  <2> QED BY <1>3, <2>1, <2>2 DEF ReadFrame, SidecarTypes
<1>4. CASE DrainTimesOut
  BY <1>4 DEF DrainTimesOut
<1>5. CASE DrainFails
  <2>1. SidecarTypes'
    BY <1>5, MarkErrorType DEF DrainFails, DropConnection
  <2>2. frames' \in Seq(Frame)
    BY <1>5, NoFrames DEF DrainFails, DropConnection
  <2>3. active' = {} /\ watching' = {}
    BY <1>5 DEF DrainFails, DropConnection
  <2>4. link' = "none" /\ skewed' = FALSE /\ at' = "apply" /\ forced' = FALSE
    BY <1>5 DEF DrainFails, DropConnection
  <2>5. UNCHANGED <<op, request, stops, starts, due, flushing, pending, dirty, optionVars,
                    noted, fs, diskVars, indexes>>
    BY <1>5 DEF DrainFails, DropConnection
  <2> QED BY <2>1, <2>2, <2>3, <2>4, <2>5 DEF SidecarTypes
<1>6. CASE SkipReconcile
  BY <1>6 DEF SkipReconcile
<1>7. CASE Reconcile
  <2> DEFINE new == {d \in Suppressed : Health(d).live # "suppressed"}
  <2>1. indexStates' \in [Devices -> Sidecar \cup {Absent}]
    BY <1>7, HealthType DEF Reconcile, LiveStates
  <2>2. sidecar' \in [Devices -> Sidecar \cup {Absent}]
    BY <1>7, <2>1, SaveSidecarsType DEF Reconcile
  <2>3. summary' \in [Devices -> Summary \cup {Absent}]
    <3>1. [state |-> "suppressed", dirty |-> FALSE] \in Summary
      BY DEF Summary
    <3> QED BY <1>7, <3>1 DEF Reconcile
  <2>4. Desired \subseteq Devices
    BY DEF Desired, Candidates, Indexed
  <2> QED BY <1>7, <2>1, <2>2, <2>3, <2>4 DEF Reconcile
<1>8. CASE StopsDone
  BY <1>8 DEF StopsDone
<1>9. CASE StartsDone
  BY <1>9 DEF StartsDone
<1>10. ASSUME NEW d \in Devices, StopWatch(d) PROVE StoreTypeOK' /\ ManagerTypes' /\ SetTypes'
  <2>1. /\ pending' \in [Devices -> SUBSET Changes]
        /\ indexes' \in [Devices -> Index \cup {Absent}]
        /\ dirty' \in SUBSET Devices
        /\ indexStates' \in [Devices -> Sidecar \cup {Absent}]
        /\ sidecar' \in [Devices -> Sidecar \cup {Absent}]
    BY <1>10, StopPendingType DEF StopWatch
  <2>2. summary' \in [Devices -> Summary \cup {Absent}]
    BY <1>10, AppliedReportType, ReportType DEF StopWatch
  <2> QED BY <1>10, <2>1, <2>2 DEF StopWatch, Ask
<1>11. ASSUME NEW d \in Devices, StopWatchFails(d) PROVE StoreTypeOK' /\ ManagerTypes' /\ SetTypes'
  <2>1. /\ pending' \in [Devices -> SUBSET Changes]
        /\ indexes' \in [Devices -> Index \cup {Absent}]
        /\ dirty' \in SUBSET Devices
        /\ indexStates' \in [Devices -> Sidecar \cup {Absent}]
        /\ sidecar' \in [Devices -> Sidecar \cup {Absent}]
    BY <1>11, StopPendingType DEF StopWatchFails
  <2>2. summary' \in [Devices -> Summary \cup {Absent}]
    BY <1>11 DEF StopWatchFails
  <2> QED BY <1>11, <2>1, <2>2 DEF StopWatchFails
<1>12. ASSUME NEW d \in Devices, KeepWatch(d) PROVE StoreTypeOK' /\ ManagerTypes' /\ SetTypes'
  <2>1. summary' \in [Devices -> Summary \cup {Absent}]
    BY <1>12, ReportedType DEF KeepWatch
  <2> QED BY <1>12, <2>1 DEF KeepWatch
<1>13. ASSUME NEW d \in Devices, StartWatch(d) PROVE StoreTypeOK' /\ ManagerTypes' /\ SetTypes'
  BY <1>13 DEF StartWatch, Ask
<1>14. ASSUME NEW d \in Devices, StartWatchFails(d) PROVE StoreTypeOK' /\ ManagerTypes' /\ SetTypes'
  <2>1. SidecarTypes'
    BY <1>14, MarkErrorType, MarkUnavailableType DEF StartWatchFails
  <2> QED BY <1>14, <2>1 DEF StartWatchFails, SidecarTypes
<1>15. ASSUME NEW d \in Devices, ApplyBatch(d) PROVE StoreTypeOK' /\ ManagerTypes' /\ SetTypes'
  <2>1. /\ pending' \in [Devices -> SUBSET Changes]
        /\ indexes' \in [Devices -> Index \cup {Absent}]
        /\ dirty' \in SUBSET Devices
    BY <1>15, ApplyPendingType DEF ApplyBatch
  <2>2. summary' \in [Devices -> Summary \cup {Absent}]
    BY <1>15, AppliedReportType DEF ApplyBatch
  <2> QED BY <1>15, <2>1, <2>2 DEF ApplyBatch
<1>16. ASSUME NEW d \in Devices, ApplyFails(d) PROVE StoreTypeOK' /\ ManagerTypes' /\ SetTypes'
  <2>1. /\ pending' \in [Devices -> SUBSET Changes]
        /\ indexStates' \in [Devices -> Sidecar \cup {Absent}]
        /\ sidecar' \in [Devices -> Sidecar \cup {Absent}]
        /\ UNCHANGED <<indexes, dirty>>
    BY <1>16, RefusePendingType DEF ApplyFails
  <2>2. summary' \in [Devices -> Summary \cup {Absent}]
    BY <1>16, ReportType DEF ApplyFails
  <2> QED BY <1>16, <2>1, <2>2 DEF ApplyFails
<1>17. ASSUME NEW d \in Devices, BeginFlush(d) PROVE StoreTypeOK' /\ ManagerTypes' /\ SetTypes'
  <2>1. indexes[d] \in Index
    BY <1>17 DEF BeginFlush
  <2>2. saver' \in [Writers -> Saver]
    BY <1>17, <2>1 DEF BeginFlush, OpenTmp, Saver, SaverPhases, Files
  <2> QED BY <1>17, <2>2 DEF BeginFlush, OpenTmp
<1>18. ASSUME NEW d \in Devices, NothingToFlush(d) PROVE StoreTypeOK' /\ ManagerTypes' /\ SetTypes'
  BY <1>18 DEF NothingToFlush
<1>19. CASE ReadWhileWaiting
  <2>1. /\ Head(frames) \in Frame /\ Tail(frames) \in Seq(Frame)
        /\ Head(frames).kind = "event" => Head(frames).change \in Changes
    BY <1>19, HeadOfFrames DEF WatchTypes, ReadWhileWaiting
  <2>2. SidecarTypes' /\ pending' \in [Devices -> SUBSET Changes]
    BY <1>19, <2>1, HandleFrameType DEF ReadWhileWaiting, HandleWhileWaiting
  <2> QED BY <1>19, <2>1, <2>2 DEF ReadWhileWaiting, HandleWhileWaiting, SidecarTypes
<1>20. CASE StopAnswered
  <2>1. Tail(frames) \in Seq(Frame)
    BY <1>20, HeadOfFrames DEF StopAnswered, Answered
  <2> QED BY <1>20, <2>1 DEF StopAnswered, Answered, EndWait
<1>21. CASE StartAnswered
  <2>1. Tail(frames) \in Seq(Frame) /\ op.dev \in Devices
    BY <1>21, HeadOfFrames DEF StartAnswered, Started, Answered, NoOp
  <2>2. [state |-> "watching", dirty |-> FALSE] \in Summary
    BY DEF Summary
  <2>3. summary' \in [Devices -> Summary \cup {Absent}]
    BY <1>21, <2>2 DEF StartAnswered, Started
  <2> QED BY <1>21, <2>1, <2>3 DEF StartAnswered, Started, Answered, EndWait
<1>22. CASE StartRefused
  <2>1. Tail(frames) \in Seq(Frame) /\ op.dev \in Devices
    BY <1>22, HeadOfFrames DEF StartRefused, Answered, NoOp
  <2>2. SidecarTypes'
    BY <1>22, <2>1, MarkUnavailableType DEF StartRefused
  <2> QED BY <1>22, <2>1, <2>2 DEF StartRefused, Answered, EndWait, SidecarTypes
<1>23. CASE WaitFails
  <2>1. CASE op.kind = "stop" /\ EndWait("stops") /\ UNCHANGED <<indexStates, sidecar>>
               /\ summary' = [summary EXCEPT ![op.dev] = Absent]
    BY <1>23, <2>1 DEF WaitFails, EndWait
  <2>2. CASE op.kind = "start" /\ EndWait("starts") /\ MarkUnavailable(op.dev)
    <3>1. op.dev \in Devices
      BY <2>2 DEF NoOp
    <3>2. SidecarTypes'
      BY <2>2, <3>1, MarkUnavailableType
    <3> QED BY <1>23, <2>2, <3>2 DEF WaitFails, EndWait, SidecarTypes
  <2> QED BY <1>23, <2>1, <2>2 DEF WaitFails
<1>24. CASE BackToRequest
  BY <1>24 DEF BackToRequest, AppliedAll
<1>25. ASSUME NEW D \in SUBSET dirty, FlushRound(D) PROVE StoreTypeOK' /\ ManagerTypes' /\ SetTypes'
  BY <1>25 DEF FlushRound, AppliedAll
<1>26. CASE WriteFlush
  <2>1. DiskTypeOK'
    BY <1>26, WatchAssumption, WriteTmpType DEF WriteFlush, DiskTypeOK
  <2> QED BY <1>26, <2>1 DEF WriteFlush, DiskTypeOK
<1>27. CASE RenameFlush
  <2>1. DiskTypeOK'
    BY <1>27, WatchAssumption, RenameTmpType DEF RenameFlush, DiskTypeOK
  <2> QED BY <1>27, <2>1 DEF RenameFlush, DiskTypeOK
<1>28. CASE FlushFails
  <2>1. SidecarTypes'
    <3>1. CASE flushing \in Devices
      <4>1. {flushing} \in SUBSET Devices
        BY <3>1
      <4> QED BY <1>28, <4>1, MarkErrorType DEF FlushFails, FlushError
    <3>2. CASE flushing \notin Devices
      <4>1. /\ indexStates' = [d \in Devices |-> indexStates[d]]
            /\ summary' = [d \in Devices |-> summary[d]]
        BY <1>28, <3>2 DEF FlushFails, FlushError, MarkError, MarkDesync
      <4>2. SaveSidecars({flushing})
        BY <1>28 DEF FlushFails, FlushError, MarkError, MarkDesync
      <4> QED BY <4>1, <4>2, SaveSidecarsType DEF SidecarTypes
    <3> QED BY <3>1, <3>2
  <2>2. saver' \in [Writers -> Saver] /\ UNCHANGED <<snapshot, snapshotTmp>>
    BY <1>28, WatchAssumption, IdleSaverType DEF FlushFails, FlushError, RenameFails, SaveIoError
  <2> QED BY <1>28, <2>1, <2>2 DEF FlushFails, FlushError, SidecarTypes
<1>29. CASE FlushDone
  <2>1. indexStates' \in [Devices -> Sidecar \cup {Absent}]
    BY <1>29, HealthType DEF FlushDone, LiveStates
  <2>2. sidecar' \in [Devices -> Sidecar \cup {Absent}]
    BY <1>29, <2>1, SaveSidecarsType DEF FlushDone
  <2>3. summary' \in [Devices -> Summary \cup {Absent}]
    BY <1>29 DEF FlushDone, WithDirty, Summary
  <2> QED BY <1>29, <2>1, <2>2, <2>3 DEF FlushDone
<1>30. CASE Sleep
  BY <1>30 DEF Sleep
<1>31. CASE ScannerWatches
  <2>1. op.dev \in Devices
    BY <1>31 DEF ScannerWatches
  <2> QED BY <1>31, <2>1 DEF ScannerWatches
<1>32. CASE ScannerConfirms
  <2>1. op.dev \in Devices
    BY <1>32 DEF ScannerConfirms, WatchTypes, RequestInv
  <2>2. <<FrameOf("ok", op.dev)>> \in Seq(Frame)
    BY <2>1, FrameOfType
  <2>3. frames' \in Seq(Frame)
    BY <1>32, <2>2, FramesConcat DEF ScannerConfirms, Answer
  <2> QED BY <1>32, <2>3 DEF ScannerConfirms, Answer
<1>33. CASE ScannerRefuses
  <2>1. op.dev \in Devices
    BY <1>33 DEF ScannerRefuses, Refuse, Refusable
  <2>2. <<FrameOf("refused", op.dev)>> \in Seq(Frame)
    BY <2>1, FrameOfType
  <2>3. frames' \in Seq(Frame)
    BY <1>33, <2>2, FramesConcat DEF ScannerRefuses, Refuse, Answer
  <2> QED BY <1>33, <2>3 DEF ScannerRefuses, Refuse, Answer
<1>34. CASE ScannerStops
  <2>1. op.dev \in Devices
    BY <1>34 DEF ScannerStops, NoOp
  <2>2. <<FrameOf("stopped", op.dev), FrameOf("ok", op.dev)>> \in Seq(Frame)
    BY <2>1, FrameOfType
  <2>3. frames' \in Seq(Frame)
    BY <1>34, <2>2, FramesConcat DEF ScannerStops, Answer
  <2> QED BY <1>34, <2>3 DEF ScannerStops, Answer
<1>35. CASE LoseFrames
  <2>1. frames' \in Seq(Frame)
    BY <1>35, HeadOfFrames, NoFrames DEF LoseFrames
  <2>2. skewed' = TRUE
    BY <1>35 DEF LoseFrames
  <2>3. UNCHANGED <<at, link, op, request, active, watching, roundVars, pending, dirty,
                    summary, optionVars, noted, storeVars>>
    BY <1>35 DEF LoseFrames
  <2> QED BY <2>1, <2>2, <2>3
<1>36. CASE Hangup
  BY <1>36 DEF Hangup
<1>37. ASSUME NEW d \in Devices, FileChange(d) PROVE StoreTypeOK' /\ ManagerTypes' /\ SetTypes'
  <2>1. PICK c \in Changes \ fs[d] : fs' = [fs EXCEPT ![d] = fs[d] \cup {c}]
    BY <1>37 DEF FileChange, ChangeFile
  <2>2. fs' \in [Devices -> SUBSET Changes] /\ fs'[d] \ fs[d] = {c}
    BY <2>1
  <2>3. frames' \in Seq(Frame)
    <3>1. EventOf(d, c) \in Frame /\ FrameOf("error", d) \in Frame
      BY FrameOfType
    <3>2. CASE Callback(d, c)
      <4>1. frames' \in {Append(frames, EventOf(d, c)), Append(frames, FrameOf("error", d)), frames}
        BY <3>2 DEF Callback
      <4>2. Append(frames, EventOf(d, c)) \in Seq(Frame)
        BY <3>1, FramesAppend
      <4>3. Append(frames, FrameOf("error", d)) \in Seq(Frame)
        BY <3>1, FramesAppend
      <4> QED BY <4>1, <4>2, <4>3
    <3>3. CASE UNCHANGED frames
      BY <3>3
    <3> QED BY <1>37, <2>2, <3>2, <3>3 DEF FileChange
  <2>4. noted' \in [Devices -> SUBSET Changes]
    BY <1>37, <2>1, <2>2 DEF FileChange
  <2> QED BY <1>37, <2>2, <2>3, <2>4 DEF FileChange
<1>38. ASSUME NEW d \in Devices, KeepsChanging(d) PROVE StoreTypeOK' /\ ManagerTypes' /\ SetTypes'
  <2>1. PICK c \in fs[d] : frames' = Append(frames, EventOf(d, c))
    BY <1>38 DEF KeepsChanging
  <2>2. EventOf(d, c) \in Frame
    BY FrameOfType
  <2>3. frames' \in Seq(Frame)
    BY <2>1, <2>2, FramesAppend
  <2> QED BY <1>38, <2>3 DEF KeepsChanging
<1>39. ASSUME NEW d \in Devices, Rescan(d) PROVE StoreTypeOK' /\ ManagerTypes' /\ SetTypes'
  <2>1. FreshSidecar \in Sidecar /\ [seen |-> fs[d]] \in Index
    BY DEF FreshSidecar, Sidecar, StaleReasons, LiveStates, Index
  <2> QED BY <1>39, <2>1 DEF Rescan
<1>40. ASSUME NEW d \in Devices, Forget(d) PROVE StoreTypeOK' /\ ManagerTypes' /\ SetTypes'
  <2>1. saver' \in [Writers -> Saver]
    BY <1>40, RelinkedType DEF Forget, ForgetWith, DeleteSnapshot, Files
  <2> QED BY <1>40, <2>1 DEF Forget, ForgetWith, DeleteSnapshot
<1>41. ASSUME NEW D \in SUBSET Devices, SetMounted(D) PROVE StoreTypeOK' /\ ManagerTypes' /\ SetTypes'
  BY <1>41 DEF SetMounted
<1>42. ASSUME NEW D \in SUBSET Devices, SetEnabled(D) PROVE StoreTypeOK' /\ ManagerTypes' /\ SetTypes'
  BY <1>42 DEF SetEnabled, WatchTypes
<1>43. ASSUME NEW b \in BOOLEAN, SetWatchMounted(b) PROVE StoreTypeOK' /\ ManagerTypes' /\ SetTypes'
  BY <1>43 DEF SetWatchMounted
<1>44. CASE Restart
  <2>1. indexes' \in [Devices -> Index \cup {Absent}]
    BY <1>44 DEF Restart, LoadedIndexes
  <2>2. StoreTypeOK'
    BY <1>44, <2>1, IdleSaverType, LoadSidecarsType DEF Restart
  <2>3. ManagerTypes'
    <3>1. frames' \in Seq(Frame)
      BY <1>44, NoFrames DEF Restart
    <3>2. /\ at' = "drain" /\ link' = "none" /\ op' = NoOp /\ request' = "none" /\ flushing' = Absent
          /\ UNCHANGED <<watchMounted, config>>
      BY <1>44 DEF Restart
    <3>3. skewed' = FALSE /\ forced' = FALSE
      BY <1>44 DEF Restart
    <3>4. /\ pending' = [e \in Devices |-> {}] /\ noted' = [e \in Devices |-> {}]
          /\ summary' = [e \in Devices |-> Absent]
      BY <1>44 DEF Restart
    <3> QED BY <3>1, <3>2, <3>3, <3>4
  <2> QED BY <1>44, <2>2, <2>3 DEF Restart
<1>45. CASE UNCHANGED vars
  BY <1>45
<1> QED
  BY <1>1, <1>2, <1>3, <1>4, <1>5, <1>6, <1>7, <1>8, <1>9, <1>10, <1>11, <1>12,
     <1>13, <1>14, <1>15, <1>16, <1>17, <1>18, <1>19, <1>20, <1>21, <1>22, <1>23,
     <1>24, <1>25, <1>26, <1>27, <1>28, <1>29, <1>30, <1>31, <1>32, <1>33, <1>34,
     <1>35, <1>36, <1>37, <1>38, <1>39, <1>40, <1>41, <1>42, <1>43, <1>44, <1>45
  DEF Next, Manager, Scanner, World

-----------------------------------------------------------------------------
(* The stream.                                                             *)

LEMMA EventsKept ==
  ASSUME WatchTypes, \A d \in Devices : fs[d] \subseteq fs'[d],
         frames' = frames \/ frames' = <<>> \/ (frames # <<>> /\ frames' = Tail(frames))
  PROVE  EventInv'
<1>1. frames \in Seq(Frame)
  BY DEF WatchTypes, TypeOK
<1>2. \A i \in 1 .. Len(frames) : frames[i].dev \in Devices
  <2>1. \A i \in 1 .. Len(frames) : frames[i] \in Frame
    BY <1>1
  <2> QED BY <2>1 DEF Frame
<1>3. \A i \in 1 .. Len(frames') : \E k \in 1 .. Len(frames) : frames'[i] = frames[k]
  <2>1. CASE frames' = frames
    BY <2>1
  <2>2. CASE frames' = <<>>
    BY <2>2
  <2>3. CASE frames # <<>> /\ frames' = Tail(frames)
    BY <1>1, <2>3, FramesTail
  <2> QED BY <2>1, <2>2, <2>3
<1> QED BY <1>2, <1>3 DEF WatchTypes, EventInv

LEMMA EventsAppended ==
  ASSUME WatchTypes, \A d \in Devices : fs[d] \subseteq fs'[d],
         NEW f \in Frame, frames' = Append(frames, f),
         f.kind = "event" => f.change \in fs'[f.dev]
  PROVE  EventInv'
<1>1. frames \in Seq(Frame)
  BY DEF WatchTypes, TypeOK
<1>2. \A i \in 1 .. Len(frames) : frames[i].dev \in Devices
  <2>1. \A i \in 1 .. Len(frames) : frames[i] \in Frame
    BY <1>1
  <2> QED BY <2>1 DEF Frame
<1>3. \A i \in 1 .. Len(frames') : frames'[i] = f \/ \E k \in 1 .. Len(frames) : frames'[i] = frames[k]
  BY <1>1, FramesAppend
<1> QED BY <1>2, <1>3 DEF WatchTypes, EventInv

LEMMA EventsConcat ==
  ASSUME WatchTypes, UNCHANGED fs,
         NEW t \in Seq(Frame), frames' = frames \o t,
         \A i \in 1 .. Len(t) : t[i].kind # "event"
  PROVE  EventInv'
<1>1. frames \in Seq(Frame)
  BY DEF WatchTypes, TypeOK
<1>2. \A i \in 1 .. Len(frames') : \/ frames'[i].kind # "event"
                                  \/ \E k \in 1 .. Len(frames) : frames'[i] = frames[k]
  <2> SUFFICES ASSUME NEW i \in 1 .. Len(frames')
               PROVE  \/ frames'[i].kind # "event"
                      \/ \E k \in 1 .. Len(frames) : frames'[i] = frames[k]
    OBVIOUS
  <2>1. CASE i \in 1 .. Len(frames)
    BY <1>1, <2>1, FramesConcat
  <2>2. CASE i \notin 1 .. Len(frames)
    <3>1. i - Len(frames) \in 1 .. Len(t) /\ frames'[i] = t[i - Len(frames)]
      BY <1>1, <2>2, ConcatProperties
    <3> QED BY <3>1
  <2> QED BY <2>1, <2>2
<1> QED BY <1>2 DEF WatchTypes, EventInv

\* The answers of the scanner daemon, in the three forms they have
LEMMA AnswerFrames ==
  ASSUME NEW d \in Devices
  PROVE  /\ <<FrameOf("ok", d)>> \in Seq(Frame)
         /\ <<FrameOf("refused", d)>> \in Seq(Frame)
         /\ <<FrameOf("stopped", d), FrameOf("ok", d)>> \in Seq(Frame)
         /\ \A i \in 1 .. 1 : <<FrameOf("ok", d)>>[i].kind = "ok"
         /\ \A i \in 1 .. 1 : <<FrameOf("refused", d)>>[i].kind = "refused"
         /\ \A i \in 1 .. 2 : <<FrameOf("stopped", d), FrameOf("ok", d)>>[i].kind \in {"stopped", "ok"}
<1>1. /\ FrameOf("ok", d) \in Frame /\ FrameOf("refused", d) \in Frame /\ FrameOf("stopped", d) \in Frame
  BY FrameOfType
<1>2. /\ FrameOf("ok", d).kind = "ok" /\ FrameOf("refused", d).kind = "refused"
      /\ FrameOf("stopped", d).kind = "stopped"
  BY DEF FrameOf
<1> QED BY <1>1, <1>2

LEMMA EventStep ==
  ASSUME WatchTypes, [Next]_vars
  PROVE  EventInv'
<1>0. TypeOK
  BY DEF WatchTypes
<1> USE DEF vars, managerVars, connVars, roundVars, optionVars, storeVars, diskVars, memoryVars
<1>1. CASE Connect
  BY <1>1, EventsKept DEF Connect
<1>2. CASE NoConnection
  BY <1>2, EventsKept DEF NoConnection
<1>3. CASE ReadFrame
  BY <1>3, EventsKept DEF ReadFrame
<1>4. CASE DrainTimesOut
  BY <1>4, EventsKept DEF DrainTimesOut
<1>5. CASE DrainFails
  BY <1>5, EventsKept DEF DrainFails, DropConnection, MarkError
<1>6. CASE SkipReconcile
  BY <1>6, EventsKept DEF SkipReconcile
<1>7. CASE Reconcile
  BY <1>7, EventsKept DEF Reconcile
<1>8. CASE StopsDone
  BY <1>8, EventsKept DEF StopsDone
<1>9. CASE StartsDone
  BY <1>9, EventsKept DEF StartsDone
<1>10. ASSUME NEW d \in Devices, StopWatch(d) PROVE EventInv'
  BY <1>10, EventsKept DEF StopWatch, ApplyOnStop, ApplyPending, WithDirty, Ask
<1>11. ASSUME NEW d \in Devices, StopWatchFails(d) PROVE EventInv'
  BY <1>11, EventsKept DEF StopWatchFails, ApplyOnStop, ApplyPending, WithDirty, Reported
<1>12. ASSUME NEW d \in Devices, KeepWatch(d) PROVE EventInv'
  BY <1>12, EventsKept DEF KeepWatch, Reported
<1>13. ASSUME NEW d \in Devices, StartWatch(d) PROVE EventInv'
  BY <1>13, EventsKept DEF StartWatch, Ask
<1>14. ASSUME NEW d \in Devices, StartWatchFails(d) PROVE EventInv'
  BY <1>14, EventsKept DEF StartWatchFails, MarkUnavailable
<1>15. ASSUME NEW d \in Devices, ApplyBatch(d) PROVE EventInv'
  BY <1>15, EventsKept DEF ApplyBatch, ApplyPending, WithDirty
<1>16. ASSUME NEW d \in Devices, ApplyFails(d) PROVE EventInv'
  BY <1>16, EventsKept DEF ApplyFails, MarkError
<1>17. ASSUME NEW d \in Devices, BeginFlush(d) PROVE EventInv'
  BY <1>17, EventsKept DEF BeginFlush, OpenTmp
<1>18. ASSUME NEW d \in Devices, NothingToFlush(d) PROVE EventInv'
  BY <1>18, EventsKept DEF NothingToFlush
<1>19. CASE ReadWhileWaiting
  BY <1>19, EventsKept DEF ReadWhileWaiting, HandleWhileWaiting
<1>20. CASE StopAnswered
  BY <1>20, EventsKept DEF StopAnswered, Answered, EndWait
<1>21. CASE StartAnswered
  BY <1>21, EventsKept DEF StartAnswered, Answered, EndWait, Started
<1>22. CASE StartRefused
  BY <1>22, EventsKept DEF StartRefused, MarkUnavailable, Answered, EndWait
<1>23. CASE WaitFails
  BY <1>23, EventsKept DEF WaitFails, MarkUnavailable, EndWait
<1>24. CASE BackToRequest
  BY <1>24, EventsKept DEF BackToRequest, AppliedAll
<1>25. ASSUME NEW D \in SUBSET dirty, FlushRound(D) PROVE EventInv'
  BY <1>25, EventsKept DEF FlushRound, AppliedAll
<1>26. CASE WriteFlush
  BY <1>26, EventsKept DEF WriteFlush, WriteTmp
<1>27. CASE RenameFlush
  BY <1>27, EventsKept DEF RenameFlush, RenameTmp
<1>28. CASE FlushFails
  BY <1>28, EventsKept DEF FlushFails, MarkError, FlushError, RenameFails, SaveIoError
<1>29. CASE FlushDone
  BY <1>29, EventsKept DEF FlushDone, WithDirty
<1>30. CASE Sleep
  BY <1>30, EventsKept DEF Sleep
<1>31. CASE ScannerWatches
  BY <1>31, EventsKept DEF ScannerWatches
<1>32. CASE ScannerConfirms
  <2>1. op.dev \in Devices
    BY <1>32, <1>0 DEF ScannerConfirms, WatchTypes, RequestInv, TypeOK
  <2>2. Len(<<FrameOf("ok", op.dev)>>) = 1
    OBVIOUS
  <2>3. frames' = frames \o <<FrameOf("ok", op.dev)>> /\ UNCHANGED fs
    BY <1>32 DEF ScannerConfirms, Answer
  <2> QED BY <2>1, <2>2, <2>3, AnswerFrames, EventsConcat
<1>33. CASE ScannerRefuses
  <2>1. op.dev \in Devices
    BY <1>33, <1>0 DEF ScannerRefuses, Refuse, Refusable, TypeOK
  <2>2. Len(<<FrameOf("refused", op.dev)>>) = 1
    OBVIOUS
  <2>3. frames' = frames \o <<FrameOf("refused", op.dev)>> /\ UNCHANGED fs
    BY <1>33 DEF ScannerRefuses, Answer, Refuse
  <2> QED BY <2>1, <2>2, <2>3, AnswerFrames, EventsConcat
<1>34. CASE ScannerStops
  <2>1. op.dev \in Devices
    BY <1>34, <1>0 DEF ScannerStops, NoOp, TypeOK
  <2>2. Len(<<FrameOf("stopped", op.dev), FrameOf("ok", op.dev)>>) = 2
    OBVIOUS
  <2>3. frames' = frames \o <<FrameOf("stopped", op.dev), FrameOf("ok", op.dev)>> /\ UNCHANGED fs
    BY <1>34 DEF ScannerStops, Answer
  <2> QED BY <2>1, <2>2, <2>3, AnswerFrames, EventsConcat
<1>35. CASE LoseFrames
  BY <1>35, EventsKept DEF LoseFrames
<1>36. CASE Hangup
  BY <1>36, EventsKept DEF Hangup
<1>37. ASSUME NEW d \in Devices, FileChange(d) PROVE EventInv'
  <2>1. PICK c \in Changes \ fs[d] : fs' = [fs EXCEPT ![d] = fs[d] \cup {c}]
    BY <1>37 DEF FileChange, ChangeFile
  <2>2. /\ \A e \in Devices : fs[e] \subseteq fs'[e]
        /\ fs'[d] \ fs[d] = {c} /\ c \in fs'[d]
    BY <1>0, <2>1 DEF TypeOK, StoreTypeOK
  <2>3. EventOf(d, c) \in Frame /\ FrameOf("error", d) \in Frame
    BY FrameOfType
  <2>4. /\ EventOf(d, c).change = c /\ EventOf(d, c).dev = d
        /\ FrameOf("error", d).kind # "event"
    BY DEF EventOf, FrameOf
  <2>5. CASE UNCHANGED frames
    BY <2>2, <2>5, EventsKept
  <2>6. CASE frames' = Append(frames, EventOf(d, c))
    BY <2>2, <2>3, <2>4, <2>6, EventsAppended
  <2>7. CASE frames' = Append(frames, FrameOf("error", d))
    BY <2>2, <2>3, <2>4, <2>7, EventsAppended
  <2>8. UNCHANGED frames \/ Callback(d, c)
    BY <1>37, <2>2 DEF FileChange
  <2> QED BY <2>5, <2>6, <2>7, <2>8 DEF Callback
<1>38. ASSUME NEW d \in Devices, KeepsChanging(d) PROVE EventInv'
  <2>1. PICK c \in fs[d] : frames' = Append(frames, EventOf(d, c))
    BY <1>38 DEF KeepsChanging
  <2>2. EventOf(d, c) \in Frame /\ EventOf(d, c).change = c /\ EventOf(d, c).dev = d
    BY <1>0, FrameOfType DEF TypeOK, StoreTypeOK, EventOf
  <2> QED BY <1>38, <2>1, <2>2, EventsAppended DEF KeepsChanging
<1>39. ASSUME NEW d \in Devices, Rescan(d) PROVE EventInv'
  BY <1>39, EventsKept DEF Rescan
<1>40. ASSUME NEW d \in Devices, Forget(d) PROVE EventInv'
  BY <1>40, EventsKept DEF Forget, ForgetWith, DeleteSnapshot
<1>41. ASSUME NEW D \in SUBSET Devices, SetMounted(D) PROVE EventInv'
  BY <1>41, EventsKept DEF SetMounted
<1>42. ASSUME NEW D \in SUBSET Devices, SetEnabled(D) PROVE EventInv'
  BY <1>42, EventsKept DEF SetEnabled
<1>43. ASSUME NEW b \in BOOLEAN, SetWatchMounted(b) PROVE EventInv'
  BY <1>43, EventsKept DEF SetWatchMounted
<1>44. CASE Restart
  BY <1>44, EventsKept DEF Restart
<1>45. CASE UNCHANGED vars
  BY <1>45, EventsKept
<1> QED
  BY <1>1, <1>2, <1>3, <1>4, <1>5, <1>6, <1>7, <1>8, <1>9, <1>10, <1>11, <1>12,
     <1>13, <1>14, <1>15, <1>16, <1>17, <1>18, <1>19, <1>20, <1>21, <1>22, <1>23,
     <1>24, <1>25, <1>26, <1>27, <1>28, <1>29, <1>30, <1>31, <1>32, <1>33, <1>34,
     <1>35, <1>36, <1>37, <1>38, <1>39, <1>40, <1>41, <1>42, <1>43, <1>44, <1>45
  DEF Next, Manager, Scanner, World

LEMMA RequestStep ==
  ASSUME WatchTypes, [Next]_vars
  PROVE  RequestInv' /\ "enabled" \in DOMAIN config'
<1> USE DEF WatchTypes, RequestInv, vars, managerVars, connVars, roundVars, optionVars, NoOp
<1>1. CASE Connect
  BY <1>1 DEF Connect
<1>2. CASE NoConnection
  BY <1>2 DEF NoConnection
<1>3. CASE ReadFrame
  BY <1>3 DEF ReadFrame
<1>4. CASE DrainTimesOut
  BY <1>4 DEF DrainTimesOut
<1>5. CASE DrainFails
  BY <1>5 DEF DrainFails, DropConnection, MarkError
<1>6. CASE SkipReconcile
  BY <1>6 DEF SkipReconcile
<1>7. CASE Reconcile
  BY <1>7 DEF Reconcile
<1>8. CASE StopsDone
  BY <1>8 DEF StopsDone
<1>9. CASE StartsDone
  BY <1>9 DEF StartsDone
<1>10. ASSUME NEW d \in Devices, StopWatch(d) PROVE RequestInv' /\ "enabled" \in DOMAIN config'
  BY <1>10 DEF StopWatch, ApplyOnStop, ApplyPending, WithDirty, Ask
<1>11. ASSUME NEW d \in Devices, StopWatchFails(d) PROVE RequestInv' /\ "enabled" \in DOMAIN config'
  BY <1>11 DEF StopWatchFails, ApplyOnStop, ApplyPending, WithDirty, Reported
<1>12. ASSUME NEW d \in Devices, KeepWatch(d) PROVE RequestInv' /\ "enabled" \in DOMAIN config'
  BY <1>12 DEF KeepWatch, Reported
<1>13. ASSUME NEW d \in Devices, StartWatch(d) PROVE RequestInv' /\ "enabled" \in DOMAIN config'
  BY <1>13 DEF StartWatch, Ask
<1>14. ASSUME NEW d \in Devices, StartWatchFails(d) PROVE RequestInv' /\ "enabled" \in DOMAIN config'
  BY <1>14 DEF StartWatchFails, MarkUnavailable
<1>15. ASSUME NEW d \in Devices, ApplyBatch(d) PROVE RequestInv' /\ "enabled" \in DOMAIN config'
  BY <1>15 DEF ApplyBatch, ApplyPending, WithDirty
<1>16. ASSUME NEW d \in Devices, ApplyFails(d) PROVE RequestInv' /\ "enabled" \in DOMAIN config'
  BY <1>16 DEF ApplyFails, MarkError
<1>17. ASSUME NEW d \in Devices, BeginFlush(d) PROVE RequestInv' /\ "enabled" \in DOMAIN config'
  BY <1>17 DEF BeginFlush, OpenTmp
<1>18. ASSUME NEW d \in Devices, NothingToFlush(d) PROVE RequestInv' /\ "enabled" \in DOMAIN config'
  BY <1>18 DEF NothingToFlush
<1>19. CASE ReadWhileWaiting
  BY <1>19 DEF ReadWhileWaiting, HandleWhileWaiting
<1>20. CASE StopAnswered
  BY <1>20 DEF StopAnswered, Answered, EndWait
<1>21. CASE StartAnswered
  BY <1>21 DEF StartAnswered, Answered, EndWait, Started
<1>22. CASE StartRefused
  BY <1>22 DEF StartRefused, MarkUnavailable, Answered, EndWait
<1>23. CASE WaitFails
  BY <1>23 DEF WaitFails, MarkUnavailable, EndWait
<1>24. CASE BackToRequest
  BY <1>24 DEF BackToRequest, AppliedAll
<1>25. ASSUME NEW D \in SUBSET dirty, FlushRound(D) PROVE RequestInv' /\ "enabled" \in DOMAIN config'
  BY <1>25 DEF FlushRound, AppliedAll
<1>26. CASE WriteFlush
  BY <1>26 DEF WriteFlush, WriteTmp
<1>27. CASE RenameFlush
  BY <1>27 DEF RenameFlush, RenameTmp
<1>28. CASE FlushFails
  BY <1>28 DEF FlushFails, MarkError, FlushError, RenameFails, SaveIoError
<1>29. CASE FlushDone
  BY <1>29 DEF FlushDone, WithDirty
<1>30. CASE Sleep
  BY <1>30 DEF Sleep
<1>31. CASE ScannerWatches
  BY <1>31 DEF ScannerWatches
<1>32. CASE ScannerConfirms
  BY <1>32 DEF ScannerConfirms, Answer
<1>33. CASE ScannerRefuses
  BY <1>33 DEF ScannerRefuses, Answer, Refuse
<1>34. CASE ScannerStops
  BY <1>34 DEF ScannerStops, Answer
<1>35. CASE LoseFrames
  BY <1>35 DEF LoseFrames
<1>36. CASE Hangup
  BY <1>36 DEF Hangup
<1>37. ASSUME NEW d \in Devices, FileChange(d) PROVE RequestInv' /\ "enabled" \in DOMAIN config'
  BY <1>37 DEF FileChange, ChangeFile, Callback
<1>38. ASSUME NEW d \in Devices, KeepsChanging(d) PROVE RequestInv' /\ "enabled" \in DOMAIN config'
  BY <1>38 DEF KeepsChanging
<1>39. ASSUME NEW d \in Devices, Rescan(d) PROVE RequestInv' /\ "enabled" \in DOMAIN config'
  BY <1>39 DEF Rescan
<1>40. ASSUME NEW d \in Devices, Forget(d) PROVE RequestInv' /\ "enabled" \in DOMAIN config'
  BY <1>40 DEF Forget, ForgetWith, DeleteSnapshot
<1>41. ASSUME NEW D \in SUBSET Devices, SetMounted(D) PROVE RequestInv' /\ "enabled" \in DOMAIN config'
  BY <1>41 DEF SetMounted
<1>42. ASSUME NEW D \in SUBSET Devices, SetEnabled(D) PROVE RequestInv' /\ "enabled" \in DOMAIN config'
  BY <1>42 DEF SetEnabled
<1>43. ASSUME NEW b \in BOOLEAN, SetWatchMounted(b) PROVE RequestInv' /\ "enabled" \in DOMAIN config'
  BY <1>43 DEF SetWatchMounted
<1>44. CASE Restart
  BY <1>44 DEF Restart
<1>45. CASE UNCHANGED vars
  BY <1>45
<1> QED
  BY <1>1, <1>2, <1>3, <1>4, <1>5, <1>6, <1>7, <1>8, <1>9, <1>10, <1>11, <1>12,
     <1>13, <1>14, <1>15, <1>16, <1>17, <1>18, <1>19, <1>20, <1>21, <1>22, <1>23,
     <1>24, <1>25, <1>26, <1>27, <1>28, <1>29, <1>30, <1>31, <1>32, <1>33, <1>34,
     <1>35, <1>36, <1>37, <1>38, <1>39, <1>40, <1>41, <1>42, <1>43, <1>44, <1>45
  DEF Next, Manager, Scanner, World

LEMMA WatchTypesStep == WatchTypes /\ [Next]_vars => WatchTypes'
BY WatchTypeStep, EventStep, RequestStep DEF WatchTypes

\* The variables of the live watch manager keep their types, and the events that
\* are in the stream tell of changes that were made.
THEOREM WatchTypesHold == Spec => []TypeOK
<1>1. WatchTypes => TypeOK
  BY DEF WatchTypes
<1> QED BY <1>1, InitLoaded, WatchTypeInit, WatchTypesStep, PTL DEF Spec

-----------------------------------------------------------------------------
(* What is pending, noted, indexed or on disk has happened.                *)

LEMMA MadeInit == Loaded => MadeInv
<1> SUFFICES ASSUME Loaded PROVE MadeInv
  OBVIOUS
<1>1. /\ fs = [d \in Devices |-> {}]
      /\ indexes \in [Devices -> {Absent, [seen |-> {}]}] /\ snapshot = indexes
      /\ snapshotTmp = [d \in Devices |-> Absent]
      /\ saver = [w \in Writers |-> IdleSaver]
      /\ pending = [d \in Devices |-> {}]
      /\ noted = [d \in Devices |-> {}]
  BY DEF Loaded, ManagerInit, StoreLoaded
<1>2. \A w \in Writers : saver[w].phase = "idle"
  BY <1>1 DEF IdleSaver
<1>3. \A d \in Devices : /\ indexes[d] # Absent => indexes[d].seen = {}
                         /\ snapshotTmp[d] \notin Index
  BY <1>1, StoreAssumption
<1>4. \A d \in Devices : snapshot[d] \in Index => snapshot[d].seen = {}
  BY <1>1, <1>3, StoreAssumption
<1>5. \A d \in Devices : pending[d] = {} /\ noted[d] = {}
  BY <1>1
<1> QED BY <1>2, <1>3, <1>4, <1>5 DEF MadeInv

\* The files and the savers stay, what is pending stays or goes.
LEMMA MadeKept ==
  ASSUME TypeOK, MadeInv, UNCHANGED <<fs, snapshot, snapshotTmp, saver>>,
         UNCHANGED noted,
         \A d \in Devices : /\ pending'[d] \subseteq fs[d]
                            /\ indexes'[d] # Absent => indexes'[d].seen \subseteq fs[d]
  PROVE  MadeInv'
<1>1. fs' = fs /\ snapshot' = snapshot /\ snapshotTmp' = snapshotTmp /\ saver' = saver /\ noted' = noted
  OBVIOUS
<1>2. ASSUME NEW d \in Devices
      PROVE  /\ pending'[d] \subseteq fs'[d]
             /\ noted'[d] \subseteq fs'[d]
             /\ indexes'[d] # Absent => indexes'[d].seen \subseteq fs'[d]
             /\ snapshot'[d] \in Index => snapshot'[d].seen \subseteq fs'[d]
             /\ snapshotTmp'[d] \in Index => snapshotTmp'[d].seen \subseteq fs'[d]
  <2>1. /\ pending'[d] \subseteq fs[d]
        /\ indexes'[d] # Absent => indexes'[d].seen \subseteq fs[d]
    OBVIOUS
  <2>2. /\ noted[d] \subseteq fs[d]
        /\ snapshot[d] \in Index => snapshot[d].seen \subseteq fs[d]
        /\ snapshotTmp[d] \in Index => snapshotTmp[d].seen \subseteq fs[d]
    BY DEF MadeInv
  <2> QED BY <1>1, <2>1, <2>2
<1>3. ASSUME NEW w \in Writers, saver'[w].phase # "idle"
      PROVE  /\ saver'[w].dev \in Devices
             /\ saver'[w].data \in Index
             /\ saver'[w].data.seen \subseteq fs'[saver'[w].dev]
  BY <1>1, <1>3 DEF MadeInv
<1> QED BY <1>2, <1>3 DEF MadeInv

LEMMA ApplyMade ==
  ASSUME TypeOK, MadeInv, NEW d \in Devices, ApplyPending(d)
  PROVE  \A e \in Devices : /\ pending'[e] \subseteq fs[e]
                            /\ indexes'[e] # Absent => indexes'[e].seen \subseteq fs[e]
<1> USE DEF TypeOK, StoreTypeOK, MadeInv
<1>1. \A e \in Devices : pending'[e] \subseteq fs[e]
  BY DEF ApplyPending
<1>2. CASE Applies(d)
  <2>1. indexes' = [indexes EXCEPT ![d].seen = indexes[d].seen \cup pending[d]] /\ indexes[d] \in Index
    BY <1>2 DEF ApplyPending, Applies
  <2>2. indexes'[d].seen = indexes[d].seen \cup pending[d]
    BY <2>1 DEF Index
  <2>3. \A e \in Devices : e # d => indexes'[e] = indexes[e]
    BY <2>1
  <2>4. indexes[d] # Absent
    BY <1>2 DEF Applies
  <2> QED BY <1>1, <2>2, <2>3, <2>4
<1>3. CASE ~Applies(d)
  BY <1>1, <1>3 DEF ApplyPending
<1> QED BY <1>2, <1>3

\* What is pending moves into the index, or is dropped.
LEMMA PendingMade ==
  ASSUME TypeOK, MadeInv, NEW d \in Devices, ApplyPending(d) \/ RefusePending(d)
  PROVE  \A e \in Devices : /\ pending'[e] \subseteq fs[e]
                            /\ indexes'[e] # Absent => indexes'[e].seen \subseteq fs[e]
<1>1. CASE ApplyPending(d)
  BY <1>1, ApplyMade
<1>2. CASE RefusePending(d)
  BY <1>2 DEF RefusePending, MadeInv, TypeOK
<1> QED BY <1>1, <1>2

LEMMA HandleMade ==
  ASSUME WatchTypes, MadeInv, frames # <<>>, HandleFrame(Head(frames))
  PROVE  \A d \in Devices : pending'[d] \subseteq fs[d]
<1> DEFINE f == Head(frames)
<1>1. f.dev \in Devices /\ (f.kind = "event" => f.change \in fs[f.dev])
  BY HeadOfFrames DEF Frame
<1>2. pending \in [Devices -> SUBSET Changes] /\ \A d \in Devices : pending[d] \subseteq fs[d]
  BY DEF WatchTypes, TypeOK, MadeInv
<1>3. pending' = pending \/ (f.kind = "event" /\ pending' = [pending EXCEPT ![f.dev] = pending[f.dev] \cup {f.change}])
  BY DEF HandleFrame
<1> QED BY <1>1, <1>2, <1>3

\* A save moves contents from the saver to the files.
LEMMA WriteMade ==
  ASSUME TypeOK, MadeInv, NEW w \in Writers, WriteTmp(w),
         UNCHANGED <<fs, pending, noted, indexes>>
  PROVE  MadeInv'
<1> DEFINE d == saver[w].dev
<1> USE DEF TypeOK, StoreTypeOK
<1>1. saver[w].phase # "idle" /\ saver' = [saver EXCEPT ![w].phase = "written"]
  BY DEF WriteTmp
<1>2. d \in Devices /\ saver[w].data \in Index /\ saver[w].data.seen \subseteq fs[d]
  BY <1>1 DEF MadeInv
<1>3. \A v \in Writers : saver'[v].dev = saver[v].dev /\ saver'[v].data = saver[v].data
  BY <1>1 DEF Saver
<1>4. \A v \in Writers : saver'[v].phase # "idle" => saver[v].phase # "idle"
  BY <1>1
<1>5. \A v \in Writers : saver'[v].phase # "idle" =>
        /\ saver'[v].dev \in Devices
        /\ saver'[v].data \in Index
        /\ saver'[v].data.seen \subseteq fs'[saver'[v].dev]
  BY <1>3, <1>4 DEF MadeInv
<1>6. \A c, f : Written(w, c, f) \subseteq {saver[w].data, Torn}
  BY DEF Written
<1>7. \/ /\ \E c \in {saver[w].data, Torn} : snapshotTmp' = [snapshotTmp EXCEPT ![d] = c]
         /\ UNCHANGED snapshot
      \/ /\ \E c \in {saver[w].data, Torn} : snapshot' = [snapshot EXCEPT ![d] = c]
         /\ UNCHANGED snapshotTmp
      \/ UNCHANGED <<snapshot, snapshotTmp>>
  BY <1>6 DEF WriteTmp
<1>8. \A e \in Devices :
        /\ snapshot'[e] \in Index => snapshot'[e].seen \subseteq fs[e]
        /\ snapshotTmp'[e] \in Index => snapshotTmp'[e].seen \subseteq fs[e]
  BY <1>2, <1>7, StoreAssumption DEF MadeInv
<1> QED BY <1>5, <1>8 DEF MadeInv

LEMMA RenameMade ==
  ASSUME TypeOK, MadeInv, NEW w \in Writers, RenameTmp(w),
         UNCHANGED <<fs, pending, noted, indexes>>
  PROVE  MadeInv'
<1> DEFINE d == saver[w].dev
<1> USE DEF TypeOK, StoreTypeOK
<1>1. d \in Devices
  BY DEF RenameTmp, MadeInv
<1>2. \A v \in Writers : saver'[v].phase # "idle" =>
        saver[v].phase # "idle" /\ saver'[v].dev = saver[v].dev /\ saver'[v].data = saver[v].data
  <2>1. \A v \in Writers : saver'[v] = IF v = w THEN IdleSaver ELSE Relinked(d, "snapshot")[v]
    BY DEF RenameTmp, Relinked
  <2>2. \A v \in Writers : /\ Relinked(d, "snapshot")[v].phase = saver[v].phase
                           /\ Relinked(d, "snapshot")[v].dev = saver[v].dev
                           /\ Relinked(d, "snapshot")[v].data = saver[v].data
    BY DEF Relinked, Saver
  <2> QED BY <2>1, <2>2 DEF IdleSaver
<1>3. \A v \in Writers : saver'[v].phase # "idle" =>
        /\ saver'[v].dev \in Devices
        /\ saver'[v].data \in Index
        /\ saver'[v].data.seen \subseteq fs'[saver'[v].dev]
  BY <1>2 DEF MadeInv
<1>4. /\ snapshot' = [snapshot EXCEPT ![d] = snapshotTmp[d]]
      /\ snapshotTmp' = [snapshotTmp EXCEPT ![d] = Absent]
  BY DEF RenameTmp
<1>5. \A e \in Devices :
        /\ snapshot'[e] \in Index => snapshot'[e].seen \subseteq fs[e]
        /\ snapshotTmp'[e] \in Index => snapshotTmp'[e].seen \subseteq fs[e]
  BY <1>1, <1>4, StoreAssumption DEF MadeInv
<1> QED BY <1>3, <1>5 DEF MadeInv

LEMMA MadeStep ==
  ASSUME WatchTypes, MadeInv, [Next]_vars
  PROVE  MadeInv'
<1>0. TypeOK
  BY DEF WatchTypes
<1>a. ASSUME UNCHANGED <<fs, snapshot, snapshotTmp, saver, noted, pending, indexes>> PROVE MadeInv'
  BY <1>a DEF MadeInv
<1> USE <1>0 DEF vars, managerVars, connVars, roundVars, optionVars, storeVars, diskVars, memoryVars
<1>1. CASE Connect
  BY <1>1, <1>a DEF Connect
<1>2. CASE NoConnection
  BY <1>2, <1>a DEF NoConnection
<1>3. CASE ReadFrame
  <2>1. \A d \in Devices : pending'[d] \subseteq fs[d]
    BY <1>3, HandleMade DEF ReadFrame
  <2> QED BY <1>3, <2>1 DEF ReadFrame, MadeInv
<1>4. CASE DrainTimesOut
  BY <1>4, <1>a DEF DrainTimesOut
<1>5. CASE DrainFails
  BY <1>5, <1>a DEF DrainFails, DropConnection, MarkError
<1>6. CASE SkipReconcile
  BY <1>6, <1>a DEF SkipReconcile
<1>7. CASE Reconcile
  BY <1>7, <1>a DEF Reconcile
<1>8. CASE StopsDone
  BY <1>8, <1>a DEF StopsDone
<1>9. CASE StartsDone
  BY <1>9, <1>a DEF StartsDone
<1>10. ASSUME NEW d \in Devices, StopWatch(d) PROVE MadeInv'
  <2>1. (ApplyPending(d) \/ RefusePending(d)) /\ UNCHANGED <<fs, diskVars, noted>>
    BY <1>10 DEF StopWatch, ApplyOnStop
  <2> QED BY <2>1, PendingMade, MadeKept
<1>11. ASSUME NEW d \in Devices, StopWatchFails(d) PROVE MadeInv'
  <2>1. (ApplyPending(d) \/ RefusePending(d)) /\ UNCHANGED <<fs, diskVars, noted>>
    BY <1>11 DEF StopWatchFails, ApplyOnStop
  <2> QED BY <2>1, PendingMade, MadeKept
<1>12. ASSUME NEW d \in Devices, KeepWatch(d) PROVE MadeInv'
  BY <1>12, <1>a DEF KeepWatch, Reported
<1>13. ASSUME NEW d \in Devices, StartWatch(d) PROVE MadeInv'
  BY <1>13, <1>a DEF StartWatch, Ask
<1>14. ASSUME NEW d \in Devices, StartWatchFails(d) PROVE MadeInv'
  BY <1>14, <1>a DEF StartWatchFails, MarkUnavailable
<1>15. ASSUME NEW d \in Devices, ApplyBatch(d) PROVE MadeInv'
  <2>1. ApplyPending(d) /\ UNCHANGED <<fs, diskVars, noted>>
    BY <1>15 DEF ApplyBatch
  <2> QED BY <2>1, PendingMade, MadeKept
<1>16. ASSUME NEW d \in Devices, ApplyFails(d) PROVE MadeInv'
  <2>1. RefusePending(d) /\ UNCHANGED <<fs, diskVars, noted>>
    BY <1>16 DEF ApplyFails
  <2> QED BY <2>1, PendingMade, MadeKept
<1>17. ASSUME NEW d \in Devices, BeginFlush(d) PROVE MadeInv'
  <2>1. /\ saver' = [saver EXCEPT ![Flusher] = [phase |-> "opened", dev |-> d, data |-> indexes[d], file |-> "tmp"]]
        /\ snapshotTmp' = [snapshotTmp EXCEPT ![d] = Torn]
        /\ UNCHANGED <<fs, snapshot, pending, noted, indexes>>
    BY <1>17 DEF BeginFlush, OpenTmp
  <2>2. indexes[d] \in Index /\ indexes[d].seen \subseteq fs[d]
    BY <1>17 DEF BeginFlush, TypeOK, StoreTypeOK, MadeInv
  <2>3. \A w \in Writers : saver'[w] = IF w = Flusher
             THEN [phase |-> "opened", dev |-> d, data |-> indexes[d], file |-> "tmp"] ELSE saver[w]
    BY <2>1 DEF TypeOK, StoreTypeOK
  <2>4. \A e \in Devices : snapshotTmp'[e] = IF e = d THEN Torn ELSE snapshotTmp[e]
    BY <2>1 DEF TypeOK, StoreTypeOK
  <2> QED BY <2>1, <2>2, <2>3, <2>4, StoreAssumption DEF MadeInv
<1>18. ASSUME NEW d \in Devices, NothingToFlush(d) PROVE MadeInv'
  BY <1>18, <1>a DEF NothingToFlush
<1>19. CASE ReadWhileWaiting
  <2>1. \A d \in Devices : pending'[d] \subseteq fs[d]
    BY <1>19, HandleMade DEF ReadWhileWaiting, HandleWhileWaiting
  <2> QED BY <1>19, <2>1 DEF ReadWhileWaiting, MadeInv
<1>20. CASE StopAnswered
  BY <1>20, <1>a DEF StopAnswered, Answered, EndWait
<1>21. CASE StartAnswered
  BY <1>21, <1>a DEF StartAnswered, Answered, EndWait, Started
<1>22. CASE StartRefused
  BY <1>22, <1>a DEF StartRefused, MarkUnavailable, Answered, EndWait
<1>23. CASE WaitFails
  BY <1>23, <1>a DEF WaitFails, MarkUnavailable, EndWait
<1>24. CASE BackToRequest
  BY <1>24, <1>a DEF BackToRequest, AppliedAll
<1>25. ASSUME NEW D \in SUBSET dirty, FlushRound(D) PROVE MadeInv'
  BY <1>25, <1>a DEF FlushRound, AppliedAll
<1>26. CASE WriteFlush
  BY <1>26, WatchAssumption, WriteMade DEF WriteFlush
<1>27. CASE RenameFlush
  BY <1>27, WatchAssumption, RenameMade DEF RenameFlush
<1>28. CASE FlushFails
  <2>1. saver' = [saver EXCEPT ![Flusher] = IdleSaver]
        /\ UNCHANGED <<fs, snapshot, snapshotTmp, pending, noted, indexes>>
    BY <1>28 DEF FlushFails, FlushError, RenameFails, SaveIoError
  <2>2. \A w \in Writers : saver'[w] \in {saver[w], IdleSaver}
    BY <2>1 DEF TypeOK, StoreTypeOK
  <2> QED BY <2>1, <2>2 DEF MadeInv, IdleSaver
<1>29. CASE FlushDone
  BY <1>29, <1>a DEF FlushDone, WithDirty
<1>30. CASE Sleep
  BY <1>30, <1>a DEF Sleep
<1>31. CASE ScannerWatches
  BY <1>31, <1>a DEF ScannerWatches
<1>32. CASE ScannerConfirms
  BY <1>32, <1>a DEF ScannerConfirms, Answer
<1>33. CASE ScannerRefuses
  BY <1>33, <1>a DEF ScannerRefuses, Answer, Refuse
<1>34. CASE ScannerStops
  BY <1>34, <1>a DEF ScannerStops, Answer
<1>35. CASE LoseFrames
  BY <1>35, <1>a DEF LoseFrames
<1>36. CASE Hangup
  BY <1>36, <1>a DEF Hangup
<1>37. ASSUME NEW d \in Devices, FileChange(d) PROVE MadeInv'
  <2>1. PICK c \in Changes \ fs[d] : fs' = [fs EXCEPT ![d] = fs[d] \cup {c}]
    BY <1>37 DEF FileChange, ChangeFile
  <2>2. \A e \in Devices : fs[e] \subseteq fs'[e]
    BY <2>1 DEF TypeOK, StoreTypeOK
  <2>3. \A e \in Devices : noted'[e] \subseteq fs'[e]
    BY <1>37, <2>2 DEF FileChange, MadeInv, TypeOK
  <2>4. UNCHANGED <<pending, indexes, snapshot, snapshotTmp, saver>>
    BY <1>37 DEF FileChange
  <2> QED BY <2>2, <2>3, <2>4 DEF MadeInv
<1>38. ASSUME NEW d \in Devices, KeepsChanging(d) PROVE MadeInv'
  BY <1>38, <1>a DEF KeepsChanging
<1>39. ASSUME NEW d \in Devices, Rescan(d) PROVE MadeInv'
  <2>1. /\ indexes' = [indexes EXCEPT ![d] = [seen |-> fs[d]]]
        /\ snapshot' = [snapshot EXCEPT ![d] = [seen |-> fs[d]]]
        /\ snapshotTmp' = [snapshotTmp EXCEPT ![d] = Absent]
        /\ fs' = fs /\ pending' = pending /\ noted' = noted /\ saver' = saver
    BY <1>39 DEF Rescan
  <2>2. \A e \in Devices : /\ indexes'[e] # Absent => indexes'[e].seen \subseteq fs'[e]
                           /\ snapshot'[e] \in Index => snapshot'[e].seen \subseteq fs'[e]
                           /\ snapshotTmp'[e] \in Index => snapshotTmp'[e].seen \subseteq fs'[e]
    <3> SUFFICES ASSUME NEW e \in Devices
                 PROVE /\ indexes'[e] # Absent => indexes'[e].seen \subseteq fs'[e]
                       /\ snapshot'[e] \in Index => snapshot'[e].seen \subseteq fs'[e]
                       /\ snapshotTmp'[e] \in Index => snapshotTmp'[e].seen \subseteq fs'[e]
      OBVIOUS
    <3>1. CASE e = d
      BY <2>1, <3>1, StoreAssumption DEF TypeOK, StoreTypeOK
    <3>2. CASE e # d
      BY <2>1, <3>2 DEF TypeOK, StoreTypeOK, MadeInv
    <3> QED BY <3>1, <3>2
  <2>3. ASSUME NEW w \in Writers, saver'[w].phase # "idle"
        PROVE  /\ saver'[w].dev \in Devices
               /\ saver'[w].data \in Index
               /\ saver'[w].data.seen \subseteq fs'[saver'[w].dev]
    BY <2>1, <2>3 DEF MadeInv
  <2>4. ASSUME NEW e \in Devices PROVE pending'[e] \subseteq fs'[e] /\ noted'[e] \subseteq fs'[e]
    BY <2>1 DEF MadeInv
  <2> QED BY <2>1, <2>2, <2>3, <2>4 DEF MadeInv
<1>40. ASSUME NEW d \in Devices, Forget(d) PROVE MadeInv'
  <2>1. /\ indexes' = [indexes EXCEPT ![d] = Absent]
        /\ snapshot' = [snapshot EXCEPT ![d] = Absent]
        /\ fs' = fs /\ pending' = pending /\ noted' = noted /\ snapshotTmp' = snapshotTmp
        /\ saver' = Relinked(d, "tmp")
    BY <1>40 DEF Forget, ForgetWith, DeleteSnapshot
  <2>2. \A e \in Devices : /\ indexes'[e] \in {indexes[e], Absent}
                           /\ snapshot'[e] \in {snapshot[e], Absent}
    BY <2>1 DEF TypeOK, StoreTypeOK
  <2>3. \A w \in Writers : /\ saver'[w].phase = saver[w].phase
                           /\ saver'[w].dev = saver[w].dev
                           /\ saver'[w].data = saver[w].data
    BY <2>1 DEF Relinked, Saver, TypeOK, StoreTypeOK
  <2>4. \A e \in Devices : /\ indexes'[e] # Absent => indexes'[e].seen \subseteq fs[e]
                           /\ snapshot'[e] \in Index => snapshot'[e].seen \subseteq fs[e]
    BY <2>2, StoreAssumption DEF MadeInv
  <2>5. \A w \in Writers : saver'[w].phase # "idle" =>
          /\ saver'[w].dev \in Devices
          /\ saver'[w].data \in Index
          /\ saver'[w].data.seen \subseteq fs[saver'[w].dev]
    BY <2>3 DEF MadeInv
  <2> QED BY <2>1, <2>4, <2>5 DEF MadeInv
<1>41. ASSUME NEW D \in SUBSET Devices, SetMounted(D) PROVE MadeInv'
  BY <1>41, <1>a DEF SetMounted
<1>42. ASSUME NEW D \in SUBSET Devices, SetEnabled(D) PROVE MadeInv'
  BY <1>42, <1>a DEF SetEnabled
<1>43. ASSUME NEW b \in BOOLEAN, SetWatchMounted(b) PROVE MadeInv'
  BY <1>43, <1>a DEF SetWatchMounted
<1>44. CASE Restart
  <2>1. /\ indexes' = LoadedIndexes
        /\ pending' = [e \in Devices |-> {}] /\ noted' = [e \in Devices |-> {}]
        /\ fs' = fs /\ snapshot' = snapshot /\ snapshotTmp' = snapshotTmp
        /\ saver' = [w \in Writers |-> IdleSaver]
    BY <1>44 DEF Restart
  <2>2. \A e \in Devices : indexes'[e] # Absent => snapshot[e] \in Index /\ indexes'[e] = snapshot[e]
    BY <2>1 DEF LoadedIndexes, TypeOK, StoreTypeOK
  <2>3. \A e \in Devices : /\ pending'[e] = {} /\ noted'[e] = {}
                           /\ indexes'[e] # Absent => indexes'[e].seen \subseteq fs[e]
    BY <2>1, <2>2 DEF MadeInv
  <2>4. \A w \in Writers : saver'[w].phase = "idle"
    BY <2>1 DEF IdleSaver
  <2> QED BY <2>1, <2>3, <2>4 DEF MadeInv
<1>45. CASE UNCHANGED vars
  BY <1>45, <1>a
<1> QED
  BY <1>1, <1>2, <1>3, <1>4, <1>5, <1>6, <1>7, <1>8, <1>9, <1>10, <1>11, <1>12,
     <1>13, <1>14, <1>15, <1>16, <1>17, <1>18, <1>19, <1>20, <1>21, <1>22, <1>23,
     <1>24, <1>25, <1>26, <1>27, <1>28, <1>29, <1>30, <1>31, <1>32, <1>33, <1>34,
     <1>35, <1>36, <1>37, <1>38, <1>39, <1>40, <1>41, <1>42, <1>43, <1>44, <1>45
  DEF Next, Manager, Scanner, World

-----------------------------------------------------------------------------
(***************************************************************************)
(* What the flush of live changes keeps, for any devices, changes, other   *)
(* writers and scenarios, as long as no index.forget meets a flush of the  *)
(* same device under way (that it goes wrong otherwise is what v_flush     *)
(* shows).                                                                 *)
(*                                                                         *)
(* The argument: nobody else writes the device that the manager flushes    *)
(* (FlushInv, OthersApart), so that the tmp file it has opened holds, at   *)
(* the rename, the index that it cloned, and nobody has changed the index  *)
(* in memory since; Saved then relates the file of a device to its index   *)
(* in memory from round to round.  The lemmas ask of the other writers     *)
(* only that they keep apart, so that the second part can use them as well.*)
(***************************************************************************)

FlushInv ==
  /\ at = "saving" =>
       /\ flushing \in dirty
       /\ saver[Flusher].phase \in {"opened", "written"}
       /\ saver[Flusher].dev = flushing /\ saver[Flusher].file = "tmp"
       /\ saver[Flusher].data = indexes[flushing] /\ indexes[flushing] # Absent
       /\ snapshotTmp[flushing] =
            IF saver[Flusher].phase = "opened" THEN Torn ELSE indexes[flushing]
  /\ at # "saving" => saver[Flusher].phase = "idle"
  /\ at = "saved" => flushing \in dirty /\ snapshot[flushing] = indexes[flushing]
  /\ at \notin {"saving", "saved"} => flushing = Absent
  /\ due \subseteq dirty
  /\ at \in {"saving", "saved"} => flushing \notin due

\* Another writer is not at work on the device that is flushed.
OthersApart ==
  \A w \in Writers \ {Flusher} : saver[w].phase # "idle" => saver[w].dev # flushing

\* An index that is not dirty is on disk; one that is may be newer than its file.
Saved(d) ==
  /\ d \notin dirty => snapshot[d] = indexes[d]
  /\ snapshot[d] # Torn
  /\ indexes[d] = Absent <=> snapshot[d] = Absent
  /\ indexes[d] # Absent => snapshot[d].seen \subseteq indexes[d].seen

\* In LiveWatch alone, the manager is the only writer.
SavedInv ==
  /\ \A w \in Writers \ {Flusher} : saver[w].phase = "idle"
  /\ \A d \in Devices : Saved(d)

LEMMA FlushInit == Loaded => FlushInv /\ SavedInv
<1> SUFFICES ASSUME Loaded PROVE FlushInv /\ SavedInv
  OBVIOUS
<1>1. /\ indexes \in [Devices -> {Absent, [seen |-> {}]}] /\ snapshot = indexes
      /\ saver = [w \in Writers |-> IdleSaver]
      /\ at = "drain" /\ flushing = Absent /\ due = {} /\ dirty = {}
  BY DEF Loaded, StoreLoaded, ManagerInit
<1>2. \A w \in Writers : saver[w].phase = "idle"
  BY <1>1 DEF IdleSaver
<1>3. [seen |-> {}] \in Index
  BY DEF Index
<1>4. \A d \in Devices : snapshot[d] # Torn
  BY <1>1, <1>3, StoreAssumption
<1> QED BY <1>1, <1>2, <1>4, WatchAssumption DEF FlushInv, SavedInv, Saved

-----------------------------------------------------------------------------
(* What a step means for the store: most steps are made elsewhere, some    *)
(* apply a batch, and the others are few.                                  *)

\* The manager does not begin or end a save, nor does it run one.
NotSaving == {at, at'} \cap {"saving", "saved"} = {}

Elsewhere ==
  /\ UNCHANGED <<flushing, dirty, fs, noted, saver, snapshot, snapshotTmp, indexes>>
  /\ UNCHANGED <<at, due>> \/ (NotSaving /\ due' \subseteq due \cup dirty)

Applied(d) ==
  /\ ApplyPending(d)
  /\ UNCHANGED <<flushing, due, saver, snapshot, snapshotTmp, fs, noted>>
  /\ NotSaving

ManagerStep ==
  \/ Elsewhere
  \/ \E d \in Devices : Applied(d) \/ BeginFlush(d) \/ NothingToFlush(d)
  \/ WriteFlush \/ RenameFlush \/ FlushFails \/ FlushDone

StoreStep ==
  \/ ManagerStep \/ Restart
  \/ \E d \in Devices : FileChange(d) \/ Rescan(d) \/ Forget(d)

\* The steps of LiveWatch that change no file system and none of the store but
\* as the manager.
Watching ==
  \/ Manager \/ Scanner \/ LoseFrames \/ Hangup
  \/ \E d \in Devices : KeepsChanging(d)
  \/ \E D \in SUBSET Devices : SetMounted(D) \/ SetEnabled(D)
  \/ \E b \in BOOLEAN : SetWatchMounted(b)
  \/ UNCHANGED vars

LEMMA ManagerSteps == Watching => ManagerStep
<1> SUFFICES ASSUME Watching PROVE ManagerStep
  OBVIOUS
<1> USE DEF vars, managerVars, connVars, roundVars, optionVars, storeVars, diskVars,
          memoryVars
<1>a. ASSUME Elsewhere PROVE ManagerStep
  BY <1>a DEF ManagerStep
<1>1. CASE Connect
  BY <1>1, <1>a DEF Connect, Elsewhere, NotSaving
<1>2. CASE NoConnection
  BY <1>2, <1>a DEF NoConnection, Elsewhere, NotSaving
<1>3. CASE ReadFrame
  BY <1>3, <1>a DEF ReadFrame, Elsewhere, NotSaving
<1>4. CASE DrainTimesOut
  BY <1>4, <1>a DEF DrainTimesOut, Elsewhere, NotSaving
<1>5. CASE DrainFails
  BY <1>5, <1>a DEF DrainFails, DropConnection, MarkError, Elsewhere, NotSaving
<1>6. CASE SkipReconcile
  BY <1>6, <1>a DEF SkipReconcile, Elsewhere, NotSaving
<1>7. CASE Reconcile
  BY <1>7, <1>a DEF Reconcile, Elsewhere, NotSaving
<1>8. CASE StopsDone
  BY <1>8, <1>a DEF StopsDone, Elsewhere, NotSaving
<1>9. CASE StartsDone
  BY <1>9, <1>a DEF StartsDone, Elsewhere, NotSaving
<1>10. ASSUME NEW e \in Devices, KeepWatch(e) PROVE ManagerStep
  BY <1>10, <1>a DEF KeepWatch, Reported, Elsewhere, NotSaving
<1>11. ASSUME NEW e \in Devices, StartWatch(e) PROVE ManagerStep
  BY <1>11, <1>a DEF StartWatch, Ask, Elsewhere, NotSaving
<1>12. ASSUME NEW e \in Devices, StartWatchFails(e) PROVE ManagerStep
  BY <1>12, <1>a DEF StartWatchFails, MarkUnavailable, Elsewhere, NotSaving
<1>13. ASSUME NEW e \in Devices, ApplyFails(e) PROVE ManagerStep
  BY <1>13, <1>a DEF ApplyFails, RefusePending, Elsewhere, NotSaving
<1>14. CASE ReadWhileWaiting
  BY <1>14, <1>a DEF ReadWhileWaiting, HandleWhileWaiting, Elsewhere, NotSaving
<1>15. CASE StopAnswered
  BY <1>15, <1>a DEF StopAnswered, Answered, EndWait, Elsewhere, NotSaving
<1>16. CASE StartAnswered
  BY <1>16, <1>a DEF StartAnswered, Answered, EndWait, Started, Elsewhere, NotSaving
<1>17. CASE StartRefused
  BY <1>17, <1>a DEF StartRefused, MarkUnavailable, Answered, EndWait, Elsewhere, NotSaving
<1>18. CASE WaitFails
  BY <1>18, <1>a DEF WaitFails, MarkUnavailable, EndWait, Elsewhere, NotSaving
<1>19. CASE BackToRequest
  BY <1>19, <1>a DEF BackToRequest, AppliedAll, Elsewhere, NotSaving
<1>20. ASSUME NEW D \in SUBSET dirty, FlushRound(D) PROVE ManagerStep
  BY <1>20, <1>a DEF FlushRound, AppliedAll, Elsewhere, NotSaving
<1>21. CASE Sleep
  BY <1>21, <1>a DEF Sleep, Elsewhere, NotSaving
<1>22. CASE ScannerWatches
  BY <1>22, <1>a DEF ScannerWatches, Elsewhere, NotSaving
<1>23. CASE ScannerConfirms
  BY <1>23, <1>a DEF ScannerConfirms, Answer, Elsewhere, NotSaving
<1>24. CASE ScannerRefuses
  BY <1>24, <1>a DEF ScannerRefuses, Answer, Refuse, Elsewhere, NotSaving
<1>25. CASE ScannerStops
  BY <1>25, <1>a DEF ScannerStops, Answer, Elsewhere, NotSaving
<1>26. CASE LoseFrames
  BY <1>26, <1>a DEF LoseFrames, Elsewhere, NotSaving
<1>27. CASE Hangup
  BY <1>27, <1>a DEF Hangup, Elsewhere, NotSaving
<1>29. ASSUME NEW e \in Devices, KeepsChanging(e) PROVE ManagerStep
  BY <1>29, <1>a DEF KeepsChanging, Elsewhere, NotSaving
<1>30. ASSUME NEW D \in SUBSET Devices, SetMounted(D) PROVE ManagerStep
  BY <1>30, <1>a DEF SetMounted, Elsewhere, NotSaving
<1>31. ASSUME NEW D \in SUBSET Devices, SetEnabled(D) PROVE ManagerStep
  BY <1>31, <1>a DEF SetEnabled, Elsewhere, NotSaving
<1>32. ASSUME NEW b \in BOOLEAN, SetWatchMounted(b) PROVE ManagerStep
  BY <1>32, <1>a DEF SetWatchMounted, Elsewhere, NotSaving
<1>33. CASE UNCHANGED vars
  BY <1>33, <1>a DEF Elsewhere, NotSaving
<1>34. ASSUME NEW e \in Devices, StopWatch(e) PROVE ManagerStep
  <2>1. CASE ApplyOnStop(e)
    <3>1. Applied(e)
      BY <1>34, <2>1 DEF StopWatch, ApplyOnStop, Ask, Applied, NotSaving
    <3> QED BY <3>1 DEF ManagerStep
  <2>2. CASE RefusePending(e)
    BY <1>34, <2>2, <1>a DEF StopWatch, RefusePending, Ask, Elsewhere, NotSaving
  <2> QED BY <1>34, <2>1, <2>2 DEF StopWatch
<1>35. ASSUME NEW e \in Devices, StopWatchFails(e) PROVE ManagerStep
  <2>1. CASE ApplyOnStop(e)
    <3>1. Applied(e)
      BY <1>35, <2>1 DEF StopWatchFails, ApplyOnStop, Applied, NotSaving
    <3> QED BY <3>1 DEF ManagerStep
  <2>2. CASE RefusePending(e)
    BY <1>35, <2>2, <1>a DEF StopWatchFails, RefusePending, Elsewhere, NotSaving
  <2> QED BY <1>35, <2>1, <2>2 DEF StopWatchFails
<1>36. ASSUME NEW e \in Devices, ApplyBatch(e) PROVE ManagerStep
  <2>1. Applied(e)
    BY <1>36 DEF ApplyBatch, Applied, NotSaving
  <2> QED BY <2>1 DEF ManagerStep
<1> QED
  BY <1>1, <1>2, <1>3, <1>4, <1>5, <1>6, <1>7, <1>8, <1>9, <1>10, <1>11, <1>12,
     <1>13, <1>14, <1>15, <1>16, <1>17, <1>18, <1>19, <1>20, <1>21, <1>22,
     <1>23, <1>24, <1>25, <1>26, <1>27, <1>29, <1>30, <1>31, <1>32,
     <1>33, <1>34, <1>35, <1>36
  DEF Watching, Manager, Scanner, ManagerStep

LEMMA StoreSteps == [Next]_vars => StoreStep
BY ManagerSteps DEF Watching, Next, World, StoreStep

-----------------------------------------------------------------------------
(* The flush under way                                                     *)

LEMMA FlushKept ==
  ASSUME FlushInv,
         UNCHANGED <<at, flushing, due, dirty, saver, snapshot, snapshotTmp, indexes>>
  PROVE  FlushInv'
BY DEF FlushInv

LEMMA FlushStep ==
  ASSUME TypeOK, FlushInv, OthersApart, "forget" \notin Overlap, [Next]_vars
  PROVE  FlushInv'
<1>s. SetTypes
  BY SetTypesOK
<1> USE <1>s DEF vars, managerVars, connVars, roundVars, optionVars, storeVars, diskVars,
              memoryVars
<1>1. CASE Elsewhere
  BY <1>1 DEF Elsewhere, NotSaving, FlushInv
<1>2. ASSUME NEW d \in Devices, Applied(d) PROVE FlushInv'
  BY <1>2 DEF Applied, ApplyPending, NotSaving, FlushInv
<1>3. ASSUME NEW d \in Devices, BeginFlush(d) PROVE FlushInv'
  <2>1. /\ at' = "saving" /\ flushing' = d /\ due' = due \ {d} /\ dirty' = dirty /\ indexes' = indexes
        /\ d \in due /\ indexes[d] # Absent /\ saver[Flusher].phase = "idle"
        /\ saver' = [saver EXCEPT ![Flusher] =
             [phase |-> "opened", dev |-> d, data |-> indexes[d], file |-> "tmp"]]
        /\ snapshotTmp' = [snapshotTmp EXCEPT ![d] = Torn]
    BY <1>3 DEF BeginFlush, OpenTmp
  <2>2. saver'[Flusher] = [phase |-> "opened", dev |-> d, data |-> indexes[d], file |-> "tmp"]
    BY <2>1, WatchAssumption DEF TypeOK, StoreTypeOK
  <2>3. snapshotTmp'[d] = Torn
    BY <2>1 DEF TypeOK, StoreTypeOK
  <2> QED BY <2>1, <2>2, <2>3 DEF FlushInv
<1>4. ASSUME NEW d \in Devices, NothingToFlush(d) PROVE FlushInv'
  BY <1>4 DEF NothingToFlush, FlushInv
<1>5. CASE WriteFlush
  <2> DEFINE f == saver[Flusher]
  <2>1. /\ at = "saving" /\ f.phase = "opened" /\ f.dev = flushing /\ f.file = "tmp"
        /\ f.data = indexes[flushing] /\ snapshotTmp[flushing] = Torn /\ flushing \in Devices
        /\ flushing \in dirty /\ indexes[flushing] # Absent
    BY <1>5 DEF WriteFlush, WriteTmp, FlushInv, SetTypes
  <2>2. /\ saver' = [saver EXCEPT ![Flusher].phase = "written"]
        /\ \E c \in Written(Flusher, snapshotTmp[flushing], "tmp") :
             snapshotTmp' = [snapshotTmp EXCEPT ![flushing] = c]
        /\ snapshot' = snapshot
        /\ UNCHANGED <<at, flushing, due, dirty, indexes>>
    BY <1>5, <2>1 DEF WriteFlush, WriteTmp
  <2>3. Holders(flushing, "tmp") = {Flusher}
    BY <2>1, WatchAssumption DEF Holders, OthersApart
  <2>4. Written(Flusher, snapshotTmp[flushing], "tmp") = {indexes[flushing]}
    BY <2>1, <2>3 DEF Written
  <2>5. snapshotTmp'[flushing] = indexes[flushing]
    BY <2>1, <2>2, <2>4 DEF TypeOK, StoreTypeOK
  <2>6. /\ saver'[Flusher].phase = "written" /\ saver'[Flusher].dev = flushing
        /\ saver'[Flusher].file = "tmp" /\ saver'[Flusher].data = indexes[flushing]
    BY <2>1, <2>2, WatchAssumption DEF TypeOK, StoreTypeOK, Saver
  <2> QED BY <2>1, <2>2, <2>5, <2>6 DEF FlushInv
<1>6. CASE RenameFlush
  <2>1. /\ at = "saving" /\ saver[Flusher].phase = "written" /\ saver[Flusher].dev = flushing
        /\ snapshotTmp[flushing] = indexes[flushing] /\ flushing \in dirty /\ flushing \in Devices
    BY <1>6 DEF RenameFlush, RenameTmp, FlushInv, SetTypes
  <2>2. /\ at' = "saved" /\ UNCHANGED <<flushing, due, dirty, indexes>>
        /\ snapshot' = [snapshot EXCEPT ![flushing] = indexes[flushing]]
        /\ saver' = [Relinked(flushing, "snapshot") EXCEPT ![Flusher] = IdleSaver]
    BY <1>6, <2>1 DEF RenameFlush, RenameTmp
  <2>3. snapshot'[flushing] = indexes[flushing]
    BY <2>1, <2>2 DEF TypeOK, StoreTypeOK
  <2>4. saver'[Flusher].phase = "idle"
    BY <2>2, WatchAssumption DEF Relinked, IdleSaver
  <2> QED BY <2>1, <2>2, <2>3, <2>4 DEF FlushInv
<1>7. CASE FlushFails
  <2>1. /\ at' = "flush" /\ flushing' = Absent /\ UNCHANGED <<due, dirty>>
        /\ saver' = [saver EXCEPT ![Flusher] = IdleSaver]
    BY <1>7 DEF FlushFails, FlushError, RenameFails, SaveIoError
  <2>2. saver'[Flusher].phase = "idle"
    BY <2>1, WatchAssumption DEF IdleSaver, TypeOK, StoreTypeOK
  <2> QED BY <2>1, <2>2, WatchAssumption DEF FlushInv
<1>8. CASE FlushDone
  <2>1. /\ at = "saved" /\ at' = "flush" /\ flushing' = Absent /\ due' = due
        /\ dirty' = dirty \ {flushing} /\ saver' = saver
    BY <1>8 DEF FlushDone
  <2>2. flushing \notin due
    BY <2>1 DEF FlushInv
  <2> QED BY <2>1, <2>2 DEF FlushInv
<1>9. ASSUME NEW d \in Devices, FileChange(d) PROVE FlushInv'
  BY <1>9, FlushKept DEF FileChange, ChangeFile, Callback
<1>10. ASSUME NEW d \in Devices, Rescan(d) PROVE FlushInv'
  <2>1. /\ flushing # d
        /\ UNCHANGED <<at, flushing, due, dirty, saver>>
        /\ indexes' = [indexes EXCEPT ![d] = [seen |-> fs[d]]]
        /\ snapshot' = [snapshot EXCEPT ![d] = [seen |-> fs[d]]]
        /\ snapshotTmp' = [snapshotTmp EXCEPT ![d] = Absent]
    BY <1>10 DEF Rescan, FlushUnderWay
  <2>2. flushing \in Devices => /\ indexes'[flushing] = indexes[flushing]
                                /\ snapshot'[flushing] = snapshot[flushing]
                                /\ snapshotTmp'[flushing] = snapshotTmp[flushing]
    BY <2>1 DEF TypeOK, StoreTypeOK
  <2> QED BY <2>1, <2>2 DEF FlushInv, SetTypes
<1>11. ASSUME NEW d \in Devices, Forget(d) PROVE FlushInv'
  <2>1. /\ flushing # d
        /\ UNCHANGED <<at, flushing, due, dirty, snapshotTmp>>
        /\ indexes' = [indexes EXCEPT ![d] = Absent]
        /\ snapshot' = [snapshot EXCEPT ![d] = Absent]
        /\ saver' = Relinked(d, "tmp")
    BY <1>11 DEF Forget, ForgetWith, DeleteSnapshot, FlushUnderWay
  <2>2. flushing \in Devices => /\ indexes'[flushing] = indexes[flushing]
                                /\ snapshot'[flushing] = snapshot[flushing]
    BY <2>1 DEF TypeOK, StoreTypeOK
  <2>3. saver'[Flusher] = saver[Flusher]
    BY <2>1, WatchAssumption DEF Relinked, FlushInv
  <2> QED BY <2>1, <2>2, <2>3, WatchAssumption DEF FlushInv, SetTypes
<1>12. CASE Restart
  <2>1. /\ at' = "drain" /\ flushing' = Absent /\ due' = {} /\ dirty' = {}
        /\ saver' = [w \in Writers |-> IdleSaver]
    BY <1>12 DEF Restart
  <2> QED BY <2>1, WatchAssumption DEF FlushInv, IdleSaver
<1> QED
  BY <1>1, <1>2, <1>3, <1>4, <1>5, <1>6, <1>7, <1>8, <1>9, <1>10, <1>11, <1>12,
     StoreSteps
  DEF StoreStep, ManagerStep

-----------------------------------------------------------------------------
(* The files and the indexes in memory, device by device                   *)

LEMMA ApplySaved ==
  ASSUME TypeOK, NEW e \in Devices, Saved(e), NEW d \in Devices, ApplyPending(d),
         snapshot' = snapshot
  PROVE  Saved(e)'
<1>1. CASE Applies(d)
  <2>1. /\ indexes' = [indexes EXCEPT ![d].seen = indexes[d].seen \cup pending[d]]
        /\ indexes[d] \in Index /\ indexes[d] # Absent /\ dirty' = dirty \cup {d}
    BY <1>1 DEF ApplyPending, Applies, TypeOK, StoreTypeOK
  <2>2. indexes'[d] = [indexes[d] EXCEPT !.seen = indexes[d].seen \cup pending[d]]
    BY <2>1 DEF TypeOK, StoreTypeOK
  <2>3. /\ indexes'[d].seen = indexes[d].seen \cup pending[d]
        /\ indexes'[d] # Absent
    <3>1. pending[d] \subseteq Changes
      BY DEF TypeOK
    <3>2. indexes'[d] = [seen |-> indexes[d].seen \cup pending[d]]
      BY <2>1, <2>2 DEF Index
    <3>3. indexes'[d] \in Index
      BY <2>1, <3>1, <3>2 DEF Index
    <3> QED BY <3>2, <3>3, StoreAssumption
  <2>4. CASE e = d
    BY <2>1, <2>3, <2>4 DEF Saved
  <2>5. CASE e # d
    <3>1. indexes'[e] = indexes[e]
      BY <2>1, <2>5 DEF TypeOK, StoreTypeOK
    <3> QED BY <2>1, <2>5, <3>1 DEF Saved
  <2> QED BY <2>4, <2>5
<1>2. CASE ~Applies(d)
  BY <1>2 DEF ApplyPending, Saved
<1> QED BY <1>1, <1>2

LEMMA SavedStep ==
  ASSUME TypeOK, FlushInv, "forget" \notin Overlap, [Next]_vars, NEW d \in Devices, Saved(d)
  PROVE  Saved(d)'
<1>s. SetTypes
  BY SetTypesOK
<1> USE <1>s DEF vars, managerVars, connVars, roundVars, optionVars, storeVars, diskVars,
          memoryVars
<1>0. ASSUME UNCHANGED <<dirty, snapshot, indexes>> PROVE Saved(d)'
  BY <1>0 DEF Saved
<1>1. CASE Elsewhere
  BY <1>0, <1>1 DEF Elsewhere
<1>2. ASSUME NEW e \in Devices, Applied(e) PROVE Saved(d)'
  BY <1>2, ApplySaved DEF Applied
<1>3. ASSUME NEW e \in Devices, BeginFlush(e) PROVE Saved(d)'
  BY <1>0, <1>3 DEF BeginFlush, OpenTmp
<1>4. ASSUME NEW e \in Devices, NothingToFlush(e) PROVE Saved(d)'
  <2>1. indexes[e] = Absent /\ dirty' = dirty \ {e} /\ UNCHANGED <<indexes, snapshot>>
    BY <1>4 DEF NothingToFlush
  <2> QED BY <2>1 DEF Saved
<1>5. CASE WriteFlush
  <2>1. UNCHANGED <<dirty, snapshot, indexes>>
    BY <1>5 DEF WriteFlush, WriteTmp, FlushInv
  <2> QED BY <2>1, <1>0
<1>6. CASE RenameFlush
  <2>1. /\ flushing \in Devices /\ flushing \in dirty /\ indexes[flushing] # Absent
        /\ snapshot' = [snapshot EXCEPT ![flushing] = indexes[flushing]]
        /\ UNCHANGED <<dirty, indexes>>
    BY <1>6 DEF RenameFlush, RenameTmp, FlushInv, SetTypes
  <2>2. indexes[flushing] \in Index
    BY <2>1 DEF TypeOK, StoreTypeOK
  <2>3. \A e \in Devices : snapshot'[e] = IF e = flushing THEN indexes[flushing] ELSE snapshot[e]
    BY <2>1 DEF TypeOK, StoreTypeOK
  <2> QED BY <2>1, <2>2, <2>3, StoreAssumption DEF Saved
<1>7. CASE FlushFails
  BY <1>7, <1>0 DEF FlushFails, FlushError, RenameFails, SaveIoError
<1>8. CASE FlushDone
  <2>1. /\ snapshot[flushing] = indexes[flushing]
        /\ dirty' = dirty \ {flushing} /\ UNCHANGED <<snapshot, indexes>>
    BY <1>8 DEF FlushDone, FlushInv
  <2> QED BY <2>1 DEF Saved
<1>9. ASSUME NEW e \in Devices, FileChange(e) PROVE Saved(d)'
  BY <1>0, <1>9 DEF FileChange
<1>10. ASSUME NEW e \in Devices, Rescan(e) PROVE Saved(d)'
  <2>1. /\ dirty' = dirty
        /\ indexes' = [indexes EXCEPT ![e] = [seen |-> fs[e]]]
        /\ snapshot' = [snapshot EXCEPT ![e] = [seen |-> fs[e]]]
    BY <1>10 DEF Rescan
  <2>2. [seen |-> fs[e]] \in Index
    BY DEF Index, TypeOK, StoreTypeOK
  <2>3. \A c \in Devices : /\ indexes'[c] = IF c = e THEN [seen |-> fs[e]] ELSE indexes[c]
                           /\ snapshot'[c] = IF c = e THEN [seen |-> fs[e]] ELSE snapshot[c]
    BY <2>1 DEF TypeOK, StoreTypeOK
  <2> QED BY <2>1, <2>2, <2>3, StoreAssumption DEF Saved
<1>11. ASSUME NEW e \in Devices, Forget(e) PROVE Saved(d)'
  <2>1. /\ dirty' = dirty
        /\ indexes' = [indexes EXCEPT ![e] = Absent]
        /\ snapshot' = [snapshot EXCEPT ![e] = Absent]
    BY <1>11 DEF Forget, ForgetWith, DeleteSnapshot
  <2>2. \A c \in Devices : /\ indexes'[c] = IF c = e THEN Absent ELSE indexes[c]
                           /\ snapshot'[c] = IF c = e THEN Absent ELSE snapshot[c]
    BY <2>1 DEF TypeOK, StoreTypeOK
  <2> QED BY <2>1, <2>2, StoreAssumption DEF Saved
<1>12. CASE Restart
  <2>1. snapshot' = snapshot /\ dirty' = {} /\ indexes' = LoadedIndexes
    BY <1>12 DEF Restart
  <2>2. indexes'[d] = snapshot[d]
    BY <2>1 DEF LoadedIndexes, Saved
  <2> QED BY <2>1, <2>2 DEF Saved
<1> QED
  BY <1>1, <1>2, <1>3, <1>4, <1>5, <1>6, <1>7, <1>8, <1>9, <1>10, <1>11, <1>12,
     StoreSteps
  DEF StoreStep, ManagerStep

\* Without jobs, the manager is the only writer.
LEMMA SavedInvStep ==
  ASSUME TypeOK, FlushInv, "forget" \notin Overlap, SavedInv, [Next]_vars
  PROVE  SavedInv'
<1>1. \A d \in Devices : Saved(d)'
  BY SavedStep DEF SavedInv
<1>2. ASSUME NEW w \in Writers \ {Flusher} PROVE saver'[w].phase = "idle"
  <2> USE DEF SavedInv, TypeOK, StoreTypeOK, storeVars, diskVars, memoryVars
  <2>1. saver[w].phase = "idle" /\ w \in Writers /\ w # Flusher
    OBVIOUS
  <2>2. ASSUME saver'[w] = saver[w] PROVE saver'[w].phase = "idle"
    BY <2>1, <2>2
  <2>3. CASE Elsewhere
    BY <2>2, <2>3 DEF Elsewhere
  <2>4. ASSUME NEW d \in Devices,
               Applied(d) \/ NothingToFlush(d) \/ FileChange(d) \/ Rescan(d) \/ FlushDone
        PROVE  saver'[w].phase = "idle"
    BY <2>2, <2>4 DEF Applied, NothingToFlush, FileChange, Rescan, FlushDone
  <2>5. ASSUME NEW d \in Devices, BeginFlush(d) PROVE saver'[w].phase = "idle"
    BY <2>1, <2>2, <2>5 DEF BeginFlush, OpenTmp
  <2>6. CASE WriteFlush
    BY <2>1, <2>2, <2>6 DEF WriteFlush, WriteTmp
  <2>7. CASE RenameFlush
    BY <2>1, <2>7 DEF RenameFlush, RenameTmp, Relinked
  <2>8. CASE FlushFails
    BY <2>1, <2>2, <2>8 DEF FlushFails, FlushError, RenameFails, SaveIoError
  <2>9. ASSUME NEW d \in Devices, Forget(d) PROVE saver'[w].phase = "idle"
    BY <2>1, <2>9 DEF Forget, ForgetWith, DeleteSnapshot, Relinked
  <2>10. CASE Restart
    BY <2>10 DEF Restart, IdleSaver
  <2>11. CASE FlushDone
    BY <2>2, <2>11 DEF FlushDone
  <2> QED BY <2>3, <2>4, <2>5, <2>6, <2>7, <2>8, <2>9, <2>10, <2>11, StoreSteps DEF StoreStep, ManagerStep
<1> QED BY <1>1, <1>2 DEF SavedInv

-----------------------------------------------------------------------------
(* The properties                                                          *)

FlushAll == WatchTypes /\ MadeInv /\ FlushInv /\ SavedInv

LEMMA FlushAllHolds == ASSUME "forget" \notin Overlap PROVE Spec => []FlushAll
<1>1. Init => FlushAll
  BY InitLoaded, WatchTypeInit, MadeInit, FlushInit DEF FlushAll
<1>2. FlushAll /\ [Next]_vars => FlushAll'
  <2> SUFFICES ASSUME FlushAll, [Next]_vars PROVE FlushAll'
    OBVIOUS
  <2>1. WatchTypes /\ TypeOK /\ MadeInv /\ FlushInv /\ SavedInv
    BY DEF FlushAll, WatchTypes
  <2>2. OthersApart
    BY <2>1 DEF SavedInv, OthersApart
  <2> QED BY <2>1, <2>2, WatchTypesStep, MadeStep, FlushStep, SavedInvStep DEF FlushAll
<1> QED BY <1>1, <1>2, PTL DEF Spec

\* However devices are watched, scanned, forgotten and flushed, an index that is
\* neither dirty nor being flushed is on disk as it is served.
THEOREM CleanHolds == ASSUME "forget" \notin Overlap PROVE Spec => []CleanIsSaved
<1>1. FlushAll => CleanIsSaved
  BY DEF FlushAll, SavedInv, Saved, CleanIsSaved
<1> QED BY <1>1, FlushAllHolds, PTL

\* What a step does to the snapshot of a device: nothing, a flush, a scan or a
\* forget.
SnapshotStep(d) ==
  \/ snapshot'[d] = snapshot[d]
  \/ snapshot'[d] = indexes[d]
  \/ snapshot'[d] = [seen |-> fs[d]] /\ Rescan(d)
  \/ snapshot'[d] = Absent

LEMMA SnapshotSteps ==
  ASSUME TypeOK, FlushInv, [Next]_vars, NEW d \in Devices
  PROVE  SnapshotStep(d)
<1> USE DEF SnapshotStep, TypeOK, StoreTypeOK, storeVars, diskVars, memoryVars
<1>1. CASE Elsewhere \/ FlushFails \/ FlushDone \/ Restart
  BY <1>1 DEF Elsewhere, FlushFails, FlushError, RenameFails, SaveIoError, FlushDone, Restart
<1>2. ASSUME NEW e \in Devices, Applied(e) \/ BeginFlush(e) \/ NothingToFlush(e) \/ FileChange(e)
      PROVE  SnapshotStep(d)
  BY <1>2 DEF Applied, BeginFlush, OpenTmp, NothingToFlush, FileChange
<1>3. CASE WriteFlush
  BY <1>3 DEF WriteFlush, WriteTmp, FlushInv
<1>4. CASE RenameFlush
  <2>1. snapshot' = [snapshot EXCEPT ![flushing] = indexes[flushing]]
    BY <1>4 DEF RenameFlush, RenameTmp, FlushInv
  <2> QED BY <2>1
<1>5. ASSUME NEW e \in Devices, Rescan(e) PROVE SnapshotStep(d)
  <2>1. snapshot' = [snapshot EXCEPT ![e] = [seen |-> fs[e]]]
    BY <1>5 DEF Rescan
  <2> QED BY <1>5, <2>1
<1>6. ASSUME NEW e \in Devices, Forget(e) PROVE SnapshotStep(d)
  <2>1. snapshot' = [snapshot EXCEPT ![e] = Absent]
    BY <1>6 DEF Forget, ForgetWith, DeleteSnapshot
  <2> QED BY <2>1
<1> QED BY <1>1, <1>2, <1>3, <1>4, <1>5, <1>6, StoreSteps DEF StoreStep, ManagerStep

\* A flush or a scan replaces a snapshot by one at least as new, so that the daemon
\* never starts again behind an earlier start.
THEOREM NeverOlder == ASSUME "forget" \notin Overlap PROVE Spec => SnapshotNeverOlder
<1> DEFINE Newer == \A d \in Devices : snapshot[d] \in Index /\ snapshot'[d] \in Index =>
                      snapshot[d].seen \subseteq snapshot'[d].seen
<1>1. FlushAll /\ [Next]_vars => Newer
  <2> SUFFICES ASSUME FlushAll, [Next]_vars, NEW d \in Devices,
                      snapshot[d] \in Index, snapshot'[d] \in Index
               PROVE  snapshot[d].seen \subseteq snapshot'[d].seen
    OBVIOUS
  <2>1. TypeOK /\ MadeInv /\ FlushInv /\ SavedInv
    BY DEF FlushAll, WatchTypes
  <2>2. snapshot[d].seen \subseteq fs[d]
    BY <2>1 DEF MadeInv
  <2>3. snapshot[d] # Absent /\ snapshot'[d] # Absent
    BY StoreAssumption
  <2>4. indexes[d] # Absent /\ snapshot[d].seen \subseteq indexes[d].seen
    BY <2>1, <2>3 DEF SavedInv, Saved
  <2>5. SnapshotStep(d)
    BY <2>1, SnapshotSteps
  <2>6. \/ snapshot'[d] = snapshot[d] \/ snapshot'[d] = indexes[d]
        \/ snapshot'[d] = [seen |-> fs[d]]
    BY <2>3, <2>5 DEF SnapshotStep
  <2> QED BY <2>2, <2>4, <2>6
<1>2. FlushAll /\ [Next]_vars => [Newer]_vars
  BY <1>1
<1> QED BY <1>2, FlushAllHolds, PTL DEF Spec, SnapshotNeverOlder

\* A snapshot that was forgotten comes back only with a scan, never from a flush.
THEOREM NothingRevived == ASSUME "forget" \notin Overlap PROVE Spec => FlushRevivesNothing
<1> DEFINE Revival == \A d \in Devices : snapshot[d] = Absent /\ snapshot'[d] # Absent => Rescan(d)
<1>1. FlushAll /\ [Next]_vars => Revival
  <2> SUFFICES ASSUME FlushAll, [Next]_vars, NEW d \in Devices,
                      snapshot[d] = Absent, snapshot'[d] # Absent
               PROVE  Rescan(d)
    OBVIOUS
  <2>1. TypeOK /\ FlushInv /\ indexes[d] = Absent
    BY DEF FlushAll, WatchTypes, SavedInv, Saved
  <2>2. SnapshotStep(d)
    BY <2>1, SnapshotSteps
  <2> QED BY <2>1, <2>2 DEF SnapshotStep
<1>2. FlushAll /\ [Next]_vars => [Revival]_vars
  BY <1>1
<1> QED BY <1>2, FlushAllHolds, PTL DEF Spec, FlushRevivesNothing

-----------------------------------------------------------------------------
(***************************************************************************)
(* What the manager makes of the stream of a watcher, for any devices,     *)
(* changes and scenarios.                                                  *)
(*                                                                         *)
(* 1. No change that a watcher has seen is lost in silence, as long as the *)
(* kernel drops no events and no time-out falls inside a frame: a change   *)
(* that was noted moves from the stream to the pending batch and from      *)
(* there to the index (Kept); where it leaves this path - a stream that    *)
(* breaks, a batch whose rules do not compile - the index is marked as     *)
(* stale, and only a scan takes the mark away, after which the index holds *)
(* all that has happened (MadeInv).                                        *)
(*                                                                         *)
(* 2. What is reported as watched is watched: at most one answer is in the *)
(* stream, it is the one to the manager's request, and it says "ok" to a   *)
(* start only if the watcher runs (AnswerInv).                             *)
(***************************************************************************)

\* L[d]: changes of d that need not be kept
Kept(d, L) ==
  \/ indexes[d] = Absent \/ Stale(d) \/ ErrorComes(d)
  \/ noted[d] \ L[d] \subseteq indexes[d].seen \cup pending[d] \cup InStream(d)

\* Nothing is on its way without a connection: a new one begins with an empty
\* stream.
LinkInv == link = "none" => frames = <<>> /\ watching = {}

Undisturbed == events \cap {"overflow", "skew", "denied"} = {}
KeptInv(L)  == Undisturbed => ~skewed /\ LinkInv /\ \A d \in Devices : Kept(d, L)

\* The manager by itself lets no change go.
NoneLate == [d \in Devices |-> {}]

-----------------------------------------------------------------------------
(* The stream                                                              *)

\* Appending frames takes nothing out of the stream.
LEMMA StreamConcat ==
  ASSUME TypeOK, NEW s \in Seq(Frame), frames' = frames \o s, NEW d \in Devices
  PROVE  InStream(d) \subseteq InStream(d)' /\ (ErrorComes(d) => ErrorComes(d)')
<1>1. frames \in Seq(Frame)
  BY DEF TypeOK
<1>2. \A i \in DOMAIN frames : i \in DOMAIN frames' /\ frames'[i] = frames[i]
  BY <1>1
<1>3. ErrorComes(d) => ErrorComes(d)'
  BY <1>2 DEF ErrorComes, FrameOf
<1>4. ASSUME NEW c \in InStream(d) PROVE c \in InStream(d)'
  BY <1>2 DEF InStream
<1> QED BY <1>3, <1>4

LEMMA StreamAppend ==
  ASSUME TypeOK, NEW f \in Frame, frames' = Append(frames, f), NEW d \in Devices
  PROVE  /\ InStream(d) \subseteq InStream(d)' /\ (ErrorComes(d) => ErrorComes(d)')
         /\ f.kind = "event" /\ f.dev = d => f.change \in InStream(d)'
         /\ f = FrameOf("error", d) => ErrorComes(d)'
<1>1. frames \in Seq(Frame)
  BY DEF TypeOK
<1>2. /\ \A i \in DOMAIN frames : i \in DOMAIN frames' /\ frames'[i] = frames[i]
      /\ Len(frames) + 1 \in DOMAIN frames' /\ frames'[Len(frames) + 1] = f
  BY <1>1
<1>3. /\ ErrorComes(d) => ErrorComes(d)'
      /\ f = FrameOf("error", d) => ErrorComes(d)'
  BY <1>2 DEF ErrorComes, FrameOf
<1>4. ASSUME NEW c \in InStream(d) PROVE c \in InStream(d)'
  BY <1>2 DEF InStream
<1>5. f.kind = "event" /\ f.dev = d => f.change \in InStream(d)'
  BY <1>2 DEF InStream
<1> QED BY <1>3, <1>4, <1>5

\* Reading takes out the first frame and nothing else.
LEMMA StreamTail ==
  ASSUME TypeOK, frames # <<>>, frames' = Tail(frames), NEW d \in Devices
  PROVE  /\ \A c \in InStream(d) : \/ c \in InStream(d)'
                                   \/ /\ Head(frames).kind = "event" /\ Head(frames).dev = d
                                      /\ c = Head(frames).change
         /\ ErrorComes(d) => ErrorComes(d)' \/ Head(frames) = FrameOf("error", d)
<1>1. frames \in Seq(Frame)
  BY DEF TypeOK
<1>2. \A i \in DOMAIN frames : \/ frames[i] = Head(frames)
                               \/ i - 1 \in DOMAIN frames' /\ frames'[i - 1] = frames[i]
  <2> SUFFICES ASSUME NEW i \in 1 .. Len(frames), i # 1
               PROVE  i - 1 \in DOMAIN frames' /\ frames'[i - 1] = frames[i]
    BY <1>1
  <2>1. i - 1 \in 1 .. Len(frames')
    BY <1>1
  <2>2. frames'[i - 1] = frames[(i - 1) + 1]
    BY <1>1, <2>1
  <2>3. frames' \in Seq(Frame)
    BY <1>1
  <2> QED BY <2>1, <2>2, <2>3
<1>3. ErrorComes(d) => ErrorComes(d)' \/ Head(frames) = FrameOf("error", d)
  BY <1>2 DEF ErrorComes, FrameOf
<1>4. ASSUME NEW c \in InStream(d)
      PROVE  \/ c \in InStream(d)'
             \/ /\ Head(frames).kind = "event" /\ Head(frames).dev = d
                /\ c = Head(frames).change
  <2>1. PICK i \in DOMAIN frames : frames[i].kind = "event" /\ frames[i].dev = d /\ frames[i].change = c
    BY <1>4 DEF InStream
  <2>2. CASE frames[i] = Head(frames)
    BY <2>1, <2>2
  <2>3. CASE i - 1 \in DOMAIN frames' /\ frames'[i - 1] = frames[i]
    BY <2>1, <2>3 DEF InStream
  <2> QED BY <1>2, <2>2, <2>3
<1> QED BY <1>3, <1>4

-----------------------------------------------------------------------------
(* Steps that keep                                                         *)

\* Nothing is noted anew, and what is pending, indexed or in the stream stays.
LEMMA KeptStays ==
  ASSUME NEW L, NEW d \in Devices, Kept(d, L), noted'[d] = noted[d],
         Stale(d) => Stale(d)',
         pending[d] \subseteq pending'[d], InStream(d) \subseteq InStream(d)',
         ErrorComes(d) => ErrorComes(d)', indexes'[d] = indexes[d]
  PROVE  Kept(d, L)'
<1>1. CASE indexes[d] = Absent \/ Stale(d) \/ ErrorComes(d)
  BY <1>1 DEF Kept
<1>2. CASE noted[d] \ L[d] \subseteq indexes[d].seen \cup pending[d] \cup InStream(d)
  <2>1. noted'[d] \ L[d] \subseteq indexes'[d].seen \cup pending'[d] \cup InStream(d)'
    BY <1>2
  <2> QED BY <2>1 DEF Kept
<1> QED BY <1>1, <1>2 DEF Kept

LEMMA SameStream ==
  ASSUME frames' = frames, NEW d
  PROVE  InStream(d)' = InStream(d) /\ ErrorComes(d)' = ErrorComes(d)
BY DEF InStream, ErrorComes, FrameOf

LEMMA SameHealth ==
  ASSUME NEW d, indexStates'[d] = indexStates[d]
  PROVE  Stale(d)' = Stale(d)
BY DEF Stale, Health

\* A step that leaves the changes alone.
LEMMA KeptAlone ==
  ASSUME NEW L, \A d \in Devices : Kept(d, L),
         UNCHANGED <<noted, pending, indexes, frames, indexStates>>
  PROVE  \A d \in Devices : Kept(d, L)'
<1> SUFFICES ASSUME NEW d \in Devices PROVE Kept(d, L)'
  OBVIOUS
<1>1. Kept(d, L)
  OBVIOUS
<1> QED BY <1>1, KeptStays, SameStream, SameHealth

\* mark_watch_error: the devices of D become stale, the others stay as they are.
LEMMA MarkDesyncStale ==
  ASSUME NEW D, MarkDesync(D), NEW d \in Devices
  PROVE  IF d \in D THEN Stale(d)' ELSE Stale(d)' = Stale(d)
<1>1. CASE d \in D
  <2>1. indexStates'[d] = [stale |-> "watch_desync", live |-> "error"]
    BY <1>1 DEF MarkDesync
  <2>2. indexStates'[d] # Absent
    BY <2>1, SidecarAssumption DEF Sidecar, StaleReasons, LiveStates
  <2> QED BY <1>1, <2>1, <2>2 DEF Stale, Health
<1>2. CASE d \notin D
  BY <1>2, SameHealth DEF MarkDesync
<1> QED BY <1>1, <1>2

LEMMA MarkErrorStale ==
  ASSUME NEW D, MarkError(D), NEW d \in Devices
  PROVE  IF d \in D THEN Stale(d)' ELSE Stale(d)' = Stale(d)
BY MarkDesyncStale DEF MarkError

\* What else the manager writes into a sidecar leaves the stale reason alone.
LEMMA LiveKeepsStale ==
  ASSUME TypeOK, NEW e \in Devices, NEW x \in LiveStates, NEW d \in Devices,
         indexStates' = [indexStates EXCEPT ![e] = [Health(e) EXCEPT !.live = x]]
  PROVE  Stale(d) => Stale(d)'
<1>1. CASE d = e
  <2>1. Health(d) \in Sidecar
    BY HealthType
  <2>2. indexStates'[d] = [stale |-> Health(d).stale, live |-> x]
    BY <1>1, <2>1 DEF TypeOK, StoreTypeOK, Sidecar
  <2>3. indexStates'[d] # Absent
    BY <2>1, <2>2, SidecarAssumption DEF Sidecar
  <2> QED BY <2>2, <2>3 DEF Stale, Health
<1>2. CASE d # e
  BY <1>2, SameHealth DEF TypeOK, StoreTypeOK
<1> QED BY <1>1, <1>2

\* Only a denied permission is taken off the record by it.
LEMMA UnavailableKeepsStale ==
  ASSUME TypeOK, Undisturbed, NEW e \in Devices, MarkUnavailable(e), NEW d \in Devices
  PROVE  Stale(d) => Stale(d)'
<1>1. indexStates' = [indexStates EXCEPT ![e] = [stale |-> Health(e).stale, live |-> "unavailable"]]
  BY DEF MarkUnavailable, MayBeDenied, Undisturbed
<1>2. [Health(e) EXCEPT !.live = "unavailable"] = [stale |-> Health(e).stale, live |-> "unavailable"]
  BY HealthType DEF Sidecar
<1>3. "unavailable" \in LiveStates
  BY DEF LiveStates
<1> QED BY <1>1, <1>2, <1>3, LiveKeepsStale

\* A batch that is refused leaves a stale index, and no other one.
LEMMA RefuseKept ==
  ASSUME TypeOK, NEW L, \A d \in Devices : Kept(d, L), NEW e \in Devices, RefusePending(e),
         UNCHANGED <<noted, frames>>
  PROVE  \A d \in Devices : Kept(d, L)'
<1>1. /\ UNCHANGED indexes /\ MarkDesync({e})
      /\ pending' = [pending EXCEPT ![e] = {}]
  BY DEF RefusePending
<1>2. Stale(e)'
  BY <1>1, MarkDesyncStale
<1>3. ASSUME NEW d \in Devices, d # e PROVE Kept(d, L)'
  <2>1. pending'[d] = pending[d]
    BY <1>1, <1>3 DEF TypeOK
  <2>2. Stale(d)' = Stale(d)
    BY <1>1, <1>3, MarkDesyncStale
  <2> QED BY <1>1, <2>1, <2>2, KeptStays, SameStream
<1> QED BY <1>2, <1>3 DEF Kept

LEMMA KeptSame ==
  ASSUME NEW L, \A d \in Devices : Kept(d, L), UNCHANGED <<noted, pending, indexes, frames>>,
         \A d \in Devices : Stale(d) => Stale(d)'
  PROVE  \A d \in Devices : Kept(d, L)'
<1> SUFFICES ASSUME NEW d \in Devices PROVE Kept(d, L)'
  OBVIOUS
<1>1. Kept(d, L) /\ (Stale(d) => Stale(d)')
  OBVIOUS
<1> QED BY <1>1, KeptStays, SameStream

\* The stream grows.
LEMMA KeptMore ==
  ASSUME NEW L, \A d \in Devices : Kept(d, L), UNCHANGED <<noted, pending, indexes, indexStates>>,
         \A d \in Devices : InStream(d) \subseteq InStream(d)' /\ (ErrorComes(d) => ErrorComes(d)')
  PROVE  \A d \in Devices : Kept(d, L)'
<1> SUFFICES ASSUME NEW d \in Devices PROVE Kept(d, L)'
  OBVIOUS
<1>1. /\ Kept(d, L)
      /\ InStream(d) \subseteq InStream(d)' /\ (ErrorComes(d) => ErrorComes(d)')
  OBVIOUS
<1> QED BY <1>1, KeptStays, SameHealth

\* handle_scanner_watch_frame moves a change on, or marks its index.
LEMMA HandleKept ==
  ASSUME WatchTypes, NEW L, \A d \in Devices : Kept(d, L),
         frames # <<>>, HandleFrame(Head(frames)), frames' = Tail(frames),
         UNCHANGED <<noted, indexes>>
  PROVE  \A d \in Devices : Kept(d, L)'
<1> DEFINE f == Head(frames)
<1>0. TypeOK
  BY DEF WatchTypes
<1>1. f.dev \in Devices
  BY HeadOfFrames DEF Frame
<1> SUFFICES ASSUME NEW d \in Devices PROVE Kept(d, L)'
  OBVIOUS
<1>2. /\ Kept(d, L)
      /\ \A c \in InStream(d) : \/ c \in InStream(d)'
                                \/ f.kind = "event" /\ f.dev = d /\ c = f.change
      /\ ErrorComes(d) => ErrorComes(d)' \/ f = FrameOf("error", d)
  BY <1>0, StreamTail
<1>3. CASE f.kind = "event"
  <2>1. /\ pending' = [pending EXCEPT ![f.dev] = pending[f.dev] \cup {f.change}]
        /\ indexStates' = indexStates
    BY <1>3 DEF HandleFrame
  <2>2. /\ pending[d] \subseteq pending'[d]
        /\ f.dev = d => f.change \in pending'[d]
    BY <1>0, <1>1, <2>1 DEF TypeOK
  <2>3. ErrorComes(d) => ErrorComes(d)'
    BY <1>2, <1>3 DEF FrameOf
  <2>4. CASE indexes[d] = Absent \/ Stale(d) \/ ErrorComes(d)
    BY <2>1, <2>3, <2>4, SameHealth DEF Kept
  <2>5. CASE noted[d] \ L[d] \subseteq indexes[d].seen \cup pending[d] \cup InStream(d)
    <3>1. noted'[d] \ L[d] \subseteq indexes'[d].seen \cup pending'[d] \cup InStream(d)'
      BY <1>2, <2>2, <2>5
    <3> QED BY <3>1 DEF Kept
  <2> QED BY <1>2, <2>4, <2>5 DEF Kept
<1>4. CASE f.kind # "event"
  <2>1. InStream(d) \subseteq InStream(d)' /\ pending' = pending
    BY <1>2, <1>4 DEF HandleFrame
  <2>2. CASE f.kind = "error" /\ f.dev = d
    <3>1. Stale(d)'
      BY <2>2, MarkErrorStale DEF HandleFrame
    <3> QED BY <3>1 DEF Kept
  <2>3. CASE ~(f.kind = "error" /\ f.dev = d)
    <3>1. Stale(d)' = Stale(d)
      BY <1>4, <2>3, MarkErrorStale, SameHealth DEF HandleFrame
    <3>2. ErrorComes(d) => ErrorComes(d)'
      BY <1>2, <2>3 DEF FrameOf
    <3> QED BY <1>2, <2>1, <3>1, <3>2, KeptStays
  <2> QED BY <2>2, <2>3
<1> QED BY <1>3, <1>4

\* A batch moves into the index; without an index there is nothing to keep.
LEMMA ApplyKept ==
  ASSUME TypeOK, NEW L, \A d \in Devices : Kept(d, L), NEW e \in Devices, ApplyPending(e),
         UNCHANGED <<noted, frames, indexStates>>
  PROVE  \A d \in Devices : Kept(d, L)'
<1> SUFFICES ASSUME NEW d \in Devices PROVE Kept(d, L)'
  OBVIOUS
<1>1. /\ Kept(d, L) /\ InStream(d)' = InStream(d) /\ ErrorComes(d)' = ErrorComes(d)
      /\ Stale(d)' = Stale(d)
  BY SameStream, SameHealth
<1>2. CASE d = e /\ Applies(e)
  <2>1. /\ indexes[d] \in Index
        /\ indexes' = [indexes EXCEPT ![d].seen = indexes[d].seen \cup pending[d]]
    BY <1>2 DEF ApplyPending, Applies, TypeOK, StoreTypeOK
  <2>2. indexes'[d].seen = indexes[d].seen \cup pending[d]
    <3>1. indexes'[d] = [indexes[d] EXCEPT !.seen = indexes[d].seen \cup pending[d]]
      BY <2>1 DEF TypeOK, StoreTypeOK
    <3> QED BY <2>1, <3>1 DEF Index
  <2>3. indexes[d] # Absent
    BY <1>2 DEF Applies
  <2>4. CASE Stale(d) \/ ErrorComes(d)
    BY <1>1, <2>4 DEF Kept
  <2>5. CASE noted[d] \ L[d] \subseteq indexes[d].seen \cup pending[d] \cup InStream(d)
    <3>1. noted'[d] \ L[d] \subseteq indexes'[d].seen \cup pending'[d] \cup InStream(d)'
      BY <1>1, <2>2, <2>5
    <3> QED BY <3>1 DEF Kept
  <2> QED BY <1>1, <2>3, <2>4, <2>5 DEF Kept
<1>3. CASE d = e /\ ~Applies(e)
  <2>1. indexes' = indexes
    BY <1>3 DEF ApplyPending
  <2>2. CASE indexes[d] = Absent
    BY <2>1, <2>2 DEF Kept
  <2>3. CASE pending[d] = {}
    BY <1>1, <2>1, <2>3, KeptStays
  <2> QED BY <1>3, <2>2, <2>3 DEF Applies
<1>4. CASE d # e
  <2>1. indexes'[d] = indexes[d] /\ pending'[d] = pending[d]
    BY <1>4 DEF ApplyPending, TypeOK, StoreTypeOK
  <2> QED BY <1>1, <2>1, KeptStays
<1> QED BY <1>2, <1>3, <1>4

LEMMA AnswerKept ==
  ASSUME TypeOK, NEW L, \A d \in Devices : Kept(d, L), frames # <<>>, Head(frames).kind \in Answers,
         frames' = Tail(frames), UNCHANGED <<noted, pending, indexes>>,
         \A d \in Devices : Stale(d) => Stale(d)'
  PROVE  \A d \in Devices : Kept(d, L)'
<1> SUFFICES ASSUME NEW d \in Devices PROVE Kept(d, L)'
  OBVIOUS
<1>1. Kept(d, L) /\ (Stale(d) => Stale(d)')
  OBVIOUS
<1>2. Head(frames).kind \notin {"event", "error"}
  BY DEF Answers
<1>3. InStream(d) \subseteq InStream(d)' /\ (ErrorComes(d) => ErrorComes(d)')
  BY <1>2, StreamTail DEF FrameOf
<1> QED BY <1>1, <1>3, KeptStays

-----------------------------------------------------------------------------
(* Every step                                                              *)

LEMMA KeptInit == ASSUME NEW L, Loaded PROVE KeptInv(L)
<1>1. ~skewed /\ frames = <<>> /\ watching = {} /\ noted = [d \in Devices |-> {}]
  BY DEF Loaded, ManagerInit
<1>2. \A d \in Devices : noted[d] = {}
  BY <1>1
<1> QED BY <1>1, <1>2 DEF KeptInv, LinkInv, Kept

LEMMA LinkStep ==
  ASSUME LinkInv, ~skewed, Undisturbed, [Next]_vars
  PROVE  LinkInv' /\ ~skewed'
<1> USE DEF LinkInv, vars, managerVars, connVars, roundVars, optionVars
<1>1. CASE Connect
  BY <1>1 DEF Connect
<1>2. CASE NoConnection
  BY <1>2 DEF NoConnection
<1>3. CASE ReadFrame
  BY <1>3 DEF ReadFrame
<1>4. CASE DrainTimesOut
  BY <1>4 DEF DrainTimesOut
<1>5. CASE DrainFails
  BY <1>5 DEF DrainFails, DropConnection, MarkError
<1>6. CASE SkipReconcile
  BY <1>6 DEF SkipReconcile
<1>7. CASE Reconcile
  BY <1>7 DEF Reconcile
<1>8. CASE StopsDone
  BY <1>8 DEF StopsDone
<1>9. CASE StartsDone
  BY <1>9 DEF StartsDone
<1>10. ASSUME NEW d \in Devices, StopWatch(d) PROVE LinkInv' /\ ~skewed'
  BY <1>10 DEF StopWatch, ApplyOnStop, ApplyPending, WithDirty, Ask
<1>11. ASSUME NEW d \in Devices, StopWatchFails(d) PROVE LinkInv' /\ ~skewed'
  BY <1>11 DEF StopWatchFails, ApplyOnStop, ApplyPending, WithDirty, Reported
<1>12. ASSUME NEW d \in Devices, KeepWatch(d) PROVE LinkInv' /\ ~skewed'
  BY <1>12 DEF KeepWatch, Reported
<1>13. ASSUME NEW d \in Devices, StartWatch(d) PROVE LinkInv' /\ ~skewed'
  BY <1>13 DEF StartWatch, Ask
<1>14. ASSUME NEW d \in Devices, StartWatchFails(d) PROVE LinkInv' /\ ~skewed'
  BY <1>14 DEF StartWatchFails, MarkUnavailable
<1>15. ASSUME NEW d \in Devices, ApplyBatch(d) PROVE LinkInv' /\ ~skewed'
  BY <1>15 DEF ApplyBatch, ApplyPending, WithDirty
<1>16. ASSUME NEW d \in Devices, ApplyFails(d) PROVE LinkInv' /\ ~skewed'
  BY <1>16 DEF ApplyFails, MarkError
<1>17. ASSUME NEW d \in Devices, BeginFlush(d) PROVE LinkInv' /\ ~skewed'
  BY <1>17 DEF BeginFlush, OpenTmp
<1>18. ASSUME NEW d \in Devices, NothingToFlush(d) PROVE LinkInv' /\ ~skewed'
  BY <1>18 DEF NothingToFlush
<1>19. CASE ReadWhileWaiting
  BY <1>19 DEF ReadWhileWaiting, HandleWhileWaiting
<1>20. CASE StopAnswered
  BY <1>20 DEF StopAnswered, Answered, EndWait
<1>21. CASE StartAnswered
  BY <1>21 DEF StartAnswered, Answered, EndWait, Started
<1>22. CASE StartRefused
  BY <1>22 DEF StartRefused, MarkUnavailable, Answered, EndWait
<1>23. CASE WaitFails
  BY <1>23 DEF WaitFails, MarkUnavailable, EndWait
<1>24. CASE BackToRequest
  BY <1>24 DEF BackToRequest, AppliedAll
<1>25. ASSUME NEW D \in SUBSET dirty, FlushRound(D) PROVE LinkInv' /\ ~skewed'
  BY <1>25 DEF FlushRound, AppliedAll
<1>26. CASE WriteFlush
  BY <1>26 DEF WriteFlush, WriteTmp
<1>27. CASE RenameFlush
  BY <1>27 DEF RenameFlush, RenameTmp
<1>28. CASE FlushFails
  BY <1>28 DEF FlushFails, MarkError, FlushError, RenameFails, SaveIoError
<1>29. CASE FlushDone
  BY <1>29 DEF FlushDone, WithDirty
<1>30. CASE Sleep
  BY <1>30 DEF Sleep
<1>31. CASE ScannerWatches
  BY <1>31 DEF ScannerWatches
<1>32. CASE ScannerConfirms
  BY <1>32 DEF ScannerConfirms, Answer
<1>33. CASE ScannerRefuses
  BY <1>33 DEF ScannerRefuses, Answer, Refuse
<1>34. CASE ScannerStops
  BY <1>34 DEF ScannerStops, Answer
<1>35. CASE LoseFrames
  BY <1>35 DEF LoseFrames, Undisturbed
<1>36. CASE Hangup
  BY <1>36 DEF Hangup
<1>37. ASSUME NEW d \in Devices, FileChange(d) PROVE LinkInv' /\ ~skewed'
  BY <1>37 DEF FileChange, ChangeFile, Callback
<1>38. ASSUME NEW d \in Devices, KeepsChanging(d) PROVE LinkInv' /\ ~skewed'
  BY <1>38 DEF KeepsChanging
<1>39. ASSUME NEW d \in Devices, Rescan(d) PROVE LinkInv' /\ ~skewed'
  BY <1>39 DEF Rescan
<1>40. ASSUME NEW d \in Devices, Forget(d) PROVE LinkInv' /\ ~skewed'
  BY <1>40 DEF Forget, ForgetWith, DeleteSnapshot
<1>41. ASSUME NEW D \in SUBSET Devices, SetMounted(D) PROVE LinkInv' /\ ~skewed'
  BY <1>41 DEF SetMounted
<1>42. ASSUME NEW D \in SUBSET Devices, SetEnabled(D) PROVE LinkInv' /\ ~skewed'
  BY <1>42 DEF SetEnabled
<1>43. ASSUME NEW b \in BOOLEAN, SetWatchMounted(b) PROVE LinkInv' /\ ~skewed'
  BY <1>43 DEF SetWatchMounted
<1>44. CASE Restart
  BY <1>44 DEF Restart
<1>45. CASE UNCHANGED vars
  BY <1>45
<1> QED
  BY <1>1, <1>2, <1>3, <1>4, <1>5, <1>6, <1>7, <1>8, <1>9, <1>10, <1>11, <1>12,
     <1>13, <1>14, <1>15, <1>16, <1>17, <1>18, <1>19, <1>20, <1>21, <1>22, <1>23,
     <1>24, <1>25, <1>26, <1>27, <1>28, <1>29, <1>30, <1>31, <1>32, <1>33, <1>34,
     <1>35, <1>36, <1>37, <1>38, <1>39, <1>40, <1>41, <1>42, <1>43, <1>44, <1>45
  DEF Next, Manager, Scanner, World

LEMMA KeptStep ==
  ASSUME WatchTypes, MadeInv, LinkInv, ~skewed, Undisturbed, NEW L, \A d \in Devices : Kept(d, L),
         [Next]_vars
  PROVE  \A d \in Devices : Kept(d, L)'
<1>0. TypeOK
  BY DEF WatchTypes
<1> DEFINE Goal == \A d \in Devices : Kept(d, L)'
<1>a. ASSUME UNCHANGED <<noted, pending, indexes, frames, indexStates>> PROVE Goal
  BY <1>a, KeptAlone
<1>b. ASSUME UNCHANGED <<noted, pending, indexes, frames>>,
             \A e \in Devices : Stale(e) => Stale(e)'
      PROVE  Goal
  BY <1>b, KeptSame
<1>c. ASSUME NEW s \in Seq(Frame), frames' = frames \o s,
             UNCHANGED <<noted, pending, indexes, indexStates>>
      PROVE  Goal
  <2>1. \A e \in Devices : InStream(e) \subseteq InStream(e)' /\ (ErrorComes(e) => ErrorComes(e)')
    BY <1>0, <1>c, StreamConcat
  <2> QED BY <1>c, <2>1, KeptMore
<1> USE DEF vars, managerVars, connVars, roundVars, optionVars, storeVars, diskVars, memoryVars
<1>1. CASE Connect
  <2>1. UNCHANGED <<noted, pending, indexes, frames, indexStates>>
    BY <1>1 DEF Connect, LinkInv
  <2> QED BY <2>1, <1>a
<1>2. CASE NoConnection
  BY <1>2, <1>a DEF NoConnection
<1>3. CASE ReadFrame
  <2>1. /\ frames # <<>> /\ HandleFrame(Head(frames)) /\ frames' = Tail(frames)
        /\ UNCHANGED <<noted, indexes>>
    BY <1>3 DEF ReadFrame
  <2> QED BY <2>1, HandleKept
<1>4. CASE DrainTimesOut
  BY <1>4, <1>a DEF DrainTimesOut
<1>5. CASE DrainFails
  <2>1. /\ UNCHANGED <<noted, pending, indexes, frames>> /\ MarkError(active)
    BY <1>5 DEF DrainFails, DropConnection
  <2>2. \A e \in Devices : Stale(e) => Stale(e)'
    BY <2>1, MarkErrorStale
  <2> QED BY <2>1, <2>2, <1>b
<1>6. CASE SkipReconcile
  BY <1>6, <1>a DEF SkipReconcile
<1>7. CASE Reconcile
  <2> DEFINE new == {e \in Suppressed : Health(e).live # "suppressed"}
  <2>1. /\ UNCHANGED <<noted, pending, indexes, frames>>
        /\ indexStates' = [e \in Devices |-> IF e \in new
             THEN [Health(e) EXCEPT !.live = "suppressed"] ELSE indexStates[e]]
    BY <1>7 DEF Reconcile
  <2>2. ASSUME NEW e \in Devices PROVE Stale(e) => Stale(e)'
    <3>1. CASE e \in new
      <4>1. indexStates'[e] = [Health(e) EXCEPT !.live = "suppressed"]
        BY <2>1, <3>1
      <4>2. Health(e) \in Sidecar /\ indexStates'[e] \in Sidecar
        BY <1>0, <4>1, HealthType DEF LiveStates
      <4>3. indexStates'[e].stale = Health(e).stale /\ indexStates'[e] # Absent
        BY <4>1, <4>2, SidecarAssumption DEF Sidecar
      <4> QED BY <4>3 DEF Stale, Health
    <3>2. CASE e \notin new
      BY <2>1, <3>2, SameHealth
    <3> QED BY <3>1, <3>2
  <2> QED BY <2>1, <2>2, <1>b
<1>8. CASE StopsDone
  BY <1>8, <1>a DEF StopsDone
<1>9. CASE StartsDone
  BY <1>9, <1>a DEF StartsDone
<1>d. ASSUME NEW d \in Devices, ApplyOnStop(d) \/ RefusePending(d), UNCHANGED <<noted, frames>>
      PROVE  Goal
  <2>1. CASE ApplyOnStop(d)
    BY <1>0, <1>d, <2>1, ApplyKept DEF ApplyOnStop
  <2>2. CASE RefusePending(d)
    BY <1>0, <1>d, <2>2, RefuseKept
  <2> QED BY <1>d, <2>1, <2>2
<1>10. ASSUME NEW d \in Devices, StopWatch(d) PROVE Goal
  BY <1>10, <1>d DEF StopWatch
<1>11. ASSUME NEW d \in Devices, StopWatchFails(d) PROVE Goal
  BY <1>11, <1>d DEF StopWatchFails
<1>12. ASSUME NEW d \in Devices, KeepWatch(d) PROVE Goal
  BY <1>12, <1>a DEF KeepWatch, Reported
<1>13. ASSUME NEW d \in Devices, StartWatch(d) PROVE Goal
  BY <1>13, <1>a DEF StartWatch, Ask
<1>14. ASSUME NEW d \in Devices, StartWatchFails(d) PROVE Goal
  <2>1. UNCHANGED <<noted, pending, indexes, frames>> /\ MarkUnavailable(d)
    BY <1>14 DEF StartWatchFails
  <2>2. \A e \in Devices : Stale(e) => Stale(e)'
    BY <1>0, <2>1, UnavailableKeepsStale
  <2> QED BY <2>1, <2>2, <1>b
<1>15. ASSUME NEW d \in Devices, ApplyBatch(d) PROVE Goal
  <2>1. ApplyPending(d) /\ UNCHANGED <<noted, frames, indexStates>>
    BY <1>15 DEF ApplyBatch
  <2> QED BY <1>0, <2>1, ApplyKept
<1>16. ASSUME NEW d \in Devices, ApplyFails(d) PROVE Goal
  BY <1>0, <1>16, RefuseKept DEF ApplyFails
<1>17. ASSUME NEW d \in Devices, BeginFlush(d) PROVE Goal
  BY <1>17, <1>a DEF BeginFlush, OpenTmp
<1>18. ASSUME NEW d \in Devices, NothingToFlush(d) PROVE Goal
  BY <1>18, <1>a DEF NothingToFlush
<1>19. CASE ReadWhileWaiting
  <2>1. /\ frames # <<>> /\ HandleFrame(Head(frames)) /\ frames' = Tail(frames)
        /\ UNCHANGED <<noted, indexes>>
    BY <1>19 DEF ReadWhileWaiting, HandleWhileWaiting
  <2> QED BY <2>1, HandleKept
<1>20. CASE StopAnswered
  <2>1. /\ frames # <<>> /\ Head(frames).kind \in Answers /\ frames' = Tail(frames)
        /\ UNCHANGED <<noted, pending, indexes, indexStates>>
    BY <1>20 DEF StopAnswered, Answered, EndWait, Answers
  <2>2. \A e \in Devices : Stale(e) => Stale(e)'
    BY <2>1, SameHealth
  <2> QED BY <1>0, <2>1, <2>2, AnswerKept
<1>21. CASE StartAnswered
  <2>1. /\ frames # <<>> /\ Head(frames).kind \in Answers /\ frames' = Tail(frames)
        /\ UNCHANGED <<noted, pending, indexes, indexStates>>
    BY <1>21 DEF StartAnswered, Answered, EndWait, Started, Answers
  <2>2. \A e \in Devices : Stale(e) => Stale(e)'
    BY <2>1, SameHealth
  <2> QED BY <1>0, <2>1, <2>2, AnswerKept
<1>22. CASE StartRefused
  <2>1. /\ frames # <<>> /\ Head(frames).kind \in Answers /\ frames' = Tail(frames)
        /\ UNCHANGED <<noted, pending, indexes>> /\ MarkUnavailable(op.dev)
    BY <1>22 DEF StartRefused, Answered, Answers
  <2>2. op.dev \in Devices
    BY <1>22, <1>0 DEF StartRefused, Answered, TypeOK, NoOp
  <2>3. \A e \in Devices : Stale(e) => Stale(e)'
    BY <1>0, <2>1, <2>2, UnavailableKeepsStale
  <2> QED BY <1>0, <2>1, <2>3, AnswerKept
<1>23. CASE WaitFails
  <2>1. UNCHANGED <<noted, pending, indexes, frames>>
    BY <1>23 DEF WaitFails
  <2>2. CASE UNCHANGED indexStates
    BY <2>1, <2>2, <1>a
  <2>3. CASE op.kind = "start" /\ MarkUnavailable(op.dev)
    <3>1. op.dev \in Devices
      BY <1>0, <2>3 DEF TypeOK, NoOp
    <3>2. \A e \in Devices : Stale(e) => Stale(e)'
      BY <1>0, <2>3, <3>1, UnavailableKeepsStale
    <3> QED BY <2>1, <3>2, <1>b
  <2> QED BY <1>23, <2>2, <2>3 DEF WaitFails
<1>24. CASE BackToRequest
  BY <1>24, <1>a DEF BackToRequest, AppliedAll
<1>25. ASSUME NEW D \in SUBSET dirty, FlushRound(D) PROVE Goal
  BY <1>25, <1>a DEF FlushRound, AppliedAll
<1>26. CASE WriteFlush
  BY <1>26, <1>a DEF WriteFlush, WriteTmp
<1>27. CASE RenameFlush
  BY <1>27, <1>a DEF RenameFlush, RenameTmp
<1>28. CASE FlushFails
  <2>1. UNCHANGED <<noted, pending, indexes, frames>> /\ MarkError({flushing})
    BY <1>28 DEF FlushFails, FlushError
  <2>2. \A e \in Devices : Stale(e) => Stale(e)'
    BY <2>1, MarkErrorStale
  <2> QED BY <2>1, <2>2, <1>b
<1>29. CASE FlushDone
  <2>1. /\ UNCHANGED <<noted, pending, indexes, frames>>
        /\ indexStates' = [indexStates EXCEPT ![flushing] = [Health(flushing) EXCEPT !.live = "watching"]]
    BY <1>29 DEF FlushDone
  <2>2. CASE flushing \in Devices
    <3>1. \A e \in Devices : Stale(e) => Stale(e)'
      BY <1>0, <2>1, <2>2, LiveKeepsStale DEF LiveStates
    <3> QED BY <2>1, <3>1, <1>b
  <2>3. CASE flushing \notin Devices
    BY <1>0, <2>1, <2>3, <1>a DEF TypeOK, StoreTypeOK
  <2> QED BY <2>2, <2>3
<1>30. CASE Sleep
  BY <1>30, <1>a DEF Sleep
<1>31. CASE ScannerWatches
  BY <1>31, <1>a DEF ScannerWatches
<1>32. CASE ScannerConfirms
  <2>1. op.dev \in Devices
    BY <1>32, <1>0 DEF ScannerConfirms, WatchTypes, RequestInv, TypeOK
  <2> DEFINE s == <<FrameOf("ok", op.dev)>>
  <2>2. frames' = frames \o s /\ UNCHANGED <<noted, pending, indexes, indexStates>>
    BY <1>32 DEF ScannerConfirms, Answer
  <2>3. s \in Seq(Frame)
    BY <2>1, AnswerFrames
  <2> HIDE DEF s
  <2> QED BY <2>2, <2>3, <1>c
<1>33. CASE ScannerRefuses
  <2>1. op.dev \in Devices
    BY <1>33, <1>0 DEF ScannerRefuses, Refuse, Refusable, TypeOK
  <2> DEFINE s == <<FrameOf("refused", op.dev)>>
  <2>2. frames' = frames \o s /\ UNCHANGED <<noted, pending, indexes, indexStates>>
    BY <1>33 DEF ScannerRefuses, Answer, Refuse
  <2>3. s \in Seq(Frame)
    BY <2>1, AnswerFrames
  <2> HIDE DEF s
  <2> QED BY <2>2, <2>3, <1>c
<1>34. CASE ScannerStops
  <2>1. op.dev \in Devices
    BY <1>34, <1>0 DEF ScannerStops, NoOp, TypeOK
  <2> DEFINE s == <<FrameOf("stopped", op.dev), FrameOf("ok", op.dev)>>
  <2>2. frames' = frames \o s /\ UNCHANGED <<noted, pending, indexes, indexStates>>
    BY <1>34 DEF ScannerStops, Answer
  <2>3. s \in Seq(Frame)
    BY <2>1, AnswerFrames
  <2> HIDE DEF s
  <2> QED BY <2>2, <2>3, <1>c
<1>35. CASE LoseFrames
  BY <1>35 DEF LoseFrames, Undisturbed
<1>36. CASE Hangup
  BY <1>36, <1>a DEF Hangup
<1>37. ASSUME NEW d \in Devices, FileChange(d) PROVE Goal
  <2>1. UNCHANGED <<pending, indexes, indexStates>>
    BY <1>37 DEF FileChange
  <2>2. CASE d \notin watching
    BY <1>37, <2>1, <2>2, <1>a DEF FileChange
  <2>3. CASE d \in watching
    <3>1. PICK c \in Changes \ fs[d] : fs' = [fs EXCEPT ![d] = fs[d] \cup {c}]
      BY <1>37 DEF FileChange, ChangeFile
    <3>2. fs'[d] \ fs[d] = {c}
      BY <1>0, <3>1 DEF TypeOK, StoreTypeOK
    <3>3. noted' = [noted EXCEPT ![d] = noted[d] \cup {c}] /\ Callback(d, c)
      BY <1>37, <2>3, <3>2 DEF FileChange
    <3>4. PICK f \in {EventOf(d, c), FrameOf("error", d)} : frames' = Append(frames, f)
      BY <3>3 DEF Callback, Undisturbed
    <3>5. f \in Frame /\ EventOf(d, c).kind = "event" /\ EventOf(d, c).dev = d /\ EventOf(d, c).change = c
      BY <3>4, FrameOfType DEF EventOf
    <3>6. \A e \in Devices : InStream(e) \subseteq InStream(e)' /\ (ErrorComes(e) => ErrorComes(e)')
      BY <1>0, <3>4, <3>5, StreamAppend
    <3>7. ErrorComes(d)' \/ c \in InStream(d)'
      BY <1>0, <3>4, <3>5, StreamAppend
    <3>8. ASSUME NEW e \in Devices, e # d PROVE Kept(e, L)'
      <4>1. noted'[e] = noted[e]
        BY <1>0, <3>3, <3>8 DEF TypeOK
      <4> QED BY <2>1, <3>6, <4>1, KeptStays, SameHealth
    <3>9. Kept(d, L)'
      <4>1. CASE indexes[d] = Absent \/ Stale(d) \/ ErrorComes(d) \/ ErrorComes(d)'
        BY <2>1, <3>6, <4>1, SameHealth DEF Kept
      <4>2. CASE /\ noted[d] \ L[d] \subseteq indexes[d].seen \cup pending[d] \cup InStream(d)
                 /\ c \in InStream(d)'
        <5>1. noted'[d] = noted[d] \cup {c}
          BY <1>0, <3>3 DEF TypeOK
        <5>2. InStream(d) \subseteq InStream(d)'
          BY <3>6
        <5>3. noted'[d] \ L[d] \subseteq indexes'[d].seen \cup pending'[d] \cup InStream(d)'
          BY <2>1, <4>2, <5>1, <5>2
        <5> QED BY <5>3 DEF Kept
      <4> QED BY <3>7, <4>1, <4>2 DEF Kept
    <3> QED BY <3>8, <3>9
  <2> QED BY <2>2, <2>3
<1>38. ASSUME NEW d \in Devices, KeepsChanging(d) PROVE Goal
  <2>1. PICK c \in fs[d] : frames' = Append(frames, EventOf(d, c))
    BY <1>38 DEF KeepsChanging
  <2>2. EventOf(d, c) \in Frame
    BY <1>0, FrameOfType DEF TypeOK, StoreTypeOK
  <2>3. \A e \in Devices : InStream(e) \subseteq InStream(e)' /\ (ErrorComes(e) => ErrorComes(e)')
    BY <1>0, <2>1, <2>2, StreamAppend
  <2>4. UNCHANGED <<noted, pending, indexes, indexStates>>
    BY <1>38 DEF KeepsChanging
  <2> QED BY <2>3, <2>4, KeptMore
<1>39. ASSUME NEW d \in Devices, Rescan(d) PROVE Goal
  <2>1. /\ indexes' = [indexes EXCEPT ![d] = [seen |-> fs[d]]]
        /\ indexStates' = [indexStates EXCEPT ![d] = FreshSidecar]
        /\ UNCHANGED <<noted, pending, frames>>
    BY <1>39 DEF Rescan
  <2>2. noted'[d] \ L[d] \subseteq indexes'[d].seen
    <3>1. indexes'[d].seen = fs[d]
      BY <1>0, <2>1 DEF TypeOK, StoreTypeOK
    <3> QED BY <2>1, <3>1 DEF MadeInv
  <2>3. ASSUME NEW e \in Devices, e # d PROVE Kept(e, L)'
    <3>1. indexes'[e] = indexes[e] /\ indexStates'[e] = indexStates[e]
      BY <1>0, <2>1, <2>3 DEF TypeOK, StoreTypeOK
    <3> QED BY <2>1, <3>1, KeptStays, SameStream, SameHealth
  <2> QED BY <2>2, <2>3 DEF Kept
<1>40. ASSUME NEW d \in Devices, Forget(d) PROVE Goal
  <2>1. /\ indexes' = [indexes EXCEPT ![d] = Absent]
        /\ indexStates' = [indexStates EXCEPT ![d] = Absent]
        /\ UNCHANGED <<noted, pending, frames>>
    BY <1>40 DEF Forget, ForgetWith
  <2>2. indexes'[d] = Absent
    BY <1>0, <2>1 DEF TypeOK, StoreTypeOK
  <2>3. ASSUME NEW e \in Devices, e # d PROVE Kept(e, L)'
    <3>1. indexes'[e] = indexes[e] /\ indexStates'[e] = indexStates[e]
      BY <1>0, <2>1, <2>3 DEF TypeOK, StoreTypeOK
    <3> QED BY <2>1, <3>1, KeptStays, SameStream, SameHealth
  <2> QED BY <2>2, <2>3 DEF Kept
<1>41. ASSUME NEW D \in SUBSET Devices, SetMounted(D) PROVE Goal
  BY <1>41, <1>a DEF SetMounted
<1>42. ASSUME NEW D \in SUBSET Devices, SetEnabled(D) PROVE Goal
  BY <1>42, <1>a DEF SetEnabled
<1>43. ASSUME NEW b \in BOOLEAN, SetWatchMounted(b) PROVE Goal
  BY <1>43, <1>a DEF SetWatchMounted
<1>44. CASE Restart
  <2>1. \A e \in Devices : noted'[e] = {}
    BY <1>44 DEF Restart
  <2> QED BY <2>1 DEF Kept
<1>45. CASE UNCHANGED vars
  BY <1>45, <1>a
<1> QED
  BY <1>1, <1>2, <1>3, <1>4, <1>5, <1>6, <1>7, <1>8, <1>9, <1>10, <1>11, <1>12,
     <1>13, <1>14, <1>15, <1>16, <1>17, <1>18, <1>19, <1>20, <1>21, <1>22, <1>23,
     <1>24, <1>25, <1>26, <1>27, <1>28, <1>29, <1>30, <1>31, <1>32, <1>33, <1>34,
     <1>35, <1>36, <1>37, <1>38, <1>39, <1>40, <1>41, <1>42, <1>43, <1>44, <1>45
  DEF Next, Manager, Scanner, World

LEMMA EventsStay == [Next]_vars => events' = events
<1> SUFFICES ASSUME [Next]_vars PROVE events' = events
  OBVIOUS
<1> USE DEF vars, managerVars, connVars, roundVars, optionVars
<1>1. CASE Connect
  BY <1>1 DEF Connect
<1>2. CASE NoConnection
  BY <1>2 DEF NoConnection
<1>3. CASE ReadFrame
  BY <1>3 DEF ReadFrame
<1>4. CASE DrainTimesOut
  BY <1>4 DEF DrainTimesOut
<1>5. CASE DrainFails
  BY <1>5 DEF DrainFails, DropConnection, MarkError
<1>6. CASE SkipReconcile
  BY <1>6 DEF SkipReconcile
<1>7. CASE Reconcile
  BY <1>7 DEF Reconcile
<1>8. CASE StopsDone
  BY <1>8 DEF StopsDone
<1>9. CASE StartsDone
  BY <1>9 DEF StartsDone
<1>10. ASSUME NEW d \in Devices, StopWatch(d) PROVE events' = events
  BY <1>10 DEF StopWatch, ApplyOnStop, ApplyPending, WithDirty, Ask
<1>11. ASSUME NEW d \in Devices, StopWatchFails(d) PROVE events' = events
  BY <1>11 DEF StopWatchFails, ApplyOnStop, ApplyPending, WithDirty, Reported
<1>12. ASSUME NEW d \in Devices, KeepWatch(d) PROVE events' = events
  BY <1>12 DEF KeepWatch, Reported
<1>13. ASSUME NEW d \in Devices, StartWatch(d) PROVE events' = events
  BY <1>13 DEF StartWatch, Ask
<1>14. ASSUME NEW d \in Devices, StartWatchFails(d) PROVE events' = events
  BY <1>14 DEF StartWatchFails, MarkUnavailable
<1>15. ASSUME NEW d \in Devices, ApplyBatch(d) PROVE events' = events
  BY <1>15 DEF ApplyBatch, ApplyPending, WithDirty
<1>16. ASSUME NEW d \in Devices, ApplyFails(d) PROVE events' = events
  BY <1>16 DEF ApplyFails, MarkError
<1>17. ASSUME NEW d \in Devices, BeginFlush(d) PROVE events' = events
  BY <1>17 DEF BeginFlush, OpenTmp
<1>18. ASSUME NEW d \in Devices, NothingToFlush(d) PROVE events' = events
  BY <1>18 DEF NothingToFlush
<1>19. CASE ReadWhileWaiting
  BY <1>19 DEF ReadWhileWaiting, HandleWhileWaiting
<1>20. CASE StopAnswered
  BY <1>20 DEF StopAnswered, Answered, EndWait
<1>21. CASE StartAnswered
  BY <1>21 DEF StartAnswered, Answered, EndWait, Started
<1>22. CASE StartRefused
  BY <1>22 DEF StartRefused, MarkUnavailable, Answered, EndWait
<1>23. CASE WaitFails
  BY <1>23 DEF WaitFails, MarkUnavailable, EndWait
<1>24. CASE BackToRequest
  BY <1>24 DEF BackToRequest, AppliedAll
<1>25. ASSUME NEW D \in SUBSET dirty, FlushRound(D) PROVE events' = events
  BY <1>25 DEF FlushRound, AppliedAll
<1>26. CASE WriteFlush
  BY <1>26 DEF WriteFlush, WriteTmp
<1>27. CASE RenameFlush
  BY <1>27 DEF RenameFlush, RenameTmp
<1>28. CASE FlushFails
  BY <1>28 DEF FlushFails, MarkError, FlushError, RenameFails, SaveIoError
<1>29. CASE FlushDone
  BY <1>29 DEF FlushDone, WithDirty
<1>30. CASE Sleep
  BY <1>30 DEF Sleep
<1>31. CASE ScannerWatches
  BY <1>31 DEF ScannerWatches
<1>32. CASE ScannerConfirms
  BY <1>32 DEF ScannerConfirms, Answer
<1>33. CASE ScannerRefuses
  BY <1>33 DEF ScannerRefuses, Answer, Refuse
<1>34. CASE ScannerStops
  BY <1>34 DEF ScannerStops, Answer
<1>35. CASE LoseFrames
  BY <1>35 DEF LoseFrames
<1>36. CASE Hangup
  BY <1>36 DEF Hangup
<1>37. ASSUME NEW d \in Devices, FileChange(d) PROVE events' = events
  BY <1>37 DEF FileChange, ChangeFile, Callback
<1>38. ASSUME NEW d \in Devices, KeepsChanging(d) PROVE events' = events
  BY <1>38 DEF KeepsChanging
<1>39. ASSUME NEW d \in Devices, Rescan(d) PROVE events' = events
  BY <1>39 DEF Rescan
<1>40. ASSUME NEW d \in Devices, Forget(d) PROVE events' = events
  BY <1>40 DEF Forget, ForgetWith, DeleteSnapshot
<1>41. ASSUME NEW D \in SUBSET Devices, SetMounted(D) PROVE events' = events
  BY <1>41 DEF SetMounted
<1>42. ASSUME NEW D \in SUBSET Devices, SetEnabled(D) PROVE events' = events
  BY <1>42 DEF SetEnabled
<1>43. ASSUME NEW b \in BOOLEAN, SetWatchMounted(b) PROVE events' = events
  BY <1>43 DEF SetWatchMounted
<1>44. CASE Restart
  BY <1>44 DEF Restart
<1>45. CASE UNCHANGED vars
  BY <1>45
<1> QED
  BY <1>1, <1>2, <1>3, <1>4, <1>5, <1>6, <1>7, <1>8, <1>9, <1>10, <1>11, <1>12,
     <1>13, <1>14, <1>15, <1>16, <1>17, <1>18, <1>19, <1>20, <1>21, <1>22, <1>23,
     <1>24, <1>25, <1>26, <1>27, <1>28, <1>29, <1>30, <1>31, <1>32, <1>33, <1>34,
     <1>35, <1>36, <1>37, <1>38, <1>39, <1>40, <1>41, <1>42, <1>43, <1>44, <1>45
  DEF Next, Manager, Scanner, World

LEMMA KeptInvStep ==
  ASSUME WatchTypes, MadeInv, NEW L, KeptInv(L), [Next]_vars
  PROVE  KeptInv(L)'
<1>1. events' = events
  BY EventsStay
<1>2. SUFFICES ASSUME Undisturbed PROVE KeptInv(L)'
  BY <1>1 DEF KeptInv, Undisturbed
<1>3. ~skewed /\ LinkInv /\ \A d \in Devices : Kept(d, L)
  BY <1>2 DEF KeptInv
<1>4. LinkInv' /\ ~skewed'
  BY <1>2, <1>3, LinkStep
<1>5. \A d \in Devices : Kept(d, L)'
  BY <1>2, <1>3, KeptStep
<1> QED BY <1>4, <1>5 DEF KeptInv

\* Whatever is stopped, reconciled, refused, forgotten, scanned or restarted and
\* whatever fails: a change that a watcher has seen is served, pending or in the
\* stream, or its index is reported as stale - unless the kernel drops events, a
\* time-out falls inside a frame, or a watcher is denied a permission.
THEOREM NotedHolds == Spec => []NotedIsKept
<1> DEFINE All == WatchTypes /\ MadeInv /\ KeptInv(NoneLate)
<1>1. Init => All
  BY InitLoaded, WatchTypeInit, MadeInit, KeptInit
<1>2. All /\ [Next]_vars => All'
  BY WatchTypesStep, MadeStep, KeptInvStep
<1>3. All => NotedIsKept
  BY DEF KeptInv, NoneLate, Undisturbed, Kept, NotedIsKept, NoneLostInSilence
<1> QED BY <1>1, <1>2, <1>3, PTL DEF Spec

-----------------------------------------------------------------------------
(* What is reported as watched                                             *)

Calm == events \cap {"skew", "unmount"} = {}

ActiveInv == \A d \in active : link # "none" /\ (link = "up" => d \in watching)

OpInv ==
  /\ at \in {"drain", "drained", "stops", "starts", "flush", "saving", "saved"} => op = NoOp
  /\ at = "await" => op # NoOp
  /\ op.kind = "stop" => op.dev \notin active
  /\ op # NoOp => link # "none"
  /\ link = "none" => frames = <<>> /\ watching = {}
  /\ request # "none" => op # NoOp
  /\ request = "watching" => op.kind = "start" /\ (link = "up" => op.dev \in watching)

IsAnswer(i) == frames[i].kind \in Answers

AnswerInv ==
  /\ \A i \in DOMAIN frames : IsAnswer(i) =>
       /\ op # NoOp /\ request = "none"
       /\ frames[i].kind = "ok" /\ op.kind = "start" /\ link = "up" => op.dev \in watching
  /\ \A i, j \in DOMAIN frames : IsAnswer(i) /\ IsAnswer(j) => i = j

ShownInv ==
  \A d \in Devices : summary[d] # Absent /\ summary[d].state = "watching" =>
    op = [kind |-> "stop", dev |-> d] \/ d \in active

WatchedInv == Calm => ~skewed /\ ActiveInv /\ OpInv /\ AnswerInv /\ ShownInv

LEMMA WatchedInit == Init => WatchedInv
<1> SUFFICES ASSUME Init PROVE WatchedInv
  OBVIOUS
<1>1. /\ ~skewed /\ frames = <<>> /\ op = NoOp /\ request = "none" /\ active = {}
      /\ at = "drain" /\ link = "none" /\ watching = {}
      /\ summary = [d \in Devices |-> Absent]
  BY DEF Init, ManagerInit
<1>2. DOMAIN frames = {}
  BY <1>1
<1>3. ActiveInv /\ OpInv
  BY <1>1 DEF ActiveInv, OpInv, NoOp
<1>4. AnswerInv
  BY <1>2 DEF AnswerInv
<1> QED BY <1>1, <1>3, <1>4 DEF WatchedInv, ShownInv

\* No answer, nothing to show of it.
LEMMA NoAnswers ==
  ASSUME \A i \in DOMAIN frames' : frames'[i].kind \notin Answers
  PROVE  AnswerInv'
BY DEF AnswerInv, IsAnswer

LEMMA AnswersStay ==
  ASSUME AnswerInv, UNCHANGED <<frames, op, request>>,
         link' = "up" => link = "up" /\ watching \subseteq watching'
  PROVE  AnswerInv'
<1>1. frames' = frames /\ op' = op /\ request' = request
  OBVIOUS
<1> QED BY <1>1 DEF AnswerInv, IsAnswer

\* What else a watcher sends is not taken for an answer.
LEMMA AnswersAppend ==
  ASSUME TypeOK, AnswerInv, NEW f \in Frame, frames' = Append(frames, f), f.kind \notin Answers,
         UNCHANGED <<op, request, link, watching>>
  PROVE  AnswerInv'
<1>1. frames \in Seq(Frame)
  BY DEF TypeOK
<1>2. \A i \in DOMAIN frames' : \/ frames'[i] = f
                                \/ i \in DOMAIN frames /\ frames'[i] = frames[i]
  BY <1>1
<1>3. \A i \in DOMAIN frames' : frames'[i].kind \in Answers =>
        i \in DOMAIN frames /\ IsAnswer(i) /\ frames'[i] = frames[i]
  BY <1>2 DEF IsAnswer
<1>4. op' = op /\ request' = request /\ link' = link /\ watching' = watching
  OBVIOUS
<1> QED BY <1>3, <1>4 DEF AnswerInv, IsAnswer

\* Another frame has been read.
LEMMA AnswersTail ==
  ASSUME TypeOK, AnswerInv, frames # <<>>, frames' = Tail(frames),
         UNCHANGED <<op, request, link, watching>>
  PROVE  AnswerInv'
<1>1. frames \in Seq(Frame)
  BY DEF TypeOK
<1>2. \A i \in DOMAIN frames' : i \in Nat /\ i + 1 \in DOMAIN frames /\ frames'[i] = frames[i + 1]
  BY <1>1, FramesTail
<1>3. op' = op /\ request' = request /\ link' = link /\ watching' = watching
  OBVIOUS
<1>4. \A i \in DOMAIN frames' : IsAnswer(i)' => IsAnswer(i + 1)
  BY <1>2 DEF IsAnswer
<1>5. ASSUME NEW i \in DOMAIN frames', IsAnswer(i)'
      PROVE  /\ op' # NoOp /\ request' = "none"
             /\ frames'[i].kind = "ok" /\ op'.kind = "start" /\ link' = "up" => op'.dev \in watching'
  BY <1>2, <1>3, <1>4, <1>5 DEF AnswerInv
<1>6. ASSUME NEW i \in DOMAIN frames', NEW j \in DOMAIN frames', IsAnswer(i)', IsAnswer(j)'
      PROVE  i = j
  <2>1. i + 1 = j + 1
    BY <1>2, <1>4, <1>6 DEF AnswerInv
  <2> QED BY <1>2, <2>1
<1> QED BY <1>5, <1>6 DEF AnswerInv, IsAnswer

\* The answer has been read; it was the only one.
LEMMA AnswerRead ==
  ASSUME TypeOK, AnswerInv, frames # <<>>, Head(frames).kind \in Answers, frames' = Tail(frames)
  PROVE  AnswerInv'
<1>1. frames \in Seq(Frame)
  BY DEF TypeOK
<1>2. \A i \in DOMAIN frames' : i \in Nat \ {0} /\ i + 1 \in DOMAIN frames /\ frames'[i] = frames[i + 1]
  BY <1>1, FramesTail
<1>3. 1 \in DOMAIN frames /\ IsAnswer(1)
  BY <1>1, FramesTail DEF IsAnswer
<1>4. ASSUME NEW i \in DOMAIN frames' PROVE frames'[i].kind \notin Answers
  <2>1. i + 1 # 1
    BY <1>2
  <2>2. ~IsAnswer(i + 1)
    BY <1>2, <1>3, <2>1 DEF AnswerInv
  <2> QED BY <1>2, <2>2 DEF IsAnswer
<1> QED BY <1>4, NoAnswers

\* An answer is sent.
LEMMA AnswerSent ==
  ASSUME TypeOK, AnswerInv, OpInv, NEW s \in Seq(Frame), frames' = frames \o s,
         request # "none", request' = "none",
         \A i \in 1 .. Len(s) : s[i].kind \in Answers => i = Len(s),
         \A i \in 1 .. Len(s) : s[i].kind = "ok" /\ op.kind = "start" /\ link = "up" =>
            op.dev \in watching',
         UNCHANGED <<op, link>>
  PROVE  AnswerInv'
<1>1. frames \in Seq(Frame)
  BY DEF TypeOK
<1>2. \A i \in DOMAIN frames : frames[i].kind \notin Answers
  BY DEF AnswerInv, IsAnswer
<1>3. \A i \in DOMAIN frames' :
        \/ i \in DOMAIN frames /\ frames'[i] = frames[i]
        \/ i - Len(frames) \in 1 .. Len(s) /\ frames'[i] = s[i - Len(frames)]
  BY <1>1, ConcatProperties
<1>4. \A i \in DOMAIN frames' : IsAnswer(i)' =>
        i - Len(frames) = Len(s) /\ Len(s) \in 1 .. Len(s) /\ frames'[i] = s[Len(s)]
  BY <1>2, <1>3 DEF IsAnswer
<1>5. op' = op /\ op # NoOp /\ link' = link
  BY DEF OpInv
<1>6. \A i \in DOMAIN frames' : IsAnswer(i)' =>
        /\ op' # NoOp /\ request' = "none"
        /\ frames'[i].kind = "ok" /\ op'.kind = "start" /\ link' = "up" => op'.dev \in watching'
  BY <1>4, <1>5
<1>7. ASSUME NEW i \in DOMAIN frames', NEW j \in DOMAIN frames', IsAnswer(i)', IsAnswer(j)'
      PROVE  i = j
  <2>1. i \in Int /\ j \in Int /\ Len(frames) \in Nat
    BY <1>1
  <2>2. i - Len(frames) = j - Len(frames)
    BY <1>4, <1>7
  <2> QED BY <2>1, <2>2
<1> QED BY <1>6, <1>7 DEF AnswerInv, IsAnswer

LEMMA OpStep ==
  ASSUME WatchTypes, ~skewed, ActiveInv, OpInv, AnswerInv, Calm, [Next]_vars
  PROVE  ~skewed' /\ ActiveInv' /\ OpInv'
<1>0. TypeOK
  BY DEF WatchTypes
<1>s. SetTypes
  BY <1>0, SetTypesOK
<1>o. op \in {NoOp} \cup [kind : {"start", "stop"}, dev : Devices]
  BY <1>0 DEF TypeOK
<1> USE DEF ActiveInv, OpInv, NoOp, vars, managerVars, connVars, roundVars, optionVars
<1>1. CASE Connect
  BY <1>1 DEF Connect
<1>2. CASE NoConnection
  BY <1>2 DEF NoConnection
<1>3. CASE ReadFrame
  BY <1>3 DEF ReadFrame
<1>4. CASE DrainTimesOut
  BY <1>4 DEF DrainTimesOut
<1>5. CASE DrainFails
  BY <1>5 DEF DrainFails, DropConnection, MarkError
<1>6. CASE SkipReconcile
  BY <1>6 DEF SkipReconcile
<1>7. CASE Reconcile
  BY <1>7 DEF Reconcile
<1>8. CASE StopsDone
  BY <1>8 DEF StopsDone
<1>9. CASE StartsDone
  BY <1>9 DEF StartsDone
<1>10. ASSUME NEW d \in Devices, StopWatch(d) PROVE ~skewed' /\ ActiveInv' /\ OpInv'
  BY <1>10, <1>s, <1>o DEF StopWatch, ApplyOnStop, ApplyPending, WithDirty, Ask
<1>11. ASSUME NEW d \in Devices, StopWatchFails(d) PROVE ~skewed' /\ ActiveInv' /\ OpInv'
  BY <1>11 DEF StopWatchFails, ApplyOnStop, ApplyPending, WithDirty, Reported
<1>12. ASSUME NEW d \in Devices, KeepWatch(d) PROVE ~skewed' /\ ActiveInv' /\ OpInv'
  BY <1>12 DEF KeepWatch, Reported
<1>13. ASSUME NEW d \in Devices, StartWatch(d) PROVE ~skewed' /\ ActiveInv' /\ OpInv'
  BY <1>13, <1>s, <1>o DEF StartWatch, Ask
<1>14. ASSUME NEW d \in Devices, StartWatchFails(d) PROVE ~skewed' /\ ActiveInv' /\ OpInv'
  BY <1>14 DEF StartWatchFails, MarkUnavailable
<1>15. ASSUME NEW d \in Devices, ApplyBatch(d) PROVE ~skewed' /\ ActiveInv' /\ OpInv'
  BY <1>15 DEF ApplyBatch, ApplyPending, WithDirty
<1>16. ASSUME NEW d \in Devices, ApplyFails(d) PROVE ~skewed' /\ ActiveInv' /\ OpInv'
  BY <1>16 DEF ApplyFails, MarkError
<1>17. ASSUME NEW d \in Devices, BeginFlush(d) PROVE ~skewed' /\ ActiveInv' /\ OpInv'
  BY <1>17 DEF BeginFlush, OpenTmp
<1>18. ASSUME NEW d \in Devices, NothingToFlush(d) PROVE ~skewed' /\ ActiveInv' /\ OpInv'
  BY <1>18 DEF NothingToFlush
<1>19. CASE ReadWhileWaiting
  BY <1>19 DEF ReadWhileWaiting, HandleWhileWaiting
<1>20. CASE StopAnswered
  BY <1>20 DEF StopAnswered, Answered, EndWait
<1>21. CASE StartAnswered
  <2>1. /\ op.kind = "start" /\ frames # <<>> /\ Head(frames).kind = "ok"
        /\ active' = active \cup {op.dev} /\ at' = "starts" /\ op' = NoOp /\ request' = "none"
        /\ UNCHANGED <<link, skewed, watching>> /\ frames' = Tail(frames)
    BY <1>21 DEF StartAnswered, Started, Answered, EndWait
  <2>2. 1 \in DOMAIN frames /\ IsAnswer(1) /\ frames[1].kind = "ok"
    BY <1>0, <2>1, FramesTail DEF IsAnswer, Answers, TypeOK
  <2>3. link # "none" /\ (link = "up" => op.dev \in watching)
    BY <2>1, <2>2 DEF AnswerInv
  <2> QED BY <2>1, <2>3
<1>22. CASE StartRefused
  BY <1>22 DEF StartRefused, MarkUnavailable, Answered, EndWait
<1>23. CASE WaitFails
  BY <1>23 DEF WaitFails, MarkUnavailable, EndWait
<1>24. CASE BackToRequest
  BY <1>24 DEF BackToRequest, AppliedAll
<1>25. ASSUME NEW D \in SUBSET dirty, FlushRound(D) PROVE ~skewed' /\ ActiveInv' /\ OpInv'
  BY <1>25 DEF FlushRound, AppliedAll
<1>26. CASE WriteFlush
  BY <1>26 DEF WriteFlush, WriteTmp
<1>27. CASE RenameFlush
  BY <1>27 DEF RenameFlush, RenameTmp
<1>28. CASE FlushFails
  BY <1>28 DEF FlushFails, MarkError, FlushError, RenameFails, SaveIoError
<1>29. CASE FlushDone
  BY <1>29 DEF FlushDone, WithDirty
<1>30. CASE Sleep
  BY <1>30 DEF Sleep
<1>31. CASE ScannerWatches
  BY <1>31 DEF ScannerWatches
<1>32. CASE ScannerConfirms
  BY <1>32, <1>s, <1>o DEF ScannerConfirms, Answer
<1>33. CASE ScannerRefuses
  BY <1>33, <1>s, <1>o DEF ScannerRefuses, Answer, Refuse
<1>34. CASE ScannerStops
  BY <1>34, <1>s, <1>o DEF ScannerStops, Answer
<1>35. CASE LoseFrames
  BY <1>35 DEF LoseFrames, Calm
<1>36. CASE Hangup
  BY <1>36 DEF Hangup
<1>37. ASSUME NEW d \in Devices, FileChange(d) PROVE ~skewed' /\ ActiveInv' /\ OpInv'
  BY <1>37 DEF FileChange, ChangeFile, Callback
<1>38. ASSUME NEW d \in Devices, KeepsChanging(d) PROVE ~skewed' /\ ActiveInv' /\ OpInv'
  BY <1>38 DEF KeepsChanging
<1>39. ASSUME NEW d \in Devices, Rescan(d) PROVE ~skewed' /\ ActiveInv' /\ OpInv'
  BY <1>39 DEF Rescan
<1>40. ASSUME NEW d \in Devices, Forget(d) PROVE ~skewed' /\ ActiveInv' /\ OpInv'
  BY <1>40 DEF Forget, ForgetWith, DeleteSnapshot
<1>41. ASSUME NEW D \in SUBSET Devices, SetMounted(D) PROVE ~skewed' /\ ActiveInv' /\ OpInv'
  BY <1>41 DEF SetMounted, Calm
<1>42. ASSUME NEW D \in SUBSET Devices, SetEnabled(D) PROVE ~skewed' /\ ActiveInv' /\ OpInv'
  BY <1>42 DEF SetEnabled
<1>43. ASSUME NEW b \in BOOLEAN, SetWatchMounted(b) PROVE ~skewed' /\ ActiveInv' /\ OpInv'
  BY <1>43 DEF SetWatchMounted
<1>44. CASE Restart
  BY <1>44 DEF Restart
<1>45. CASE UNCHANGED vars
  BY <1>45
<1> QED
  BY <1>1, <1>2, <1>3, <1>4, <1>5, <1>6, <1>7, <1>8, <1>9, <1>10, <1>11, <1>12,
     <1>13, <1>14, <1>15, <1>16, <1>17, <1>18, <1>19, <1>20, <1>21, <1>22, <1>23,
     <1>24, <1>25, <1>26, <1>27, <1>28, <1>29, <1>30, <1>31, <1>32, <1>33, <1>34,
     <1>35, <1>36, <1>37, <1>38, <1>39, <1>40, <1>41, <1>42, <1>43, <1>44, <1>45
  DEF Next, Manager, Scanner, World

LEMMA AnswerStep ==
  ASSUME WatchTypes, ~skewed, OpInv, AnswerInv, Calm, [Next]_vars
  PROVE  AnswerInv'
<1>0. TypeOK
  BY DEF WatchTypes
<1>a. ASSUME UNCHANGED <<frames, op, request, link, watching>> PROVE AnswerInv'
  BY <1>a, AnswersStay
<1>b. ASSUME frames = <<>> \/ op = NoOp \/ request # "none", frames' = frames PROVE AnswerInv'
  <2>1. \A i \in DOMAIN frames : frames[i].kind \notin Answers
    BY <1>b DEF AnswerInv, IsAnswer
  <2> QED BY <1>b, <2>1, NoAnswers
<1>c. ASSUME frames' = <<>> PROVE AnswerInv'
  BY <1>c, NoAnswers
<1> USE DEF vars, managerVars, connVars, roundVars, optionVars
<1>1. CASE Connect
  BY <1>1, <1>c DEF Connect, OpInv
<1>2. CASE NoConnection
  BY <1>2, <1>a DEF NoConnection
<1>3. CASE ReadFrame
  <2>1. frames # <<>> /\ frames' = Tail(frames) /\ UNCHANGED <<op, request, link, watching>>
    BY <1>3 DEF ReadFrame
  <2> QED BY <1>0, <2>1, AnswersTail
<1>4. CASE DrainTimesOut
  BY <1>4, <1>a DEF DrainTimesOut
<1>5. CASE DrainFails
  BY <1>5, <1>c DEF DrainFails, DropConnection, MarkError, OpInv
<1>6. CASE SkipReconcile
  BY <1>6, <1>a DEF SkipReconcile
<1>7. CASE Reconcile
  BY <1>7, <1>a DEF Reconcile
<1>8. CASE StopsDone
  BY <1>8, <1>a DEF StopsDone
<1>9. CASE StartsDone
  BY <1>9, <1>a DEF StartsDone
<1>10. ASSUME NEW d \in Devices, StopWatch(d) PROVE AnswerInv'
  BY <1>10, <1>b DEF StopWatch, ApplyOnStop, ApplyPending, WithDirty, Ask, OpInv
<1>11. ASSUME NEW d \in Devices, StopWatchFails(d) PROVE AnswerInv'
  BY <1>11, <1>b DEF StopWatchFails, ApplyOnStop, ApplyPending, WithDirty, Reported, OpInv
<1>12. ASSUME NEW d \in Devices, KeepWatch(d) PROVE AnswerInv'
  BY <1>12, <1>a DEF KeepWatch, Reported
<1>13. ASSUME NEW d \in Devices, StartWatch(d) PROVE AnswerInv'
  BY <1>13, <1>b DEF StartWatch, Ask, OpInv
<1>14. ASSUME NEW d \in Devices, StartWatchFails(d) PROVE AnswerInv'
  BY <1>14, <1>a DEF StartWatchFails, MarkUnavailable
<1>15. ASSUME NEW d \in Devices, ApplyBatch(d) PROVE AnswerInv'
  BY <1>15, <1>a DEF ApplyBatch, ApplyPending, WithDirty
<1>16. ASSUME NEW d \in Devices, ApplyFails(d) PROVE AnswerInv'
  BY <1>16, <1>a DEF ApplyFails, MarkError
<1>17. ASSUME NEW d \in Devices, BeginFlush(d) PROVE AnswerInv'
  BY <1>17, <1>a DEF BeginFlush, OpenTmp
<1>18. ASSUME NEW d \in Devices, NothingToFlush(d) PROVE AnswerInv'
  BY <1>18, <1>a DEF NothingToFlush
<1>19. CASE ReadWhileWaiting
  <2>1. frames # <<>> /\ frames' = Tail(frames) /\ UNCHANGED <<op, request, link, watching>>
    BY <1>19 DEF ReadWhileWaiting
  <2> QED BY <1>0, <2>1, AnswersTail
<1>20. CASE StopAnswered
  <2>1. frames # <<>> /\ frames' = Tail(frames) /\ Head(frames).kind \in Answers
    BY <1>20 DEF StopAnswered, Answered, Answers
  <2> QED BY <1>0, <2>1, AnswerRead
<1>21. CASE StartAnswered
  <2>1. frames # <<>> /\ frames' = Tail(frames) /\ Head(frames).kind \in Answers
    BY <1>21 DEF StartAnswered, Answered, Started, Answers
  <2> QED BY <1>0, <2>1, AnswerRead
<1>22. CASE StartRefused
  <2>1. frames # <<>> /\ frames' = Tail(frames) /\ Head(frames).kind \in Answers
    BY <1>22 DEF StartRefused, Answered, Answers
  <2> QED BY <1>0, <2>1, AnswerRead
<1>23. CASE WaitFails
  BY <1>23, <1>b DEF WaitFails, MarkUnavailable, EndWait
<1>24. CASE BackToRequest
  BY <1>24, <1>a DEF BackToRequest, AppliedAll
<1>25. ASSUME NEW D \in SUBSET dirty, FlushRound(D) PROVE AnswerInv'
  BY <1>25, <1>a DEF FlushRound, AppliedAll
<1>26. CASE WriteFlush
  BY <1>26, <1>a DEF WriteFlush, WriteTmp
<1>27. CASE RenameFlush
  BY <1>27, <1>a DEF RenameFlush, RenameTmp
<1>28. CASE FlushFails
  BY <1>28, <1>a DEF FlushFails, MarkError, FlushError, RenameFails, SaveIoError
<1>29. CASE FlushDone
  BY <1>29, <1>a DEF FlushDone, WithDirty
<1>30. CASE Sleep
  BY <1>30, <1>a DEF Sleep
<1>31. CASE ScannerWatches
  BY <1>31, <1>b DEF ScannerWatches
<1>32. CASE ScannerConfirms
  <2>0. op.dev \in Devices
    BY <1>32, <1>0 DEF ScannerConfirms, WatchTypes, RequestInv, TypeOK
  <2> DEFINE s == <<FrameOf("ok", op.dev)>>
  <2>1. frames' = frames \o s /\ request # "none" /\ request' = "none" /\ UNCHANGED <<op, link>>
    BY <1>32 DEF ScannerConfirms, Answer
  <2>2. s \in Seq(Frame) /\ Len(s) = 1 /\ s[1].kind = "ok"
    BY <2>0, AnswerFrames DEF FrameOf
  <2>3. link = "up" => op.dev \in watching'
    BY <1>32 DEF ScannerConfirms, OpInv
  <2>4. \A i \in 1 .. Len(s) : s[i].kind \in Answers => i = Len(s)
    BY <2>2 DEF Answers
  <2>5. \A i \in 1 .. Len(s) : s[i].kind = "ok" /\ op.kind = "start" /\ link = "up" =>
          op.dev \in watching'
    BY <2>2, <2>3
  <2> HIDE DEF s
  <2> QED BY <1>0, <2>1, <2>2, <2>4, <2>5, AnswerSent
<1>33. CASE ScannerRefuses
  <2>0. op.dev \in Devices
    BY <1>33, <1>0 DEF ScannerRefuses, Refuse, Refusable, TypeOK
  <2> DEFINE s == <<FrameOf("refused", op.dev)>>
  <2>1. frames' = frames \o s /\ request # "none" /\ request' = "none" /\ UNCHANGED <<op, link>>
    BY <1>33 DEF ScannerRefuses, Answer, Refuse
  <2>2. s \in Seq(Frame) /\ Len(s) = 1 /\ s[1].kind = "refused"
    BY <2>0, AnswerFrames DEF FrameOf
  <2>3. op.kind = "start"
    BY <1>33 DEF ScannerRefuses, Refuse
  <2>4. \A i \in 1 .. Len(s) : s[i].kind \in Answers => i = Len(s)
    BY <2>2 DEF Answers
  <2>5. \A i \in 1 .. Len(s) : s[i].kind = "ok" /\ op.kind = "start" /\ link = "up" =>
          op.dev \in watching'
    BY <2>2, <2>3
  <2> HIDE DEF s
  <2> QED BY <1>0, <2>1, <2>2, <2>4, <2>5, AnswerSent
<1>34. CASE ScannerStops
  <2>0. op.dev \in Devices
    BY <1>34, <1>0 DEF ScannerStops, NoOp, TypeOK
  <2> DEFINE s == <<FrameOf("stopped", op.dev), FrameOf("ok", op.dev)>>
  <2>1. frames' = frames \o s /\ request # "none" /\ request' = "none" /\ UNCHANGED <<op, link>>
    BY <1>34 DEF ScannerStops, Answer
  <2>2. s \in Seq(Frame) /\ Len(s) = 2 /\ s[1].kind = "stopped"
    BY <2>0, AnswerFrames DEF FrameOf
  <2>3. op.kind = "stop"
    BY <1>34 DEF ScannerStops
  <2>4. \A i \in 1 .. Len(s) : s[i].kind \in Answers => i = Len(s)
    BY <2>2 DEF Answers
  <2>5. \A i \in 1 .. Len(s) : s[i].kind = "ok" /\ op.kind = "start" /\ link = "up" =>
          op.dev \in watching'
    BY <2>2, <2>3
  <2> HIDE DEF s
  <2> QED BY <1>0, <2>1, <2>2, <2>4, <2>5, AnswerSent
<1>35. CASE LoseFrames
  BY <1>35 DEF LoseFrames, Calm
<1>36. CASE Hangup
  <2>1. link' # "up" /\ UNCHANGED <<frames, op, request>>
    BY <1>36 DEF Hangup
  <2> QED BY <2>1, AnswersStay
<1>37. ASSUME NEW d \in Devices, FileChange(d) PROVE AnswerInv'
  <2>1. UNCHANGED <<op, request, link, watching>>
    BY <1>37 DEF FileChange
  <2>2. CASE UNCHANGED frames
    BY <2>1, <2>2, <1>a
  <2>3. CASE frames' # frames
    <3>1. PICK c \in fs'[d] \ fs[d] : Callback(d, c)
      BY <1>37, <2>3 DEF FileChange
    <3>2. PICK f \in {EventOf(d, c), FrameOf("error", d)} : frames' = Append(frames, f)
      BY <2>3, <3>1 DEF Callback
    <3>3. c \in Changes
      <4>1. PICK x \in Changes \ fs[d] : fs' = [fs EXCEPT ![d] = fs[d] \cup {x}]
        BY <1>37 DEF FileChange, ChangeFile
      <4> QED BY <1>0, <3>1, <4>1 DEF TypeOK, StoreTypeOK
    <3>4. f \in Frame
      BY <3>2, <3>3, FrameOfType
    <3>5. f.kind \notin Answers
      BY <3>2 DEF EventOf, FrameOf, Answers
    <3> QED BY <1>0, <2>1, <3>2, <3>4, <3>5, AnswersAppend
  <2> QED BY <2>2, <2>3
<1>38. ASSUME NEW d \in Devices, KeepsChanging(d) PROVE AnswerInv'
  <2>1. PICK c \in fs[d] : frames' = Append(frames, EventOf(d, c))
    BY <1>38 DEF KeepsChanging
  <2>2. EventOf(d, c) \in Frame /\ EventOf(d, c).kind \notin Answers
    BY <1>0, FrameOfType DEF TypeOK, StoreTypeOK, EventOf, Answers
  <2> QED BY <1>38, <1>0, <2>1, <2>2, AnswersAppend DEF KeepsChanging
<1>39. ASSUME NEW d \in Devices, Rescan(d) PROVE AnswerInv'
  BY <1>39, <1>a DEF Rescan
<1>40. ASSUME NEW d \in Devices, Forget(d) PROVE AnswerInv'
  BY <1>40, <1>a DEF Forget, ForgetWith, DeleteSnapshot
<1>41. ASSUME NEW D \in SUBSET Devices, SetMounted(D) PROVE AnswerInv'
  BY <1>41 DEF SetMounted, Calm
<1>42. ASSUME NEW D \in SUBSET Devices, SetEnabled(D) PROVE AnswerInv'
  BY <1>42, <1>a DEF SetEnabled
<1>43. ASSUME NEW b \in BOOLEAN, SetWatchMounted(b) PROVE AnswerInv'
  BY <1>43, <1>a DEF SetWatchMounted
<1>44. CASE Restart
  BY <1>44, <1>c DEF Restart, OpInv
<1>45. CASE UNCHANGED vars
  BY <1>45, <1>a
<1> QED
  BY <1>1, <1>2, <1>3, <1>4, <1>5, <1>6, <1>7, <1>8, <1>9, <1>10, <1>11, <1>12,
     <1>13, <1>14, <1>15, <1>16, <1>17, <1>18, <1>19, <1>20, <1>21, <1>22, <1>23,
     <1>24, <1>25, <1>26, <1>27, <1>28, <1>29, <1>30, <1>31, <1>32, <1>33, <1>34,
     <1>35, <1>36, <1>37, <1>38, <1>39, <1>40, <1>41, <1>42, <1>43, <1>44, <1>45
  DEF Next, Manager, Scanner, World

LEMMA ShownStep ==
  ASSUME WatchTypes, ~skewed, ActiveInv, OpInv, ShownInv, Calm, [Next]_vars
  PROVE  ShownInv'
<1>0. TypeOK
  BY DEF WatchTypes
<1>s. summary \in [Devices -> Summary \cup {Absent}]
  BY <1>0 DEF TypeOK
<1>a. ASSUME UNCHANGED <<summary, op, active>> PROVE ShownInv'
  BY <1>a DEF ShownInv
\* The watching reports become fewer.
<1>b. ASSUME UNCHANGED <<op, active>>,
             \A d \in Devices : summary'[d] # Absent /\ summary'[d].state = "watching" =>
                summary[d] # Absent /\ summary[d].state = "watching"
      PROVE  ShownInv'
  BY <1>b DEF ShownInv
<1> DEFINE Shown(d) == summary[d] # Absent /\ summary[d].state = "watching"
<1>m. ASSUME NEW D, MarkError(D), NEW d \in Devices
      PROVE  IF d \in D THEN ~Shown(d)' ELSE Shown(d)' = Shown(d)
  BY <1>m DEF MarkError, Reported
<1>u. ASSUME NEW e \in Devices, MarkUnavailable(e), NEW d \in Devices
      PROVE  IF d = e THEN ~Shown(d)' ELSE Shown(d)' = Shown(d)
  BY <1>s, <1>u DEF MarkUnavailable, Reported
<1>d. ASSUME NEW e \in Devices, NEW b \in BOOLEAN, summary' = WithDirty(e, b), NEW d \in Devices
      PROVE  Shown(d)' => Shown(d)
  <2>1. CASE d = e /\ summary[d] # Absent
    <3>1. summary[d] \in Summary /\ summary'[d] = [summary[d] EXCEPT !.dirty = b]
      BY <1>s, <1>d, <2>1 DEF WithDirty
    <3> QED BY <2>1, <3>1 DEF Summary
  <2>2. CASE ~(d = e /\ summary[d] # Absent)
    BY <1>s, <1>d, <2>2 DEF WithDirty
  <2> QED BY <2>1, <2>2
\* ... and the one of a device whose batch has been applied or refused
<1>p. ASSUME NEW e \in Devices, NEW d \in Devices,
             \/ summary' = AppliedReport(e)
             \/ summary' = [summary EXCEPT ![e] = Reported(e, "error")]
      PROVE  Shown(d)' => Shown(d)
  <2>1. CASE summary' = WithDirty(e, TRUE)
    BY <1>d, <2>1
  <2>2. CASE summary' = summary
    BY <2>2
  <2>3. CASE summary' = [summary EXCEPT ![e] = Reported(e, "error")]
    BY <1>s, <2>3 DEF Reported
  <2> QED BY <1>p, <2>1, <2>2, <2>3 DEF AppliedReport
<1>k. ASSUME frames # <<>>, HandleFrame(Head(frames)), NEW d \in Devices
      PROVE  Shown(d)' => Shown(d)
  <2> DEFINE f == Head(frames)
  <2>1. f.dev \in Devices
    BY <1>k, HeadOfFrames DEF Frame
  <2>2. CASE f.kind = "event"
    BY <1>k, <2>2 DEF HandleFrame
  <2>3. CASE f.kind = "error"
    BY <1>k, <1>m, <2>3 DEF HandleFrame
  <2>4. CASE f.kind = "stopped"
    <3>1. summary' = [summary EXCEPT ![f.dev] =
            IF summary[f.dev] = Absent THEN Absent ELSE [summary[f.dev] EXCEPT !.state = "stopped"]]
      BY <1>k, <2>4 DEF HandleFrame
    <3>2. CASE d = f.dev /\ summary[d] # Absent
      <4>1. summary[d] \in Summary /\ summary'[d] = [summary[d] EXCEPT !.state = "stopped"]
        BY <1>s, <3>1, <3>2
      <4>2. summary'[d].state = "stopped"
        BY <4>1 DEF Summary
      <4> QED BY <4>2
    <3>3. CASE ~(d = f.dev /\ summary[d] # Absent)
      BY <1>s, <3>1, <3>3
    <3> QED BY <3>2, <3>3
  <2> QED BY <1>k, <2>2, <2>3, <2>4 DEF HandleFrame
<1> USE DEF vars, managerVars, connVars, roundVars, optionVars
<1>1. CASE Connect
  <2>1. UNCHANGED <<summary, op>> /\ active' = {} /\ link = "none" /\ active = {}
    BY <1>1 DEF Connect, ActiveInv
  <2> QED BY <2>1, <1>a
<1>2. CASE NoConnection
  BY <1>2, <1>a DEF NoConnection
<1>3. CASE ReadFrame
  <2>1. frames # <<>> /\ HandleFrame(Head(frames)) /\ UNCHANGED <<op, active>>
    BY <1>3 DEF ReadFrame
  <2> QED BY <2>1, <1>b, <1>k
<1>4. CASE DrainTimesOut
  BY <1>4, <1>a DEF DrainTimesOut
<1>5. CASE DrainFails
  <2>1. MarkError(active) /\ op = NoOp /\ op' = op /\ active' = {}
    BY <1>5 DEF DrainFails, DropConnection, OpInv
  <2>2. ASSUME NEW d \in Devices PROVE ~Shown(d)'
    BY <2>1, <1>m DEF ShownInv, NoOp
  <2> QED BY <2>2 DEF ShownInv
<1>6. CASE SkipReconcile
  BY <1>6, <1>a DEF SkipReconcile
<1>7. CASE Reconcile
  <2>1. /\ UNCHANGED <<op, active>>
        /\ summary' = [e \in Devices |-> IF e \in Suppressed
                         THEN [state |-> "suppressed", dirty |-> FALSE] ELSE summary[e]]
    BY <1>7 DEF Reconcile
  <2>2. ASSUME NEW d \in Devices PROVE Shown(d)' => Shown(d)
    BY <2>1
  <2> QED BY <2>1, <2>2, <1>b
<1>8. CASE StopsDone
  BY <1>8, <1>a DEF StopsDone
<1>9. CASE StartsDone
  BY <1>9, <1>a DEF StartsDone
<1>10. ASSUME NEW d \in Devices, StopWatch(d) PROVE ShownInv'
  <2>1. op = NoOp /\ op' = [kind |-> "stop", dev |-> d] /\ active' = active \ {d}
    BY <1>10 DEF StopWatch, Ask, OpInv
  <2>2. ASSUME NEW e \in Devices PROVE Shown(e)' => Shown(e)
    BY <1>10, <1>p DEF StopWatch
  <2>3. ASSUME NEW e \in Devices, Shown(e) PROVE e \in active
    BY <2>1, <2>3 DEF ShownInv, NoOp
  <2>4. ASSUME NEW e \in Devices, Shown(e)'
        PROVE  op' = [kind |-> "stop", dev |-> e] \/ e \in active'
    BY <2>1, <2>2, <2>3, <2>4
  <2> QED BY <2>4 DEF ShownInv
<1>11. ASSUME NEW d \in Devices, StopWatchFails(d) PROVE ShownInv'
  <2>1. /\ op = NoOp /\ op' = op /\ active' = active \ {d}
        /\ summary' = [summary EXCEPT ![d] = Absent]
    BY <1>11 DEF StopWatchFails, OpInv
  <2>2. ASSUME NEW e \in Devices PROVE Shown(e)' => e # d /\ Shown(e)
    BY <1>s, <2>1
  <2>3. ASSUME NEW e \in Devices, Shown(e) PROVE e \in active
    BY <2>1, <2>3 DEF ShownInv, NoOp
  <2> QED BY <2>1, <2>2, <2>3 DEF ShownInv
<1>12. ASSUME NEW d \in Devices, KeepWatch(d) PROVE ShownInv'
  <2>1. /\ op' = op /\ active' = active /\ d \in active
        /\ summary' = [summary EXCEPT ![d] = Reported(d, "watching")]
    BY <1>12 DEF KeepWatch
  <2>2. ASSUME NEW e \in Devices, e # d PROVE Shown(e)' = Shown(e)
    BY <1>s, <2>1, <2>2
  <2> QED BY <2>1, <2>2 DEF ShownInv
<1>13. ASSUME NEW d \in Devices, StartWatch(d) PROVE ShownInv'
  <2>1. op = NoOp /\ UNCHANGED <<summary, active>>
    BY <1>13 DEF StartWatch, Ask, OpInv
  <2>2. \A e \in Devices : Shown(e) => e \in active
    BY <2>1 DEF ShownInv, NoOp
  <2> QED BY <2>1, <2>2 DEF ShownInv
<1>14. ASSUME NEW d \in Devices, StartWatchFails(d) PROVE ShownInv'
  <2>1. MarkUnavailable(d) /\ UNCHANGED <<op, active>>
    BY <1>14 DEF StartWatchFails
  <2> QED BY <2>1, <1>b, <1>u
<1>15. ASSUME NEW d \in Devices, ApplyBatch(d) PROVE ShownInv'
  <2>1. UNCHANGED <<op, active>> /\ summary' = AppliedReport(d)
    BY <1>15 DEF ApplyBatch
  <2>2. ASSUME NEW e \in Devices PROVE Shown(e)' => Shown(e)
    BY <2>1, <1>p
  <2> QED BY <2>1, <2>2, <1>b
<1>16. ASSUME NEW d \in Devices, ApplyFails(d) PROVE ShownInv'
  <2>1. UNCHANGED <<op, active>> /\ summary' = [summary EXCEPT ![d] = Reported(d, "error")]
    BY <1>16 DEF ApplyFails
  <2>2. ASSUME NEW e \in Devices PROVE Shown(e)' => Shown(e)
    BY <2>1, <1>p
  <2> QED BY <2>1, <2>2, <1>b
<1>17. ASSUME NEW d \in Devices, BeginFlush(d) PROVE ShownInv'
  BY <1>17, <1>a DEF BeginFlush, OpenTmp
<1>18. ASSUME NEW d \in Devices, NothingToFlush(d) PROVE ShownInv'
  BY <1>18, <1>a DEF NothingToFlush
<1>19. CASE ReadWhileWaiting
  <2>1. frames # <<>> /\ HandleFrame(Head(frames)) /\ UNCHANGED <<op, active>>
    BY <1>19 DEF ReadWhileWaiting, HandleWhileWaiting
  <2> QED BY <2>1, <1>b, <1>k
<1>20. CASE StopAnswered
  <2>1. /\ op' = NoOp /\ active' = active /\ op.kind = "stop" /\ op.dev \in Devices
        /\ summary' = [summary EXCEPT ![op.dev] = Absent]
    BY <1>20, <1>0 DEF StopAnswered, Answered, EndWait, TypeOK, NoOp
  <2>2. ASSUME NEW e \in Devices, Shown(e)' PROVE e # op.dev /\ Shown(e)
    BY <1>s, <2>1, <2>2
  <2> QED BY <2>1, <2>2 DEF ShownInv
<1>21. CASE StartAnswered
  <2>1. /\ op' = NoOp /\ active' = active \cup {op.dev} /\ op.kind = "start" /\ op.dev \in Devices
        /\ summary' = [summary EXCEPT ![op.dev] = [state |-> "watching", dirty |-> FALSE]]
    BY <1>21, <1>0 DEF StartAnswered, Started, Answered, EndWait, TypeOK, NoOp
  <2>2. ASSUME NEW e \in Devices, Shown(e)' PROVE e = op.dev \/ Shown(e)
    BY <1>s, <2>1, <2>2
  <2> QED BY <2>1, <2>2 DEF ShownInv
<1>22. CASE StartRefused
  <2>1. /\ op' = NoOp /\ active' = active /\ op.kind = "start" /\ op.dev \in Devices
        /\ MarkUnavailable(op.dev)
    BY <1>22, <1>0 DEF StartRefused, Answered, EndWait, TypeOK, NoOp
  <2>2. ASSUME NEW e \in Devices, Shown(e)' PROVE Shown(e)
    BY <1>u, <2>1, <2>2
  <2> QED BY <2>1, <2>2 DEF ShownInv
<1>23. CASE WaitFails
  <2>1. op' = NoOp /\ active' = active /\ op.kind \in {"start", "stop"} /\ op.dev \in Devices
    BY <1>23, <1>0 DEF WaitFails, EndWait, TypeOK, NoOp
  <2>2. CASE op.kind = "stop" /\ summary' = [summary EXCEPT ![op.dev] = Absent]
    <3>1. ASSUME NEW e \in Devices, Shown(e)' PROVE e # op.dev /\ Shown(e)
      BY <1>s, <2>1, <2>2, <3>1
    <3> QED BY <2>1, <3>1 DEF ShownInv
  <2>3. CASE op.kind = "start" /\ MarkUnavailable(op.dev)
    <3>1. ASSUME NEW e \in Devices, Shown(e)' PROVE Shown(e)
      BY <1>u, <2>1, <2>3, <3>1
    <3> QED BY <2>1, <2>3, <3>1 DEF ShownInv
  <2> QED BY <1>23, <2>2, <2>3 DEF WaitFails
<1>24. CASE BackToRequest
  BY <1>24, <1>a DEF BackToRequest, AppliedAll
<1>25. ASSUME NEW D \in SUBSET dirty, FlushRound(D) PROVE ShownInv'
  BY <1>25, <1>a DEF FlushRound, AppliedAll
<1>26. CASE WriteFlush
  BY <1>26, <1>a DEF WriteFlush, WriteTmp
<1>27. CASE RenameFlush
  BY <1>27, <1>a DEF RenameFlush, RenameTmp
<1>28. CASE FlushFails
  <2>1. MarkError({flushing}) /\ UNCHANGED <<op, active>>
    BY <1>28 DEF FlushFails, FlushError
  <2> QED BY <2>1, <1>b, <1>m
<1>29. CASE FlushDone
  <2>1. summary' = WithDirty(flushing, FALSE) /\ UNCHANGED <<op, active>>
    BY <1>29 DEF FlushDone
  <2>2. CASE flushing \in Devices
    BY <2>1, <2>2, <1>b, <1>d
  <2>3. CASE flushing \notin Devices
    BY <1>s, <2>1, <2>3, <1>a DEF WithDirty
  <2> QED BY <2>2, <2>3
<1>30. CASE Sleep
  BY <1>30, <1>a DEF Sleep
<1>31. CASE ScannerWatches
  BY <1>31, <1>a DEF ScannerWatches
<1>32. CASE ScannerConfirms
  BY <1>32, <1>a DEF ScannerConfirms, Answer
<1>33. CASE ScannerRefuses
  BY <1>33, <1>a DEF ScannerRefuses, Answer, Refuse
<1>34. CASE ScannerStops
  BY <1>34, <1>a DEF ScannerStops, Answer
<1>35. CASE LoseFrames
  BY <1>35, <1>a DEF LoseFrames
<1>36. CASE Hangup
  BY <1>36, <1>a DEF Hangup
<1>37. ASSUME NEW d \in Devices, FileChange(d) PROVE ShownInv'
  BY <1>37, <1>a DEF FileChange, ChangeFile, Callback
<1>38. ASSUME NEW d \in Devices, KeepsChanging(d) PROVE ShownInv'
  BY <1>38, <1>a DEF KeepsChanging
<1>39. ASSUME NEW d \in Devices, Rescan(d) PROVE ShownInv'
  BY <1>39, <1>a DEF Rescan
<1>40. ASSUME NEW d \in Devices, Forget(d) PROVE ShownInv'
  <2>1. UNCHANGED <<op, active>> /\ summary' = [summary EXCEPT ![d] = Absent]
    BY <1>40 DEF Forget, ForgetWith
  <2>2. ASSUME NEW e \in Devices PROVE Shown(e)' => Shown(e)
    BY <1>s, <2>1
  <2> QED BY <2>1, <2>2, <1>b
<1>41. ASSUME NEW D \in SUBSET Devices, SetMounted(D) PROVE ShownInv'
  BY <1>41, <1>a DEF SetMounted
<1>42. ASSUME NEW D \in SUBSET Devices, SetEnabled(D) PROVE ShownInv'
  BY <1>42, <1>a DEF SetEnabled
<1>43. ASSUME NEW b \in BOOLEAN, SetWatchMounted(b) PROVE ShownInv'
  BY <1>43, <1>a DEF SetWatchMounted
<1>44. CASE Restart
  <2>1. \A e \in Devices : summary'[e] = Absent
    BY <1>44 DEF Restart
  <2> QED BY <2>1 DEF ShownInv
<1>45. CASE UNCHANGED vars
  BY <1>45, <1>a
<1> QED
  BY <1>1, <1>2, <1>3, <1>4, <1>5, <1>6, <1>7, <1>8, <1>9, <1>10, <1>11, <1>12,
     <1>13, <1>14, <1>15, <1>16, <1>17, <1>18, <1>19, <1>20, <1>21, <1>22, <1>23,
     <1>24, <1>25, <1>26, <1>27, <1>28, <1>29, <1>30, <1>31, <1>32, <1>33, <1>34,
     <1>35, <1>36, <1>37, <1>38, <1>39, <1>40, <1>41, <1>42, <1>43, <1>44, <1>45
  DEF Next, Manager, Scanner, World

LEMMA WatchedStep ==
  ASSUME WatchTypes, WatchedInv, [Next]_vars
  PROVE  WatchedInv'
<1>1. events' = events
  BY EventsStay
<1>2. SUFFICES ASSUME Calm PROVE WatchedInv'
  BY <1>1 DEF WatchedInv, Calm
<1>3. ~skewed /\ ActiveInv /\ OpInv /\ AnswerInv /\ ShownInv
  BY <1>2 DEF WatchedInv
<1>4. ~skewed' /\ ActiveInv' /\ OpInv'
  BY <1>2, <1>3, OpStep
<1>5. AnswerInv' /\ ShownInv'
  BY <1>2, <1>3, AnswerStep, ShownStep
<1> QED BY <1>4, <1>5 DEF WatchedInv

\* A device reported as "watching" is watched, whatever is refused, stopped,
\* reconfigured or hangs up: unless the connection has ended or it is being stopped.
THEOREM WatchingHolds == Spec => []WatchingIsWatched
<1> DEFINE All == WatchTypes /\ WatchedInv
<1>1. Init => All
  BY InitLoaded, WatchTypeInit, WatchedInit
<1>2. All /\ [Next]_vars => All'
  BY WatchTypesStep, WatchedStep
<1>3. All => WatchingIsWatched
  BY DEF WatchedInv, Calm, ActiveInv, ShownInv, WatchingIsWatched
<1> QED BY <1>1, <1>2, <1>3, PTL DEF Spec

-----------------------------------------------------------------------------
(* The second part: the whole daemon                                       *)

ScanPcs == Queue!ScanPcs
SavePcs == Queue!SavePcs
BusyPcs == Queue!BusyPcs

JobTypes ==
  /\ job \in [Jobs -> [state : Queue!JobStates, dev : Devices \cup {Absent}]]
  /\ pc \in [Jobs -> Queue!Pcs]
  /\ scanned \in [Jobs -> Index \cup {Absent}]
  /\ carried \in [Jobs -> Sidecar \cup {Absent}]
  /\ rescans \subseteq Devices

\* The part of the agreement of jobs and workers that the store relies on
TableInv ==
  \A j \in Jobs :
    /\ pc[j] \in BusyPcs <=> job[j].state = "Running"
    /\ job[j].state = "Queued" => pc[j] = "waiting"
    /\ pc[j] = "waiting" => job[j].state \in {"Queued", "Cancelled"}
    /\ job[j].state # "none" => job[j].dev \in Devices

IsActive(j) == job[j].state \in {"Queued", "Running"}

\* A device has at most one active job, and no flush beside it.
AloneInv ==
  /\ \A i, j \in Jobs : IsActive(i) /\ IsActive(j) /\ job[i].dev = job[j].dev => i = j
  /\ \A j \in Jobs : IsActive(j) => ~FlushUnderWay(job[j].dev)

\* Only a worker that is saving has a file open: the tmp file of its device.
WriterInv ==
  \A w \in Writers \ {Flusher} : saver[w].phase # "idle" =>
    /\ w \in Jobs
    /\ pc[w] = "saving"
    /\ saver[w].dev = job[w].dev
    /\ saver[w].data = scanned[w]
    /\ saver[w].file = "tmp"
    /\ snapshotTmp[job[w].dev] = IF saver[w].phase = "opened" THEN Torn ELSE scanned[w]

\* A worker holds an index from the read of the device to the publish; a worker
\* that fails holds a sidecar that says so.
HeldInv ==
  \A j \in Jobs :
    /\ pc[j] \in {"built"} \cup SavePcs => scanned[j] # Absent
    /\ scanned[j] # Absent => pc[j] \in {"scanning", "built"} \cup SavePcs
    /\ pc[j] \in {"saveState", "publish"} => snapshot[job[j].dev] = scanned[j]
    /\ pc[j] \in {"failSave", "failPublish"} =>
         carried[j] \in Sidecar /\ carried[j].stale # "none"

\* The new snapshot of d is in place, the index in memory is still the old one.
Publishing(d) == \E j \in Jobs : job[j].dev = d /\ pc[j] \in {"saveState", "publish"}

FilesInv == \A d \in Devices : Publishing(d) \/ Saved(d)

HistoryTypes ==
  /\ since \in [Jobs -> SUBSET Changes]
  /\ late \in [Devices -> SUBSET Changes]

\* The index that a worker holds misses nothing of what a watcher saw but what came
\* after the read.
ReadInv ==
  \A j \in Jobs : scanned[j] # Absent =>
    /\ scanned[j].seen \subseteq fs[job[j].dev]
    /\ noted[job[j].dev] \subseteq scanned[j].seen \cup since[j]

JobInv == JobTypes /\ TableInv /\ AloneInv /\ WriterInv /\ HeldInv /\ FilesInv

DaemonInv ==
  /\ WatchTypes /\ MadeInv /\ FlushInv /\ KeptInv(late)
  /\ JobInv /\ HistoryTypes /\ ReadInv

-----------------------------------------------------------------------------
(* Every step is a step of LiveWatch or of a worker.                       *)

LEMMA LiveStep == [DaemonNext]_daemonVars => [Next]_vars \/ \E j \in Jobs : Worker(j)
<1> SUFFICES ASSUME [DaemonNext]_daemonVars, ~\E j \in Jobs : Worker(j) PROVE [Next]_vars
  OBVIOUS
<1> USE DEF daemonVars, watchOnly, vars, managerVars, connVars, roundVars, optionVars, storeVars,
          queueVars, historyVars, Queue!storeVars
<1>1. ASSUME NEW j \in Jobs, CancelScan(j) PROVE [Next]_vars
  BY <1>1 DEF CancelScan, Queue!CancelScan, Queue!RaiseFlag
<1>2. ASSUME NEW d \in Devices, StartScan(d) \/ StartRescan(d) PROVE [Next]_vars
  BY <1>2 DEF StartScan, StartRescan, Queue!StartScan
<1>3. ASSUME NEW d \in Devices, ForgetIndex(d) PROVE [Next]_vars
  <2>1. Forget(d)
    BY <1>3 DEF ForgetIndex, Queue!Forget, Queue!jobVars, Queue!DeleteSnapshot, Queue!Relinked,
                Forget, ForgetWith, DeleteSnapshot, Relinked
  <2> QED BY <2>1 DEF Next, World
<1>4. ASSUME NEW d \in Devices, FilesChange(d) PROVE [Next]_vars
  BY <1>4 DEF FilesChange, Next, World
<1>5. ASSUME NEW d \in Devices, RescanRefused(d) PROVE [Next]_vars
  BY <1>5 DEF RescanRefused
<1>6. ASSUME NEW D \in SUBSET Devices, ReloadEnabled(D) PROVE [Next]_vars
  <2>1. SetEnabled(D)
    BY <1>6 DEF ReloadEnabled, Queue!ReloadEnabled, SetEnabled
  <2> QED BY <2>1 DEF Next, World
<1>7. CASE PollRescans
  BY <1>7 DEF PollRescans
<1>8. CASE WatchManager \/ ScannerDaemon \/ Fault \/ DaemonRestart
  BY <1>8 DEF WatchManager, ScannerDaemon, Fault, DaemonRestart, Next, World
<1> QED BY <1>1, <1>2, <1>3, <1>4, <1>5, <1>6, <1>7, <1>8 DEF DaemonNext

-----------------------------------------------------------------------------
(* The jobs, at the steps that are not theirs                              *)

\* A job keeps what it has while its device is left alone.
LEMMA JobsKept ==
  ASSUME JobInv, UNCHANGED <<job, pc, scanned, carried>>, rescans' \subseteq Devices,
         \A d \in Devices : Queue!ScanActive(d) =>
           snapshot'[d] = snapshot[d] /\ snapshotTmp'[d] = snapshotTmp[d] /\ ~FlushUnderWay(d)',
         \A w \in Writers \ {Flusher} : saver'[w] = saver[w],
         \A d \in Devices : Saved(d) => Saved(d)'
  PROVE  JobInv'
<1> USE DEF JobInv
<1>a. ASSUME NEW j \in Jobs, IsActive(j)
      PROVE  job[j].dev \in Devices /\ Queue!ScanActive(job[j].dev)
  BY <1>a DEF TableInv, IsActive, Queue!ScanActive, Queue!Active
<1>b. ASSUME NEW j \in Jobs, pc[j] \in BusyPcs PROVE IsActive(j)
  BY <1>b DEF TableInv, IsActive
<1>1. JobTypes' /\ TableInv'
  BY DEF JobTypes, TableInv
<1>2. AloneInv'
  BY <1>a DEF AloneInv, IsActive
<1>3. WriterInv'
  BY <1>a, <1>b DEF WriterInv, BusyPcs, Queue!BusyPcs, Queue!SavePcs
<1>4. HeldInv'
  <2> SUFFICES ASSUME NEW j \in Jobs
               PROVE  /\ pc[j] \in {"built"} \cup SavePcs => scanned[j] # Absent
                      /\ scanned[j] # Absent => pc[j] \in {"scanning", "built"} \cup SavePcs
                      /\ pc[j] \in {"saveState", "publish"} => snapshot'[job[j].dev] = scanned[j]
                      /\ pc[j] \in {"failSave", "failPublish"} =>
                           carried[j] \in Sidecar /\ carried[j].stale # "none"
    BY DEF HeldInv, SavePcs, Queue!SavePcs
  <2>1. pc[j] \in {"scanning", "built"} \cup SavePcs =>
          snapshot'[job[j].dev] = snapshot[job[j].dev]
    BY <1>a, <1>b DEF BusyPcs, SavePcs, Queue!BusyPcs, Queue!ScanPcs, Queue!SavePcs
  <2> QED BY <2>1 DEF HeldInv, SavePcs, Queue!SavePcs
<1>5. FilesInv'
  BY DEF FilesInv, Publishing
<1> QED BY <1>1, <1>2, <1>3, <1>4, <1>5

LEMMA ManagerJobs ==
  ASSUME Overlap \subseteq {"change"}, DaemonInv, Watching, UNCHANGED <<job, pc, scanned, carried>>,
         rescans' \subseteq Devices,
         \A d \in Devices : ~FlushUnderWay(d) /\ FlushUnderWay(d)' => ~Queue!ScanActive(d)
  PROVE  JobInv'
<1> USE DEF DaemonInv, WatchTypes
<1>1. [Next]_vars
  BY DEF Watching, Next, World
<1>2. \A d \in Devices : Saved(d) => Saved(d)'
  BY <1>1, SavedStep
<1>3. ManagerStep
  BY ManagerSteps
<1>4. ASSUME NEW d \in Devices, Queue!ScanActive(d)
      PROVE  ~FlushUnderWay(d) /\ ~FlushUnderWay(d)'
  BY <1>4 DEF JobInv, AloneInv, IsActive, Queue!ScanActive, Queue!Active
<1>5. ASSUME NEW d \in Devices, flushing # d, flushing' # d
      PROVE  snapshot'[d] = snapshot[d] /\ snapshotTmp'[d] = snapshotTmp[d]
  <2> USE <1>5 DEF TypeOK, StoreTypeOK, storeVars, diskVars, memoryVars, managerVars
  <2>1. CASE Elsewhere \/ FlushFails \/ FlushDone
    BY <2>1 DEF Elsewhere, FlushFails, FlushError, RenameFails, SaveIoError, FlushDone
  <2>2. ASSUME NEW e \in Devices, Applied(e) \/ BeginFlush(e) \/ NothingToFlush(e)
        PROVE  snapshot'[d] = snapshot[d] /\ snapshotTmp'[d] = snapshotTmp[d]
    BY <2>2 DEF Applied, BeginFlush, OpenTmp, NothingToFlush
  <2>3. CASE WriteFlush
    BY <2>3 DEF WriteFlush, WriteTmp, FlushInv
  <2>4. CASE RenameFlush
    BY <2>4 DEF RenameFlush, RenameTmp, FlushInv
  <2> QED BY <1>3, <2>1, <2>2, <2>3, <2>4 DEF ManagerStep
<1>6. ASSUME NEW w \in Writers \ {Flusher} PROVE saver'[w] = saver[w]
  <2> USE DEF TypeOK, StoreTypeOK, storeVars, diskVars, memoryVars
  <2>1. CASE Elsewhere \/ FlushFails \/ FlushDone
    BY <2>1 DEF Elsewhere, FlushFails, FlushError, RenameFails, SaveIoError, FlushDone
  <2>2. ASSUME NEW e \in Devices, Applied(e) \/ BeginFlush(e) \/ NothingToFlush(e)
        PROVE  saver'[w] = saver[w]
    BY <2>2 DEF Applied, BeginFlush, OpenTmp, NothingToFlush
  <2>3. CASE WriteFlush
    BY <2>3 DEF WriteFlush, WriteTmp
  <2>4. CASE RenameFlush
    <3>1. saver[Flusher].dev = flushing
      BY <2>4 DEF RenameFlush, FlushInv
    <3>2. saver[w].phase # "idle" => saver[w].dev # flushing
      BY DEF JobInv, WriterInv, AloneInv, TableInv, IsActive, FlushUnderWay, BusyPcs,
             Queue!BusyPcs, Queue!SavePcs
    <3> QED BY <2>4, <3>1, <3>2 DEF RenameFlush, RenameTmp, Relinked
  <2> QED BY <1>3, <2>1, <2>2, <2>3, <2>4 DEF ManagerStep
<1> QED BY <1>2, <1>4, <1>5, <1>6, JobsKept DEF FlushUnderWay

LEMMA FilesChangeJobs ==
  ASSUME Overlap \subseteq {"change"}, DaemonInv, NEW e \in Devices, FilesChange(e)
  PROVE  JobInv'
<1> USE DEF DaemonInv, WatchTypes
<1>1. [Next]_vars
  BY DEF FilesChange, Next, World
<1>2. \A d \in Devices : Saved(d) => Saved(d)'
  BY <1>1, SavedStep
<1>3. /\ UNCHANGED <<job, pc, scanned, carried, rescans, snapshot, snapshotTmp, saver, flushing>>
      /\ rescans \subseteq Devices
  BY DEF FilesChange, FileChange, queueVars, roundVars, JobInv, JobTypes
<1>4. \A d \in Devices : Queue!ScanActive(d) => ~FlushUnderWay(d)
  BY DEF JobInv, AloneInv, IsActive, Queue!ScanActive, Queue!Active
<1> QED BY <1>2, <1>3, <1>4, JobsKept DEF FlushUnderWay

LEMMA ForgetJobs ==
  ASSUME Overlap \subseteq {"change"}, DaemonInv, NEW e \in Devices, ForgetIndex(e)
  PROVE  JobInv'
<1> USE DEF DaemonInv, WatchTypes
<1>1. [Next]_vars
  <2>1. Forget(e)
    BY DEF ForgetIndex, Queue!Forget, Queue!jobVars, Queue!DeleteSnapshot, Queue!Relinked,
           Forget, ForgetWith, DeleteSnapshot, Relinked, optionVars
  <2> QED BY <2>1 DEF Next, World
<1>2. \A d \in Devices : Saved(d) => Saved(d)'
  BY <1>1, SavedStep
<1>3. /\ ~Queue!ScanActive(e)
      /\ UNCHANGED <<job, pc, scanned, carried, rescans, fs, snapshotTmp, flushing>>
      /\ snapshot' = [snapshot EXCEPT ![e] = Absent]
      /\ saver' = Relinked(e, "tmp")
      /\ rescans \subseteq Devices
  BY DEF ForgetIndex, Queue!Forget, Queue!jobVars, Queue!DeleteSnapshot, Queue!Relinked, Relinked,
         roundVars, JobInv, JobTypes
<1>4. \A d \in Devices : d # e => snapshot'[d] = snapshot[d]
  BY <1>3 DEF TypeOK, StoreTypeOK
<1>5. \A d \in Devices : Queue!ScanActive(d) => ~FlushUnderWay(d)
  BY DEF JobInv, AloneInv, IsActive, Queue!ScanActive, Queue!Active
<1>6. \A w \in Writers \ {Flusher} : saver[w].phase # "idle" => saver[w].dev # e
  BY <1>3 DEF JobInv, WriterInv, TableInv, BusyPcs, Queue!BusyPcs, Queue!SavePcs,
              Queue!ScanActive, Queue!Active
<1>7. \A w \in Writers \ {Flusher} : saver'[w] = saver[w]
  BY <1>3, <1>6 DEF Relinked
<1> QED BY <1>2, <1>3, <1>4, <1>5, <1>7, JobsKept DEF FlushUnderWay

LEMMA RestartJobs ==
  ASSUME Overlap \subseteq {"change"}, DaemonInv, DaemonRestart
  PROVE  JobInv'
<1> USE DEF DaemonInv, WatchTypes
<1>1. [Next]_vars
  BY DEF DaemonRestart, Next, World
<1>2. /\ job' = [j \in Jobs |-> [state |-> "none", dev |-> Absent]]
      /\ pc' = [j \in Jobs |-> "none"]
      /\ scanned' = [j \in Jobs |-> Absent]
      /\ carried' = [j \in Jobs |-> Absent]
      /\ rescans' = {}
      /\ saver' = [w \in Writers |-> IdleSaver]
      /\ snapshot' = snapshot /\ indexes' = LoadedIndexes /\ dirty' = {}
  BY DEF DaemonRestart, Restart, Queue!NoJob
<1>3. JobTypes' /\ TableInv' /\ AloneInv'
  BY <1>2 DEF JobTypes, TableInv, AloneInv, IsActive, BusyPcs, Queue!BusyPcs, Queue!ScanPcs,
       Queue!SavePcs, Queue!FailPcs, Queue!Pcs, Queue!JobStates
<1>4. WriterInv' /\ HeldInv'
  BY <1>2 DEF WriterInv, HeldInv, IdleSaver, SavePcs, Queue!SavePcs
<1>5. ASSUME NEW d \in Devices PROVE Saved(d)'
  <2>1. CASE Saved(d)
    BY <1>1, <2>1, SavedStep
  <2>2. CASE Publishing(d)
    <3>1. snapshot[d] # Torn
      BY <2>2, StoreAssumption DEF JobInv, JobTypes, HeldInv, Publishing, SavePcs, Queue!SavePcs
    <3>2. indexes'[d] = snapshot[d]
      BY <1>2, <3>1 DEF LoadedIndexes
    <3> QED BY <1>2, <3>1, <3>2 DEF Saved
  <2> QED BY <2>1, <2>2 DEF JobInv, FilesInv
<1> QED BY <1>3, <1>4, <1>5 DEF JobInv, FilesInv

-----------------------------------------------------------------------------
(* The queue: requests of clients and of the periodic rescan               *)

LEMMA StartJobs ==
  ASSUME Overlap \subseteq {"change"}, DaemonInv, NEW e \in Devices, Queue!StartScan(e), ~FlushUnderWay(e),
         UNCHANGED watchOnly, rescans' \subseteq Devices
  PROVE  JobInv'
<1> USE DEF DaemonInv, JobInv
<1>1. PICK k \in Jobs :
        /\ job[k].state = "none"
        /\ job' = [job EXCEPT ![k] = [state |-> "Queued", dev |-> e]]
        /\ pc' = [pc EXCEPT ![k] = "waiting"]
  BY DEF Queue!StartScan
<1>2. /\ UNCHANGED <<scanned, carried, flushing, storeVars, dirty>>
      /\ ~Queue!ScanActive(e)
  BY DEF Queue!StartScan, Queue!storeVars, storeVars, watchOnly, managerVars, roundVars
<1>3. pc[k] \notin BusyPcs
  BY <1>1 DEF TableInv
<1>4. JobTypes' /\ TableInv'
  BY <1>1, <1>2 DEF JobTypes, TableInv, BusyPcs, Queue!BusyPcs, Queue!ScanPcs,
       Queue!SavePcs, Queue!FailPcs, Queue!Pcs, Queue!JobStates, Queue!Active
<1>5. AloneInv'
  BY <1>1, <1>2 DEF JobTypes, AloneInv, IsActive, FlushUnderWay, Queue!ScanActive, Queue!Active
<1>6. WriterInv'
  BY <1>1, <1>2, <1>3 DEF JobTypes, WriterInv, storeVars, BusyPcs, Queue!BusyPcs, Queue!SavePcs
<1>7. HeldInv'
  BY <1>1, <1>2, <1>3 DEF JobTypes, HeldInv, storeVars, BusyPcs, SavePcs, Queue!BusyPcs,
       Queue!ScanPcs, Queue!SavePcs, Queue!FailPcs
<1>8. FilesInv'
  <2> SUFFICES ASSUME NEW d \in Devices PROVE Publishing(d)' \/ Saved(d)'
    BY DEF FilesInv
  <2>1. CASE Saved(d)
    BY <1>2, <2>1 DEF Saved, storeVars
  <2>2. ASSUME NEW j \in Jobs, job[j].dev = d, pc[j] \in {"saveState", "publish"}
        PROVE  Publishing(d)'
    BY <1>1, <1>3, <2>2 DEF Publishing, JobTypes, BusyPcs, Queue!BusyPcs, Queue!SavePcs
  <2> QED BY <2>1, <2>2 DEF FilesInv, Publishing
<1> QED BY <1>4, <1>5, <1>6, <1>7, <1>8

\* A cancel request ends a job that is queued; the others it leaves alone.
LEMMA CancelJobs ==
  ASSUME DaemonInv, NEW k \in Jobs, CancelScan(k)
  PROVE  JobInv'
<1> USE DEF DaemonInv, JobInv
<1>1. /\ UNCHANGED <<pc, scanned, carried, rescans, flushing, dirty, storeVars>>
      /\ job' = [job EXCEPT ![k].state = IF job[k].state = "Queued" THEN "Cancelled" ELSE job[k].state]
      /\ job[k].state # "none"
  BY DEF CancelScan, Queue!CancelScan, Queue!RaiseFlag, Queue!storeVars, storeVars, watchOnly,
         managerVars, roundVars
<1>2. \A j \in Jobs : /\ job'[j].dev = job[j].dev
                      /\ job'[j].state = job[j].state \/
                         (job[j].state = "Queued" /\ job'[j].state = "Cancelled")
  BY <1>1 DEF JobTypes
<1>3. JobTypes' /\ TableInv'
  BY <1>1, <1>2 DEF JobTypes, TableInv, Queue!JobStates, Queue!Terminal
<1>4. AloneInv'
  BY <1>1, <1>2 DEF AloneInv, IsActive, FlushUnderWay
<1>5. WriterInv' /\ HeldInv'
  BY <1>1, <1>2 DEF WriterInv, HeldInv, storeVars
<1>6. FilesInv'
  BY <1>1, <1>2 DEF FilesInv, Publishing, Saved, storeVars
<1> QED BY <1>3, <1>4, <1>5, <1>6

-----------------------------------------------------------------------------
(* The workers                                                             *)

\* The writers besides the worker at work have other devices.
LEMMA WorkersApart ==
  ASSUME DaemonInv, NEW j \in Jobs, pc[j] \in BusyPcs
  PROVE  /\ job[j].dev \in Devices
         /\ flushing # job[j].dev
         /\ \A i \in Jobs \ {j} : pc[i] \in BusyPcs => job[i].dev # job[j].dev
         /\ \A w \in Writers \ {j} : saver[w].phase # "idle" => saver[w].dev # job[j].dev
<1> USE DEF DaemonInv, JobInv
<1>1. \A i \in Jobs : pc[i] \in BusyPcs => IsActive(i) /\ job[i].dev \in Devices
  BY DEF TableInv, IsActive
<1>2. flushing # job[j].dev
  BY <1>1 DEF AloneInv, FlushUnderWay
<1>3. \A i \in Jobs \ {j} : pc[i] \in BusyPcs => job[i].dev # job[j].dev
  BY <1>1 DEF AloneInv
<1>4. saver[Flusher].phase # "idle" => saver[Flusher].dev # job[j].dev
  BY <1>2 DEF FlushInv
<1>5. ASSUME NEW w \in Writers \ {j, Flusher}, saver[w].phase # "idle"
      PROVE  saver[w].dev # job[j].dev
  BY <1>3, <1>5 DEF WriterInv, BusyPcs, Queue!BusyPcs, Queue!SavePcs
<1> QED BY <1>1, <1>2, <1>3, <1>4, <1>5

\* What ClassifyFailure makes of a sidecar
LEMMA FailureSidecar ==
  ASSUME NEW d \in Devices, sidecar \in [Devices -> Sidecar \cup {Absent}],
         NEW why \in {"scan_cancelled", "scan_failed"}
  PROVE  LET c == [(IF sidecar[d] = Absent THEN Queue!NewSidecar ELSE sidecar[d]) EXCEPT !.stale = why]
         IN  c \in Sidecar /\ c.stale # "none"
<1> DEFINE old == IF sidecar[d] = Absent THEN Queue!NewSidecar ELSE sidecar[d]
<1>1. old \in Sidecar
  BY DEF Queue!NewSidecar, Sidecar, StaleReasons, LiveStates
<1>2. why \in StaleReasons \ {"none"}
  BY DEF StaleReasons
<1> HIDE DEF old
<1>3. [old EXCEPT !.stale = why] = [stale |-> why, live |-> old.live]
  BY <1>1 DEF Sidecar
<1>4. [old EXCEPT !.stale = why] \in Sidecar /\ [old EXCEPT !.stale = why].stale # "none"
  BY <1>1, <1>2, <1>3 DEF Sidecar
<1> QED BY <1>4 DEF old

LEMMA WorkerJobs ==
  ASSUME Overlap \subseteq {"change"}, DaemonInv, NEW j \in Jobs, Worker(j)
  PROVE  JobInv'
<1> USE StoreAssumption, DaemonAssumption
    DEF DaemonInv, WatchTypes, TypeOK, StoreTypeOK, JobInv, JobTypes, TableInv, AloneInv, IsActive,
        WriterInv, HeldInv, FilesInv, Publishing, Saved, FlushUnderWay, storeVars,
        Queue!Goto, ScanPcs, SavePcs, BusyPcs, Queue!Pcs, Queue!BusyPcs, Queue!ScanPcs, Queue!SavePcs,
        Queue!FailPcs, Queue!JobStates, Queue!Active, Queue!Terminal, Queue!storeVars
<1>0. /\ UNCHANGED <<flushing, dirty, rescans>>
  BY DEF Worker, watchOnly, managerVars, roundVars
<1>a. ASSUME pc[j] \in {"scanning", "built"}, pc' = [pc EXCEPT ![j] = "failing"],
             scanned' = [scanned EXCEPT ![j] = Absent], UNCHANGED <<job, carried, storeVars>>
      PROVE  JobInv'
  <2>1. JobTypes'
    BY <1>0, <1>a
  <2>2. TableInv' /\ AloneInv'
    BY <1>0, <1>a
  <2>3. WriterInv'
    BY <1>a
  <2>4. HeldInv'
    BY <1>a
  <2>5. FilesInv'
    BY <1>0, <1>a
  <2> QED BY <2>1, <2>2, <2>3, <2>4, <2>5
<1>1. CASE Queue!CancelledBeforeStart(j)
  BY <1>0, <1>1 DEF Queue!CancelledBeforeStart
<1>2. CASE Queue!AcquireSlot(j)
  BY <1>0, <1>2 DEF Queue!AcquireSlot, Queue!TakeSlot
<1>3. CASE Queue!BeginScan(j)
  <2>1. /\ pc[j] = "starting" /\ pc' \in {[pc EXCEPT ![j] = "scanning"], [pc EXCEPT ![j] = "failing"]}
        /\ UNCHANGED <<job, scanned, carried, storeVars>>
    BY <1>3 DEF Queue!BeginScan
  <2>2. JobTypes'
    BY <1>0, <2>1
  <2>3. TableInv' /\ AloneInv'
    BY <1>0, <2>1
  <2>4. WriterInv'
    BY <2>1
  <2>5. HeldInv'
    BY <2>1
  <2>6. FilesInv'
    BY <1>0, <2>1
  <2> QED BY <2>2, <2>3, <2>4, <2>5, <2>6
<1>4. CASE Queue!ReadDevice(j)
  BY <1>0, <1>4 DEF Queue!ReadDevice, Index
<1>5. CASE Queue!ScanDone(j)
  BY <1>0, <1>5 DEF Queue!ScanDone
<1>6. CASE Queue!ScanFails(j)
  BY <1>a, <1>6 DEF Queue!ScanFails
<1>7. CASE Queue!CheckCancelled(j)
  BY <1>a, <1>7 DEF Queue!CheckCancelled
<1>8. CASE Queue!BeginSave(j)
  <2> DEFINE d == job[j].dev
  <2>1. /\ pc[j] = "built" /\ pc' = [pc EXCEPT ![j] = "saving"]
        /\ saver' = [saver EXCEPT ![j] = [phase |-> "opened", dev |-> d, data |-> scanned[j], file |-> "tmp"]]
        /\ snapshotTmp' = [snapshotTmp EXCEPT ![d] = Torn]
        /\ UNCHANGED <<job, scanned, carried, fs, snapshot, indexes>>
    BY <1>8 DEF Queue!BeginSave, Queue!OpenTmp
  <2>2. /\ d \in Devices
        /\ \A w \in Writers \ {j} : saver[w].phase # "idle" => saver[w].dev # d
    BY <2>1, WorkersApart
  <2>3. JobTypes'
    BY <1>0, <2>1
  <2>4. TableInv' /\ AloneInv'
    BY <1>0, <2>1
  <2>5. WriterInv'
    BY <2>1, <2>2
  <2>6. HeldInv'
    BY <2>1
  <2>7. FilesInv'
    BY <1>0, <2>1
  <2> QED BY <2>3, <2>4, <2>5, <2>6, <2>7
<1>9. CASE Queue!CreateFails(j)
  BY <1>a, <1>9 DEF Queue!CreateFails
<1>10. CASE Queue!WriteSnapshot(j)
  <2> DEFINE d == job[j].dev
  <2>1. /\ pc[j] = "saving" /\ saver[j].phase = "opened" /\ saver[j].dev = d /\ d \in Devices
        /\ saver[j].file = "tmp" /\ saver[j].data = scanned[j] /\ snapshotTmp[d] = Torn
        /\ j \in Writers \ {Flusher}
    BY <1>10 DEF Queue!WriteSnapshot, Queue!WriteTmp
  <2>2. \A w \in Writers \ {j} : saver[w].phase # "idle" => saver[w].dev # d
    BY <2>1, WorkersApart
  <2>3. Queue!Holders(d, "tmp") = {j}
    BY <2>1, <2>2 DEF Queue!Holders
  <2>4. /\ saver' = [saver EXCEPT ![j].phase = "written"]
        /\ snapshotTmp' = [snapshotTmp EXCEPT ![d] = scanned[j]]
        /\ UNCHANGED <<job, pc, scanned, carried, fs, snapshot, indexes>>
    BY <1>10, <2>1, <2>3 DEF Queue!WriteSnapshot, Queue!WriteTmp, Queue!Written, Queue!jobVars
  <2>5. JobTypes' /\ TableInv' /\ AloneInv' /\ HeldInv' /\ FilesInv'
    BY <1>0, <2>4
  <2>6. WriterInv'
    BY <2>1, <2>2, <2>4
  <2> QED BY <2>5, <2>6
<1>11. CASE Queue!RenameSnapshot(j)
  <2> DEFINE d == job[j].dev
  <2>1. /\ pc[j] = "saving" /\ saver[j].phase = "written" /\ saver[j].dev = d /\ d \in Devices
        /\ snapshotTmp[d] = scanned[j] /\ scanned[j] \in Index
        /\ j \in Writers \ {Flusher}
    BY <1>11 DEF Queue!RenameSnapshot, Queue!Renamed, Queue!RenameTmp
  <2>2. /\ \A w \in Writers \ {j} : saver[w].phase # "idle" => saver[w].dev # d
        /\ \A i \in Jobs \ {j} : pc[i] \in BusyPcs => job[i].dev # d
    BY <2>1, WorkersApart
  <2>3. /\ pc' = [pc EXCEPT ![j] = "saveState"]
        /\ snapshot' = [snapshot EXCEPT ![d] = scanned[j]]
        /\ snapshotTmp' = [snapshotTmp EXCEPT ![d] = Absent]
        /\ carried' = [carried EXCEPT ![j] = Queue!FreshSidecar]
        /\ saver' = [Queue!Relinked(d, "snapshot") EXCEPT ![j] = Queue!IdleSaver]
        /\ UNCHANGED <<job, scanned, fs, indexes>>
    BY <1>11, <2>1 DEF Queue!RenameSnapshot, Queue!Renamed, Queue!RenameTmp
  <2>4. /\ \A w \in Writers \ {j} : saver'[w] = saver[w]
        /\ saver'[j].phase = "idle"
    BY <2>1, <2>2, <2>3 DEF Queue!Relinked, Queue!IdleSaver
  <2>a. Queue!FreshSidecar \in Sidecar
    BY DEF Queue!FreshSidecar, Sidecar, StaleReasons, LiveStates
  <2>5. JobTypes'
    BY <1>0, <2>3, <2>a
  <2>b. TableInv'
    BY <2>1, <2>3
  <2>c. AloneInv'
    BY <1>0, <2>3
  <2>6. WriterInv'
    BY <2>1, <2>2, <2>3, <2>4
  <2>7. HeldInv'
    BY <2>1, <2>2, <2>3
  <2>8. FilesInv'
    BY <1>0, <2>1, <2>3
  <2> QED BY <2>5, <2>b, <2>c, <2>6, <2>7, <2>8
<1>12. CASE Queue!SaveFails(j)
  <2>1. /\ pc[j] = "saving" /\ pc' = [pc EXCEPT ![j] = "failing"]
        /\ scanned' = [scanned EXCEPT ![j] = Absent]
        /\ saver' = [saver EXCEPT ![j] = Queue!IdleSaver]
        /\ UNCHANGED <<job, carried, fs, snapshot, snapshotTmp, indexes>>
    BY <1>12 DEF Queue!SaveFails, Queue!RenameFails, Queue!SaveIoError
  <2>2. JobTypes' /\ TableInv' /\ AloneInv'
    BY <1>0, <2>1
  <2>3. WriterInv'
    BY <2>1 DEF Queue!IdleSaver
  <2>4. HeldInv'
    BY <2>1
  <2>5. FilesInv'
    BY <1>0, <2>1
  <2> QED BY <2>2, <2>3, <2>4, <2>5
<1>13. CASE Queue!SaveState(j)
  BY <1>0, <1>13 DEF Queue!SaveState, Queue!diskVars, Queue!memoryVars
<1>14. CASE Queue!PublishIndex(j)
  <2> DEFINE d == job[j].dev
  <2>1. /\ pc[j] = "publish" /\ d \in Devices /\ scanned[j] \in Index /\ snapshot[d] = scanned[j]
        /\ \A i \in Jobs \ {j} : pc[i] \in BusyPcs => job[i].dev # d
    BY <1>14, WorkersApart DEF Queue!PublishIndex, Queue!EndWithIndex
  <2>2. /\ pc' = [pc EXCEPT ![j] = "done"]
        /\ job' = [job EXCEPT ![j].state = "Finished"]
        /\ indexes' = [indexes EXCEPT ![d] = scanned[j]]
        /\ scanned' = [scanned EXCEPT ![j] = Absent]
        /\ carried' = [carried EXCEPT ![j] = Absent]
        /\ UNCHANGED <<fs, snapshot, snapshotTmp, saver>>
    BY <1>14 DEF Queue!PublishIndex, Queue!EndWithIndex, Queue!diskVars
  <2>3. JobTypes'
    BY <1>0, <2>1, <2>2
  <2>a. TableInv' /\ AloneInv'
    BY <1>0, <2>1, <2>2
  <2>4. WriterInv' /\ HeldInv'
    BY <2>1, <2>2
  <2>5. FilesInv'
    <3> SUFFICES ASSUME NEW e \in Devices PROVE Publishing(e)' \/ Saved(e)'
      OBVIOUS
    <3>1. \A i \in Jobs : job'[i].dev = job[i].dev
      BY <2>2
    <3>2. CASE e = d
      BY <1>0, <2>1, <2>2, <3>2
    <3>3. CASE e # d
      BY <1>0, <2>1, <2>2, <3>1, <3>3
    <3> QED BY <3>2, <3>3
  <2> QED BY <2>3, <2>a, <2>4, <2>5
<1>15. CASE Queue!ClassifyFailure(j)
  <2>1. /\ pc[j] = "failing" /\ pc' = [pc EXCEPT ![j] = "failSave"]
        /\ job[j].dev \in Devices
        /\ UNCHANGED <<job, scanned, storeVars>>
    BY <1>15 DEF Queue!ClassifyFailure
  <2>2. PICK c \in Sidecar : c.stale # "none" /\ carried' = [carried EXCEPT ![j] = c]
    <3>1. PICK why \in {"scan_cancelled", "scan_failed"} : carried' = [carried EXCEPT ![j] =
            [(IF sidecar[job[j].dev] = Absent THEN Queue!NewSidecar ELSE sidecar[job[j].dev])
               EXCEPT !.stale = why]]
      BY <1>15 DEF Queue!ClassifyFailure
    <3> DEFINE c == [(IF sidecar[job[j].dev] = Absent THEN Queue!NewSidecar
                      ELSE sidecar[job[j].dev]) EXCEPT !.stale = why]
    <3>2. sidecar \in [Devices -> Sidecar \cup {Absent}] /\ job[j].dev \in Devices
      BY <2>1
    <3>3. c \in Sidecar /\ c.stale # "none"
      BY ONLY FailureSidecar, <3>2, why \in {"scan_cancelled", "scan_failed"}
    <3>4. carried' = [carried EXCEPT ![j] = c]
      BY <3>1
    <3> HIDE DEF c
    <3> QED BY <3>3, <3>4
  <2>3. JobTypes' /\ TableInv' /\ AloneInv'
    BY <1>0, <2>1, <2>2
  <2>4. WriterInv'
    BY <2>1
  <2>5. HeldInv'
    BY <2>1, <2>2
  <2>6. FilesInv'
    BY <1>0, <2>1
  <2> QED BY <2>3, <2>4, <2>5, <2>6
<1>16. CASE Queue!SaveFailure(j)
  <2>1. /\ pc[j] = "failSave" /\ pc' = [pc EXCEPT ![j] = "failPublish"]
        /\ UNCHANGED <<job, scanned, carried, fs, snapshot, snapshotTmp, saver, indexes>>
    BY <1>16 DEF Queue!SaveFailure, Queue!diskVars, Queue!memoryVars
  <2>2. JobTypes' /\ TableInv' /\ AloneInv'
    BY <1>0, <2>1
  <2>3. WriterInv'
    BY <2>1
  <2>4. HeldInv'
    BY <2>1
  <2>5. FilesInv'
    BY <1>0, <2>1
  <2> QED BY <2>2, <2>3, <2>4, <2>5
<1>17. CASE Queue!PublishFailure(j)
  <2>1. /\ pc[j] = "failPublish" /\ pc' = [pc EXCEPT ![j] = "done"]
        /\ job' = [job EXCEPT ![j].state = Queue!EndState(j)]
        /\ carried' = [carried EXCEPT ![j] = Absent]
        /\ UNCHANGED <<scanned, fs, snapshot, snapshotTmp, saver, indexes>>
    BY <1>17 DEF Queue!PublishFailure, Queue!EndWithout, Queue!diskVars
  <2>a. Queue!EndState(j) \in {"Cancelled", "Failed"}
    BY DEF Queue!EndState
  <2>2. JobTypes'
    BY <1>0, <2>1, <2>a
  <2>3. TableInv' /\ AloneInv'
    BY <1>0, <2>1, <2>a
  <2>4. WriterInv'
    BY <2>1
  <2>5. HeldInv'
    BY <2>1
  <2>6. FilesInv'
    BY <1>0, <2>1
  <2> QED BY <2>2, <2>3, <2>4, <2>5, <2>6
<1> QED
  BY <1>1, <1>2, <1>3, <1>4, <1>5, <1>6, <1>7, <1>8, <1>9, <1>10, <1>11, <1>12, <1>13,
     <1>14, <1>15, <1>16, <1>17
  DEF Worker, Queue!Worker

\* What a step of a worker leaves alone, and what it does to its own device.
WorkerFrame(j) ==
  LET d == job[j].dev
  IN  /\ UNCHANGED <<watchOnly, config, fs>>
      /\ \A e \in Devices \ {d} : /\ indexes'[e] = indexes[e] /\ indexStates'[e] = indexStates[e]
                                 /\ snapshot'[e] = snapshot[e] /\ snapshotTmp'[e] = snapshotTmp[e]
      /\ \A w \in Writers \ {j} : saver'[w] = saver[w]

\* What is served and reported changes only where a job ends.
WorkerEffect(j) ==
  LET d == job[j].dev
  IN  \/ UNCHANGED <<indexes, indexStates, late>>
      \/ /\ scanned[j] \in Index
         /\ indexes' = [indexes EXCEPT ![d] = scanned[j]]
         /\ late' = [late EXCEPT ![d] = since[j] \ OnTheWay(d)]
      \/ /\ UNCHANGED <<indexes, late>>
         /\ \E s \in Sidecar : s.stale # "none" /\ indexStates' = [indexStates EXCEPT ![d] = s]

LEMMA WorkerSteps ==
  ASSUME DaemonInv, NEW j \in Jobs, Worker(j)
  PROVE  WorkerFrame(j) /\ WorkerEffect(j) /\ (pc[j] \in BusyPcs \/ UNCHANGED storeVars)
<1> DEFINE d == job[j].dev
<1> USE StoreAssumption
        DEF DaemonInv, WatchTypes, TypeOK, StoreTypeOK, JobInv, JobTypes, WorkerFrame, WorkerEffect,
            Publishes, Queue!Goto, storeVars, Queue!storeVars, Worker,
            BusyPcs, Queue!BusyPcs, Queue!ScanPcs, Queue!SavePcs, Queue!FailPcs
<1>1. CASE Queue!CancelledBeforeStart(j) \/ Queue!AcquireSlot(j) \/ Queue!BeginScan(j)
  BY <1>1 DEF Queue!CancelledBeforeStart, Queue!AcquireSlot, Queue!TakeSlot, Queue!BeginScan
<1>2. CASE Queue!ReadDevice(j) \/ Queue!ScanDone(j) \/ Queue!ScanFails(j)
  BY <1>2 DEF Queue!ReadDevice, Queue!ScanDone, Queue!ScanFails
<1>3. CASE Queue!CheckCancelled(j) \/ Queue!CreateFails(j) \/ Queue!ClassifyFailure(j)
  BY <1>3 DEF Queue!CheckCancelled, Queue!CreateFails, Queue!ClassifyFailure
<1>4. CASE Queue!BeginSave(j)
  BY <1>4 DEF Queue!BeginSave, Queue!OpenTmp
<1>5. CASE Queue!WriteSnapshot(j) \/ Queue!RenameSnapshot(j)
  <2>1. pc[j] = "saving" /\ saver[j].phase # "idle" /\ j \in Writers \ {Flusher}
    BY <1>5, DaemonAssumption
       DEF Queue!WriteSnapshot, Queue!WriteTmp, Queue!RenameSnapshot, Queue!Renamed, Queue!RenameTmp
  <2>2. saver[j].dev = d /\ saver[j].file = "tmp" /\ d \in Devices
    BY <2>1, WorkersApart DEF WriterInv, BusyPcs, Queue!BusyPcs, Queue!SavePcs
  <2>3. \A w \in Writers \ {j} : saver[w].phase # "idle" => saver[w].dev # d
    BY <2>1, WorkersApart DEF BusyPcs, Queue!BusyPcs, Queue!SavePcs
  <2>4. CASE Queue!WriteSnapshot(j)
    BY <2>1, <2>2, <2>4 DEF Queue!WriteSnapshot, Queue!WriteTmp, Queue!jobVars
  <2>5. CASE Queue!RenameSnapshot(j)
    BY <2>1, <2>2, <2>3, <2>5
       DEF Queue!RenameSnapshot, Queue!Renamed, Queue!RenameTmp, Queue!Relinked
  <2> QED BY <1>5, <2>4, <2>5
<1>6. CASE Queue!SaveFails(j)
  BY <1>6 DEF Queue!SaveFails, Queue!RenameFails, Queue!SaveIoError
<1>7. CASE Queue!SaveState(j) \/ Queue!SaveFailure(j)
  BY <1>7 DEF Queue!SaveState, Queue!SaveFailure, Queue!diskVars, Queue!memoryVars
<1>8. CASE Queue!PublishIndex(j)
  BY <1>8 DEF Queue!PublishIndex, Queue!EndWithIndex, Queue!diskVars, HeldInv, SavePcs, Queue!SavePcs
<1>9. CASE Queue!PublishFailure(j)
  BY <1>9 DEF Queue!PublishFailure, Queue!EndWithout, Queue!diskVars, HeldInv
<1> QED
  BY <1>1, <1>2, <1>3, <1>4, <1>5, <1>6, <1>7, <1>8, <1>9 DEF Queue!Worker

\* A worker does not change what the watch manager relies on.
LEMMA WorkerWatch ==
  ASSUME DaemonInv, NEW j \in Jobs, Worker(j)
  PROVE  FlushInv' /\ KeptInv(late)'
<1> USE DEF DaemonInv, WatchTypes
<1> DEFINE d == job[j].dev
<1>1. WorkerFrame(j) /\ WorkerEffect(j) /\ (pc[j] \in BusyPcs \/ UNCHANGED storeVars)
  BY WorkerSteps
<1>2. UNCHANGED <<events, at, link, skewed, frames, watching, flushing, dirty, due, pending, noted, fs>>
  BY <1>1 DEF WorkerFrame, watchOnly, managerVars, connVars, roundVars
<1>3. FlushInv'
  <2>1. CASE UNCHANGED storeVars
    BY <1>2, <2>1, FlushKept DEF storeVars
  <2>2. CASE pc[j] \in BusyPcs
    <3>1. flushing # d /\ Flusher \in Writers \ {j}
      BY <2>2, WorkersApart, WatchAssumption, DaemonAssumption
    <3>2. saver'[Flusher] = saver[Flusher]
      BY <1>1, <3>1 DEF WorkerFrame
    <3>3. flushing \in Devices => /\ indexes'[flushing] = indexes[flushing]
                                  /\ snapshot'[flushing] = snapshot[flushing]
                                  /\ snapshotTmp'[flushing] = snapshotTmp[flushing]
      BY <1>1, <3>1 DEF WorkerFrame
    <3>4. dirty \subseteq Devices
      BY DEF TypeOK
    <3> QED BY <1>2, <3>2, <3>3, <3>4 DEF FlushInv
  <2> QED BY <1>1, <2>1, <2>2
<1>4. ASSUME NEW e \in Devices, Kept(e, late) PROVE Kept(e, late)'
  <2>1. InStream(e)' = InStream(e) /\ ErrorComes(e)' = ErrorComes(e)
    BY <1>2, SameStream
  <2>2. ASSUME indexes'[e] = indexes[e], indexStates'[e] = indexStates[e], late'[e] = late[e]
        PROVE  Kept(e, late)'
    <3>1. Stale(e)' = Stale(e)
      BY <2>2, SameHealth
    <3> QED BY <1>2, <1>4, <2>1, <2>2, <3>1 DEF Kept
  <2>3. CASE /\ e = d /\ scanned[j] \in Index
             /\ indexes' = [indexes EXCEPT ![d] = scanned[j]]
             /\ late' = [late EXCEPT ![d] = since[j] \ OnTheWay(d)]
    <3>1. indexes'[e] = scanned[j] /\ late'[e] = since[j] \ OnTheWay(e)
      BY <2>3 DEF TypeOK, StoreTypeOK, HistoryTypes
    <3>2. noted[e] \subseteq scanned[j].seen \cup since[j]
      BY <2>3, StoreAssumption DEF ReadInv
    <3>3. noted'[e] \ late'[e] \subseteq indexes'[e].seen \cup pending'[e] \cup InStream(e)'
      BY <1>2, <2>1, <3>1, <3>2 DEF OnTheWay
    <3> QED BY <3>3 DEF Kept
  <2>4. ASSUME e = d, NEW s \in Sidecar, s.stale # "none",
               indexStates' = [indexStates EXCEPT ![d] = s]
        PROVE  Kept(e, late)'
    <3>1. indexStates'[e] = s
      BY <2>4 DEF TypeOK, StoreTypeOK
    <3> QED BY <2>4, <3>1, SidecarAssumption DEF Kept, Stale, Health
  <2>5. CASE e # d
    <3>1. late'[e] = late[e]
      BY <1>1, <2>5 DEF WorkerEffect, HistoryTypes
    <3> QED BY <1>1, <2>2, <2>5, <3>1 DEF WorkerFrame
  <2>6. CASE e = d
    BY <1>1, <2>2, <2>3, <2>4, <2>6 DEF WorkerEffect
  <2> QED BY <2>5, <2>6
<1>5. KeptInv(late)'
  <2> SUFFICES ASSUME Undisturbed'
               PROVE  ~skewed' /\ LinkInv' /\ \A e \in Devices : Kept(e, late)'
    BY DEF KeptInv
  <2>1. ~skewed /\ LinkInv /\ \A e \in Devices : Kept(e, late)
    BY <1>2 DEF KeptInv, Undisturbed
  <2> QED BY <1>2, <1>4, <2>1 DEF LinkInv
<1> QED BY <1>3, <1>5

LEMMA WorkerTypes ==
  ASSUME DaemonInv, NEW j \in Jobs, Worker(j)
  PROVE  WatchTypes'
<1> USE DEF DaemonInv, WatchTypes
<1>0. j \in Writers
  BY DaemonAssumption
<1>1. UNCHANGED <<watchOnly, config, fs>>
  BY WorkerSteps DEF WorkerFrame
<1>2. ManagerTypes' /\ SetTypes' /\ EventInv' /\ RequestInv' /\ "enabled" \in DOMAIN config'
  BY <1>1, TypesFlat DEF watchOnly, managerVars, connVars, roundVars, ManagerTypes, SetTypes,
       EventInv, RequestInv
<1>3. StoreTypeOK'
  <2> USE DEF TypeOK, StoreTypeOK, JobInv, JobTypes, storeVars, Queue!storeVars, Worker
  <2>1. CASE UNCHANGED storeVars
    BY <2>1
  <2>2. CASE Queue!BeginSave(j)
    <3>1. job[j].dev \in Devices /\ scanned[j] \in Index
      BY <2>2 DEF Queue!BeginSave, Queue!Goto, TableInv, HeldInv, BusyPcs, Queue!BusyPcs, Queue!ScanPcs,
                 SavePcs, Queue!SavePcs
    <3> QED BY <2>2, <3>1 DEF Queue!BeginSave, Queue!OpenTmp, Saver, SaverPhases, Files
  <2>3. CASE Queue!WriteSnapshot(j)
    BY <1>0, <2>3, WriteTmpType
       DEF Queue!WriteSnapshot, Queue!WriteTmp, Queue!Written, Queue!Holders,
           WriteTmp, Written, Holders, DiskTypeOK
  <2>4. CASE Queue!RenameSnapshot(j)
    BY <1>0, <2>4, RenameTmpType
       DEF Queue!RenameSnapshot, Queue!Renamed, Queue!RenameTmp, Queue!Relinked, Queue!IdleSaver,
           RenameTmp, Relinked, IdleSaver, DiskTypeOK
  <2>5. CASE Queue!SaveFails(j)
    <3>1. /\ saver' = [saver EXCEPT ![j] = Queue!IdleSaver]
          /\ UNCHANGED <<fs, snapshot, snapshotTmp, sidecar, indexes, indexStates>>
      BY <2>5 DEF Queue!SaveFails, Queue!RenameFails, Queue!SaveIoError
    <3>2. Queue!IdleSaver \in Saver
      BY IdleSaverType DEF Queue!IdleSaver, IdleSaver
    <3> QED BY <3>1, <3>2
  <2>6. CASE Queue!SaveState(j) \/ Queue!SaveFailure(j)
    BY <2>6 DEF Queue!SaveState, Queue!SaveFailure, Queue!WriteSidecar, Queue!diskVars, Queue!memoryVars
  <2>7. CASE Queue!PublishIndex(j) \/ Queue!PublishFailure(j)
    BY <2>7 DEF Queue!PublishIndex, Queue!EndWithIndex, Queue!PublishFailure, Queue!EndWithout,
                Queue!diskVars
  <2> QED
    BY <2>1, <2>2, <2>3, <2>4, <2>5, <2>6, <2>7
    DEF Queue!Worker, Queue!CancelledBeforeStart, Queue!AcquireSlot, Queue!TakeSlot, Queue!BeginScan,
        Queue!ReadDevice, Queue!ScanDone, Queue!ScanFails, Queue!CheckCancelled, Queue!CreateFails,
        Queue!ClassifyFailure
<1> QED BY <1>2, <1>3, TypesFlatNext

LEMMA WorkerMade ==
  ASSUME DaemonInv, NEW j \in Jobs, Worker(j)
  PROVE  MadeInv'
<1> DEFINE d == job[j].dev
<1> USE DEF DaemonInv, WatchTypes, JobInv, JobTypes
<1>0. j \in Writers
  BY DaemonAssumption
<1>1. UNCHANGED <<pending, noted, fs>>
  BY WorkerSteps DEF WorkerFrame, watchOnly, managerVars
<1>2. WorkerEffect(j)
  BY WorkerSteps
<1>3. ASSUME UNCHANGED <<snapshot, snapshotTmp>>,
             \A w \in Writers : saver'[w].phase # "idle" => saver'[w] = saver[w]
      PROVE  MadeInv'
  <2>1. \A e \in Devices : indexes'[e] # Absent => indexes'[e].seen \subseteq fs[e]
    BY <1>2, StoreAssumption DEF MadeInv, ReadInv, WorkerEffect, TypeOK, StoreTypeOK
  <2>2. \A w \in Writers : saver'[w].phase # "idle" =>
          /\ saver'[w].dev \in Devices /\ saver'[w].data \in Index
          /\ saver'[w].data.seen \subseteq fs[saver'[w].dev]
    BY <1>3 DEF MadeInv
  <2> QED BY <1>1, <1>3, <2>1, <2>2 DEF MadeInv
<1>4. CASE Queue!BeginSave(j)
  <2>1. /\ scanned[j].seen \subseteq fs[d] /\ d \in Devices /\ scanned[j] \in Index
        /\ saver' = [saver EXCEPT ![j] = [phase |-> "opened", dev |-> d, data |-> scanned[j], file |-> "tmp"]]
        /\ snapshotTmp' = [snapshotTmp EXCEPT ![d] = Torn]
        /\ UNCHANGED <<snapshot, indexes>>
    BY <1>4 DEF Queue!BeginSave, Queue!OpenTmp, Queue!Goto, TableInv, HeldInv, ReadInv, BusyPcs,
               Queue!BusyPcs, Queue!ScanPcs, SavePcs, Queue!SavePcs
  <2> QED BY <1>1, <2>1, StoreAssumption DEF MadeInv, TypeOK, StoreTypeOK
<1>5. CASE Queue!WriteSnapshot(j)
  BY <1>0, <1>1, <1>5, WriteMade
     DEF Queue!WriteSnapshot, Queue!WriteTmp, Queue!Written, Queue!Holders, WriteTmp, Written, Holders
<1>6. CASE Queue!RenameSnapshot(j)
  BY <1>0, <1>1, <1>6, RenameMade
     DEF Queue!RenameSnapshot, Queue!Renamed, Queue!RenameTmp, Queue!Relinked, Queue!IdleSaver,
         RenameTmp, Relinked, IdleSaver
<1>7. CASE Queue!SaveFails(j)
  BY <1>3, <1>7 DEF Queue!SaveFails, Queue!RenameFails, Queue!SaveIoError, Queue!IdleSaver,
                    TypeOK, StoreTypeOK
<1> QED
  BY <1>3, <1>4, <1>5, <1>6, <1>7
  DEF Worker, Queue!Worker, Queue!CancelledBeforeStart, Queue!AcquireSlot, Queue!TakeSlot,
      Queue!BeginScan, Queue!ReadDevice, Queue!ScanDone, Queue!ScanFails, Queue!CheckCancelled,
      Queue!CreateFails, Queue!SaveState, Queue!PublishIndex, Queue!EndWithIndex,
      Queue!ClassifyFailure, Queue!SaveFailure, Queue!PublishFailure, Queue!EndWithout,
      Queue!storeVars, Queue!diskVars, Queue!memoryVars

-----------------------------------------------------------------------------
(* What the workers have read                                              *)

LEMMA WorkerRead ==
  ASSUME DaemonInv, NEW j \in Jobs, Worker(j)
  PROVE  HistoryTypes' /\ ReadInv'
<1> USE DEF DaemonInv, WatchTypes, TypeOK, StoreTypeOK, JobInv, JobTypes, HistoryTypes
<1>1. UNCHANGED <<noted, fs>>
  BY WorkerSteps DEF WorkerFrame, watchOnly
<1>2. /\ since' = [since EXCEPT ![j] = IF scanned'[j] = Absent THEN {} ELSE since[j]]
      /\ late' = late \/ late' = [late EXCEPT ![job[j].dev] = since[j] \ OnTheWay(job[j].dev)]
  BY DEF Worker
<1>3. HistoryTypes'
  BY <1>2
<1>4. \A i \in Jobs : scanned'[i] # Absent => since'[i] = since[i]
  BY <1>2
<1>5. \A i \in Jobs : job'[i].dev = job[i].dev
  <2>1. job' = job \/ \E x : job' = [job EXCEPT ![j].state = x]
    BY DEF Worker, Queue!Worker, Queue!CancelledBeforeStart, Queue!AcquireSlot, Queue!TakeSlot,
           Queue!BeginScan, Queue!ReadDevice, Queue!ScanDone, Queue!ScanFails, Queue!CheckCancelled,
           Queue!BeginSave, Queue!CreateFails, Queue!WriteSnapshot, Queue!RenameSnapshot,
           Queue!Renamed, Queue!SaveFails, Queue!SaveState, Queue!PublishIndex, Queue!EndWithIndex,
           Queue!ClassifyFailure, Queue!SaveFailure, Queue!PublishFailure, Queue!EndWithout,
           Queue!jobVars
  <2> QED BY <2>1
<1>6. \/ scanned' = scanned
      \/ scanned' = [scanned EXCEPT ![j] = Absent]
      \/ scanned' = [scanned EXCEPT ![j] = [seen |-> fs[job[j].dev]]] /\ job[j].dev \in Devices
  BY DEF Worker, Queue!Worker, Queue!CancelledBeforeStart, Queue!AcquireSlot, Queue!TakeSlot,
         Queue!BeginScan, Queue!ReadDevice, Queue!ScanDone, Queue!ScanFails, Queue!CheckCancelled,
         Queue!BeginSave, Queue!CreateFails, Queue!WriteSnapshot, Queue!RenameSnapshot, Queue!Renamed,
         Queue!SaveFails, Queue!SaveState, Queue!PublishIndex, Queue!EndWithIndex,
         Queue!ClassifyFailure, Queue!SaveFailure, Queue!PublishFailure, Queue!EndWithout,
         Queue!jobVars, TableInv, BusyPcs, Queue!BusyPcs, Queue!ScanPcs
<1>7. ASSUME NEW i \in Jobs, scanned'[i] # Absent
      PROVE  /\ scanned'[i].seen \subseteq fs[job[i].dev]
             /\ noted[job[i].dev] \subseteq scanned'[i].seen \cup since[i]
  <2>1. CASE scanned'[i] = scanned[i]
    BY <1>7, <2>1 DEF ReadInv
  <2>2. CASE scanned'[i].seen = fs[job[i].dev] /\ job[i].dev \in Devices
    BY <2>2 DEF MadeInv
  <2> QED BY <1>6, <1>7, <2>1, <2>2
<1> QED BY <1>1, <1>3, <1>4, <1>5, <1>7 DEF ReadInv

\* The steps of the manager and of the scanner daemon note nothing.
LEMMA NothingNoted == Watching => UNCHANGED <<noted, fs>>
<1> SUFFICES ASSUME Watching PROVE UNCHANGED <<noted, fs>>
  OBVIOUS
<1>1. \/ Elsewhere \/ WriteFlush \/ RenameFlush \/ FlushFails \/ FlushDone
      \/ \E d \in Devices : Applied(d) \/ BeginFlush(d) \/ NothingToFlush(d)
  BY ManagerSteps DEF ManagerStep
<1>2. ASSUME Elsewhere \/ \E d \in Devices : Applied(d) PROVE UNCHANGED <<noted, fs>>
  BY <1>2 DEF Elsewhere, Applied
<1>3. ASSUME NEW d \in Devices, BeginFlush(d) \/ NothingToFlush(d) PROVE UNCHANGED <<noted, fs>>
  BY <1>3 DEF BeginFlush, NothingToFlush, storeVars
<1>4. ASSUME WriteFlush \/ RenameFlush \/ FlushFails \/ FlushDone PROVE UNCHANGED <<noted, fs>>
  BY <1>4 DEF WriteFlush, RenameFlush, FlushFails, FlushError, FlushDone
<1> QED BY <1>1, <1>2, <1>3, <1>4

\* While a worker holds an index its job keeps its device, and what is noted of that
\* is added to what came after the read.
LEMMA OthersRead ==
  ASSUME Overlap \subseteq {"change"}, DaemonInv, [DaemonNext]_daemonVars,
         ~\E j \in Jobs : Worker(j)
  PROVE  HistoryTypes' /\ ReadInv'
<1> USE DEF DaemonInv, WatchTypes, TypeOK, StoreTypeOK, JobInv, JobTypes, HistoryTypes
<1>a. ASSUME UNCHANGED <<noted, fs, since, late>>,
             \A i \in Jobs : scanned[i] # Absent => job'[i].dev = job[i].dev,
             UNCHANGED scanned
      PROVE  HistoryTypes' /\ ReadInv'
  BY <1>a DEF ReadInv
<1>b. ASSUME Watching, UNCHANGED <<historyVars, job, scanned>>
      PROVE  HistoryTypes' /\ ReadInv'
  BY <1>a, <1>b, NothingNoted DEF historyVars
<1>1. CASE WatchManager
  BY <1>1, <1>b DEF WatchManager, Watching, queueVars
<1>2. CASE ScannerDaemon
  BY <1>2, <1>b DEF ScannerDaemon, Watching, queueVars
<1>3. CASE Fault
  BY <1>3, <1>b DEF Fault, Watching, queueVars
<1>4. ASSUME NEW D \in SUBSET Devices, ReloadEnabled(D) PROVE HistoryTypes' /\ ReadInv'
  BY <1>4, <1>a DEF ReloadEnabled, Queue!ReloadEnabled, Queue!storeVars, watchOnly, historyVars
<1>5. ASSUME NEW d \in Devices, Queue!StartScan(d), UNCHANGED <<watchOnly, historyVars>>
      PROVE  HistoryTypes' /\ ReadInv'
  <2>1. PICK k \in Jobs : /\ job[k].state = "none"
                          /\ job' = [job EXCEPT ![k] = [state |-> "Queued", dev |-> d]]
    BY <1>5 DEF Queue!StartScan
  <2>2. scanned[k] = Absent
    BY <2>1 DEF TableInv, HeldInv, BusyPcs, SavePcs, Queue!BusyPcs, Queue!ScanPcs, Queue!SavePcs
  <2>3. \A i \in Jobs : scanned[i] # Absent => job'[i].dev = job[i].dev
    BY <2>1, <2>2
  <2> QED BY <1>5, <1>a, <2>3 DEF Queue!StartScan, Queue!storeVars, watchOnly, historyVars
<1>6. ASSUME NEW d \in Devices, StartScan(d) \/ StartRescan(d) PROVE HistoryTypes' /\ ReadInv'
  BY <1>5, <1>6 DEF StartScan, StartRescan
<1>7. ASSUME NEW k \in Jobs, CancelScan(k) PROVE HistoryTypes' /\ ReadInv'
  <2>1. job' = [job EXCEPT ![k].state = IF job[k].state = "Queued" THEN "Cancelled" ELSE job[k].state]
    BY <1>7 DEF CancelScan, Queue!CancelScan, Queue!RaiseFlag
  <2>2. \A i \in Jobs : job'[i].dev = job[i].dev
    BY <2>1
  <2> QED BY <1>7, <1>a, <2>2 DEF CancelScan, Queue!CancelScan, Queue!RaiseFlag, Queue!storeVars,
                                  watchOnly, historyVars
<1>8. ASSUME NEW d \in Devices, ForgetIndex(d) PROVE HistoryTypes' /\ ReadInv'
  BY <1>8, <1>a DEF ForgetIndex, Queue!Forget, Queue!jobVars, historyVars
<1>9. ASSUME NEW d \in Devices, RescanRefused(d) PROVE HistoryTypes' /\ ReadInv'
  BY <1>9, <1>a DEF RescanRefused, queueVars, watchOnly, storeVars, historyVars
<1>10. CASE PollRescans
  BY <1>10, <1>a DEF PollRescans, queueVars, watchOnly, storeVars, historyVars
<1>11. CASE UNCHANGED daemonVars
  BY <1>11, <1>a DEF daemonVars, queueVars, watchOnly, storeVars, historyVars
<1>12. CASE DaemonRestart
  BY <1>12, StoreAssumption DEF DaemonRestart, ReadInv
<1>13. ASSUME NEW d \in Devices, FilesChange(d) PROVE HistoryTypes' /\ ReadInv'
  <2>1. PICK c \in Changes \ fs[d] : fs' = [fs EXCEPT ![d] = fs[d] \cup {c}]
    BY <1>13 DEF FilesChange, FileChange, ChangeFile
  <2>2. fs'[d] \ fs[d] = {c} /\ \A e \in Devices : fs[e] \subseteq fs'[e]
    BY <2>1
  <2>3. /\ UNCHANGED <<job, scanned, late>>
        /\ since' = [j \in Jobs |-> IF job[j].dev = d /\ scanned[j] # Absent
                                    THEN since[j] \cup {c} ELSE since[j]]
    BY <1>13, <2>2 DEF FilesChange, queueVars
  <2>4. noted' = noted \/ noted' = [noted EXCEPT ![d] = noted[d] \cup {c}]
    BY <1>13, <2>2 DEF FilesChange, FileChange
  <2>5. HistoryTypes'
    BY <2>1, <2>3
  <2>6. ASSUME NEW j \in Jobs, scanned[j] # Absent
        PROVE  /\ scanned[j].seen \subseteq fs'[job[j].dev]
               /\ noted'[job[j].dev] \subseteq scanned[j].seen \cup since'[j]
    <3>1. job[j].dev \in Devices
      BY <2>6 DEF TableInv, HeldInv, BusyPcs, SavePcs, Queue!BusyPcs, Queue!ScanPcs, Queue!SavePcs
    <3>2. /\ scanned[j].seen \subseteq fs[job[j].dev]
          /\ noted[job[j].dev] \subseteq scanned[j].seen \cup since[j]
      BY <2>6 DEF ReadInv
    <3>3. since'[j] = IF job[j].dev = d THEN since[j] \cup {c} ELSE since[j]
      BY <2>3, <2>6
    <3>4. noted'[job[j].dev] \subseteq noted[job[j].dev] \cup (IF job[j].dev = d THEN {c} ELSE {})
      BY <2>4, <3>1
    <3> QED BY <2>2, <3>1, <3>2, <3>3, <3>4
  <2> QED BY <2>3, <2>5, <2>6 DEF ReadInv
<1> QED
  BY <1>1, <1>2, <1>3, <1>4, <1>6, <1>7, <1>8, <1>9, <1>10, <1>11, <1>12, <1>13
  DEF DaemonNext

-----------------------------------------------------------------------------
(* The daemon                                                              *)

LEMMA DaemonStart == DaemonInit => DaemonInv
<1> SUFFICES ASSUME DaemonInit PROVE DaemonInv
  OBVIOUS
<1>1. Loaded
  BY DEF DaemonInit, Loaded
<1>2. WatchTypes /\ MadeInv /\ FlushInv /\ SavedInv
  BY <1>1, WatchTypeInit, MadeInit, FlushInit
<1>3. /\ \A j \in Jobs : /\ job[j] = [state |-> "none", dev |-> Absent]
                         /\ pc[j] = "none" /\ scanned[j] = Absent
      /\ job \in [Jobs -> {[state |-> "none", dev |-> Absent]}]
      /\ pc \in [Jobs -> {"none"}]
      /\ scanned \in [Jobs -> {Absent}]
      /\ carried \in [Jobs -> {Absent}]
      /\ rescans = {}
  BY DEF DaemonInit, Queue!JobsInit, Queue!NoJob
<1>4. JobTypes
  BY <1>3 DEF JobTypes, Queue!JobStates, Queue!Pcs
<1>5. TableInv /\ AloneInv
  BY <1>3 DEF TableInv, AloneInv, IsActive, BusyPcs, Queue!BusyPcs, Queue!ScanPcs, Queue!SavePcs,
              Queue!FailPcs
<1>6. WriterInv /\ FilesInv
  BY <1>2 DEF SavedInv, WriterInv, FilesInv
<1>7. HeldInv
  BY <1>3 DEF HeldInv, SavePcs, Queue!SavePcs
<1>8. KeptInv(late)
  BY <1>1, KeptInit
<1>9. HistoryTypes /\ ReadInv
  BY <1>3 DEF DaemonInit, HistoryTypes, ReadInv
<1> QED BY <1>2, <1>4, <1>5, <1>6, <1>7, <1>8, <1>9 DEF DaemonInv, JobInv

\* What is excused changes only where a worker publishes, and with a restart.
LEMMA OthersKept ==
  ASSUME DaemonInv, [DaemonNext]_daemonVars, ~\E j \in Jobs : Worker(j)
  PROVE  KeptInv(late)'
<1> USE DEF DaemonInv
<1>1. PICK L : L = late
  OBVIOUS
<1>2. KeptInv(L)
  BY <1>1 DEF KeptInv, Kept
<1>3. KeptInv(L)'
  BY <1>2, LiveStep, KeptInvStep
<1>4. CASE DaemonRestart
  <2>1. \A d \in Devices : noted'[d] = {}
    BY <1>4 DEF DaemonRestart, Restart
  <2> QED BY <1>3, <2>1 DEF KeptInv, Kept
<1>5. CASE late' = late
  BY <1>1, <1>3, <1>5 DEF KeptInv, Kept
<1>6. late' = late \/ DaemonRestart
  BY DEF DaemonNext, CancelScan, StartScan, ForgetIndex, FilesChange, StartRescan, RescanRefused,
         ReloadEnabled, PollRescans, WatchManager, ScannerDaemon, Fault, historyVars, daemonVars
<1> QED BY <1>4, <1>5, <1>6

LEMMA DaemonJobs ==
  ASSUME Overlap \subseteq {"change"}, DaemonInv, [DaemonNext]_daemonVars, ~\E j \in Jobs : Worker(j)
  PROVE  JobInv'
<1>1. rescans \subseteq Devices
  BY DEF DaemonInv, JobInv, JobTypes
<1>2. ASSUME Watching, UNCHANGED <<job, pc, scanned, carried, rescans, flushing>> PROVE JobInv'
  BY <1>1, <1>2, ManagerJobs DEF FlushUnderWay
<1>3. CASE WatchManager
  <2>1. Watching /\ UNCHANGED <<job, pc, scanned, carried, rescans>>
    BY <1>3 DEF WatchManager, Watching, queueVars
  <2>2. \A d \in Devices : ~FlushUnderWay(d) /\ FlushUnderWay(d)' => ~Queue!ScanActive(d)
    BY <1>3 DEF WatchManager, Apart
  <2> QED BY <1>1, <2>1, <2>2, ManagerJobs
<1>4. CASE ScannerDaemon
  BY <1>2, <1>4 DEF ScannerDaemon, Scanner, ScannerWatches, ScannerConfirms, ScannerRefuses, Refuse,
     ScannerStops, Answer, Watching, queueVars, roundVars
<1>5. CASE Fault
  <2>1. UNCHANGED <<flushing, job, pc, scanned, carried, rescans>>
    BY <1>5 DEF Fault, Hangup, SetMounted, SetWatchMounted, queueVars, managerVars, roundVars
  <2> QED BY <1>2, <1>5, <2>1 DEF Fault, Watching
<1>6. ASSUME NEW D \in SUBSET Devices, ReloadEnabled(D) PROVE JobInv'
  <2>1. SetEnabled(D)
    BY <1>6 DEF ReloadEnabled, Queue!ReloadEnabled, Queue!storeVars, SetEnabled, watchOnly, storeVars
  <2> QED BY <1>2, <1>6, <2>1 DEF ReloadEnabled, Queue!ReloadEnabled, Watching, SetEnabled,
                                  managerVars, roundVars
<1>7. ASSUME NEW d \in Devices, StartScan(d) PROVE JobInv'
  BY <1>1, <1>7, StartJobs DEF StartScan
<1>8. ASSUME NEW d \in Devices, StartRescan(d) PROVE JobInv'
  BY <1>1, <1>8, StartJobs DEF StartRescan
<1>9. ASSUME NEW D \in SUBSET Devices, rescans' = D, UNCHANGED <<queueVars, watchOnly, config, storeVars>>
      PROVE  JobInv'
  <2>1. Watching /\ UNCHANGED <<job, pc, scanned, carried, flushing>>
    BY <1>9 DEF Watching, queueVars, watchOnly, vars, managerVars, optionVars, roundVars
  <2> QED BY <1>9, <2>1, ManagerJobs DEF FlushUnderWay
<1>10. ASSUME NEW d \in Devices, RescanRefused(d) PROVE JobInv'
  BY <1>1, <1>9, <1>10 DEF RescanRefused
<1>11. CASE PollRescans
  <2>1. config.enabled \subseteq Devices
    BY DEF DaemonInv, WatchTypes, TypeOK
  <2> QED BY <1>9, <1>11, <2>1 DEF PollRescans, RescanCandidates
<1>12. CASE UNCHANGED daemonVars
  BY <1>1, <1>9, <1>12 DEF daemonVars
<1> QED
  BY <1>3, <1>4, <1>5, <1>6, <1>7, <1>8, <1>10, <1>11, <1>12,
     CancelJobs, ForgetJobs, FilesChangeJobs, RestartJobs
  DEF DaemonNext

THEOREM DaemonInductive == ASSUME Overlap \subseteq {"change"} PROVE DaemonSpec => []DaemonInv
<1>1. ASSUME DaemonInv, [DaemonNext]_daemonVars PROVE DaemonInv'
  <2> USE <1>1 DEF DaemonInv
  <2>1. CASE \E j \in Jobs : Worker(j)
    BY <2>1, WorkerJobs, WorkerWatch, WorkerTypes, WorkerMade, WorkerRead
  <2>2. CASE ~\E j \in Jobs : Worker(j)
    <3>1. [Next]_vars
      BY <2>2, LiveStep
    <3>2. OthersApart
      BY DEF JobInv, WriterInv, AloneInv, TableInv, IsActive, FlushUnderWay, OthersApart, BusyPcs,
             Queue!BusyPcs, Queue!SavePcs
    <3>3. WatchTypes' /\ MadeInv' /\ FlushInv'
      BY <3>1, <3>2, WatchTypesStep, MadeStep, FlushStep DEF WatchTypes
    <3>4. KeptInv(late)' /\ HistoryTypes' /\ ReadInv'
      BY <2>2, OthersKept, OthersRead
    <3> QED BY <2>2, <3>3, <3>4, DaemonJobs
  <2> QED BY <2>1, <2>2
<1> QED BY <1>1, DaemonStart, PTL DEF DaemonSpec

\* Files change, and changes are applied, while a scan of their device is under way.
\* Whatever the scan publishes then, whatever fails, is cancelled, stops or starts
\* again: a change that a watcher has seen is served, on its way, or the index is
\* reported as stale - but for those that were made after the scan had read the
\* device and had been applied before it was published.
THEOREM ChangesKeptHolds == ASSUME Overlap \subseteq {"change"} PROVE DaemonSpec => []ChangesKept
<1>1. DaemonInv => ChangesKept
  BY DEF DaemonInv, KeptInv, Undisturbed, Kept, ChangesKept, OnTheWay
<1> QED BY <1>1, DaemonInductive, PTL

\* A file that both workers and the manager save can be loaded at every moment.
THEOREM DaemonLoadable == ASSUME Overlap \subseteq {"change"} PROVE DaemonSpec => []SnapshotLoadable
<1>1. DaemonInv => SnapshotLoadable
  BY StoreAssumption
  DEF DaemonInv, JobInv, JobTypes, FilesInv, Publishing, Saved, HeldInv, SavePcs, Queue!SavePcs,
      SnapshotLoadable, Queue!SnapshotLoadable
<1> QED BY <1>1, DaemonInductive, PTL

\* What is served is what a start would load, unless a worker or a flush is about
\* to say otherwise.
THEOREM DaemonServesSaved == ASSUME Overlap \subseteq {"change"} PROVE DaemonSpec => []ServedIsSaved
<1>1. DaemonInv => ServedIsSaved
  BY DEF DaemonInv, JobInv, FilesInv, Publishing, Saved, ServedIsSaved, Queue!Finishing, Queue!SavePcs
<1> QED BY <1>1, DaemonInductive, PTL

=============================================================================
