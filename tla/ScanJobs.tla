------------------------------ MODULE ScanJobs ------------------------------
(***************************************************************************)
(* The scan job queue of oxidexd: start_scan_job, cancel_scan_job, the     *)
(* worker thread of every job (run_scan_worker and what it calls), and     *)
(* index.forget, over the index store.  One action is one critical section *)
(* of the state lock, or one stretch of code between two of them; the file *)
(* operations of a worker run outside the lock.                            *)
(***************************************************************************)
EXTENDS IndexStore

CONSTANTS
  Jobs,       \* the jobs that one run of the daemon may accept (a bound)
  Limits,     \* the values indexing.max_parallel_scans may be given
  Overlap,    \* the requests clients may make for a device while one of its
              \* jobs is active: nothing in the daemon refuses either
  IoErrors    \* may the file system refuse a write or a delete?

ASSUME JobsAssumption ==
  /\ IsFiniteSet(Jobs)
  /\ Jobs \subseteq Writers
  /\ Limits # {}
  /\ Limits \subseteq Nat \ {0}     \* validate_config refuses zero
  /\ Overlap \subseteq {"scan", "forget"}
  /\ IoErrors \in BOOLEAN

VARIABLES
  job,          \* job[j]: the state and the device in the job table
  cancelFlag,   \* cancelFlag[j]: the ScanCancellation shared with the worker
  pc,           \* pc[j]: where the worker thread of j is
  scanned,      \* scanned[j]: the index the worker holds
  carried,      \* carried[j]: the sidecar the worker holds
  outcome,      \* outcome[j]: how finish_daemon_job_failed classified the end
  config        \* the configuration: parallel-scan limit, enabled devices

jobVars == <<job, cancelFlag, pc, scanned, carried, outcome, config>>
vars    == <<jobVars, storeVars>>

-----------------------------------------------------------------------------
(* Values *)

Terminal  == {"Finished", "Failed", "Cancelled"}
Active    == {"Queued", "Running"}
JobStates == {"none"} \cup Active \cup Terminal

\* The worker holds a slot from wait_for_scan_slot to the end of the job.
ScanPcs   == {"starting", "scanning", "built"}
SavePcs   == {"saving", "saveState", "publish"}
FailPcs   == {"failing", "failSave", "failPublish"}
BusyPcs   == ScanPcs \cup SavePcs \cup FailPcs
Pcs       == {"none", "waiting", "done"} \cup BusyPcs

NoJob == [state |-> "none", dev |-> Absent]

TypeOK ==
  /\ StoreTypeOK
  /\ job \in [Jobs -> [state : JobStates, dev : Devices \cup {Absent}]]
  /\ cancelFlag \in [Jobs -> BOOLEAN]
  /\ pc \in [Jobs -> Pcs]
  /\ scanned \in [Jobs -> Index \cup {Absent}]
  /\ carried \in [Jobs -> Sidecar \cup {Absent}]
  /\ outcome \in [Jobs -> {"none", "cancelled", "failed"}]
  /\ config \in [limit : Limits, enabled : SUBSET Devices]

JobsInit ==
  /\ job = [j \in Jobs |-> NoJob]
  /\ cancelFlag = [j \in Jobs |-> FALSE]
  /\ pc = [j \in Jobs |-> "none"]
  /\ scanned = [j \in Jobs |-> Absent]
  /\ carried = [j \in Jobs |-> Absent]
  /\ outcome = [j \in Jobs |-> "none"]

Init ==
  /\ StoreInit
  /\ JobsInit
  /\ config \in [limit : Limits, enabled : {Devices}]

\* scan_job_active_for_device
ScanActive(d) == \E j \in Jobs : job[j].dev = d /\ job[j].state \in Active

Running == {j \in Jobs : job[j].state = "Running"}
Busy    == {j \in Jobs : pc[j] \in BusyPcs}

Goto(j, from, to) == pc[j] = from /\ pc' = [pc EXCEPT ![j] = to]

-----------------------------------------------------------------------------
(* Requests of clients and of the periodic rescan *)

\* start_scan_job: a new Queued job and its worker thread.
StartScan(d) ==
  /\ "scan" \in Overlap \/ ~ScanActive(d)
  /\ d \in config.enabled
  /\ \E j \in Jobs :
       /\ job[j].state = "none"
       /\ job' = [job EXCEPT ![j] = [state |-> "Queued", dev |-> d]]
       /\ pc' = [pc EXCEPT ![j] = "waiting"]
  /\ UNCHANGED <<cancelFlag, scanned, carried, outcome, config, storeVars>>

\* cancel_scan_job: any job of the table; the worker sees the flag later.
RaiseFlag(j, ended) ==
  /\ job[j].state # "none"
  /\ cancelFlag' = [cancelFlag EXCEPT ![j] = TRUE]
  /\ job' = [job EXCEPT ![j].state = IF @ \in ended THEN "Cancelled" ELSE @]
  /\ UNCHANGED <<pc, scanned, carried, outcome, config, storeVars>>

\* Mutant: a running job is marked Cancelled at once, before its worker has ended.
CancelScanAtOnce(j) == RaiseFlag(j, Active)

\* Only a Queued job is ended here.
CancelScan(j) == RaiseFlag(j, {"Queued"})

\* Mutant: config.set takes a limit of zero as well (validate_config is not asked).
SetLimitUnvalidated(n) ==
  /\ config' = [config EXCEPT !.limit = n - 1]
  /\ UNCHANGED <<job, cancelFlag, pc, scanned, carried, outcome, storeVars>>

\* config.set indexing.max_parallel_scans
SetLimit(n) ==
  /\ config' = [config EXCEPT !.limit = n]
  /\ UNCHANGED <<job, cancelFlag, pc, scanned, carried, outcome, storeVars>>

\* config.reload of a file in which a device was enabled or disabled
ReloadEnabled(D) ==
  /\ config' = [config EXCEPT !.enabled = D]
  /\ UNCHANGED <<job, cancelFlag, pc, scanned, carried, outcome, storeVars>>

\* index.forget: the entry leaves memory first; if a delete fails the handler
\* returns early and keeps the sidecar entry.  Jobs are not touched.
Forget(d) ==
  /\ "forget" \in Overlap \/ ~ScanActive(d)
  /\ indexes' = [indexes EXCEPT ![d] = Absent]
  /\ DeleteSnapshot(d)
  /\ sidecar' = [sidecar EXCEPT ![d] = Absent]
  /\ indexStates' = [indexStates EXCEPT ![d] = Absent]
  /\ UNCHANGED <<fs, jobVars>>

ForgetFails(d) ==
  /\ IoErrors
  /\ "forget" \in Overlap \/ ~ScanActive(d)
  /\ indexes' = [indexes EXCEPT ![d] = Absent]
  /\ \/ UNCHANGED <<snapshot, saver>> /\ snapshot[d] # Absent
     \/ DeleteSnapshot(d) /\ sidecar[d] # Absent
  /\ UNCHANGED <<fs, snapshotTmp, sidecar, indexStates, jobVars>>

-----------------------------------------------------------------------------
(* wait_for_scan_slot: polled until one of the two applies *)

CancelledBeforeStart(j) ==
  /\ Goto(j, "waiting", "done")
  /\ job[j].state = "Cancelled" \/ cancelFlag[j]
  /\ job' = [job EXCEPT ![j].state = "Cancelled"]
  /\ UNCHANGED <<cancelFlag, scanned, carried, outcome, config, storeVars>>

TakeSlot(j) ==
  /\ Goto(j, "waiting", "starting")
  /\ job' = [job EXCEPT ![j].state = "Running"]
  /\ UNCHANGED <<cancelFlag, scanned, carried, outcome, config, storeVars>>

\* Mutant: one worker too many.
AcquireSlotOffByOne(j) ==
  /\ job[j].state # "Cancelled" /\ ~cancelFlag[j]
  /\ Cardinality(Running) <= config.limit
  /\ TakeSlot(j)

\* Mutant: the poll does not look at the cancellation before it takes a slot.
AcquireSlotThoughCancelled(j) == Cardinality(Running) < config.limit /\ TakeSlot(j)

AcquireSlot(j) ==
  /\ job[j].state # "Cancelled" /\ ~cancelFlag[j]
  /\ Cardinality(Running) < config.limit
  /\ TakeSlot(j)

(* scan_and_index_device, with the configuration as it is after the slot *)

BeginScan(j) ==
  /\ IF job[j].dev \in config.enabled
     THEN Goto(j, "starting", "scanning")
     ELSE Goto(j, "starting", "failing")
  /\ UNCHANGED <<job, cancelFlag, scanned, carried, outcome, config, storeVars>>

\* The scanner daemon reads the device at one moment of the scan.
ReadDevice(j) ==
  /\ pc[j] = "scanning"
  /\ scanned[j] = Absent
  /\ scanned' = [scanned EXCEPT ![j] = [seen |-> fs[job[j].dev]]]
  /\ UNCHANGED <<job, cancelFlag, pc, carried, outcome, config, storeVars>>

\* The result arrives and the index is built and filtered.
ScanDone(j) ==
  /\ Goto(j, "scanning", "built")
  /\ scanned[j] # Absent
  /\ UNCHANGED <<job, cancelFlag, scanned, carried, outcome, config, storeVars>>

\* Any error on the way, "scan cancelled" when the poll sees the flag included.
ScanFails(j) ==
  /\ Goto(j, "scanning", "failing")
  /\ scanned' = [scanned EXCEPT ![j] = Absent]
  /\ UNCHANGED <<job, cancelFlag, carried, outcome, config, storeVars>>

-----------------------------------------------------------------------------
(* finish_daemon_job_success *)

\* The flag is read once; a later cancel request changes nothing.
CheckCancelled(j) ==
  /\ pc[j] = "built" /\ cancelFlag[j]
  /\ pc' = [pc EXCEPT ![j] = "failing"]
  /\ scanned' = [scanned EXCEPT ![j] = Absent]
  /\ UNCHANGED <<job, cancelFlag, carried, outcome, config, storeVars>>

BeginSave(j) ==
  /\ Goto(j, "built", "saving") /\ ~cancelFlag[j]
  /\ OpenTmp(j, job[j].dev, scanned[j])
  /\ UNCHANGED <<job, cancelFlag, scanned, carried, outcome, config,
                 fs, sidecar, indexes, indexStates>>

\* The directory or the tmp file cannot be created.
CreateFails(j) ==
  /\ IoErrors
  /\ Goto(j, "built", "failing") /\ ~cancelFlag[j]
  /\ scanned' = [scanned EXCEPT ![j] = Absent]
  /\ UNCHANGED <<job, cancelFlag, carried, outcome, config, storeVars>>

WriteSnapshot(j) ==
  /\ pc[j] = "saving"
  /\ WriteTmp(j)
  /\ UNCHANGED <<jobVars, fs, sidecar, indexes, indexStates>>

Renamed(j, next) ==
  /\ Goto(j, "saving", next)
  /\ RenameTmp(j)
  /\ carried' = [carried EXCEPT ![j] = FreshSidecar]
  /\ UNCHANGED <<job, cancelFlag, scanned, outcome, config,
                 fs, sidecar, indexes, indexStates>>

\* Mutant: the cancel flag is looked at once more, after the snapshot is in place.
RenameSnapshotThenCheck(j) ==
  Renamed(j, IF cancelFlag[j] THEN "failing" ELSE "saveState")

RenameSnapshot(j) == Renamed(j, "saveState")

SaveFails(j) ==
  /\ Goto(j, "saving", "failing")
  /\ RenameFails(j) \/ (IoErrors /\ SaveIoError(j))
  /\ scanned' = [scanned EXCEPT ![j] = Absent]
  /\ UNCHANGED <<job, cancelFlag, carried, outcome, config,
                 fs, sidecar, indexes, indexStates>>

\* save_index_state: an error is ignored.
WriteSidecar(j) ==
  \/ sidecar' = [sidecar EXCEPT ![job[j].dev] = carried[j]]
  \/ IoErrors /\ UNCHANGED sidecar

SaveState(j) ==
  /\ Goto(j, "saveState", "publish")
  /\ WriteSidecar(j)
  /\ UNCHANGED <<job, cancelFlag, scanned, carried, outcome, config,
                 fs, diskVars, memoryVars>>

\* Under the lock: index, sidecar and job become visible together.
EndWithIndex(j, end) ==
  LET d == job[j].dev
  IN  /\ Goto(j, "publish", "done")
      /\ indexes' = [indexes EXCEPT ![d] = scanned[j]]
      /\ indexStates' = [indexStates EXCEPT ![d] = carried[j]]
      /\ job' = [job EXCEPT ![j].state = end]
      /\ scanned' = [scanned EXCEPT ![j] = Absent]
      /\ carried' = [carried EXCEPT ![j] = Absent]
      /\ UNCHANGED <<cancelFlag, outcome, config, fs, diskVars, sidecar>>

\* Mutant: the index is published although the job is reported as cancelled.
PublishThoughCancelled(j) ==
  EndWithIndex(j, IF cancelFlag[j] THEN "Cancelled" ELSE "Finished")

PublishIndex(j) == EndWithIndex(j, "Finished")

-----------------------------------------------------------------------------
(* finish_daemon_job_failed *)

\* The flag and the sidecar on disk are read without the lock.
ClassifyFailure(j) ==
  LET old == sidecar[job[j].dev]
      end == IF cancelFlag[j] THEN "cancelled" ELSE "failed"
      why == IF cancelFlag[j] THEN "scan_cancelled" ELSE "scan_failed"
  IN  /\ Goto(j, "failing", "failSave")
      /\ outcome' = [outcome EXCEPT ![j] = end]
      /\ carried' = [carried EXCEPT
           ![j] = [(IF old = Absent THEN NewSidecar ELSE old) EXCEPT !.stale = why]]
      /\ UNCHANGED <<job, cancelFlag, scanned, config, storeVars>>

SaveFailure(j) ==
  /\ Goto(j, "failSave", "failPublish")
  /\ WriteSidecar(j)
  /\ UNCHANGED <<job, cancelFlag, scanned, carried, outcome, config,
                 fs, diskVars, memoryVars>>

EndWithout(j, end, entry) ==
  /\ Goto(j, "failPublish", "done")
  /\ indexStates' = [indexStates EXCEPT ![job[j].dev] = entry]
  /\ job' = [job EXCEPT ![j].state = end]
  /\ carried' = [carried EXCEPT ![j] = Absent]
  /\ outcome' = [outcome EXCEPT ![j] = "none"]
  /\ UNCHANGED <<cancelFlag, scanned, config, fs, diskVars, sidecar, indexes>>

EndState(j) == IF outcome[j] = "cancelled" THEN "Cancelled" ELSE "Failed"

\* Mutant: an entry that is already in memory is kept.
PublishFailureKeepingEntry(j) ==
  EndWithout(j, EndState(j), IF indexStates[job[j].dev] = Absent
                             THEN carried[j] ELSE indexStates[job[j].dev])

\* Mutant: the cancel flag is read a second time for the job's final state.
PublishFailureRereadingFlag(j) ==
  EndWithout(j, IF cancelFlag[j] THEN "Cancelled" ELSE "Failed", carried[j])

\* Mutant: a cancelled worker leaves its job as it is.
PublishFailureOnlyFailed(j) ==
  EndWithout(j, IF outcome[j] = "cancelled" THEN job[j].state ELSE "Failed", carried[j])

PublishFailure(j) == EndWithout(j, EndState(j), carried[j])

-----------------------------------------------------------------------------
(* The process and the world *)

\* The daemon dies at any point and is started again: DaemonState::load.
Restart ==
  /\ job' = [j \in Jobs |-> NoJob]
  /\ cancelFlag' = [j \in Jobs |-> FALSE]
  /\ pc' = [j \in Jobs |-> "none"]
  /\ scanned' = [j \in Jobs |-> Absent]
  /\ carried' = [j \in Jobs |-> Absent]
  /\ outcome' = [j \in Jobs |-> "none"]
  /\ indexes' = LoadedIndexes
  /\ \E denied \in SUBSET SetupErrors : LoadSidecars(denied, IoErrors)
  /\ saver' = [w \in Writers |-> IdleSaver]
  /\ UNCHANGED <<config, fs, snapshot, snapshotTmp>>

FileChange(d) ==
  /\ ChangeFile(d)
  /\ UNCHANGED <<jobVars, snapshot, snapshotTmp, sidecar, indexes, indexStates, saver>>

Worker(j) ==
  \/ CancelledBeforeStart(j) \/ AcquireSlot(j)
  \/ BeginScan(j) \/ ReadDevice(j) \/ ScanDone(j) \/ ScanFails(j)
  \/ CheckCancelled(j) \/ BeginSave(j) \/ CreateFails(j) \/ WriteSnapshot(j) \/ RenameSnapshot(j)
  \/ SaveFails(j) \/ SaveState(j) \/ PublishIndex(j)
  \/ ClassifyFailure(j) \/ SaveFailure(j) \/ PublishFailure(j)

Client ==
  \/ \E d \in Devices : StartScan(d) \/ Forget(d) \/ ForgetFails(d)
  \/ \E j \in Jobs : CancelScan(j)
  \/ \E n \in Limits : SetLimit(n)
  \/ \E D \in SUBSET Devices : ReloadEnabled(D)

Next ==
  \/ Client
  \/ \E j \in Jobs : Worker(j)
  \/ \E d \in Devices : FileChange(d)
  \/ Restart

\* A worker thread is scheduled, and the scanner daemon answers it.
Fairness == \A j \in Jobs : WF_vars(Worker(j))

Spec     == Init /\ [][Next]_vars
FairSpec == Spec /\ Fairness

-----------------------------------------------------------------------------
(* Invariants *)

\* The job table and the worker threads tell the same story: a job is Running
\* exactly while its worker holds a slot, so counting Running jobs under the
\* lock (wait_for_scan_slot) counts the workers at work; a worker that still
\* polls has a job that is Queued, or was cancelled with its flag raised; and a
\* terminal job has no worker that will still touch the store.
JobMatchesWorker ==
  \A j \in Jobs :
    /\ job[j].state = "none" <=> pc[j] = "none"
    /\ job[j].state = "Running" <=> pc[j] \in BusyPcs
    /\ job[j].state = "Queued" => pc[j] = "waiting" /\ ~cancelFlag[j]
    /\ pc[j] = "waiting" /\ job[j].state = "Cancelled" => cancelFlag[j]
    /\ pc[j] = "waiting" => job[j].state \in {"Queued", "Cancelled"}
    /\ pc[j] = "done" => job[j].state \in Terminal

\* No more workers are at work than some value of max_parallel_scans allowed,
\* whatever is cancelled, reconfigured or failing.  With one value in Limits
\* this is the bound itself.
SlotBound == \E n \in Limits : Cardinality(Busy) <= n

\* The file under the snapshot name can always be loaded, at every instant and
\* so after a crash at any instant: save_index writes beside it and renames.
SnapshotLoadable == \A d \in Devices : snapshot[d] # Torn

\* A worker that has passed the last look at the cancel flag, or that has
\* begun to report a failure, and has not yet published.
Finishing(d) == \E j \in Jobs : job[j].dev = d /\ pc[j] \in SavePcs \cup FailPcs

\* While no job of the device is being finished, the files hold what is served
\* from memory, so that a restart changes neither the index ...
SnapshotMatchesServed ==
  \A d \in Devices : ~Finishing(d) => snapshot[d] = indexes[d]

\* ... nor what is known of its health.
SidecarMatchesMemory ==
  \A d \in Devices : ~Finishing(d) => sidecar[d] = indexStates[d]

-----------------------------------------------------------------------------
(* Action properties *)

\* A worker takes a slot only if, with it, the workers at work stay within the
\* limit configured at that moment.
SlotGrant ==
  [][\A j \in Jobs : j \notin Busy /\ j \in Busy' =>
        Cardinality(Busy') <= config.limit]_vars

\* A job that has ended stays as it ended: no cancel request, late worker or
\* second report changes Finished, Failed or Cancelled into something else
\* (only a restart empties the table).
TerminalFinal ==
  [][\A j \in Jobs : job[j].state \in Terminal =>
        job'[j] \in {job[j], NoJob}]_vars

\* What is served changes only when a job of the device goes from Running to
\* Finished, when it is forgotten, or when the daemon loads its files: a failed
\* or cancelled scan leaves the results alone.
ServedOnlyByFinishedJob ==
  [][\A d \in Devices : indexes'[d] # indexes[d] =>
        \/ \E j \in Jobs : /\ job[j] = [state |-> "Running", dev |-> d]
                           /\ job'[j].state = "Finished"
        \/ indexes'[d] = Absent /\ (Forget(d) \/ ForgetFails(d))
        \/ Restart]_vars

\* "Existing search results stay available while the scan job runs": a served
\* index disappears only when it is forgotten; a failing scan, a failing write
\* or a crash at any point of a save does not lose it.
ResultsStay ==
  [][\A d \in Devices : indexes[d] # Absent /\ indexes'[d] = Absent =>
        Forget(d) \/ ForgetFails(d)]_vars

\* When a job that ran ends, the sidecar in memory and the one on disk both
\* say how: no stale reason after success, scan_cancelled after a cancelled
\* job, scan_failed after a failed one.
OutcomeRecorded ==
  [][\A j \in Jobs : job[j].state = "Running" /\ job'[j].state \in Terminal =>
        LET d == job[j].dev
        IN  /\ indexStates'[d] = sidecar'[d]
            /\ indexStates'[d].stale = CASE job'[j].state = "Finished"  -> "none"
                                         [] job'[j].state = "Failed"    -> "scan_failed"
                                         [] job'[j].state = "Cancelled" -> "scan_cancelled"
     ]_vars

-----------------------------------------------------------------------------
(* Liveness *)

\* Every accepted job comes to an end (or the daemon is restarted), however
\* many other jobs wait for a slot.
JobEnds == \A j \in Jobs : job[j].state \in Active ~> job[j].state \notin Active

\* The index store as its users see it (module IndexService).
Service == INSTANCE IndexService WITH served <- indexes
ServiceSpec == Service!Spec

=============================================================================
