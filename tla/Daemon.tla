------------------------------- MODULE Daemon -------------------------------
(***************************************************************************)
(* oxidexd as a whole: the live watch manager (LiveWatch), the job queue   *)
(* with its workers (ScanJobs) and the periodic rescan, over one index     *)
(* store and one configuration.                                            *)
(***************************************************************************)
EXTENDS LiveWatch

CONSTANTS
  Jobs, Limits, IoErrors       \* of ScanJobs

\* Overlap is here what may meet an active job of the same device:
\* scan:   a second job                     forget: index.forget
\* flush:  a flush of live changes          change: changes of files that the
\*                                                  watcher reports
\* The daemon keeps none of them apart.  The manager is a thread of its own.
ASSUME DaemonAssumption ==
  /\ Overlap \subseteq {"scan", "forget", "flush", "change"}
  /\ Jobs \subseteq Writers \ {Flusher}

VARIABLES
  job, cancelFlag, pc, scanned, carried, outcome,   \* of ScanJobs
  rescans,  \* candidates of the periodic rescan that are not started yet
  since,    \* history: since[j]: the changes made since the worker of j read its device
  late      \* history: late[d]: of the scan published last, the changes made since it
            \* read the device that were not on their way any more when it was published

Queue == INSTANCE ScanJobs WITH Overlap <- Overlap \cap {"scan", "forget"}

queueVars   == <<job, cancelFlag, pc, scanned, carried, outcome>>
historyVars == <<since, late>>
watchOnly   == <<events, managerVars, watchMounted, mounted, noted>>
daemonVars  == <<queueVars, watchOnly, config, rescans, storeVars, historyVars>>

DaemonTypeOK ==
  /\ Queue!TypeOK
  /\ TypeOK
  /\ rescans \subseteq Devices
  /\ since \in [Jobs -> SUBSET Changes]
  /\ late \in [Devices -> SUBSET Changes]

DaemonInit ==
  /\ events \in Scenarios
  /\ ManagerInit
  /\ Queue!JobsInit
  /\ rescans = {}
  /\ since = [j \in Jobs |-> {}]
  /\ late = [d \in Devices |-> {}]
  /\ config \in [limit : Limits, enabled : {Devices}]
  /\ StoreLoaded

-----------------------------------------------------------------------------
(* The threads of the other modules *)

\* Only what Overlap names meets a job that is active.
Apart(d, what) == what \in Overlap \/ ~Queue!ScanActive(d)

\* Changes that the manager has still to apply
OnTheWay(d) == pending[d] \cup InStream(d)

Publishes(j) == pc[j] = "publish" /\ pc'[j] = "done"

Worker(j) ==
  /\ Queue!Worker(j)
  /\ since' = [since EXCEPT ![j] = IF scanned'[j] = Absent THEN {} ELSE @]
  /\ late' = IF Publishes(j)
             THEN [late EXCEPT ![job[j].dev] = since[j] \ OnTheWay(job[j].dev)]
             ELSE late
  /\ UNCHANGED <<watchOnly, rescans>>

\* Mutant: what is pending is dropped, because the scan is going to find it.
StartScanAnew(d) ==
  /\ "flush" \in Overlap \/ ~FlushUnderWay(d)
  /\ Queue!StartScan(d)
  /\ pending' = [pending EXCEPT ![d] = {}]
  /\ UNCHANGED <<events, at, connVars, roundVars, dirty, summary, watchMounted, mounted,
                 noted, rescans, historyVars>>

StartScan(d) ==
  /\ "flush" \in Overlap \/ ~FlushUnderWay(d)
  /\ Queue!StartScan(d)
  /\ UNCHANGED <<watchOnly, rescans, historyVars>>

CancelScan(j) == Queue!CancelScan(j) /\ UNCHANGED <<watchOnly, rescans, historyVars>>

WatchManager ==
  /\ Manager
  /\ \A d \in Devices : ~FlushUnderWay(d) /\ FlushUnderWay(d)' => Apart(d, "flush")
  /\ UNCHANGED <<queueVars, rescans, historyVars>>

ScannerDaemon == Scanner /\ UNCHANGED <<queueVars, rescans, historyVars>>

FilesChange(d) ==
  /\ Apart(d, "change")
  /\ FileChange(d)
  /\ since' = [j \in Jobs |-> IF job[j].dev = d /\ scanned[j] # Absent
                             THEN since[j] \cup (fs'[d] \ fs[d]) ELSE since[j]]
  /\ UNCHANGED <<queueVars, rescans, late>>

Fault ==
  /\ \/ Hangup
     \/ \E D \in SUBSET Devices : SetMounted(D)
     \/ \E b \in BOOLEAN : SetWatchMounted(b)
  /\ UNCHANGED <<queueVars, rescans, historyVars>>

\* config.reload; both threads read the configuration under the lock.
ReloadEnabled(D) ==
  /\ "options" \in events
  /\ Queue!ReloadEnabled(D)
  /\ UNCHANGED <<watchOnly, rescans, historyVars>>

\* index.forget also removes the report of the watch.
ForgetIndex(d) ==
  /\ "forget" \in events
  /\ "forget" \in Overlap \/ ~FlushUnderWay(d)
  /\ Queue!Forget(d)
  /\ summary' = [summary EXCEPT ![d] = Absent]
  /\ UNCHANGED <<events, at, connVars, roundVars, pending, dirty, watchMounted,
                 mounted, noted, rescans, historyVars>>

DaemonRestart ==
  /\ Restart
  /\ job' = [j \in Jobs |-> Queue!NoJob]
  /\ cancelFlag' = [j \in Jobs |-> FALSE]
  /\ pc' = [j \in Jobs |-> "none"]
  /\ scanned' = [j \in Jobs |-> Absent]
  /\ carried' = [j \in Jobs |-> Absent]
  /\ outcome' = [j \in Jobs |-> "none"]
  /\ rescans' = {}
  /\ since' = [j \in Jobs |-> {}]
  /\ late' = [d \in Devices |-> {}]

-----------------------------------------------------------------------------
(* The periodic rescan *)

\* device_is_actively_watched
Watched(d) == summary[d] # Absent /\ summary[d].state = "watching"

\* periodic_rescan_candidates_from_state, for the devices whose time has come
RescanCandidates ==
  {d \in config.enabled : /\ indexes[d] # Absent
                          /\ ~Queue!ScanActive(d)
                          /\ ~(watchMounted /\ Watched(d))}

\* One look under the lock ...
PollRescans ==
  /\ rescans = {}
  /\ rescans' \in SUBSET RescanCandidates
  /\ UNCHANGED <<queueVars, watchOnly, config, storeVars, historyVars>>

\* ... then one job after the other, each under the lock again.
StartRescan(d) ==
  /\ d \in rescans
  /\ rescans' = rescans \ {d}
  /\ "flush" \in Overlap \/ ~FlushUnderWay(d)
  /\ Queue!StartScan(d)
  /\ UNCHANGED <<watchOnly, historyVars>>

\* start_scan_job refuses: the device has been disabled meanwhile.
RescanRefused(d) ==
  /\ d \in rescans \ config.enabled
  /\ rescans' = rescans \ {d}
  /\ UNCHANGED <<queueVars, watchOnly, config, storeVars, historyVars>>

-----------------------------------------------------------------------------
DaemonNext ==
  \/ \E j \in Jobs : Worker(j) \/ CancelScan(j)
  \/ \E d \in Devices : StartScan(d) \/ ForgetIndex(d) \/ FilesChange(d)
                        \/ StartRescan(d) \/ RescanRefused(d)
  \/ \E D \in SUBSET Devices : ReloadEnabled(D)
  \/ PollRescans \/ WatchManager \/ ScannerDaemon \/ Fault \/ DaemonRestart

DaemonSpec == DaemonInit /\ [][DaemonNext]_daemonVars

-----------------------------------------------------------------------------
(* Properties *)

\* A scan puts what it has read in the place of what is served, although files
\* change, and changes are applied, while it is under way.  Of the changes that a
\* watcher saw it can lose only those that were made after it had read the device
\* and applied before it was published: any other one is served, pending or in the
\* stream, or the index is reported as stale.
ChangesKept ==
  events \cap {"overflow", "skew", "denied"} = {} =>
    \A d \in Devices :
      \/ indexes[d] = Absent \/ Stale(d) \/ ErrorComes(d) \/ skewed
      \/ noted[d] \ late[d] \subseteq indexes[d].seen \cup OnTheWay(d)

\* The file under the snapshot name can always be loaded.
SnapshotLoadable == Queue!SnapshotLoadable

\* While nobody is about to write or publish, what is served is what a restart
\* would load, unless a flush is still to come.
ServedIsSaved ==
  \A d \in Devices :
    d \notin dirty /\ ~FlushUnderWay(d) /\ ~Queue!Finishing(d) => snapshot[d] = indexes[d]

\* "periodic_rescan_skips_watched_and_active_jobs" (oxidex-daemon/src/main.rs:2533):
\* the periodic rescan starts no job for a device that has an active one.
RescanSkipsActive ==
  [][\A d \in Devices : StartRescan(d) => ~Queue!ScanActive(d)]_daemonVars

=============================================================================
