--------------------------- MODULE ScanJobsProofs ---------------------------
(***************************************************************************)
(* What TLAPS proves of the scan job queue, for every set of devices,      *)
(* changes, jobs and limits.                                               *)
(*                                                                         *)
(* 1. For every mix of requests in Overlap and of file errors: the types,  *)
(* the agreement of the job table with the worker threads, the bound on    *)
(* the workers at work, and what no step may do to a job that has ended or *)
(* to an index that is served.                                             *)
(*                                                                         *)
(* 2. For clients that have at most one job of a device active and do not  *)
(* forget a device while it has one (Overlap = {}), with file errors: what *)
(* is on disk can be loaded, and the queue implements IndexService.        *)
(*                                                                         *)
(* 3. For the same clients without file errors: what is on disk is what is *)
(* known in memory, of the index and of its health, and what was forgotten *)
(* stays forgotten (MCForget).                                             *)
(***************************************************************************)
EXTENDS MCForget, IndexStoreProofs, FiniteSetTheorems

-----------------------------------------------------------------------------
(* The inductive invariant: types, the agreement of the job table with the *)
(* worker threads, and two facts that StartScan relies on: an unused job   *)
(* has no cancel request pending, and a used one names a known device.     *)

UnusedIsClean == \A j \in Jobs : job[j].state = "none" => ~cancelFlag[j]

HasDevice == \A j \in Jobs : job[j].state # "none" => job[j].dev \in Devices

TableInv == JobMatchesWorker /\ UnusedIsClean /\ HasDevice

IInv == TypeOK /\ TableInv

-----------------------------------------------------------------------------
(* Types.                                                                  *)

LEMMA WriteSidecarType ==
  ASSUME TypeOK, NEW j \in Jobs, WriteSidecar(j)
  PROVE  sidecar' \in [Devices -> Sidecar \cup {Absent}]
<1>1. carried[j] \in Sidecar \cup {Absent}
  BY DEF TypeOK
<1> QED BY <1>1 DEF TypeOK, StoreTypeOK, WriteSidecar

LEMMA TypeInit == Init => TypeOK
BY StoreAssumption, JobsAssumption, IdleSaverType
   DEF Init, StoreInit, JobsInit, TypeOK, StoreTypeOK, NoJob, JobStates, Pcs

LEMMA TypeStep == IInv /\ [Next]_vars => TypeOK'
<1> SUFFICES ASSUME IInv, [Next]_vars PROVE TypeOK'
  OBVIOUS
<1> USE StoreAssumption, JobsAssumption
    DEF IInv, TypeOK, StoreTypeOK, TableInv, HasDevice, JobMatchesWorker,
        storeVars, jobVars, Goto, Pcs, BusyPcs, ScanPcs, SavePcs, FailPcs,
        JobStates, Active, Terminal
<1>1. ASSUME NEW d \in Devices, StartScan(d) PROVE TypeOK'
  BY <1>1 DEF StartScan
<1>2. ASSUME NEW d \in Devices, Forget(d) PROVE TypeOK'
  BY <1>2, RelinkedType DEF Forget, DeleteSnapshot, Files
<1>3. ASSUME NEW d \in Devices, ForgetFails(d) PROVE TypeOK'
  BY <1>3, RelinkedType DEF ForgetFails, DeleteSnapshot, Files
<1>4. ASSUME NEW j \in Jobs, CancelScan(j) PROVE TypeOK'
  BY <1>4 DEF CancelScan, RaiseFlag
<1>5. ASSUME NEW n \in Limits, SetLimit(n) PROVE TypeOK'
  BY <1>5 DEF SetLimit
<1>6. ASSUME NEW D \in SUBSET Devices, ReloadEnabled(D) PROVE TypeOK'
  BY <1>6 DEF ReloadEnabled
<1>7. ASSUME NEW j \in Jobs, CancelledBeforeStart(j) PROVE TypeOK'
  BY <1>7 DEF CancelledBeforeStart
<1>8. ASSUME NEW j \in Jobs, AcquireSlot(j) PROVE TypeOK'
  BY <1>8 DEF AcquireSlot, TakeSlot
<1>9. ASSUME NEW j \in Jobs, BeginScan(j) PROVE TypeOK'
  BY <1>9 DEF BeginScan
<1>10. ASSUME NEW j \in Jobs, ReadDevice(j) PROVE TypeOK'
  BY <1>10 DEF ReadDevice, Index
<1>11. ASSUME NEW j \in Jobs, ScanDone(j) PROVE TypeOK'
  BY <1>11 DEF ScanDone
<1>12. ASSUME NEW j \in Jobs, ScanFails(j) PROVE TypeOK'
  BY <1>12 DEF ScanFails
<1>13. ASSUME NEW j \in Jobs, CheckCancelled(j) PROVE TypeOK'
  BY <1>13 DEF CheckCancelled
<1>14. ASSUME NEW j \in Jobs, BeginSave(j) PROVE TypeOK'
  BY <1>14 DEF BeginSave, OpenTmp, Saver, SaverPhases, Files
<1>15. ASSUME NEW j \in Jobs, CreateFails(j) PROVE TypeOK'
  BY <1>15 DEF CreateFails
<1>16. ASSUME NEW j \in Jobs, WriteSnapshot(j) PROVE TypeOK'
  BY <1>16, WriteTmpType DEF WriteSnapshot, DiskTypeOK
<1>17. ASSUME NEW j \in Jobs, RenameSnapshot(j) PROVE TypeOK'
  BY <1>17, RenameTmpType DEF RenameSnapshot, Renamed, DiskTypeOK, FreshSidecar,
                               Sidecar, StaleReasons, LiveStates
<1>18. ASSUME NEW j \in Jobs, SaveFails(j) PROVE TypeOK'
  BY <1>18, IdleSaverType DEF SaveFails, RenameFails, SaveIoError
<1>19. ASSUME NEW j \in Jobs, SaveState(j) PROVE TypeOK'
  BY <1>19, WriteSidecarType DEF SaveState, diskVars, memoryVars
<1>20. ASSUME NEW j \in Jobs, PublishIndex(j) PROVE TypeOK'
  BY <1>20 DEF PublishIndex, EndWithIndex, diskVars
<1>21. ASSUME NEW j \in Jobs, ClassifyFailure(j) PROVE TypeOK'
  BY <1>21 DEF ClassifyFailure, NewSidecar, Sidecar, StaleReasons, LiveStates
<1>22. ASSUME NEW j \in Jobs, SaveFailure(j) PROVE TypeOK'
  BY <1>22, WriteSidecarType DEF SaveFailure, diskVars, memoryVars
<1>23. ASSUME NEW j \in Jobs, PublishFailure(j) PROVE TypeOK'
  BY <1>23 DEF PublishFailure, EndWithout, EndState, diskVars
<1>24. ASSUME Restart PROVE TypeOK'
  <2>1. PICK denied \in SUBSET SetupErrors : LoadSidecars(denied, IoErrors)
    BY <1>24 DEF Restart
  <2>2. /\ indexStates' \in [Devices -> Sidecar \cup {Absent}]
        /\ sidecar' \in [Devices -> Sidecar \cup {Absent}]
    BY <2>1, LoadSidecarsType
  <2> QED BY <1>24, <2>2, IdleSaverType DEF Restart, LoadedIndexes, NoJob
<1>25. ASSUME NEW d \in Devices, FileChange(d) PROVE TypeOK'
  BY <1>25 DEF FileChange, ChangeFile
<1>26. CASE UNCHANGED vars
  BY <1>26 DEF vars
<1> QED
  BY <1>1, <1>2, <1>3, <1>4, <1>5, <1>6, <1>7, <1>8, <1>9,
     <1>10, <1>11, <1>12, <1>13, <1>14, <1>15, <1>16, <1>17, <1>18,
     <1>19, <1>20, <1>21, <1>22, <1>23, <1>24, <1>25, <1>26
  DEF Next, Client, Worker

-----------------------------------------------------------------------------
(* The job table and the workers.                                          *)

LEMMA TableInit == Init => TableInv
BY DEF Init, JobsInit, TableInv, JobMatchesWorker, UnusedIsClean, HasDevice, NoJob,
       BusyPcs, ScanPcs, SavePcs, FailPcs, Terminal

LEMMA TableStep == IInv /\ [Next]_vars => TableInv'
<1> SUFFICES ASSUME IInv, [Next]_vars PROVE TableInv'
  OBVIOUS
<1> USE DEF IInv, TypeOK, TableInv, HasDevice, UnusedIsClean, JobMatchesWorker,
            Goto, Pcs, BusyPcs, ScanPcs, SavePcs, FailPcs, JobStates, Active, Terminal
<1>1. ASSUME UNCHANGED <<job, pc, cancelFlag>> PROVE TableInv'
  BY <1>1
<1>2. ASSUME NEW d \in Devices, StartScan(d) PROVE TableInv'
  BY <1>2 DEF StartScan
<1>3. ASSUME NEW d \in Devices, Forget(d) \/ ForgetFails(d) \/ FileChange(d) PROVE TableInv'
  BY <1>1, <1>3 DEF Forget, ForgetFails, FileChange, jobVars
<1>4. ASSUME NEW n \in Limits, SetLimit(n) PROVE TableInv'
  BY <1>1, <1>4 DEF SetLimit
<1>5. ASSUME NEW D \in SUBSET Devices, ReloadEnabled(D) PROVE TableInv'
  BY <1>1, <1>5 DEF ReloadEnabled
<1>6. ASSUME NEW j \in Jobs, CancelScan(j) PROVE TableInv'
  BY <1>6 DEF CancelScan, RaiseFlag
<1>7. ASSUME NEW j \in Jobs, CancelledBeforeStart(j) PROVE TableInv'
  BY <1>7 DEF CancelledBeforeStart
<1>8. ASSUME NEW j \in Jobs, AcquireSlot(j) PROVE TableInv'
  BY <1>8 DEF AcquireSlot, TakeSlot
<1>9. ASSUME NEW j \in Jobs, PublishIndex(j) PROVE TableInv'
  BY <1>9 DEF PublishIndex, EndWithIndex
<1>10. ASSUME NEW j \in Jobs, PublishFailure(j) PROVE TableInv'
  BY <1>10 DEF PublishFailure, EndWithout, EndState
<1>11. ASSUME NEW j \in Jobs, ReadDevice(j) \/ WriteSnapshot(j) PROVE TableInv'
  BY <1>1, <1>11 DEF ReadDevice, WriteSnapshot, jobVars
<1>12. ASSUME NEW j \in Jobs, NEW from \in BusyPcs, NEW to \in BusyPcs,
              Goto(j, from, to), UNCHANGED <<job, cancelFlag>>
       PROVE  TableInv'
  BY <1>12
<1>13. ASSUME NEW j \in Jobs,
              BeginScan(j) \/ ScanDone(j) \/ ScanFails(j) \/ CheckCancelled(j)
       PROVE  TableInv'
  BY <1>12, <1>13 DEF BeginScan, ScanDone, ScanFails, CheckCancelled
<1>14. ASSUME NEW j \in Jobs,
              BeginSave(j) \/ CreateFails(j) \/ RenameSnapshot(j) \/ SaveFails(j) \/ SaveState(j)
       PROVE  TableInv'
  BY <1>12, <1>14 DEF BeginSave, CreateFails, RenameSnapshot, Renamed, SaveFails, SaveState
<1>15. ASSUME NEW j \in Jobs, ClassifyFailure(j) \/ SaveFailure(j) PROVE TableInv'
  BY <1>12, <1>15 DEF ClassifyFailure, SaveFailure
<1>16. CASE Restart
  BY <1>16 DEF Restart, NoJob
<1>17. CASE UNCHANGED vars
  BY <1>1, <1>17 DEF vars, jobVars
<1> QED
  BY <1>1, <1>2, <1>3, <1>4, <1>5, <1>6, <1>7, <1>8, <1>9,
     <1>10, <1>11, <1>12, <1>13, <1>14, <1>15, <1>16, <1>17
  DEF Next, Client, Worker

THEOREM Inductive == Spec => []IInv
<1>1. Init => IInv
  BY TypeInit, TableInit DEF IInv
<1>2. IInv /\ [Next]_vars => IInv'
  BY TypeStep, TableStep DEF IInv
<1> QED BY <1>1, <1>2, PTL DEF Spec

\* What is on disk, in memory and in the workers is always a value that the
\* code can hold.
THEOREM TypeCorrect == Spec => []TypeOK
<1>1. IInv => TypeOK
  BY DEF IInv
<1> QED BY <1>1, Inductive, PTL

\* A job is Running exactly while its worker holds a slot, Queued only while
\* its worker polls, and terminal when the worker is gone.
THEOREM JobTableCorrect == Spec => []JobMatchesWorker
<1>1. IInv => JobMatchesWorker
  BY DEF IInv, TableInv
<1> QED BY <1>1, Inductive, PTL

-----------------------------------------------------------------------------
(* The parallel-scan limit.  wait_for_scan_slot counts Running jobs, the    *)
(* promise is about workers at work: JobMatchesWorker makes them the same.  *)

LEMMA BusyIsRunning == JobMatchesWorker => Busy = Running
BY DEF JobMatchesWorker, Busy, Running

LEMMA BusyFinite == IsFiniteSet(Busy)
BY JobsAssumption, FS_Subset DEF Busy

\* Only AcquireSlot adds a worker, and only its own.
LEMMA BusyStep ==
  ASSUME IInv, [Next]_vars
  PROVE  \/ Busy' \subseteq Busy
         \/ \E j \in Jobs : AcquireSlot(j) /\ Busy' = Busy \cup {j}
<1>0. ASSUME NEW j \in Jobs, AcquireSlot(j) PROVE Busy' = Busy \cup {j}
  BY <1>0 DEF AcquireSlot, TakeSlot, IInv, TypeOK, Pcs,
              Busy, Goto, BusyPcs, ScanPcs, SavePcs, FailPcs
<1> SUFFICES ASSUME ~\E j \in Jobs : AcquireSlot(j)
             PROVE  Busy' \subseteq Busy
  BY <1>0
<1> USE DEF IInv, TypeOK, Busy, Goto, BusyPcs, ScanPcs, SavePcs, FailPcs
<1>1. ASSUME UNCHANGED pc PROVE Busy' \subseteq Busy
  BY <1>1
<1>2. \A j \in Jobs : ~AcquireSlot(j)
  OBVIOUS
<1>3. ASSUME NEW j \in Jobs, NEW from \in BusyPcs, NEW to, Goto(j, from, to) PROVE Busy' \subseteq Busy
  BY <1>3
<1>4. ASSUME NEW d \in Devices,
             StartScan(d) \/ Forget(d) \/ ForgetFails(d) \/ FileChange(d)
      PROVE  Busy' \subseteq Busy
  BY <1>1, <1>4 DEF StartScan, Forget, ForgetFails, FileChange, jobVars
<1>5. ASSUME NEW j \in Jobs, CancelScan(j) \/ CancelledBeforeStart(j) PROVE Busy' \subseteq Busy
  BY <1>5 DEF CancelScan, RaiseFlag, CancelledBeforeStart
<1>6. ASSUME NEW x, SetLimit(x) \/ ReloadEnabled(x) PROVE Busy' \subseteq Busy
  BY <1>1, <1>6 DEF SetLimit, ReloadEnabled
<1>7. ASSUME NEW j \in Jobs,
             BeginScan(j) \/ ScanDone(j) \/ ScanFails(j) \/ CheckCancelled(j)
      PROVE  Busy' \subseteq Busy
  BY <1>3, <1>7 DEF BeginScan, ScanDone, ScanFails, CheckCancelled
<1>8. ASSUME NEW j \in Jobs,
             BeginSave(j) \/ CreateFails(j) \/ RenameSnapshot(j) \/ SaveFails(j) \/ SaveState(j)
      PROVE  Busy' \subseteq Busy
  BY <1>3, <1>8 DEF BeginSave, CreateFails, RenameSnapshot, Renamed, SaveFails, SaveState
<1>9. ASSUME NEW j \in Jobs,
             PublishIndex(j) \/ ClassifyFailure(j) \/ SaveFailure(j) \/ PublishFailure(j)
      PROVE  Busy' \subseteq Busy
  BY <1>3, <1>9 DEF PublishIndex, EndWithIndex, ClassifyFailure, SaveFailure,
                    PublishFailure, EndWithout
<1>10. ASSUME NEW j \in Jobs, ReadDevice(j) \/ WriteSnapshot(j) PROVE Busy' \subseteq Busy
  BY <1>1, <1>10 DEF ReadDevice, WriteSnapshot, jobVars
<1>11. CASE Restart
  BY <1>11 DEF Restart
<1>12. CASE UNCHANGED vars
  BY <1>1, <1>12 DEF vars, jobVars
<1> HIDE DEF IInv, TypeOK, Busy, Goto
<1>13. ASSUME NEW j \in Jobs, Worker(j) PROVE Busy' \subseteq Busy
  BY <1>2, <1>5, <1>7, <1>8, <1>9, <1>10, <1>13 DEF Worker
<1> QED BY <1>4, <1>5, <1>6, <1>11, <1>12, <1>13 DEF Next, Client

\* The worker that is granted a slot fits into the limit of that moment.
LEMMA GrantFits ==
  ASSUME IInv, NEW j \in Jobs, AcquireSlot(j)
  PROVE  Cardinality(Busy \cup {j}) <= config.limit
<1>1. Cardinality(Busy) < config.limit
  BY BusyIsRunning DEF IInv, TableInv, AcquireSlot
<1>2. Cardinality(Busy) \in Nat
  BY BusyFinite, FS_CardinalityType
<1>3. Cardinality(Busy \cup {j}) = IF j \in Busy THEN Cardinality(Busy) ELSE Cardinality(Busy) + 1
  BY BusyFinite, FS_AddElement
<1>4. config.limit \in Nat
  BY JobsAssumption DEF IInv, TypeOK
<1> QED BY <1>1, <1>2, <1>3, <1>4

\* A worker takes a slot only within the limit configured at that moment,
\* whatever was cancelled, reconfigured or failing before.
THEOREM SlotGrantHolds == Spec => SlotGrant
<1>1. ASSUME IInv, [Next]_vars
      PROVE  \A j \in Jobs : j \notin Busy /\ j \in Busy' => Cardinality(Busy') <= config.limit
  BY <1>1, BusyStep, GrantFits
<1>2. IInv /\ [Next]_vars =>
        [\A j \in Jobs : j \notin Busy /\ j \in Busy' => Cardinality(Busy') <= config.limit]_vars
  BY <1>1
<1> QED BY <1>2, Inductive, PTL DEF Spec, SlotGrant

\* At every moment the workers at work are within some limit that was allowed.
THEOREM SlotBoundHolds == Spec => []SlotBound
<1>1. Init => SlotBound
  <2> SUFFICES ASSUME Init PROVE SlotBound
    OBVIOUS
  <2>1. Busy = {}
    BY DEF Init, JobsInit, Busy, BusyPcs, ScanPcs, SavePcs, FailPcs
  <2>2. Cardinality(Busy) = 0
    BY <2>1, FS_EmptySet
  <2>3. PICK n \in Limits : n \in Nat
    BY JobsAssumption
  <2> QED BY <2>2, <2>3 DEF SlotBound
<1>2. IInv /\ SlotBound /\ [Next]_vars => SlotBound'
  <2> SUFFICES ASSUME IInv, SlotBound, [Next]_vars PROVE SlotBound'
    OBVIOUS
  <2>1. CASE Busy' \subseteq Busy
    <3>1. Cardinality(Busy') <= Cardinality(Busy)
      BY <2>1, BusyFinite, FS_Subset
    <3>2. Cardinality(Busy) \in Nat /\ Cardinality(Busy') \in Nat
      BY <2>1, BusyFinite, FS_Subset, FS_CardinalityType
    <3> QED BY <3>1, <3>2, JobsAssumption DEF SlotBound
  <2>2. CASE \E j \in Jobs : AcquireSlot(j) /\ Busy' = Busy \cup {j}
    BY <2>2, GrantFits DEF IInv, TypeOK, SlotBound
  <2> QED BY <2>1, <2>2, BusyStep
<1> QED BY <1>1, <1>2, Inductive, PTL DEF Spec

-----------------------------------------------------------------------------
(* What no step may do to a job that has ended, or to a served index.       *)

\* A worker that still polls has no job that finished or failed.
LEMMA PcOfEnded ==
  ASSUME IInv, NEW j \in Jobs, pc[j] = "waiting"
  PROVE  job[j].state \in {"Queued", "Cancelled"}
BY DEF IInv, TypeOK, TableInv, JobMatchesWorker, JobStates, Active, Terminal,
       BusyPcs, ScanPcs, SavePcs, FailPcs

\* Finished, Failed and Cancelled are final: a late worker, a second report or a
\* cancel request that arrives after the end changes nothing.
THEOREM TerminalFinalHolds == Spec => TerminalFinal
<1> DEFINE Step == \A j \in Jobs : job[j].state \in Terminal => job'[j] \in {job[j], NoJob}
<1>1. ASSUME IInv, [Next]_vars PROVE Step
  <2> USE <1>1 DEF IInv, TypeOK, TableInv, JobMatchesWorker, Goto,
                   Active, Terminal, BusyPcs, ScanPcs, SavePcs, FailPcs
  <2>1. ASSUME UNCHANGED job PROVE Step
    BY <2>1
  <2>2. ASSUME NEW d \in Devices, StartScan(d) PROVE Step
    BY <2>2 DEF StartScan
  <2>3. ASSUME NEW j \in Jobs, CancelScan(j) PROVE Step
    BY <2>3 DEF CancelScan, RaiseFlag
  <2>4. ASSUME NEW j \in Jobs, CancelledBeforeStart(j) \/ AcquireSlot(j) PROVE Step
    <3>1. job[j].state \notin Terminal \/ job[j].state = "Cancelled"
      <4>1. pc[j] = "waiting"
        BY <2>4 DEF CancelledBeforeStart, AcquireSlot, TakeSlot
      <4>2. job[j].state \in JobStates
        OBVIOUS
      <4> QED BY <4>1, <4>2, PcOfEnded DEF JobStates
    <3>2. CASE job[j].state \notin Terminal
      BY <2>4, <3>2 DEF CancelledBeforeStart, AcquireSlot, TakeSlot
    <3>3. CASE CancelledBeforeStart(j) /\ job[j].state = "Cancelled"
      <4>1. job' = [job EXCEPT ![j] = [job[j] EXCEPT !.state = "Cancelled"]]
        BY <3>3 DEF CancelledBeforeStart
      <4>2. [job[j] EXCEPT !.state = "Cancelled"] = job[j]
        BY <3>3
      <4> QED BY <4>1, <4>2
    <3>4. CASE AcquireSlot(j) /\ job[j].state = "Cancelled"
      BY <3>4 DEF AcquireSlot
    <3> QED BY <2>4, <3>1, <3>2, <3>3, <3>4
  <2>5. ASSUME NEW j \in Jobs, PublishIndex(j) \/ PublishFailure(j) PROVE Step
    BY <2>5 DEF PublishIndex, EndWithIndex, PublishFailure, EndWithout
  <2>6. CASE Restart
    BY <2>6 DEF Restart
  <2>7. ASSUME NEW d \in Devices, Forget(d) \/ ForgetFails(d) \/ FileChange(d) PROVE Step
    BY <2>1, <2>7 DEF Forget, ForgetFails, FileChange, jobVars
  <2>8. ASSUME NEW x, SetLimit(x) \/ ReloadEnabled(x) PROVE Step
    BY <2>1, <2>8 DEF SetLimit, ReloadEnabled
  <2>9. ASSUME NEW j \in Jobs,
               BeginScan(j) \/ ReadDevice(j) \/ ScanDone(j) \/ ScanFails(j) \/ CheckCancelled(j)
        PROVE  Step
    BY <2>1, <2>9 DEF BeginScan, ReadDevice, ScanDone, ScanFails, CheckCancelled
  <2>10. ASSUME NEW j \in Jobs,
                BeginSave(j) \/ CreateFails(j) \/ WriteSnapshot(j) \/ RenameSnapshot(j)
                  \/ SaveFails(j) \/ SaveState(j)
         PROVE  Step
    BY <2>1, <2>10 DEF BeginSave, CreateFails, WriteSnapshot, RenameSnapshot, Renamed,
                       SaveFails, SaveState, jobVars
  <2>11. ASSUME NEW j \in Jobs, ClassifyFailure(j) \/ SaveFailure(j) PROVE Step
    BY <2>1, <2>11 DEF ClassifyFailure, SaveFailure
  <2>12. CASE UNCHANGED vars
    BY <2>1, <2>12 DEF vars, jobVars
  <2> HIDE DEF Step, IInv, TypeOK, Goto
  <2>13. ASSUME NEW j \in Jobs, Worker(j) PROVE Step
    BY <2>4, <2>5, <2>9, <2>10, <2>11, <2>13 DEF Worker
  <2> QED BY <2>2, <2>3, <2>6, <2>7, <2>8, <2>12, <2>13 DEF Next, Client
<1>2. IInv /\ [Next]_vars => [Step]_vars
  BY <1>1
<1> QED BY <1>2, Inductive, PTL DEF Spec, TerminalFinal

\* The steps that users of the store can see; all others leave the file system
\* and the served indexes alone.
LEMMA VisibleStep ==
  ASSUME [Next]_vars
  PROVE  \/ UNCHANGED <<fs, indexes>>
         \/ \E d \in Devices : Forget(d) \/ ForgetFails(d) \/ FileChange(d)
         \/ \E j \in Jobs : PublishIndex(j)
         \/ Restart
<1> DEFINE Unseen == UNCHANGED <<fs, indexes>>
<1>1. ASSUME NEW d \in Devices, StartScan(d) PROVE Unseen
  BY <1>1 DEF StartScan, storeVars
<1>2. ASSUME NEW x, SetLimit(x) \/ ReloadEnabled(x) \/ CancelScan(x) PROVE Unseen
  BY <1>2 DEF SetLimit, ReloadEnabled, CancelScan, RaiseFlag, storeVars
<1>3. ASSUME NEW j \in Jobs,
             CancelledBeforeStart(j) \/ AcquireSlot(j) \/ BeginScan(j) \/ ReadDevice(j)
               \/ ScanDone(j) \/ ScanFails(j) \/ CheckCancelled(j)
      PROVE  Unseen
  BY <1>3 DEF CancelledBeforeStart, AcquireSlot, TakeSlot, BeginScan, ReadDevice,
              ScanDone, ScanFails, CheckCancelled, storeVars
<1>4. ASSUME NEW j \in Jobs,
             BeginSave(j) \/ CreateFails(j) \/ WriteSnapshot(j) \/ RenameSnapshot(j)
               \/ SaveFails(j) \/ SaveState(j)
      PROVE  Unseen
  BY <1>4 DEF BeginSave, CreateFails, WriteSnapshot, RenameSnapshot, Renamed,
              SaveFails, SaveState, storeVars, memoryVars
<1>5. ASSUME NEW j \in Jobs, ClassifyFailure(j) \/ SaveFailure(j) \/ PublishFailure(j)
      PROVE  Unseen
  BY <1>5 DEF ClassifyFailure, SaveFailure, PublishFailure, EndWithout, storeVars, memoryVars
<1>6. CASE UNCHANGED vars
  BY <1>6 DEF vars, storeVars
<1> HIDE DEF Unseen
<1>7. ASSUME NEW j \in Jobs, Worker(j) PROVE Unseen \/ PublishIndex(j)
  BY <1>3, <1>4, <1>5, <1>7 DEF Worker
<1>8. CASE Client
  <2>1. Unseen \/ \E d \in Devices : Forget(d) \/ ForgetFails(d)
    BY <1>1, <1>2, <1>8 DEF Client
  <2> QED BY <2>1 DEF Unseen
<1>9. CASE \E j \in Jobs : Worker(j)
  BY <1>7, <1>9 DEF Unseen
<1> QED BY <1>6, <1>8, <1>9 DEF Next, Unseen

\* A failed or cancelled scan, a cancel request or a reconfiguration leaves the
\* results alone: only a job that goes from Running to Finished, a forget
\* request or a start of the daemon changes what is served.
THEOREM ServedOnlyByFinishedJobHolds == Spec => ServedOnlyByFinishedJob
<1> DEFINE Step ==
      \A d \in Devices : indexes'[d] # indexes[d] =>
        \/ \E j \in Jobs : /\ job[j] = [state |-> "Running", dev |-> d]
                           /\ job'[j].state = "Finished"
        \/ indexes'[d] = Absent /\ (Forget(d) \/ ForgetFails(d))
        \/ Restart
<1>1. ASSUME IInv, [Next]_vars PROVE Step
  <2>1. CASE UNCHANGED indexes
    BY <2>1
  <2>2. ASSUME NEW d \in Devices, Forget(d) \/ ForgetFails(d) PROVE Step
    BY <1>1, <2>2 DEF Forget, ForgetFails, IInv, TypeOK, StoreTypeOK
  <2>3. ASSUME NEW j \in Jobs, PublishIndex(j) PROVE Step
    <3>1. job[j] = [state |-> "Running", dev |-> job[j].dev]
      BY <1>1, <2>3 DEF IInv, TypeOK, TableInv, JobMatchesWorker, PublishIndex, EndWithIndex,
                        Goto, BusyPcs, ScanPcs, SavePcs, FailPcs
    <3>2. job'[j].state = "Finished"
      BY <1>1, <2>3 DEF IInv, TypeOK, PublishIndex, EndWithIndex
    <3>3. \A d \in Devices : d # job[j].dev => indexes'[d] = indexes[d]
      BY <1>1, <2>3 DEF IInv, TypeOK, StoreTypeOK, PublishIndex, EndWithIndex
    <3> QED BY <3>1, <3>2, <3>3
  <2>4. CASE Restart
    BY <2>4
  <2>5. ASSUME NEW d \in Devices, FileChange(d) PROVE Step
    BY <2>1, <2>5 DEF FileChange
  <2> HIDE DEF Step
  <2> QED BY <1>1, <2>1, <2>2, <2>3, <2>4, <2>5, VisibleStep
<1>2. IInv /\ [Next]_vars => [Step]_vars
  BY <1>1
<1> QED BY <1>2, Inductive, PTL DEF Spec, ServedOnlyByFinishedJob

-----------------------------------------------------------------------------
(* One job of a device at a time: the inductive invariant of the store.    *)

\* A device has at most one active job.
Exclusive ==
  \A i, j \in Jobs : /\ job[i].state \in Active
                     /\ job[j].state \in Active
                     /\ job[i].dev = job[j].dev
                     => i = j

\* Only a worker that is saving has a file open; it is the tmp file, which
\* nobody else touches.
SaverInv ==
  \A w \in Writers : saver[w].phase # "idle" =>
    /\ w \in Jobs
    /\ pc[w] = "saving"
    /\ saver[w].dev = job[w].dev
    /\ saver[w].data = scanned[w]
    /\ saver[w].file = "tmp"
    /\ snapshotTmp[job[w].dev] = IF saver[w].phase = "opened" THEN Torn ELSE scanned[w]

\* A worker holds an index from the read of the device to the publish ...
HeldInv ==
  \A j \in Jobs :
    /\ pc[j] \in {"built"} \cup SavePcs => scanned[j] \in Index
    /\ pc[j] \notin {"scanning", "built"} \cup SavePcs => scanned[j] = Absent
    /\ pc[j] \in {"saveState", "publish"} => snapshot[job[j].dev] = scanned[j]

\* ... which is real and at least as new as the one on disk.
NewerInv ==
  \A j \in Jobs : scanned[j] # Absent =>
    /\ scanned[j].seen \subseteq fs[job[j].dev]
    /\ snapshot[job[j].dev] # Absent =>
         snapshot[job[j].dev].seen \subseteq scanned[j].seen

\* What is on disk is real and at least as new as what is served.
ServedInv ==
  \A d \in Devices :
    /\ snapshot[d] # Absent => snapshot[d].seen \subseteq fs[d]
    /\ indexes[d] # Absent => /\ snapshot[d] # Absent
                              /\ indexes[d].seen \subseteq snapshot[d].seen

StoreInv ==
  Exclusive /\ SaverInv /\ HeldInv /\ SnapshotLoadable /\ NewerInv /\ ServedInv

-----------------------------------------------------------------------------

LEMMA StoreInvStep ==
  ASSUME Overlap = {}, IInv, StoreInv, [Next]_vars
  PROVE  StoreInv'
<1> USE StoreAssumption, JobsAssumption
    DEF StoreInv, Exclusive, SaverInv, HeldInv, SnapshotLoadable, NewerInv, ServedInv,
        IInv, TypeOK, StoreTypeOK, TableInv, HasDevice, JobMatchesWorker, ScanActive,
        storeVars, jobVars, Goto, Pcs, BusyPcs, ScanPcs, SavePcs, FailPcs,
        JobStates, Active, Terminal, Index, Saver, IdleSaver
<1>1. ASSUME NEW d \in Devices, StartScan(d) PROVE StoreInv'
  BY <1>1 DEF StartScan
<1>2. ASSUME NEW d \in Devices, ~ScanActive(d), DeleteSnapshot(d),
             UNCHANGED <<fs, jobVars>>, indexes' = [indexes EXCEPT ![d] = Absent]
      PROVE  StoreInv'
  <2>1. \A w \in Writers : ~(saver[w].phase = "opened" /\ saver[w].dev = d)
    BY <1>2
  <2>2. UNCHANGED <<saver, snapshotTmp>> /\ snapshot' = [snapshot EXCEPT ![d] = Absent]
    <3>1. Relinked(d, "tmp") = [w \in Writers |-> saver[w]]
      BY <2>1 DEF Relinked
    <3> QED BY <1>2, <3>1 DEF DeleteSnapshot
  <2>3. \A j \in Jobs : pc[j] \in BusyPcs => job[j].dev # d
    BY <1>2
  <2>4. Exclusive' /\ SaverInv'
    BY <1>2, <2>2
  <2>5. HeldInv'
    BY <1>2, <2>2, <2>3
  <2>6. SnapshotLoadable' /\ NewerInv' /\ ServedInv'
    BY <1>2, <2>2, <2>3
  <2> QED BY <2>4, <2>5, <2>6
<1>3. ASSUME NEW d \in Devices, Forget(d) \/ ForgetFails(d) PROVE StoreInv'
  <2>1. CASE DeleteSnapshot(d)
    BY <1>2, <1>3, <2>1 DEF Forget, ForgetFails
  <2>2. CASE UNCHANGED <<snapshot, saver>> /\ ForgetFails(d)
    <3>1. UNCHANGED <<fs, snapshot, saver, snapshotTmp, jobVars>>
      BY <2>2 DEF ForgetFails
    <3>2. indexes' = [indexes EXCEPT ![d] = Absent]
      BY <2>2 DEF ForgetFails
    <3>3. ServedInv'
      BY <3>1, <3>2
    <3> QED BY <3>1, <3>3
  <2> QED BY <1>3, <2>1, <2>2 DEF Forget, ForgetFails
<1>4. ASSUME NEW j \in Jobs, CancelScan(j) PROVE StoreInv'
  BY <1>4 DEF CancelScan, RaiseFlag
<1>5. ASSUME NEW n \in Limits, SetLimit(n) PROVE StoreInv'
  BY <1>5 DEF SetLimit
<1>6. ASSUME NEW D \in SUBSET Devices, ReloadEnabled(D) PROVE StoreInv'
  BY <1>6 DEF ReloadEnabled
<1>7. ASSUME NEW j \in Jobs, CancelledBeforeStart(j) PROVE StoreInv'
  BY <1>7 DEF CancelledBeforeStart
<1>8. ASSUME NEW j \in Jobs, AcquireSlot(j) PROVE StoreInv'
  BY <1>8 DEF AcquireSlot, TakeSlot
<1>9. ASSUME NEW j \in Jobs, BeginScan(j) PROVE StoreInv'
  BY <1>9 DEF BeginScan
<1>10. ASSUME NEW j \in Jobs, ReadDevice(j) PROVE StoreInv'
  BY <1>10 DEF ReadDevice
<1>11. ASSUME NEW j \in Jobs, ScanDone(j) PROVE StoreInv'
  BY <1>11 DEF ScanDone
<1>12. ASSUME NEW j \in Jobs, ScanFails(j) PROVE StoreInv'
  BY <1>12 DEF ScanFails
<1>13. ASSUME NEW j \in Jobs, CheckCancelled(j) PROVE StoreInv'
  BY <1>13 DEF CheckCancelled
<1>14. ASSUME NEW j \in Jobs, BeginSave(j) PROVE StoreInv'
  BY <1>14 DEF BeginSave, OpenTmp
<1>15. ASSUME NEW j \in Jobs, CreateFails(j) PROVE StoreInv'
  BY <1>15 DEF CreateFails
<1>16. ASSUME NEW j \in Jobs, WriteSnapshot(j) PROVE StoreInv'
  BY <1>16 DEF WriteSnapshot, WriteTmp, Written, Holders
<1>17. ASSUME NEW j \in Jobs, RenameSnapshot(j) PROVE StoreInv'
  <2> DEFINE d == job[j].dev
  <2>1. /\ pc[j] = "saving" /\ pc' = [pc EXCEPT ![j] = "saveState"]
        /\ saver[j].phase = "written" /\ saver[j].dev = d /\ d \in Devices
        /\ snapshotTmp[d] = scanned[j] /\ scanned[j] \in Index
        /\ UNCHANGED <<job, scanned, fs, indexes>>
    BY <1>17 DEF RenameSnapshot, Renamed, RenameTmp
  <2>2. /\ snapshot' = [snapshot EXCEPT ![d] = scanned[j]]
        /\ snapshotTmp' = [snapshotTmp EXCEPT ![d] = Absent]
    BY <1>17, <2>1 DEF RenameSnapshot, Renamed, RenameTmp
  <2>3. \A w \in Writers : w # j /\ saver[w].phase # "idle" => saver[w].dev # d
    BY <2>1
  <2>4. saver' = [saver EXCEPT ![j] = IdleSaver]
    <3>1. \A w \in Writers : ~(saver[w].phase = "opened" /\ saver[w].dev = d)
      BY <2>1, <2>3
    <3>2. Relinked(d, "snapshot") = [w \in Writers |-> saver[w]]
      BY <3>1 DEF Relinked
    <3>3. [w \in Writers |-> saver[w]] = saver
      OBVIOUS
    <3>4. saver' = [Relinked(d, "snapshot") EXCEPT ![j] = IdleSaver]
      BY <1>17, <2>1 DEF RenameSnapshot, Renamed, RenameTmp
    <3> QED BY <3>2, <3>3, <3>4
  <2>5. Exclusive' /\ HeldInv'
    BY <2>1, <2>2
  <2>6. SaverInv'
    BY <2>1, <2>2, <2>3, <2>4
  <2>7. SnapshotLoadable' /\ ServedInv'
    BY <2>1, <2>2
  <2>8. NewerInv'
    BY <2>1, <2>2
  <2> QED BY <2>5, <2>6, <2>7, <2>8
<1>18. ASSUME NEW j \in Jobs, SaveFails(j) PROVE StoreInv'
  BY <1>18 DEF SaveFails, RenameFails, SaveIoError
<1>19. ASSUME NEW j \in Jobs, SaveState(j) PROVE StoreInv'
  BY <1>19 DEF SaveState, diskVars, memoryVars
<1>20. ASSUME NEW j \in Jobs, PublishIndex(j) PROVE StoreInv'
  BY <1>20 DEF PublishIndex, EndWithIndex, diskVars
<1>21. ASSUME NEW j \in Jobs, ClassifyFailure(j) PROVE StoreInv'
  BY <1>21 DEF ClassifyFailure
<1>22. ASSUME NEW j \in Jobs, SaveFailure(j) PROVE StoreInv'
  BY <1>22 DEF SaveFailure, diskVars, memoryVars
<1>23. ASSUME NEW j \in Jobs, PublishFailure(j) PROVE StoreInv'
  BY <1>23 DEF PublishFailure, EndWithout, EndState, diskVars
<1>24. ASSUME Restart PROVE StoreInv'
  BY <1>24 DEF Restart, LoadedIndexes, NoJob
<1>25. ASSUME NEW d \in Devices, FileChange(d) PROVE StoreInv'
  BY <1>25 DEF FileChange, ChangeFile
<1>26. CASE UNCHANGED vars
  BY <1>26 DEF vars
<1> QED
  BY <1>1, <1>3, <1>4, <1>5, <1>6, <1>7, <1>8, <1>9,
     <1>10, <1>11, <1>12, <1>13, <1>14, <1>15, <1>16, <1>17, <1>18,
     <1>19, <1>20, <1>21, <1>22, <1>23, <1>24, <1>25, <1>26
  DEF Next, Client, Worker

LEMMA StoreInvInit == Init => StoreInv
BY StoreAssumption, JobsAssumption
   DEF Init, StoreInit, JobsInit, StoreInv, Exclusive, SaverInv, HeldInv, SnapshotLoadable,
       NewerInv, ServedInv, NoJob, IdleSaver, SavePcs, Active

THEOREM StoreInductive ==
  ASSUME Overlap = {}
  PROVE  Spec => []StoreInv
<1>1. Init => StoreInv
  BY StoreInvInit
<1>2. IInv /\ StoreInv /\ [Next]_vars => StoreInv'
  BY StoreInvStep
<1> QED BY <1>1, <1>2, Inductive, PTL DEF Spec

\* Whenever the daemon dies, the file under the snapshot name can be loaded:
\* save_index writes beside it and renames.
THEOREM SnapshotLoadableHolds ==
  ASSUME Overlap = {}
  PROVE  Spec => []SnapshotLoadable
<1>1. StoreInv => SnapshotLoadable
  BY DEF StoreInv
<1> QED BY <1>1, StoreInductive, PTL

\* A served index disappears only when it is forgotten, never through a failing
\* scan, a failing write, or a crash in the middle of a save.
THEOREM ResultsStayHolds ==
  ASSUME Overlap = {}
  PROVE  Spec => ResultsStay
<1> DEFINE Step == \A d \in Devices : indexes[d] # Absent /\ indexes'[d] = Absent =>
                     Forget(d) \/ ForgetFails(d)
<1>1. ASSUME IInv, StoreInv, [Next]_vars PROVE Step
  <2>1. CASE UNCHANGED indexes
    BY <2>1
  <2>2. ASSUME NEW d \in Devices, Forget(d) \/ ForgetFails(d) PROVE Step
    BY <1>1, <2>2 DEF Forget, ForgetFails, IInv, TypeOK, StoreTypeOK
  <2>3. ASSUME NEW j \in Jobs, PublishIndex(j) PROVE Step
    BY <1>1, <2>3, StoreAssumption
       DEF IInv, TypeOK, StoreTypeOK, StoreInv, HeldInv, PublishIndex, EndWithIndex, Goto, SavePcs
  <2>4. CASE Restart
    BY <1>1, <2>4, StoreAssumption
       DEF StoreInv, ServedInv, SnapshotLoadable, Restart, LoadedIndexes
  <2>5. ASSUME NEW d \in Devices, FileChange(d) PROVE Step
    BY <2>1, <2>5 DEF FileChange
  <2> HIDE DEF Step
  <2> QED BY <1>1, <2>1, <2>2, <2>3, <2>4, <2>5, VisibleStep
<1>2. IInv /\ StoreInv /\ [Next]_vars => [Step]_vars
  BY <1>1
<1> QED BY <1>2, Inductive, StoreInductive, PTL DEF Spec, ResultsStay

-----------------------------------------------------------------------------
(* ScanJobs implements IndexService: only the publish of a finished scan, a *)
(* start of the daemon, a forget request and the world are visible.         *)

LEMMA ServiceInit == Init => Service!Init
BY DEF Init, StoreInit, Service!Init

LEMMA PublishRefreshes ==
  ASSUME IInv, StoreInv, NEW j \in Jobs, PublishIndex(j)
  PROVE  Service!Refresh
<1> DEFINE d == job[j].dev
<1>1. /\ d \in Devices
      /\ snapshot[d] = scanned[j]
      /\ scanned[j] \in Index
      /\ scanned[j].seen \subseteq fs[d]
  BY StoreAssumption DEF PublishIndex, EndWithIndex, Goto, IInv, TableInv, HasDevice,
     JobMatchesWorker, StoreInv, HeldInv, NewerInv, SavePcs
<1>2. /\ indexes' = [indexes EXCEPT ![d] = scanned[j]]
      /\ UNCHANGED fs
  BY DEF PublishIndex, EndWithIndex
<1>3. indexes[d] # Absent => indexes[d].seen \subseteq scanned[j].seen
  BY <1>1 DEF StoreInv, ServedInv
<1>4. indexes \in [Devices -> Index \cup {Absent}]
  BY DEF IInv, TypeOK, StoreTypeOK
<1> QED BY <1>1, <1>2, <1>3, <1>4, StoreAssumption DEF Service!Refresh, Index

LEMMA RestartRefreshes ==
  ASSUME IInv, StoreInv, Restart
  PROVE  Service!Refresh
<1>1. indexes' = snapshot /\ UNCHANGED fs
  <2>1. \A d \in Devices : LoadedIndexes[d] = snapshot[d]
    BY DEF LoadedIndexes, StoreInv, SnapshotLoadable
  <2> QED BY <2>1 DEF Restart, LoadedIndexes, IInv, TypeOK, StoreTypeOK
<1>2. snapshot \in [Devices -> Index \cup {Absent}]
  BY DEF IInv, TypeOK, StoreTypeOK, StoreInv, SnapshotLoadable
<1>3. ASSUME NEW d \in Devices, snapshot[d] # indexes[d]
      PROVE  /\ snapshot[d] # Absent
             /\ snapshot[d].seen \subseteq fs[d]
             /\ indexes[d] # Absent => indexes[d].seen \subseteq snapshot[d].seen
  BY <1>3 DEF StoreInv, ServedInv
<1> QED BY <1>1, <1>2, <1>3 DEF Service!Refresh, Index

LEMMA ServiceStep ==
  ASSUME Overlap = {}, IInv, StoreInv, [Next]_vars
  PROVE  [Service!Next]_<<fs, indexes>>
<1>1. ASSUME NEW d \in Devices, Forget(d) \/ ForgetFails(d) PROVE Service!Forget(d)
  BY <1>1 DEF Forget, ForgetFails, Service!Forget
<1>2. ASSUME NEW d \in Devices, FileChange(d) PROVE Service!Change(d)
  BY <1>2 DEF FileChange, ChangeFile, Service!Change
<1>3. ASSUME NEW j \in Jobs, PublishIndex(j) PROVE Service!Refresh
  BY <1>3, PublishRefreshes
<1>4. CASE Restart
  BY <1>4, RestartRefreshes DEF Service!Next
<1> QED BY <1>1, <1>2, <1>3, <1>4, VisibleStep DEF Service!Next

\* The job queue implements the abstract service: what is served is always a
\* state that the file system really had, it never becomes older, through
\* failures and crashes, and it disappears only by being forgotten.
THEOREM ImplementsService ==
  ASSUME Overlap = {}
  PROVE  Spec => ServiceSpec
<1>1. Init => Service!Init
  BY ServiceInit
<1>2. IInv /\ StoreInv /\ [Next]_vars => [Service!Next]_<<fs, indexes>>
  BY ServiceStep
<1> QED BY <1>1, <1>2, Inductive, StoreInductive, PTL DEF Spec, ServiceSpec, Service!Spec

-----------------------------------------------------------------------------
(* Without file errors: what is recorded is what is known.                  *)

\* While no worker is between its save and its publish, file and memory agree,
\* for the index as for its health.
MatchInv ==
  \A d \in Devices :
    /\ (\A j \in Jobs : job[j].dev = d => pc[j] \notin {"saveState", "publish"}) =>
         snapshot[d] = indexes[d]
    /\ (\A j \in Jobs : job[j].dev = d => pc[j] \notin {"publish", "failPublish"}) =>
         sidecar[d] = indexStates[d]

\* The stale reason that an outcome stands for
Reason(end) == IF end = "cancelled" THEN "scan_cancelled" ELSE "scan_failed"

\* The sidecar a worker carries says how its job ends, and it is saved before it
\* is published.
CarriedInv ==
  \A j \in Jobs :
    /\ pc[j] \in {"saveState", "publish"} => carried[j] = FreshSidecar
    /\ pc[j] \in {"failSave", "failPublish"} =>
         carried[j] \in Sidecar /\ carried[j].stale = Reason(outcome[j])
    /\ pc[j] \in {"publish", "failPublish"} => sidecar[job[j].dev] = carried[j]

RecordInv == MatchInv /\ CarriedInv

\* A device that was forgotten has no job that could bring it back.
ForgottenInv ==
  \A d \in forgotten : ~ScanActive(d) /\ snapshot[d] = Absent /\ indexes[d] = Absent

-----------------------------------------------------------------------------

LEMMA RecordInit == Init => RecordInv
BY StoreAssumption, JobsAssumption
   DEF Init, StoreInit, JobsInit, RecordInv, MatchInv, CarriedInv

\* With one job of a device at a time, a worker at work has its device alone.
LEMMA Alone ==
  ASSUME IInv, Exclusive, NEW i \in Jobs, NEW j \in Jobs,
         pc[i] \in BusyPcs, pc[j] \in BusyPcs, job[i].dev = job[j].dev
  PROVE  i = j
BY DEF IInv, TableInv, JobMatchesWorker, Exclusive, Active

\* Where the store is left alone and every job keeps its device, only the
\* position of the workers counts.
LEMMA RecordUndisturbed ==
  ASSUME RecordInv, UNCHANGED <<snapshot, sidecar, indexes, indexStates, carried, outcome>>,
         \A j \in Jobs :
           /\ pc[j] \in {"saveState", "publish", "failPublish"} \/
              pc'[j] \in {"saveState", "publish", "failSave", "failPublish"}
                => pc'[j] = pc[j] /\ job'[j].dev = job[j].dev
  PROVE  RecordInv'
BY DEF RecordInv, MatchInv, CarriedInv, Reason

LEMMA RecordStep ==
  ASSUME Overlap = {}, IoErrors = FALSE, IInv, StoreInv, RecordInv, [Next]_vars
  PROVE  RecordInv'
<1> USE StoreAssumption, JobsAssumption
    DEF RecordInv, MatchInv, CarriedInv, Reason, StoreInv, Exclusive, SaverInv, HeldInv,
        SnapshotLoadable,
        IInv, TypeOK, StoreTypeOK, TableInv, HasDevice, JobMatchesWorker, ScanActive,
        storeVars, jobVars, Goto, Pcs, BusyPcs, ScanPcs, SavePcs, FailPcs,
        JobStates, Active, Terminal
<1>1. ASSUME NEW d \in Devices, StartScan(d) PROVE RecordInv'
  BY <1>1, RecordUndisturbed DEF StartScan
<1>2. ASSUME NEW d \in Devices, Forget(d) PROVE RecordInv'
  BY <1>2 DEF Forget, DeleteSnapshot
<1>4. ASSUME NEW j \in Jobs, CancelScan(j) PROVE RecordInv'
  BY <1>4 DEF CancelScan, RaiseFlag
<1>5. ASSUME NEW n \in Limits, SetLimit(n) PROVE RecordInv'
  BY <1>5 DEF SetLimit
<1>6. ASSUME NEW D \in SUBSET Devices, ReloadEnabled(D) PROVE RecordInv'
  BY <1>6 DEF ReloadEnabled
<1>7. ASSUME NEW j \in Jobs, CancelledBeforeStart(j) PROVE RecordInv'
  <2>1. \A i \in Jobs : job'[i].dev = job[i].dev
    BY <1>7 DEF CancelledBeforeStart
  <2> QED BY <1>7, <2>1, RecordUndisturbed DEF CancelledBeforeStart
<1>8. ASSUME NEW j \in Jobs, AcquireSlot(j) PROVE RecordInv'
  <2>1. \A i \in Jobs : job'[i].dev = job[i].dev
    BY <1>8 DEF AcquireSlot, TakeSlot
  <2> QED BY <1>8, <2>1, RecordUndisturbed DEF AcquireSlot, TakeSlot
<1>9. ASSUME NEW j \in Jobs, BeginScan(j) PROVE RecordInv'
  BY <1>9 DEF BeginScan
<1>10. ASSUME NEW j \in Jobs, ReadDevice(j) PROVE RecordInv'
  BY <1>10 DEF ReadDevice
<1>11. ASSUME NEW j \in Jobs, ScanDone(j) PROVE RecordInv'
  BY <1>11 DEF ScanDone
<1>12. ASSUME NEW j \in Jobs, ScanFails(j) PROVE RecordInv'
  BY <1>12 DEF ScanFails
<1>13. ASSUME NEW j \in Jobs, CheckCancelled(j) PROVE RecordInv'
  BY <1>13 DEF CheckCancelled
<1>14. ASSUME NEW j \in Jobs, BeginSave(j) PROVE RecordInv'
  BY <1>14 DEF BeginSave, OpenTmp
<1>16. ASSUME NEW j \in Jobs, WriteSnapshot(j) PROVE RecordInv'
  BY <1>16 DEF WriteSnapshot, WriteTmp, Written, Holders
<1>17. ASSUME NEW j \in Jobs, RenameSnapshot(j) PROVE RecordInv'
  BY <1>17 DEF RenameSnapshot, Renamed, RenameTmp
<1>18. ASSUME NEW j \in Jobs, SaveFails(j) PROVE RecordInv'
  BY <1>18 DEF SaveFails, RenameFails
<1>19. ASSUME NEW j \in Jobs, SaveState(j) PROVE RecordInv'
  BY <1>19, Alone DEF SaveState, WriteSidecar, diskVars, memoryVars
<1>20. ASSUME NEW j \in Jobs, PublishIndex(j) PROVE RecordInv'
  <2> DEFINE d == job[j].dev
  <2>1. /\ pc[j] = "publish" /\ pc' = [pc EXCEPT ![j] = "done"]
        /\ indexes' = [indexes EXCEPT ![d] = scanned[j]]
        /\ indexStates' = [indexStates EXCEPT ![d] = carried[j]]
        /\ carried' = [carried EXCEPT ![j] = Absent]
        /\ UNCHANGED <<outcome, snapshot, sidecar>>
    BY <1>20 DEF PublishIndex, EndWithIndex, diskVars
  <2>2. d \in Devices /\ snapshot[d] = scanned[j] /\ sidecar[d] = carried[j]
    BY <2>1
  <2>3. \A i \in Jobs : job'[i].dev = job[i].dev
    BY <1>20 DEF PublishIndex, EndWithIndex
  <2>4. CarriedInv'
    BY <2>1, <2>3
  <2>5. MatchInv'
    <3>1. snapshot[d] = indexes'[d] /\ sidecar[d] = indexStates'[d]
      BY <2>1, <2>2
    <3>2. ASSUME NEW e \in Devices, e # d
          PROVE  /\ indexes'[e] = indexes[e] /\ indexStates'[e] = indexStates[e]
                 /\ \A i \in Jobs : job[i].dev = e => pc'[i] = pc[i]
      BY <2>1, <3>2
    <3> DEFINE Matches(e) ==
          /\ (\A i \in Jobs : job'[i].dev = e => pc'[i] \notin {"saveState", "publish"}) =>
               snapshot'[e] = indexes'[e]
          /\ (\A i \in Jobs : job'[i].dev = e => pc'[i] \notin {"publish", "failPublish"}) =>
               sidecar'[e] = indexStates'[e]
    <3>3. Matches(d)
      BY <2>1, <3>1
    <3>4. ASSUME NEW e \in Devices, e # d PROVE Matches(e)
      <4>1. \A i \in Jobs : job'[i].dev = e => job[i].dev = e /\ pc'[i] = pc[i]
        BY <2>3, <3>2, <3>4
      <4>2. UNCHANGED <<snapshot, sidecar>> /\ indexes'[e] = indexes[e] /\ indexStates'[e] = indexStates[e]
        BY <2>1, <3>2, <3>4
      <4>3. /\ (\A i \in Jobs : job[i].dev = e => pc[i] \notin {"saveState", "publish"}) =>
                 snapshot[e] = indexes[e]
            /\ (\A i \in Jobs : job[i].dev = e => pc[i] \notin {"publish", "failPublish"}) =>
                 sidecar[e] = indexStates[e]
        OBVIOUS
      <4>4. \A i \in Jobs : job[i].dev = e => job'[i].dev = e
        BY <2>3
      <4> HIDE DEF RecordInv, MatchInv, CarriedInv, IInv, StoreInv, TableInv, TypeOK
      <4> QED BY <4>1, <4>2, <4>3, <4>4
    <3> QED BY <3>3, <3>4
  <2> QED BY <2>4, <2>5
<1>21. ASSUME NEW j \in Jobs, ClassifyFailure(j) PROVE RecordInv'
  BY <1>21 DEF ClassifyFailure, NewSidecar, Sidecar, StaleReasons, LiveStates
<1>22. ASSUME NEW j \in Jobs, SaveFailure(j) PROVE RecordInv'
  BY <1>22 DEF SaveFailure, WriteSidecar, diskVars, memoryVars
<1>23. ASSUME NEW j \in Jobs, PublishFailure(j) PROVE RecordInv'
  <2> DEFINE d == job[j].dev
  <2>1. /\ pc[j] = "failPublish" /\ pc' = [pc EXCEPT ![j] = "done"]
        /\ indexStates' = [indexStates EXCEPT ![d] = carried[j]]
        /\ carried' = [carried EXCEPT ![j] = Absent]
        /\ outcome' = [outcome EXCEPT ![j] = "none"]
        /\ UNCHANGED <<indexes, snapshot, sidecar>>
    BY <1>23 DEF PublishFailure, EndWithout, diskVars
  <2>2. d \in Devices /\ sidecar[d] = carried[j]
    BY <2>1
  <2>3. \A i \in Jobs : job'[i].dev = job[i].dev
    BY <1>23 DEF PublishFailure, EndWithout
  <2>4. CarriedInv'
    BY <2>1, <2>3
  <2>5. MatchInv'
    <3>1. sidecar[d] = indexStates'[d]
      BY <2>1, <2>2
    <3>2. \A i \in Jobs : pc[i] \in {"saveState", "publish"} => job[i].dev # d
      BY <2>1, Alone
    <3>3. snapshot[d] = indexes[d]
      BY <2>2, <3>2
    <3>4. ASSUME NEW e \in Devices, e # d
          PROVE  /\ indexStates'[e] = indexStates[e]
                 /\ \A i \in Jobs : job[i].dev = e => pc'[i] = pc[i]
      BY <2>1, <3>4
    <3> DEFINE Matches(e) ==
          /\ (\A i \in Jobs : job'[i].dev = e => pc'[i] \notin {"saveState", "publish"}) =>
               snapshot'[e] = indexes'[e]
          /\ (\A i \in Jobs : job'[i].dev = e => pc'[i] \notin {"publish", "failPublish"}) =>
               sidecar'[e] = indexStates'[e]
    <3>5. Matches(d)
      BY <2>1, <3>1, <3>3
    <3>6. ASSUME NEW e \in Devices, e # d PROVE Matches(e)
      <4>1. \A i \in Jobs : job'[i].dev = e => job[i].dev = e /\ pc'[i] = pc[i]
        BY <2>3, <3>4, <3>6
      <4>2. UNCHANGED <<snapshot, sidecar>> /\ indexes'[e] = indexes[e] /\ indexStates'[e] = indexStates[e]
        BY <2>1, <3>4, <3>6
      <4>3. /\ (\A i \in Jobs : job[i].dev = e => pc[i] \notin {"saveState", "publish"}) =>
                 snapshot[e] = indexes[e]
            /\ (\A i \in Jobs : job[i].dev = e => pc[i] \notin {"publish", "failPublish"}) =>
                 sidecar[e] = indexStates[e]
        OBVIOUS
      <4>4. \A i \in Jobs : job[i].dev = e => job'[i].dev = e
        BY <2>3
      <4> HIDE DEF RecordInv, MatchInv, CarriedInv, IInv, StoreInv, TableInv, TypeOK
      <4> QED BY <4>1, <4>2, <4>3, <4>4
    <3> QED BY <3>5, <3>6
  <2> QED BY <2>4, <2>5
<1>24. ASSUME Restart PROVE RecordInv'
  <2>1. PICK denied : LoadSidecars(denied, FALSE)
    BY <1>24 DEF Restart
  <2>2. sidecar' = indexStates'
    BY <2>1, LoadSidecarsMatch
  <2> QED BY <1>24, <2>2 DEF Restart, LoadedIndexes, NoJob
<1>25. ASSUME NEW d \in Devices, FileChange(d) PROVE RecordInv'
  BY <1>25 DEF FileChange, ChangeFile
<1>26. CASE UNCHANGED vars
  BY <1>26 DEF vars
<1> QED
  BY <1>1, <1>2, <1>4, <1>5, <1>6, <1>7, <1>8, <1>9,
     <1>10, <1>11, <1>12, <1>13, <1>14, <1>16, <1>17, <1>18,
     <1>19, <1>20, <1>21, <1>22, <1>23, <1>24, <1>25, <1>26
  DEF Next, Client, Worker, ForgetFails, CreateFails

THEOREM RecordInductive ==
  ASSUME Overlap = {}, IoErrors = FALSE
  PROVE  Spec => []RecordInv
<1>1. Init => RecordInv
  BY RecordInit
<1>2. IInv /\ StoreInv /\ RecordInv /\ [Next]_vars => RecordInv'
  BY RecordStep
<1> QED BY <1>1, <1>2, Inductive, StoreInductive, PTL DEF Spec

\* While no job of a device is being finished, a restart would change nothing
\* of the index that is served ...
THEOREM SnapshotMatchesHolds ==
  ASSUME Overlap = {}, IoErrors = FALSE
  PROVE  Spec => []SnapshotMatchesServed
<1>1. RecordInv => SnapshotMatchesServed
  BY DEF RecordInv, MatchInv, SnapshotMatchesServed, Finishing, SavePcs
<1> QED BY <1>1, RecordInductive, PTL

\* ... nor of what the daemon knows of its health.
THEOREM SidecarMatchesHolds ==
  ASSUME Overlap = {}, IoErrors = FALSE
  PROVE  Spec => []SidecarMatchesMemory
<1>1. RecordInv => SidecarMatchesMemory
  BY DEF RecordInv, MatchInv, SidecarMatchesMemory, Finishing, SavePcs, FailPcs
<1> QED BY <1>1, RecordInductive, PTL

\* When a job that ran ends, both sidecars say how it ended, whatever was
\* requested, cancelled or restarted meanwhile.
THEOREM OutcomeHolds ==
  ASSUME Overlap = {}, IoErrors = FALSE
  PROVE  Spec => OutcomeRecorded
<1> DEFINE Says(j) ==
      LET d == job[j].dev
      IN  /\ indexStates'[d] = sidecar'[d]
          /\ indexStates'[d].stale = CASE job'[j].state = "Finished"  -> "none"
                                       [] job'[j].state = "Failed"    -> "scan_failed"
                                       [] job'[j].state = "Cancelled" -> "scan_cancelled"
       Step == \A j \in Jobs : job[j].state = "Running" /\ job'[j].state \in Terminal => Says(j)
<1>1. ASSUME IInv, RecordInv, [Next]_vars PROVE Step
  <2>1. CASE \A j \in Jobs : job'[j].state # job[j].state => job[j].state # "Running" \/ job'[j].state \notin Terminal
    BY <2>1 DEF Terminal
  <2>2. ASSUME NEW i \in Jobs, PublishIndex(i) PROVE Step
    <3> DEFINE d == job[i].dev
    <3>1. /\ pc[i] = "publish" /\ d \in Devices
          /\ carried[i] = FreshSidecar /\ sidecar[d] = carried[i]
      BY <1>1, <2>2 DEF PublishIndex, EndWithIndex, Goto, RecordInv, CarriedInv, IInv, TableInv,
                        HasDevice, JobMatchesWorker
    <3>2. indexStates' = [indexStates EXCEPT ![d] = carried[i]] /\ UNCHANGED sidecar
      BY <2>2 DEF PublishIndex, EndWithIndex
    <3>3. job' = [job EXCEPT ![i].state = "Finished"]
      BY <2>2 DEF PublishIndex, EndWithIndex
    <3>4. indexStates'[d] = FreshSidecar /\ sidecar'[d] = FreshSidecar
      BY <1>1, <3>1, <3>2 DEF IInv, TypeOK, StoreTypeOK
    <3>5. job'[i].state = "Finished" /\ \A j \in Jobs \ {i} : job'[j] = job[j]
      BY <1>1, <3>3 DEF IInv, TypeOK
    <3>6. Says(i)
      BY <3>4, <3>5 DEF FreshSidecar
    <3> QED BY <3>5, <3>6 DEF Terminal
  <2>3. ASSUME NEW i \in Jobs, PublishFailure(i) PROVE Step
    <3> DEFINE d == job[i].dev
    <3>1. /\ pc[i] = "failPublish" /\ d \in Devices
          /\ carried[i].stale = Reason(outcome[i]) /\ sidecar[d] = carried[i]
      BY <1>1, <2>3 DEF PublishFailure, EndWithout, Goto, RecordInv, CarriedInv, IInv, TableInv,
                        HasDevice, JobMatchesWorker
    <3>2. indexStates' = [indexStates EXCEPT ![d] = carried[i]] /\ UNCHANGED sidecar
      BY <2>3 DEF PublishFailure, EndWithout
    <3>3. job' = [job EXCEPT ![i].state = EndState(i)]
      BY <2>3 DEF PublishFailure, EndWithout
    <3>4. indexStates'[d] = carried[i] /\ sidecar'[d] = carried[i]
      BY <1>1, <3>1, <3>2 DEF IInv, TypeOK, StoreTypeOK
    <3>5. job'[i].state = EndState(i) /\ \A j \in Jobs \ {i} : job'[j] = job[j]
      BY <1>1, <3>3 DEF IInv, TypeOK
    <3>6. Says(i)
      BY <3>1, <3>4, <3>5 DEF Reason, EndState
    <3> QED BY <3>5, <3>6 DEF Terminal
  <2>4. CASE UNCHANGED job
    BY <2>1, <2>4
  <2>5. ASSUME NEW d \in Devices, StartScan(d) PROVE Step
    BY <1>1, <2>5 DEF StartScan, IInv, TypeOK, Terminal
  <2>6. ASSUME NEW i \in Jobs, CancelScan(i) PROVE Step
    BY <1>1, <2>6 DEF CancelScan, RaiseFlag, IInv, TypeOK, Terminal
  <2>7. ASSUME NEW i \in Jobs, CancelledBeforeStart(i) \/ AcquireSlot(i) PROVE Step
    BY <1>1, <2>7 DEF CancelledBeforeStart, AcquireSlot, TakeSlot, Goto, IInv, TypeOK, Terminal,
                      TableInv, JobMatchesWorker, BusyPcs, ScanPcs, SavePcs, FailPcs
  <2>8. CASE Restart
    BY <2>8 DEF Restart, NoJob, Terminal
  <2> HIDE DEF Step
  <2>9. ASSUME NEW i \in Jobs, Worker(i) PROVE Step
    BY <2>2, <2>3, <2>4, <2>7, <2>9
    DEF Worker, BeginScan, ReadDevice, ScanDone, ScanFails, CheckCancelled, BeginSave, CreateFails,
        WriteSnapshot, RenameSnapshot, Renamed, SaveFails, SaveState, ClassifyFailure, SaveFailure, jobVars
  <2>10. CASE Client
    BY <2>4, <2>5, <2>6, <2>10
    DEF Client, Forget, ForgetFails, SetLimit, ReloadEnabled, jobVars
  <2> QED BY <1>1, <2>4, <2>8, <2>9, <2>10 DEF Next, FileChange, jobVars, vars
<1>2. IInv /\ RecordInv /\ [Next]_vars => [Step]_vars
  BY <1>1
<1> QED BY <1>2, Inductive, RecordInductive, PTL DEF Spec, OutcomeRecorded

-----------------------------------------------------------------------------
(* The history of MCForget.                                                *)

LEMMA HistoryImplies == HistorySpec => Spec
<1>1. HistoryInit => Init
  BY DEF HistoryInit
<1>2. [HistoryNext]_<<vars, forgotten>> => [Next]_vars
  BY DEF HistoryNext, Next, Client, vars
<1> QED BY <1>1, <1>2, PTL DEF HistorySpec, Spec

LEMMA ForgottenStep ==
  ASSUME Overlap = {}, IoErrors = FALSE, IInv, StoreInv, forgotten \subseteq Devices,
         ForgottenInv, [HistoryNext]_<<vars, forgotten>>
  PROVE  forgotten' \subseteq Devices /\ ForgottenInv'
<1>1. forgotten' \subseteq Devices
  BY DEF HistoryNext
<1> USE DEF ForgottenInv, ScanActive, IInv, TypeOK, StoreTypeOK, TableInv, HasDevice, JobMatchesWorker,
        Active, BusyPcs, ScanPcs, SavePcs, FailPcs, Pcs, Goto, Terminal, JobStates
<1>2. ASSUME NEW d \in Devices, Forget(d), forgotten' = forgotten \cup {d} PROVE ForgottenInv'
  BY <1>2, StoreAssumption DEF Forget, DeleteSnapshot, jobVars
<1>3. ASSUME NEW d \in Devices, StartScan(d), forgotten' = forgotten \ {d} PROVE ForgottenInv'
  BY <1>3 DEF StartScan, storeVars
<1>4. ASSUME UNCHANGED <<snapshot, indexes, forgotten>>,
             \A j \in Jobs : job'[j].state \in Active => job[j].state \in Active /\ job'[j].dev = job[j].dev
      PROVE ForgottenInv'
  BY <1>4
<1>5. ASSUME NEW j \in Jobs, RenameSnapshot(j), UNCHANGED forgotten PROVE ForgottenInv'
  <2>1. /\ job[j].dev \notin forgotten
        /\ snapshot' = [snapshot EXCEPT ![job[j].dev] = snapshotTmp[job[j].dev]]
        /\ UNCHANGED <<job, indexes>>
    BY <1>5, JobsAssumption DEF RenameSnapshot, Renamed, RenameTmp, StoreInv, SaverInv
  <2> QED BY <1>5, <2>1
<1>6. ASSUME NEW j \in Jobs, PublishIndex(j), UNCHANGED forgotten PROVE ForgottenInv'
  <2>1. /\ job[j].dev \notin forgotten
        /\ indexes' = [indexes EXCEPT ![job[j].dev] = scanned[j]]
        /\ UNCHANGED snapshot
        /\ \A i \in Jobs : job'[i].state \in Active => job[i].state \in Active /\ job'[i].dev = job[i].dev
    BY <1>6 DEF PublishIndex, EndWithIndex, diskVars
  <2> QED BY <1>6, <2>1
<1>7. ASSUME NEW j \in Jobs, CancelledBeforeStart(j) \/ AcquireSlot(j) \/ PublishFailure(j)
      PROVE  \A i \in Jobs : job'[i].state \in Active => job[i].state \in Active /\ job'[i].dev = job[i].dev
  BY <1>7 DEF CancelledBeforeStart, AcquireSlot, TakeSlot, PublishFailure, EndWithout, EndState
<1>8. ASSUME NEW j \in Jobs, WriteSnapshot(j) PROVE UNCHANGED <<snapshot, indexes, job>>
  BY <1>8, JobsAssumption DEF WriteSnapshot, WriteTmp, StoreInv, SaverInv, jobVars
<1>9. ASSUME NEW j \in Jobs, Worker(j), UNCHANGED forgotten PROVE ForgottenInv'
  BY <1>4, <1>5, <1>6, <1>7, <1>8, <1>9
  DEF Worker, CancelledBeforeStart, AcquireSlot, TakeSlot, PublishFailure, EndWithout,
      BeginScan, ReadDevice, ScanDone, ScanFails, CheckCancelled, BeginSave, CreateFails, OpenTmp,
      SaveFails, RenameFails, SaveState, ClassifyFailure, SaveFailure,
      storeVars, diskVars, memoryVars
<1>10. ASSUME NEW j \in Jobs, CancelScan(j), UNCHANGED forgotten PROVE ForgottenInv'
  <2>1. \A i \in Jobs : job'[i].state \in Active => job[i].state \in Active /\ job'[i].dev = job[i].dev
    BY <1>10 DEF CancelScan, RaiseFlag
  <2> QED BY <1>4, <1>10, <2>1 DEF CancelScan, RaiseFlag, storeVars
<1>11. ASSUME Restart, UNCHANGED forgotten PROVE ForgottenInv'
  BY <1>11, StoreAssumption DEF Restart, LoadedIndexes, NoJob
<1>12. ASSUME UNCHANGED <<snapshot, indexes, job, forgotten>> PROVE ForgottenInv'
  BY <1>4, <1>12
<1> QED
  <2> HIDE DEF ForgottenInv
  <2> QED
    BY <1>1, <1>2, <1>3, <1>9, <1>10, <1>11, <1>12
    DEF HistoryNext, ForgetFails, SetLimit, ReloadEnabled, FileChange, storeVars, jobVars, vars

\* A forgotten index does not come back before a scan is asked for, whatever
\* finishes, fails or restarts meanwhile - as long as nobody forgets a device
\* that is being scanned.
THEOREM ForgottenHolds ==
  ASSUME Overlap = {}, IoErrors = FALSE
  PROVE  HistorySpec => []ForgottenStaysForgotten
<1> DEFINE FInv == forgotten \subseteq Devices /\ ForgottenInv
<1>1. HistoryInit => FInv
  BY DEF HistoryInit, ForgottenInv
<1>2. IInv /\ StoreInv /\ FInv /\ [HistoryNext]_<<vars, forgotten>> => FInv'
  BY ForgottenStep
<1>3. FInv => ForgottenStaysForgotten
  BY DEF ForgottenInv, ForgottenStaysForgotten
<1> HIDE DEF FInv
<1> QED BY <1>1, <1>2, <1>3, HistoryImplies, Inductive, StoreInductive, PTL DEF HistorySpec

=============================================================================
