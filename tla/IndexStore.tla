----------------------------- MODULE IndexStore -----------------------------
(***************************************************************************)
(* The index store of oxidexd: for every device one snapshot file (.kidx)  *)
(* and one health sidecar (.state.json) on disk, and the copies of both    *)
(* that the daemon serves from memory under its state lock                 *)
(* (DaemonState.indexes and DaemonState.index_states).                     *)
(*                                                                         *)
(* What is indexed is abstracted to the set of file-system changes that    *)
(* an index reflects: a scan reflects every change made before it read the *)
(* device.  Absent stands for "no file" or "no entry"; Torn for a snapshot *)
(* file whose bytes read_index refuses (empty, cut short, or two writers'  *)
(* bytes mixed).                                                           *)
(*                                                                         *)
(* The module has no next-state relation of its own.  It gives the file    *)
(* operations as action fragments that the modules of the daemon's threads *)
(* conjoin with the rest of the handler they model.                        *)
(***************************************************************************)
EXTENDS Naturals, FiniteSets

CONSTANTS
  Devices,   \* the devices the daemon knows
  Changes,   \* the file-system changes that may happen on each device
  Writers,   \* the threads that may run save_index
  Absent,    \* no file, no entry
  Torn       \* a file that exists and cannot be loaded

\* What an index holds: the changes it reflects.
Index == [seen : SUBSET Changes]

ASSUME StoreAssumption ==
  /\ Absent \notin Index
  /\ Torn \notin Index
  /\ Absent # Torn

VARIABLES
  fs,           \* fs[d]: the changes made so far to the file system of d
  snapshot,     \* snapshot[d]: content of <device>.kidx
  snapshotTmp,  \* snapshotTmp[d]: content of <device>.kidx.tmp
  sidecar,      \* sidecar[d]: content of <device>.state.json
  indexes,      \* indexes[d]: the index served from memory
  indexStates,  \* indexStates[d]: the sidecar kept in memory
  saver         \* saver[w]: where writer w is inside save_index

diskVars   == <<snapshot, snapshotTmp, saver>>
memoryVars == <<indexes, indexStates>>
storeVars  == <<fs, snapshot, snapshotTmp, sidecar, indexes, indexStates, saver>>

-----------------------------------------------------------------------------
(* Values *)

\* IndexStateV1: the two fields that change what the daemon does.
StaleReasons == {"none", "scan_failed", "scan_cancelled", "watch_desync"}
LiveStates   == {"none", "pending", "watching", "error", "unavailable", "suppressed"}
Sidecar      == [stale : StaleReasons, live : LiveStates]

NewSidecar   == [stale |-> "none", live |-> "none"]
FreshSidecar == [stale |-> "none", live |-> "pending"]

ASSUME SidecarAssumption == Absent \notin Sidecar

\* A writer holds an open file between File::create and the end of the block
\* that writes it.  The open file follows its inode: a rename by somebody else
\* makes it the snapshot file, and a second rename or a delete unlinks it.
IdleSaver  == [phase |-> "idle", dev |-> Absent, data |-> Absent, file |-> "tmp"]
SaverPhases == {"idle", "opened", "written"}
Files       == {"tmp", "snapshot", "unlinked"}
Saver == [phase : SaverPhases, dev : Devices \cup {Absent},
          data : Index \cup {Absent}, file : Files]

StoreTypeOK ==
  /\ fs \in [Devices -> SUBSET Changes]
  /\ snapshot \in [Devices -> Index \cup {Absent, Torn}]
  /\ snapshotTmp \in [Devices -> Index \cup {Absent, Torn}]
  /\ sidecar \in [Devices -> Sidecar \cup {Absent}]
  /\ indexes \in [Devices -> Index \cup {Absent}]
  /\ indexStates \in [Devices -> Sidecar \cup {Absent}]
  /\ saver \in [Writers -> Saver]

\* A fresh installation: an empty index directory, the daemon just loaded it.
StoreInit ==
  /\ fs = [d \in Devices |-> {}]
  /\ snapshot = [d \in Devices |-> Absent]
  /\ snapshotTmp = [d \in Devices |-> Absent]
  /\ sidecar = [d \in Devices |-> Absent]
  /\ indexes = [d \in Devices |-> Absent]
  /\ indexStates = [d \in Devices |-> Absent]
  /\ saver = [w \in Writers |-> IdleSaver]

-----------------------------------------------------------------------------
(* save_index, outside the state lock: create the tmp file, write it,       *)
(* rename it over the snapshot.  The name of the tmp file is the same for   *)
(* every writer of the device.                                              *)

\* Writers that hold file f of device d open.
Holders(d, f) == {w \in Writers : /\ saver[w].phase = "opened"
                                  /\ saver[w].dev = d
                                  /\ saver[w].file = f}

\* Mutant: the snapshot file itself is created and written.
OpenInPlace(w, d, data) ==
  /\ saver[w].phase = "idle"
  /\ snapshot' = [snapshot EXCEPT ![d] = Torn]
  /\ snapshotTmp' = [snapshotTmp EXCEPT ![d] = Torn]
  /\ saver' = [saver EXCEPT ![w] = [phase |-> "opened", dev |-> d,
                                    data |-> data, file |-> "tmp"]]

\* File::create: the file exists and is empty, whoever else had it open.
OpenTmp(w, d, data) ==
  /\ saver[w].phase = "idle"
  /\ snapshotTmp' = [snapshotTmp EXCEPT ![d] = Torn]
  /\ saver' = [saver EXCEPT ![w] = [phase |-> "opened", dev |-> d,
                                    data |-> data, file |-> "tmp"]]
  /\ UNCHANGED snapshot

\* What a file may hold when w has written all its bytes: w's index, or, if
\* another writer has the file open or has already filled it since w opened it,
\* possibly a mixture of the two.
Written(w, content, f) ==
  IF Holders(saver[w].dev, f) = {w} /\ content = Torn
  THEN {saver[w].data}
  ELSE {saver[w].data, Torn}

WriteTmp(w) ==
  LET d == saver[w].dev
      f == saver[w].file
  IN  /\ saver[w].phase = "opened"
      /\ saver' = [saver EXCEPT ![w].phase = "written"]
      /\ \/ /\ f = "tmp"
            /\ \E c \in Written(w, snapshotTmp[d], f) :
                 snapshotTmp' = [snapshotTmp EXCEPT ![d] = c]
            /\ UNCHANGED snapshot
         \/ /\ f = "snapshot"
            /\ \E c \in Written(w, snapshot[d], f) :
                 snapshot' = [snapshot EXCEPT ![d] = c]
            /\ UNCHANGED snapshotTmp
         \/ /\ f = "unlinked"
            /\ UNCHANGED <<snapshot, snapshotTmp>>

\* Unlinking the snapshot file of d and moving the tmp file, as seen by the
\* writers that hold one of them open.
Relinked(d, tmpBecomes) ==
  [w \in Writers |->
     IF saver[w].phase = "opened" /\ saver[w].dev = d
     THEN [saver[w] EXCEPT !.file = CASE @ = "tmp"      -> tmpBecomes
                                      [] @ = "snapshot" -> "unlinked"
                                      [] OTHER          -> @]
     ELSE saver[w]]

\* fs::rename succeeds if the tmp file is still there.
RenameTmp(w) ==
  LET d == saver[w].dev
  IN  /\ saver[w].phase = "written"
      /\ snapshotTmp[d] # Absent
      /\ snapshot' = [snapshot EXCEPT ![d] = snapshotTmp[d]]
      /\ snapshotTmp' = [snapshotTmp EXCEPT ![d] = Absent]
      /\ saver' = [Relinked(d, "snapshot") EXCEPT ![w] = IdleSaver]

\* fs::rename fails: another writer has moved the tmp file away.
RenameFails(w) ==
  /\ saver[w].phase = "written"
  /\ snapshotTmp[saver[w].dev] = Absent
  /\ saver' = [saver EXCEPT ![w] = IdleSaver]
  /\ UNCHANGED <<snapshot, snapshotTmp>>

\* The file system refuses to create, write or rename (a full disk); what has
\* been written so far stays in the tmp file.
SaveIoError(w) ==
  /\ saver[w].phase # "idle"
  /\ saver' = [saver EXCEPT ![w] = IdleSaver]
  /\ UNCHANGED <<snapshot, snapshotTmp>>

\* delete_index removes the snapshot file.
DeleteSnapshot(d) ==
  /\ snapshot' = [snapshot EXCEPT ![d] = Absent]
  /\ saver' = Relinked(d, "tmp")
  /\ UNCHANGED snapshotTmp

-----------------------------------------------------------------------------
(* Loading at start-up: load_all_indexes skips what it cannot read.         *)

\* Mutant: files are taken as they are, without read_index's checks.
LoadedUnchecked == snapshot

\* Mutant: a snapshot without a health sidecar is not loaded.
LoadedWithSidecar ==
  [d \in Devices |-> IF snapshot[d] = Torn \/ sidecar[d] = Absent THEN Absent ELSE snapshot[d]]

\* Mutant: a complete tmp file left by a crash is preferred to the snapshot.
LoadedFromTmp ==
  [d \in Devices |-> CASE snapshotTmp[d] \notin {Torn, Absent} -> snapshotTmp[d]
                       [] snapshot[d] = Torn -> Absent
                       [] OTHER -> snapshot[d]]

LoadedIndexes == [d \in Devices |-> IF snapshot[d] = Torn THEN Absent ELSE snapshot[d]]

\* normalize_watch_setup_sidecar takes a desync that is recorded with a denied
\* permission for a watch that could not be set up.  The text of an error is not
\* modelled: denied is the set of the devices whose last error says so.
SetupErrors == {d \in Devices : sidecar[d] = [stale |-> "watch_desync", live |-> "error"]}

\* load_all_index_states; what is normalized is saved again, as far as that succeeds.
LoadSidecars(denied, io) ==
  /\ indexStates' = [d \in Devices |->
       IF d \in denied THEN [stale |-> "none", live |-> "unavailable"] ELSE sidecar[d]]
  /\ \E saved \in IF io THEN SUBSET denied ELSE {denied} :
       sidecar' = [d \in Devices |-> IF d \in saved THEN indexStates'[d] ELSE sidecar[d]]

\* The device is used: one more change reaches its file system.
ChangeFile(d) ==
  \E c \in Changes \ fs[d] : fs' = [fs EXCEPT ![d] = @ \cup {c}]

=============================================================================
