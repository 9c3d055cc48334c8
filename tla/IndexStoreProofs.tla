-------------------------- MODULE IndexStoreProofs --------------------------
(***************************************************************************)
(* Lemmas about the file operations of the index store, shared by the      *)
(* proofs about the clients of the store.                                  *)
(***************************************************************************)
EXTENDS IndexStore, TLAPS

-----------------------------------------------------------------------------
(* Types of the file operations of IndexStore.                             *)

LEMMA RelinkedType ==
  ASSUME saver \in [Writers -> Saver], NEW d, NEW f \in Files
  PROVE  Relinked(d, f) \in [Writers -> Saver]
<1> SUFFICES ASSUME NEW w \in Writers PROVE Relinked(d, f)[w] \in Saver
  BY DEF Relinked
<1> DEFINE new == CASE saver[w].file = "tmp"      -> f
                    [] saver[w].file = "snapshot" -> "unlinked"
                    [] OTHER                      -> saver[w].file
<1>1. saver[w] \in Saver
  OBVIOUS
<1>2. new \in Files
  BY <1>1 DEF Saver, Files
<1>3. [saver[w] EXCEPT !.file = new] \in Saver
  BY <1>1, <1>2 DEF Saver
<1>4. Relinked(d, f)[w] \in {[saver[w] EXCEPT !.file = new], saver[w]}
  BY DEF Relinked
<1> QED BY <1>1, <1>3, <1>4

DiskTypeOK ==
  /\ snapshot \in [Devices -> Index \cup {Absent, Torn}]
  /\ snapshotTmp \in [Devices -> Index \cup {Absent, Torn}]
  /\ saver \in [Writers -> Saver]

LEMMA IdleSaverType == IdleSaver \in Saver
BY DEF IdleSaver, Saver, SaverPhases, Files

LEMMA WriteTmpType ==
  ASSUME DiskTypeOK, NEW w \in Writers, WriteTmp(w)
  PROVE  DiskTypeOK'
<1> USE DEF DiskTypeOK
<1> DEFINE d == saver[w].dev
<1>1. saver' \in [Writers -> Saver]
  BY DEF WriteTmp, Saver, SaverPhases
<1>2. \A c, f : Written(w, c, f) \subseteq Index \cup {Absent, Torn}
  BY DEF Written, Saver
<1>3. /\ snapshot' \in [Devices -> Index \cup {Absent, Torn}]
      /\ snapshotTmp' \in [Devices -> Index \cup {Absent, Torn}]
  <2>1. CASE \E c \in Written(w, snapshotTmp[d], saver[w].file) :
                /\ snapshotTmp' = [snapshotTmp EXCEPT ![d] = c]
                /\ UNCHANGED snapshot
    <3>1. PICK c \in Index \cup {Absent, Torn} : snapshotTmp' = [snapshotTmp EXCEPT ![d] = c]
      BY <2>1, <1>2
    <3> QED BY <2>1, <3>1
  <2>2. CASE \E c \in Written(w, snapshot[d], saver[w].file) :
                /\ snapshot' = [snapshot EXCEPT ![d] = c]
                /\ UNCHANGED snapshotTmp
    <3>1. PICK c \in Index \cup {Absent, Torn} : snapshot' = [snapshot EXCEPT ![d] = c]
      BY <2>2, <1>2
    <3> QED BY <2>2, <3>1
  <2>3. CASE UNCHANGED <<snapshot, snapshotTmp>>
    BY <2>3
  <2> QED BY <2>1, <2>2, <2>3 DEF WriteTmp
<1> QED BY <1>1, <1>3

LEMMA RenameTmpType ==
  ASSUME DiskTypeOK, NEW w \in Writers, RenameTmp(w)
  PROVE  DiskTypeOK'
<1> DEFINE d == saver[w].dev
<1>1. Relinked(d, "snapshot") \in [Writers -> Saver]
  BY RelinkedType DEF DiskTypeOK, Files
<1>2. saver' \in [Writers -> Saver]
  BY <1>1, IdleSaverType DEF RenameTmp
<1>3. /\ snapshot' \in [Devices -> Index \cup {Absent, Torn}]
      /\ snapshotTmp' \in [Devices -> Index \cup {Absent, Torn}]
  BY DEF DiskTypeOK, RenameTmp
<1> QED BY <1>2, <1>3 DEF DiskTypeOK

\* Loading makes no other records of the health.
LEMMA LoadSidecarsType ==
  ASSUME sidecar \in [Devices -> Sidecar \cup {Absent}],
         NEW denied, NEW io, LoadSidecars(denied, io)
  PROVE  /\ indexStates' \in [Devices -> Sidecar \cup {Absent}]
         /\ sidecar' \in [Devices -> Sidecar \cup {Absent}]
<1>1. [stale |-> "none", live |-> "unavailable"] \in Sidecar
  BY DEF Sidecar, StaleReasons, LiveStates
<1>2. indexStates' \in [Devices -> Sidecar \cup {Absent}]
  BY <1>1 DEF LoadSidecars
<1>3. PICK saved : sidecar' = [d \in Devices |-> IF d \in saved THEN indexStates'[d] ELSE sidecar[d]]
  BY DEF LoadSidecars
<1> QED BY <1>2, <1>3

\* Without failing writes, what is normalized is saved.
LEMMA LoadSidecarsMatch ==
  ASSUME NEW denied, LoadSidecars(denied, FALSE)
  PROVE  sidecar' = indexStates'
<1>1. /\ indexStates' = [d \in Devices |->
            IF d \in denied THEN [stale |-> "none", live |-> "unavailable"] ELSE sidecar[d]]
      /\ sidecar' = [d \in Devices |-> IF d \in denied THEN indexStates'[d] ELSE sidecar[d]]
  BY DEF LoadSidecars
<1>2. \A d \in Devices : sidecar'[d] = indexStates'[d]
  BY <1>1
<1> QED BY <1>1, <1>2

=============================================================================
