---------------------------- MODULE IndexService ----------------------------
(***************************************************************************)
(* What the index store of oxidexd promises its users, without files,      *)
(* jobs or crashes: for every device an index or none; what is served is   *)
(* a state the file system of the device really had, it never becomes      *)
(* older, and it disappears only by being forgotten.                       *)
(***************************************************************************)
CONSTANTS Devices, Changes, Absent

VARIABLES
  fs,      \* fs[d]: the changes made to the file system of d
  served   \* served[d]: the changes that search results reflect, or Absent

Init ==
  /\ fs = [d \in Devices |-> {}]
  /\ served = [d \in Devices |-> Absent]

Change(d) ==
  /\ \E c \in Changes \ fs[d] : fs' = [fs EXCEPT ![d] = @ \cup {c}]
  /\ UNCHANGED served

\* Some devices get a newer index, in one step: a scan refreshes one device, a
\* start of the daemon may refresh several.
Refresh ==
  /\ served' \in [Devices -> [seen : SUBSET Changes] \cup {Absent}]
  /\ \A d \in Devices : served'[d] # served[d] =>
       /\ served'[d] # Absent
       /\ served'[d].seen \subseteq fs[d]
       /\ served[d] # Absent => served[d].seen \subseteq served'[d].seen
  /\ UNCHANGED fs

Forget(d) ==
  /\ served' = [served EXCEPT ![d] = Absent]
  /\ UNCHANGED fs

Next ==
  \/ Refresh
  \/ \E d \in Devices : Change(d) \/ Forget(d)

Spec == Init /\ [][Next]_<<fs, served>>

=============================================================================
