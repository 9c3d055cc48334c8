------------------------------ MODULE MCForget ------------------------------
(* ScanJobs with a history variable that remembers the devices that were    *)
(* forgotten and for which no scan has been asked since.                    *)
EXTENDS MCScanJobs

VARIABLE forgotten

HistoryInit == Init /\ forgotten = {}

HistoryNext ==
  \/ \E d \in Devices : Forget(d) /\ forgotten' = forgotten \cup {d}
  \/ \E d \in Devices : StartScan(d) /\ forgotten' = forgotten \ {d}
  \/ /\ \/ \E d \in Devices : ForgetFails(d) \/ FileChange(d)
        \/ \E j \in Jobs : CancelScan(j) \/ Worker(j)
        \/ \E n \in Limits : SetLimit(n)
        \/ \E D \in SUBSET Devices : ReloadEnabled(D)
        \/ Restart
     /\ UNCHANGED forgotten

HistorySpec == HistoryInit /\ [][HistoryNext]_<<vars, forgotten>>

\* "Forget This Index: remove the saved index for that device": once the daemon
\* has answered, there is no index of the device, in memory or on disk, until
\* somebody asks for a new scan.
ForgottenStaysForgotten ==
  \A d \in forgotten : snapshot[d] = Absent /\ indexes[d] = Absent

=============================================================================
