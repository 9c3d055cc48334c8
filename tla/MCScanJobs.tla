----------------------------- MODULE MCScanJobs -----------------------------
(* ScanJobs for TLC: jobs are interchangeable.                              *)
EXTENDS ScanJobs, TLC

JobSymmetry == Permutations(Jobs)

=============================================================================
