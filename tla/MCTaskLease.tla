---------------------------- MODULE MCTaskLease -----------------------------
(***************************************************************************)
(* The three resources that workers process under a lease, for TLC.        *)
(***************************************************************************)
EXTENDS TaskLease

CONSTANTS w1, w2, t1, t2, t3

ScanStartable == {"queued", "extraction_failed"}
AnalysisStartable == {"queued", "processing", "failed"}
ReportStartable == {"processing", "failed"}
=============================================================================
