----------------------------- MODULE MCScanJob -----------------------------
(* Instances of ScanJob for TLC; the cfg files choose the sizes. *)
EXTENDS ScanJob
=============================================================================
