---------------------------- MODULE MCJobReaders ----------------------------
(* Instances of JobReaders for TLC; the cfg files choose the sizes. *)
EXTENDS JobReaders
=============================================================================
