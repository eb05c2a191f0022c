----------------------------- MODULE MCLimiter -----------------------------
(* A scanner that batches two SYNs and a banner task share a bucket of two *)
(* units; the operator switches between a cost of one and of three units   *)
(* per packet.                                                             *)
EXTENDS Limiter
=============================================================================
