------------------------------ MODULE MCMetaSync ------------------------------
(* Instances of MetaSync for TLC.                                          *)
EXTENDS MetaSync, TLC

(* Workers and rows are interchangeable; not used with liveness.           *)
SyncSymmetry == Permutations(Workers) \cup Permutations(Rows)
=============================================================================
