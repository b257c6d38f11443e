---------------------------- MODULE MCImportWorker ----------------------------
(* Instances of ImportWorker for TLC.                                      *)
EXTENDS ImportWorker, TLC

(* Runs are interchangeable; used by the runs that check no liveness.      *)
RunSymmetry == Permutations(Runs)

(* The receipts and the author of a completion are written and never read  *)
(* by an action or, types aside, by a safety property: states that differ  *)
(* only in them are explored once.                                         *)
WithoutReceipts == <<job, chunk, run, contacts>>
=============================================================================
