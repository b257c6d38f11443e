------------------------------ MODULE ImportRows ------------------------------
(***************************************************************************)
(* What the parent row and the slice rows of an import have in common: the *)
(* runs that may hold them and the slices of the job.                      *)
(***************************************************************************)
EXTENDS Integers

CONSTANTS Runs,    \* executions of the worker, each started by a claim of its own
          NoRun,   \* the null lease
          Chunks   \* date slices by ordinal: the newest is 0 or 1 and runs first

ASSUME NoRunAssumption == NoRun \notin Runs
ASSUME ChunksAssumption == Chunks \subseteq Nat
=============================================================================
