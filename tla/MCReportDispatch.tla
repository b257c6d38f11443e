--------------------------- MODULE MCReportDispatch ---------------------------
(* Instances of ReportDispatch for TLC.                                    *)
EXTENDS ReportDispatch, TLC

(* Sweeps and destinations are interchangeable.                            *)
DispatchSymmetry == Permutations(Sweeps) \cup Permutations(Destinations)
=============================================================================
