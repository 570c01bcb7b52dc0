------------------------- MODULE MCReportGeneration -------------------------
(***************************************************************************)
(* The instances of ReportGeneration that TLC checks.                      *)
(***************************************************************************)
EXTENDS ReportGeneration, TLC

\* Nothing orders or names the jobs of one kind.
JobSymmetry == Permutations(Workers) \cup Permutations(DirectCalls)
=============================================================================
