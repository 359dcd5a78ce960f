--------------------------- MODULE MCReportService ------------------------------
(* Instances of ReportService for model checking.                              *)
EXTENDS ReportService

CONSTANTS r1, r2, o1, o2
=================================================================================
