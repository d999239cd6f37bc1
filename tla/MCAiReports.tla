----------------------------- MODULE MCAiReports -----------------------------
(***************************************************************************)
(* Instances of AiReports: every event announces the same run, as those of *)
(* a run that was completed twice do.  In the .cfg files c1 stands for a   *)
(* consumer and for tasks spawned by /reports/retrigger, one at a time; s1 *)
(* is the scheduler loop that runs beside it.                              *)
(***************************************************************************)
EXTENDS AiReports

CONSTANTS run, day

MCReportOf == [e \in Events |-> run]
=============================================================================
