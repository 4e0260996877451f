------------------------------- MODULE MCGate -------------------------------
(* SupervisorGate for TLC: three runs let one leave something behind, a     *)
(* second one reuse it and a third one overwrite a summary; three versions  *)
(* let a binary be two edits old.                                           *)
EXTENDS SupervisorGate

ASSUME MaxVersion > 1 /\ MaxRuns > 1

=============================================================================
