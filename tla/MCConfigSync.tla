---------------------------- MODULE MCConfigSync ----------------------------
(* For safety, three versions: one current at the start, and two changes   *)
(* that race with the responses of the channels; one request fails.  For   *)
(* convergence, one change and two failures.                               *)
EXTENDS ConfigSync
=============================================================================
