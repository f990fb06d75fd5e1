------------------------------ MODULE MCTracking ----------------------------
(***************************************************************************)
(* Instances of FrequencyTracking for TLC.                                 *)
(***************************************************************************)
EXTENDS FrequencyTracking
=============================================================================
