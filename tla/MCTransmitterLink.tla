-------------------------- MODULE MCTransmitterLink -------------------------
(***************************************************************************)
(* Instances of TransmitterLink for TLC.                                   *)
(***************************************************************************)
EXTENDS TransmitterLink
=============================================================================
