----------------------------- MODULE MCRttyQueue ----------------------------
(***************************************************************************)
(* Instances of RttyQueue for TLC: texts of different lengths that mix     *)
(* letters and figures, one of them too long for a slot.                   *)
(***************************************************************************)
EXTENDS RttyQueue, TLC

CONSTANTS cq, rst        \* two texts

MCMessages == {cq, rst}

MCText ==
  (cq :> <<"LTRS", "FIGS">>) @@ (rst :> <<"FIGS", "LTRS", "LTRS", "FIGS">>)

=============================================================================
