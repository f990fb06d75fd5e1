---------------------------- MODULE MCWsjtxStatus ---------------------------
(***************************************************************************)
(* Instances of WsjtxStatus for TLC.                                       *)
(***************************************************************************)
EXTENDS WsjtxStatus

Status(freq, mode, tx, enabled, df, msg) ==
  [freq |-> freq, mode |-> mode, tx |-> tx, enabled |-> enabled, df |-> df, msg |-> msg]

(* Transmitting two texts in two modes on two bands, and halted.           *)
TwoBands == {Status(1, "FT8", TRUE, TRUE, 5, "cq"),
             Status(2, "FT4", TRUE, TRUE, 6, "73"),
             Status(2, "FT4", FALSE, FALSE, 6, "73")}

(* Transmitting on one band, halted on another.                            *)
OnOff == {Status(1, "FT8", TRUE, TRUE, 5, "cq"),
          Status(2, "FT8", FALSE, FALSE, 5, "cq")}

(* The same text in two modes.                                             *)
TwoModes == {Status(1, "FT8", TRUE, TRUE, 5, "cq"),
             Status(1, "FT4", TRUE, TRUE, 5, "cq")}

(* A text, and a Tune in a mode the transmitter has not.                   *)
OneBand == {Status(1, "FT4", TRUE, TRUE, 5, "cq"),
            Status(1, "Q65", TRUE, FALSE, 6, "TUNE")}

=============================================================================
