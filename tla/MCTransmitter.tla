---------------------------- MODULE MCTransmitter ---------------------------
(***************************************************************************)
(* Instances of Transmitter for TLC: three symbols of two ticks in FT8,    *)
(* four of one tick in FT4, and limits in proportion, so that messages are *)
(* sent whole, truncated and not at all.  An end time may be negative: the *)
(* form subtracts a margin from the time left before it sends {W}.         *)
(***************************************************************************)
EXTENDS Transmitter, TLC

CONSTANTS err, cq8, tune8, cq4, none

MCSymbolCount == ("FT8" :> 3) @@ ("FT4" :> 4)
MCToneTicks   == ("FT8" :> 2) @@ ("FT4" :> 1)
MCSyncTicks   == ("FT8" :> 0) @@ ("FT4" :> 1)
MCKillTicks   == ("FT8" :> 2) @@ ("FT4" :> 2)
MCTruncTicks  == ("FT8" :> 6) @@ ("FT4" :> 4)
MCTxDelay     == ("FT8" :> 1) @@ ("FT4" :> 1) @@ ("RTTY" :> 1)
MCEndTimes      == {-1, 0, 4, 8}
MCEndTimesModes == {-1, 0, 4, 7}
=============================================================================
