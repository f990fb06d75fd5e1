--------------------------- MODULE MCSymbolTiming ---------------------------
(***************************************************************************)
(* Instances of SymbolTiming for TLC.                                      *)
(***************************************************************************)
EXTENDS SymbolTiming

(* The longest pass, which makes tones latest.                             *)
LongPasses == [m \in Modes |-> {LongestPass(m)}]
=============================================================================
