---------------------------- MODULE PipeChannel -----------------------------
(***************************************************************************)
(* What one direction of the RTTY pipe promises (RTTY_Server.cpp): the     *)
(* messages 1, 2, ... that are sent arrive in their order and never twice. *)
(* The oldest on the way may be lost, since clients come and go.           *)
(***************************************************************************)
EXTENDS Naturals, Sequences

CONSTANT MaxSent

VARIABLES
  sent,     \* number of the last message
  chan,     \* on the way
  arrived   \* have arrived

vars == <<sent, chan, arrived>>

Init == sent = 0 /\ chan = <<>> /\ arrived = <<>>

Send ==
  /\ sent < MaxSent
  /\ sent' = sent + 1
  /\ chan' = Append(chan, sent + 1)
  /\ UNCHANGED arrived

Arrive ==
  /\ chan # <<>>
  /\ arrived' = Append(arrived, Head(chan))
  /\ chan' = Tail(chan)
  /\ UNCHANGED sent

(* Losses go from the front: what is behind a message that arrives was     *)
(* sent after it.                                                          *)
Lose ==
  /\ \E lost \in 1..Len(chan) : chan' = SubSeq(chan, lost + 1, Len(chan))
  /\ UNCHANGED <<sent, arrived>>

Next == Send \/ Arrive \/ Lose

Spec == Init /\ [][Next]_vars
=============================================================================
