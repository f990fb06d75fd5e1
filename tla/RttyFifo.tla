------------------------------ MODULE RttyFifo ------------------------------
(***************************************************************************)
(* What the RTTY message queue of the transmitter promises its user: a     *)
(* bounded first-in first-out queue in front of one sender.  A message is  *)
(* accepted when there is room and dropped when there is none; the sender  *)
(* takes the oldest message each time; only {X0} empties the queue.        *)
(* RttyQueue implements it with a ring of slots and a pointer.             *)
(***************************************************************************)
EXTENDS Naturals, Sequences

CONSTANTS Messages,    \* the texts the host may send
          Capacity,    \* how many texts can wait
          NoMessage    \* the sender holds no text

VARIABLES queue,       \* the texts that wait, oldest first
          current,     \* the text being sent, or NoMessage
          on           \* has the host asked for transmission?

fifoVars == <<queue, current, on>>

TypeOK ==
  /\ queue \in Seq(Messages)
  /\ Len(queue) <= Capacity
  /\ current \in Messages \union {NoMessage}
  /\ on \in BOOLEAN

Init ==
  /\ queue = <<>>
  /\ current = NoMessage
  /\ on = FALSE

Put(m) ==
  /\ Len(queue) < Capacity
  /\ queue' = Append(queue, m)
  /\ UNCHANGED <<current, on>>

SwitchOn ==
  /\ on' = TRUE
  /\ UNCHANGED <<queue, current>>

(* A stop that leaves the waiting texts where they are.                    *)
SwitchOff ==
  /\ on' = FALSE
  /\ UNCHANGED <<queue, current>>

Clear ==
  /\ queue' = <<>>
  /\ on' = FALSE
  /\ UNCHANGED current

(* The sender begins a text: a new transmission needs the switch on, a     *)
(* running one goes on to the next text whatever the switch says.          *)
Take ==
  /\ queue # <<>>
  /\ on \/ current # NoMessage
  /\ current' = Head(queue)
  /\ queue' = Tail(queue)
  /\ UNCHANGED on

(* The sender finds no further text.                                       *)
Release ==
  /\ queue = <<>>
  /\ current # NoMessage
  /\ current' = NoMessage
  /\ UNCHANGED <<queue, on>>

Next ==
  \/ \E m \in Messages : Put(m)
  \/ SwitchOn
  \/ SwitchOff
  \/ Clear
  \/ Take
  \/ Release

Spec == Init /\ [][Next]_fifoVars
=============================================================================
