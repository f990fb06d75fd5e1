------------------------------ MODULE RttyQueue -----------------------------
(***************************************************************************)
(* The RTTY side of the Arduino transmitter: the ring of text slots of     *)
(* rtty_queue.ino and the sender of RTTY.ino that drains it over the air.  *)
(*                                                                         *)
(* The firmware is one thread, but the sender services the serial port     *)
(* while every bit is on the air, so the host's {Z}, {X} and {W} commands  *)
(* are executed in the middle of it.  A state of this module is a moment   *)
(* at which one Baudot code is on the air (pc says which) or none is; a    *)
(* step of the sender ends that code and runs up to the next one, and a    *)
(* serial command may be executed at any of these moments.                 *)
(*                                                                         *)
(* The sender holds a pointer into a slot that dequeueMessage has already  *)
(* handed back to the ring, and reads one character at a time from it.     *)
(***************************************************************************)
EXTENDS Integers, Sequences

CONSTANTS
  MAX_QUEUE_MESSAGES,   \* slots of the ring
  MAX_MESSAGE_LENGTH,   \* bytes of a slot, the terminator included
  Messages,             \* the texts the host may send
  Text,                 \* their characters, by the shift each one needs
  NoMessage             \* a slot that was never written

ASSUME QueueAssumption ==
  /\ MAX_QUEUE_MESSAGES \in Nat \ {0, 1}
  /\ MAX_MESSAGE_LENGTH \in Nat \ {0}
  /\ NoMessage \notin Messages
  /\ Text \in [Messages -> Seq({"LTRS", "FIGS"})]

VARIABLES
  message_buffer,       \* the slots
  queue_head,           \* next slot to write
  queue_tail,           \* next slot to take
  DigiTxOn,             \* the host asked for transmission
  pc,                   \* which code is on the air
  text,                 \* slot the sender reads from, or NoSlot
  pos,                  \* next character of that slot
  entry,                \* shift needed by the character about to be sent
  current_shift_LTRS,   \* the sender's idea of the receiver's shift
  \* what an observer sees, read by no action of the firmware
  receiverLTRS,         \* the shift a receiver of the signal is in
  taken,                \* the text dequeueMessage returned
  aborted               \* {X0} was executed since then

ringVars   == <<message_buffer, queue_head, queue_tail>>
senderVars == <<pc, text, pos, entry, current_shift_LTRS>>
ghostVars  == <<receiverLTRS, taken, aborted>>
vars == <<ringVars, DigiTxOn, senderVars, ghostVars>>

Slots  == 0 .. MAX_QUEUE_MESSAGES - 1
NoSlot == -1

TypeOK ==
  /\ message_buffer \in [Slots -> Messages \union {NoMessage}]
  /\ queue_head \in Slots
  /\ queue_tail \in Slots
  /\ DigiTxOn \in BOOLEAN
  /\ pc \in {"idle", "preamble", "shift", "char", "gap", "trailer"}
  /\ text \in Slots \union {NoSlot}
  /\ pos \in Nat \ {0}
  /\ entry \in {"LTRS", "FIGS"}
  /\ current_shift_LTRS \in BOOLEAN
  /\ receiverLTRS \in BOOLEAN
  /\ taken \in Messages \union {NoMessage}
  /\ aborted \in BOOLEAN

-----------------------------------------------------------------------------
(* The ring: rtty_queue.ino.                                               *)

NextSlotNoWrap(k) == k + 1

\* (k + 1) % MAX_QUEUE_MESSAGES, for an index of the ring
NextSlot(k) == IF k = MAX_QUEUE_MESSAGES - 1 THEN 0 ELSE k + 1

isQueueEmpty == queue_head = queue_tail

NeverFull == FALSE

isQueueFull == NextSlot(queue_head) = queue_tail

initialiseQueue ==
  /\ queue_head = 0
  /\ queue_tail = 0
  /\ message_buffer = [k \in Slots |-> NoMessage]

clearQueueTailOnly ==
  /\ queue_tail' = 0
  /\ UNCHANGED <<message_buffer, queue_head>>

clearQueue ==
  /\ queue_head' = 0
  /\ queue_tail' = 0
  /\ UNCHANGED message_buffer

dequeueNoAdvance ==
  /\ text' = queue_tail
  /\ taken' = message_buffer[queue_tail]
  /\ aborted' = FALSE
  /\ pos' = 1
  /\ UNCHANGED ringVars

(* The text at the tail becomes the sender's, its slot the ring's again.   *)
dequeueMessage ==
  /\ text' = queue_tail
  /\ taken' = message_buffer[queue_tail]
  /\ aborted' = FALSE
  /\ queue_tail' = NextSlot(queue_tail)
  /\ pos' = 1
  /\ UNCHANGED <<message_buffer, queue_head>>

-----------------------------------------------------------------------------
(* Serial commands, executed by ProcessSerialIn in RTTY mode.              *)

(* {Zm}.  The result of enqueueMessage is not looked at.                   *)
enqueueMessage(m) ==
  /\ IF isQueueFull
       THEN UNCHANGED ringVars
       ELSE /\ message_buffer' = [message_buffer EXCEPT ![queue_head] = m]
            /\ queue_head' = NextSlot(queue_head)
            /\ UNCHANGED queue_tail
  /\ UNCHANGED <<DigiTxOn, senderVars, ghostVars>>

(* {X1}                                                                    *)
DigiOn ==
  /\ DigiTxOn' = TRUE
  /\ UNCHANGED <<ringVars, senderVars, ghostVars>>

(* {X0}                                                                    *)
DigiOff ==
  /\ DigiTxOn' = FALSE
  /\ clearQueue
  /\ aborted' = (text # NoSlot)
  /\ UNCHANGED <<senderVars, receiverLTRS, taken>>

(* {W0}, and the temperature and SWR lockout: transmission is switched off *)
(* and the queue is left alone.                                            *)
ForceOff ==
  /\ DigiTxOn' = FALSE
  /\ UNCHANGED <<ringVars, senderVars, ghostVars>>

ProcessSerialIn ==
  \/ \E m \in Messages : enqueueMessage(m)
  \/ DigiOn
  \/ DigiOff
  \/ ForceOff

-----------------------------------------------------------------------------
(* The sender: transmitRttyString.                                         *)

(* Characters that can be read from slot k: strncpy cut the text to fit.   *)
MinOf(a, b) == IF a <= b THEN a ELSE b

LengthOf(m) ==
  IF m = NoMessage THEN 0 ELSE MinOf(Len(Text[m]), MAX_MESSAGE_LENGTH - 1)

(* The inner loop's condition for the character p of slot k.               *)
HasNext(k, p) == p <= LengthOf(message_buffer[k]) /\ DigiTxOn

(* Begin the character p of slot k: the shift code first when the receiver *)
(* has to change shift.                                                    *)
BeginChar(k, p) ==
  LET needs == Text[message_buffer[k]][p] IN
  /\ entry' = needs
  /\ pc' = IF (needs = "FIGS") = current_shift_LTRS THEN "shift" ELSE "char"
  /\ UNCHANGED <<text, ringVars, taken, aborted>>

(* The inner loop is over: the next text, or the trailer.  Between texts   *)
(* getBaudotCode is given a string where it takes a character, so the code *)
(* sent is that of the low byte of the string's address: a space or any    *)
(* other code but a shift.                                                 *)
NextText ==
  \/ /\ ~ isQueueEmpty
     /\ dequeueMessage
     /\ pc' = "gap"
     /\ UNCHANGED entry
  \/ /\ isQueueEmpty
     /\ pc' = "trailer"
     /\ text' = NoSlot
     /\ pos' = 1
     /\ UNCHANGED <<ringVars, entry, taken, aborted>>

(* Run on from character p of the sender's slot to the next code.          *)
Continue(p) ==
  \/ /\ HasNext(text, p)
     /\ pos' = p
     /\ BeginChar(text, p)
  \/ /\ ~ HasNext(text, p)
     /\ NextText

(* DigitalTXmsg in RTTY mode, called from loop() while DigiTxOn.           *)
Start ==
  /\ pc = "idle"
  /\ DigiTxOn
  /\ ~ isQueueEmpty
  /\ dequeueMessage
  /\ pc' = "preamble"
  /\ UNCHANGED <<DigiTxOn, entry, current_shift_LTRS, receiverLTRS>>

StartEmpty ==
  /\ pc = "idle"
  /\ DigiTxOn
  /\ isQueueEmpty
  /\ DigiTxOn' = FALSE
  /\ UNCHANGED <<ringVars, senderVars, ghostVars>>

(* FIGS LTRS FIGS LTRS CR LF are out.                                      *)
EndPreamble ==
  /\ pc = "preamble"
  /\ receiverLTRS' = TRUE
  /\ current_shift_LTRS' = TRUE
  /\ \/ /\ HasNext(text, pos)
        /\ entry' = Text[message_buffer[text]][pos]
        /\ pc' = IF entry' = "FIGS" THEN "shift" ELSE "char"
        /\ UNCHANGED <<text, pos, ringVars, taken, aborted>>
     \/ /\ ~ HasNext(text, pos)
        /\ NextText
  /\ UNCHANGED DigiTxOn

EndShiftForgets ==
  /\ pc = "shift"
  /\ receiverLTRS' = (entry = "LTRS")
  /\ pc' = "char"
  /\ UNCHANGED <<ringVars, DigiTxOn, text, pos, entry, current_shift_LTRS,
                 taken, aborted>>

(* The shift code is out; the character it was for follows.                *)
EndShift ==
  /\ pc = "shift"
  /\ receiverLTRS' = (entry = "LTRS")
  /\ current_shift_LTRS' = (entry = "LTRS")
  /\ pc' = "char"
  /\ UNCHANGED <<ringVars, DigiTxOn, text, pos, entry, taken, aborted>>

EndChar ==
  /\ pc = "char"
  /\ Continue(pos + 1)
  /\ UNCHANGED <<DigiTxOn, current_shift_LTRS, receiverLTRS>>

EndGap ==
  /\ pc = "gap"
  /\ Continue(pos)
  /\ UNCHANGED <<DigiTxOn, current_shift_LTRS, receiverLTRS>>

(* CR LF and, when in figures, LTRS are out: key up.                       *)
EndTrailer ==
  /\ pc = "trailer"
  /\ current_shift_LTRS' = TRUE
  /\ receiverLTRS' = (receiverLTRS \/ ~ current_shift_LTRS)
  /\ DigiTxOn' = FALSE
  /\ pc' = "idle"
  /\ UNCHANGED <<ringVars, text, pos, entry, taken, aborted>>

transmitRttyString ==
  \/ Start
  \/ StartEmpty
  \/ EndPreamble
  \/ EndShift
  \/ EndChar
  \/ EndGap
  \/ EndTrailer

Init ==
  /\ initialiseQueue
  /\ DigiTxOn = FALSE
  /\ pc = "idle"
  /\ text = NoSlot
  /\ pos = 1
  /\ entry = "LTRS"
  /\ current_shift_LTRS = TRUE
  /\ receiverLTRS \in BOOLEAN
  /\ taken = NoMessage
  /\ aborted = FALSE

Next == ProcessSerialIn \/ transmitRttyString

Spec == Init /\ [][Next]_vars

(* The firmware keeps running: every code ends and loop() comes round.     *)
(* Nothing is assumed of the host.                                         *)
FairSpec == Spec /\ WF_vars(transmitRttyString)

-----------------------------------------------------------------------------
(* Safety.                                                                 *)

(* While the sender reads a text out of a slot that the ring already       *)
(* counts as free, no enqueue writes into it: the full test of             *)
(* enqueueMessage leaves the last freed slot alone.  Only {X0} breaks      *)
(* this, because clearQueue moves both indices.                            *)
TextIntact ==
  text # NoSlot /\ ~ aborted => message_buffer[text] = taken

(* A character is on the air only when the receiver of the signal is in    *)
(* the shift it needs, across texts, separators, stops and transmissions:  *)
(* current_shift_LTRS never disagrees with the codes that went out.        *)
ReceiverInShift ==
  pc = "char" => receiverLTRS = (entry = "LTRS")

(* The texts of a ring with these slots, head and tail, oldest first.      *)
CountOf(head, tail) ==
  IF head >= tail THEN head - tail ELSE head - tail + MAX_QUEUE_MESSAGES

SlotOf(tail, k) ==
  IF tail + k - 1 < MAX_QUEUE_MESSAGES THEN tail + k - 1
                                       ELSE tail + k - 1 - MAX_QUEUE_MESSAGES

TextsOf(slots, head, tail) ==
  [k \in 1 .. CountOf(head, tail) |-> slots[SlotOf(tail, k)]]

Waiting == TextsOf(message_buffer, queue_head, queue_tail)

Fifo == INSTANCE RttyFifo WITH
  Capacity <- MAX_QUEUE_MESSAGES - 1,
  queue    <- Waiting,
  current  <- IF text = NoSlot THEN NoMessage ELSE taken,
  on       <- DigiTxOn

(* The ring and the sender implement the bounded queue: accepted texts are *)
(* taken once each, in the order of their {Z} commands, however commands   *)
(* fall between the bits; only {X0} discards waiting texts.                *)
ImplementsFifo == Fifo!Spec

-----------------------------------------------------------------------------
(* Liveness.                                                               *)

(* While transmission is on, the text at the tail is eventually taken,     *)
(* unless the host switches off.                                           *)
QueueAdvances ==
  \A k \in Slots :
    (queue_tail = k /\ ~ isQueueEmpty /\ DigiTxOn)
      ~> (queue_tail # k \/ isQueueEmpty \/ ~ DigiTxOn)

(* When the host leaves transmission off for good and sends no more texts, *)
(* the sender goes quiet.  The second condition is needed: a sender that   *)
(* is switched off still takes every waiting text and sends a separator    *)
(* for it.                                                                 *)
OffGoesQuiet ==
  <>[](~ DigiTxOn) /\ <>[][queue_head' = queue_head]_queue_head
    => <>[](pc = "idle")

-----------------------------------------------------------------------------
(* Statements of the source that the code does not keep.                   *)

(* TXlink4_Nano.ino:220 says of transmitRttyString that it transmits until *)
(* the queue is empty: a transmission the host has not switched off ends   *)
(* with nothing waiting.                                                   *)
SendsUntilEmpty ==
  [][pc = "trailer" /\ pc' = "idle" /\ DigiTxOn /\ ~ aborted
       => isQueueEmpty]_vars

(* SDRunoPlugin_TXLinkForm.cpp:862: {X0} stops the transmission.  Once it  *)
(* is executed the sender begins no further character of the text it is    *)
(* in, other than the one whose shift code is already out.                 *)
StopIsFinal ==
  [][aborted /\ pc' \in {"shift", "char"}
       => pc = "shift" \/ <<pc', pos'>> = <<pc, pos>>]_vars
=============================================================================
