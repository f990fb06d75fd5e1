--------------------------- MODULE RttyQueueProofs --------------------------
(***************************************************************************)
(* Proofs about RttyQueue, for any number of slots, slot length and texts. *)
(***************************************************************************)
EXTENDS RttyQueue, SequenceTheorems, TLAPS

-----------------------------------------------------------------------------
(* Indices of the ring.                                                    *)

(* The slot after a slot is a slot.                                        *)
LEMMA NextSlotType ==
  ASSUME NEW k \in Slots
  PROVE  NextSlot(k) \in Slots
  BY QueueAssumption DEF Slots, NextSlot

(* Different slots are followed by different slots.                        *)
LEMMA NextSlotInjective ==
  ASSUME NEW j \in Slots, NEW k \in Slots, NextSlot(j) = NextSlot(k)
  PROVE  j = k
  BY QueueAssumption DEF Slots, NextSlot

-----------------------------------------------------------------------------
(* Types.                                                                  *)

RingOK ==
  /\ message_buffer \in [Slots -> Messages \union {NoMessage}]
  /\ queue_head \in Slots
  /\ queue_tail \in Slots
  /\ text \in Slots \union {NoSlot}
  /\ taken \in Messages \union {NoMessage}

PlaceOK ==
  /\ pc \in {"idle", "preamble", "shift", "char", "gap", "trailer"}
  /\ pos \in Nat \ {0}
  /\ entry \in {"LTRS", "FIGS"}
  /\ pc \in {"preamble", "shift", "char", "gap"} => text # NoSlot

FlagsOK ==
  /\ DigiTxOn \in BOOLEAN
  /\ current_shift_LTRS \in BOOLEAN
  /\ receiverLTRS \in BOOLEAN
  /\ aborted \in BOOLEAN

(* A character that can be read from a slot needs one of the two shifts.   *)
LEMMA EntryType ==
  ASSUME RingOK, NEW k \in Slots, NEW p \in Nat \ {0}, HasNext(k, p)
  PROVE  Text[message_buffer[k]][p] \in {"LTRS", "FIGS"}
  <1> DEFINE m == message_buffer[k]
  <1>1. m \in Messages \union {NoMessage}
    BY DEF RingOK
  <1>2. p <= LengthOf(m)
    BY DEF HasNext
  <1> HIDE DEF m
  <1>3. m \in Messages
    BY <1>1, <1>2 DEF LengthOf
  <1>4. Text[m] \in Seq({"LTRS", "FIGS"}) /\ m # NoMessage
    BY <1>3, QueueAssumption
  <1>5. Len(Text[m]) \in Nat
    BY <1>4
  <1>6. p \in 1 .. Len(Text[m])
    BY <1>2, <1>4, <1>5, QueueAssumption DEF LengthOf, MinOf
  <1>7. Text[m][p] \in {"LTRS", "FIGS"}
    BY <1>4, <1>6
  <1> QED
    BY <1>7 DEF m

(* initialiseQueue leaves the ring and the sender within their types.      *)
LEMMA TypeInit == Init => RingOK /\ PlaceOK /\ FlagsOK
  <1> SUFFICES ASSUME Init PROVE RingOK /\ PlaceOK /\ FlagsOK
    OBVIOUS
  <1>1. RingOK
    BY QueueAssumption DEF Init, initialiseQueue, RingOK, Slots
  <1>2. PlaceOK
    BY DEF Init, PlaceOK
  <1>3. FlagsOK
    BY DEF Init, FlagsOK
  <1> QED
    BY <1>1, <1>2, <1>3

(* Every command and every step of the sender keeps the ring's indices     *)
(* within the slots and texts in them.                                     *)
LEMMA RingStep ==
  ASSUME RingOK, [Next]_vars
  PROVE  RingOK'
  <1> USE DEF RingOK, ringVars, senderVars, ghostVars
  <1>1. ASSUME NEW m \in Messages, enqueueMessage(m) PROVE RingOK'
    BY <1>1, NextSlotType DEF enqueueMessage
  <1>2. CASE DigiOn \/ ForceOff
    BY <1>2 DEF DigiOn, ForceOff
  <1>3. CASE DigiOff
    BY <1>3, QueueAssumption DEF DigiOff, clearQueue, Slots
  <1>4. CASE dequeueMessage
    BY <1>4, NextSlotType DEF dequeueMessage
  <1>5. CASE NextText
    <2>1. CASE text' = NoSlot /\ UNCHANGED <<ringVars, taken>>
      BY <2>1
    <2> QED
      BY <1>4, <1>5, <2>1 DEF NextText
  <1>6. CASE transmitRttyString
    <2>1. CASE UNCHANGED <<ringVars, text, taken>>
      BY <2>1
    <2> QED
      BY <1>4, <1>5, <1>6, <2>1
      DEF transmitRttyString, Start, StartEmpty, EndPreamble, EndShift, EndChar, EndGap,
          EndTrailer, Continue, BeginChar
  <1>7. CASE UNCHANGED vars
    BY <1>7 DEF vars
  <1> QED
    BY <1>1, <1>2, <1>3, <1>6, <1>7 DEF Next, ProcessSerialIn

(* Every step keeps the sender's place: its slot, its position and its     *)
(* next shift.                                                             *)
LEMMA PlaceStep ==
  ASSUME RingOK, PlaceOK, [Next]_vars
  PROVE  PlaceOK'
  <1> USE DEF senderVars
  <1>1. CASE ProcessSerialIn
    BY <1>1
    DEF ProcessSerialIn, enqueueMessage, DigiOn, DigiOff, ForceOff, PlaceOK
  <1>2. pc \in {"preamble", "char", "gap"} => text \in Slots
    BY DEF RingOK, PlaceOK
  <1>3. queue_tail \in Slots /\ NoSlot \notin Slots
    BY QueueAssumption DEF RingOK, Slots, NoSlot
  <1>4. CASE dequeueMessage /\ pc' \in {"preamble", "gap"} /\ UNCHANGED entry
    BY <1>3, <1>4 DEF dequeueMessage, PlaceOK
  <1>5. CASE NextText
    BY <1>4, <1>5 DEF NextText, PlaceOK
  <1>6. ASSUME NEW p \in Nat \ {0}, Continue(p), text \in Slots
        PROVE  PlaceOK'
    <2>1. CASE HasNext(text, p) /\ pos' = p /\ BeginChar(text, p)
      <3>1. entry' \in {"LTRS", "FIGS"}
        BY <1>6, <2>1, EntryType DEF BeginChar
      <3>2. pc' \in {"shift", "char"} /\ text' # NoSlot /\ pos' \in Nat \ {0}
        BY <1>3, <1>6, <2>1 DEF BeginChar
      <3> QED
        BY <3>1, <3>2 DEF PlaceOK
    <2> QED
      BY <1>5, <1>6, <2>1 DEF Continue
  <1>7. CASE Start
    BY <1>4, <1>7 DEF Start
  <1>8. CASE EndPreamble
    <2>1. CASE HasNext(text, pos) /\ UNCHANGED <<text, pos>>
      <3>1. Text[message_buffer[text]][pos] \in {"LTRS", "FIGS"}
        BY <1>2, <1>8, <2>1, EntryType DEF EndPreamble, PlaceOK
      <3>2. entry' = Text[message_buffer[text]][pos] /\ pc' \in {"shift", "char"}
        BY <1>8, <2>1 DEF EndPreamble
      <3> QED
        BY <1>8, <2>1, <3>1, <3>2 DEF EndPreamble, PlaceOK
    <2> QED
      BY <1>5, <1>8, <2>1 DEF EndPreamble
  <1>9. CASE EndChar
    <2>1. pos + 1 \in Nat \ {0}
      BY DEF PlaceOK
    <2> QED
      BY <1>2, <1>6, <1>9, <2>1 DEF EndChar
  <1>10. CASE EndGap
    <2>1. pos \in Nat \ {0}
      BY DEF PlaceOK
    <2> QED
      BY <1>2, <1>6, <1>10, <2>1 DEF EndGap
  <1>11. CASE StartEmpty \/ EndShift \/ EndTrailer
    BY <1>11 DEF StartEmpty, EndShift, EndTrailer, PlaceOK
  <1>12. CASE UNCHANGED vars
    BY <1>12 DEF vars, PlaceOK
  <1> QED
    BY <1>1, <1>7, <1>8, <1>9, <1>10, <1>11, <1>12 DEF Next, transmitRttyString

(* Every step keeps the flags Boolean and the taken text a text.           *)
LEMMA FlagsStep ==
  ASSUME FlagsOK, [Next]_vars
  PROVE  FlagsOK'
  <1> USE DEF FlagsOK, senderVars, ghostVars
  <1>1. CASE ProcessSerialIn
    BY <1>1 DEF ProcessSerialIn, enqueueMessage, DigiOn, DigiOff, ForceOff
  <1>2. CASE Start \/ StartEmpty
    BY <1>2 DEF Start, StartEmpty, dequeueMessage
  <1>3. CASE EndPreamble
    BY <1>3 DEF EndPreamble, NextText, dequeueMessage
  <1>4. CASE EndShift
    BY <1>4 DEF EndShift
  <1>5. CASE EndChar \/ EndGap
    BY <1>5 DEF EndChar, EndGap, Continue, BeginChar, NextText, dequeueMessage
  <1>6. CASE EndTrailer
    BY <1>6 DEF EndTrailer
  <1>7. CASE UNCHANGED vars
    BY <1>7 DEF vars
  <1> QED
    BY <1>1, <1>2, <1>3, <1>4, <1>5, <1>6, <1>7 DEF Next, transmitRttyString

(* Every variable keeps its type, and the sender has a slot whenever it is *)
(* in the middle of a text.                                                *)
THEOREM TypeCorrect == Spec => []TypeOK
  <1> DEFINE Inv == RingOK /\ PlaceOK /\ FlagsOK
  <1>1. Inv /\ [Next]_vars => Inv'
    BY RingStep, PlaceStep, FlagsStep
  <1>2. Inv => TypeOK
    BY DEF RingOK, PlaceOK, FlagsOK, TypeOK
  <1>3. Init => Inv
    BY TypeInit
  <1> HIDE DEF Inv
  <1> QED
    BY <1>1, <1>2, <1>3, PTL DEF Spec

-----------------------------------------------------------------------------
(* The text being sent.                                                    *)

(* The slot being read is the one just before the tail: the only one that  *)
(* the full test keeps out of the writer's way.                            *)
Behind ==
  text # NoSlot /\ ~ aborted =>
    /\ queue_tail = NextSlot(text)
    /\ message_buffer[text] = taken

(* The sender's slot stays the one before queue_tail, so enqueueMessage    *)
(* never writes to it, until {X0} moves the indices.                       *)
LEMMA BehindStep ==
  ASSUME RingOK, Behind, [Next]_vars
  PROVE  Behind'
  <1> USE DEF ringVars, senderVars, ghostVars
  <1>1. ASSUME NEW m \in Messages, enqueueMessage(m) PROVE Behind'
    <2>1. CASE isQueueFull
      BY <1>1, <2>1 DEF enqueueMessage, Behind
    <2>2. CASE ~ isQueueFull
      <3> SUFFICES ASSUME text # NoSlot, ~ aborted
                   PROVE  queue_tail' = NextSlot(text) /\ message_buffer'[text] = taken
        BY <1>1 DEF enqueueMessage, Behind
      <3>1. /\ message_buffer' = [message_buffer EXCEPT ![queue_head] = m]
            /\ queue_tail' = queue_tail
        BY <1>1, <2>2 DEF enqueueMessage
      <3>2. queue_head # text
        BY <2>2 DEF isQueueFull, Behind
      <3> QED
        BY <3>1, <3>2 DEF Behind, RingOK
    <2> QED
      BY <2>1, <2>2
  <1>2. CASE DigiOn \/ ForceOff
    BY <1>2 DEF DigiOn, ForceOff, Behind
  <1>3. CASE DigiOff
    BY <1>3 DEF DigiOff, Behind
  <1>4. CASE dequeueMessage
    BY <1>4 DEF dequeueMessage, Behind
  <1>5. CASE NextText
    BY <1>4, <1>5 DEF NextText, Behind
  <1>6. CASE UNCHANGED <<ringVars, text, taken, aborted>>
    BY <1>6 DEF Behind
  <1>7. CASE transmitRttyString
    BY <1>4, <1>5, <1>6, <1>7
    DEF transmitRttyString, Start, StartEmpty, EndPreamble, EndShift, EndChar, EndGap,
        EndTrailer, Continue, BeginChar
  <1>8. CASE UNCHANGED vars
    BY <1>6, <1>8 DEF vars
  <1> QED
    BY <1>1, <1>2, <1>3, <1>7, <1>8 DEF Next, ProcessSerialIn

(* No {Z} writes into the slot the sender reads from, whatever the number  *)
(* of slots.                                                               *)
THEOREM TextIntactHolds == Spec => []TextIntact
  <1> DEFINE Inv == RingOK /\ Behind
  <1>1. Init => Inv
    BY TypeInit DEF Init, Behind
  <1>2. Inv /\ [Next]_vars => Inv'
    BY RingStep, BehindStep
  <1>3. Inv => TextIntact
    BY DEF Behind, TextIntact
  <1> HIDE DEF Inv
  <1> QED
    BY <1>1, <1>2, <1>3, PTL DEF Spec

-----------------------------------------------------------------------------
(* Shifts.                                                                 *)

(* From the end of the preamble on, the receiver is in the shift that      *)
(* current_shift_LTRS says, and a character is begun in its own shift.     *)
InStep ==
  /\ pc \in {"shift", "char", "gap", "trailer"} => receiverLTRS = current_shift_LTRS
  /\ pc = "char" => current_shift_LTRS = (entry = "LTRS")

(* Every step keeps current_shift_LTRS in agreement with the receiver      *)
(* where a character may follow.                                           *)
LEMMA ShiftStep ==
  ASSUME RingOK, PlaceOK, FlagsOK, InStep, [Next]_vars
  PROVE  InStep'
  <1> USE DEF senderVars, ghostVars
  <1>1. CASE ProcessSerialIn
    BY <1>1 DEF ProcessSerialIn, enqueueMessage, DigiOn, DigiOff, ForceOff, InStep
  <1>2. entry' \in {"LTRS", "FIGS"}
    BY PlaceStep DEF PlaceOK
  <1>3. CASE Start
    BY <1>3 DEF Start, InStep
  <1>4. CASE StartEmpty \/ UNCHANGED vars
    BY <1>4 DEF StartEmpty, vars, InStep
  <1>5. CASE EndPreamble
    BY <1>2, <1>5 DEF EndPreamble, NextText, InStep
  <1>6. CASE EndShift
    BY <1>6 DEF EndShift, InStep
  <1>7. ASSUME NEW p, Continue(p), UNCHANGED <<current_shift_LTRS, receiverLTRS>>,
               pc \in {"char", "gap"}
        PROVE  InStep'
    <2>1. CASE NextText
      BY <1>7, <2>1 DEF NextText, InStep
    <2>2. CASE BeginChar(text, p)
      <3>1. pc' \in {"shift", "char"} /\ receiverLTRS' = current_shift_LTRS'
        BY <1>7, <2>2 DEF BeginChar, InStep
      <3>2. pc' = "char" => (entry' = "FIGS") # current_shift_LTRS
        BY <2>2 DEF BeginChar
      <3>3. pc' = "char" => current_shift_LTRS' = (entry' = "LTRS")
        BY <1>2, <1>7, <3>2 DEF FlagsOK
      <3> QED
        BY <3>1, <3>3 DEF InStep
    <2> QED
      BY <1>7, <2>1, <2>2 DEF Continue
  <1>8. CASE EndChar \/ EndGap
    BY <1>7, <1>8 DEF EndChar, EndGap
  <1>9. CASE EndTrailer
    BY <1>9 DEF EndTrailer, InStep
  <1> QED
    BY <1>1, <1>3, <1>4, <1>5, <1>6, <1>8, <1>9 DEF Next, transmitRttyString

(* Every character goes out in the shift the receiver is in.               *)
THEOREM ReceiverInShiftHolds == Spec => []ReceiverInShift
  <1> DEFINE Inv == RingOK /\ PlaceOK /\ FlagsOK /\ InStep
  <1>1. Init => Inv
    BY TypeInit DEF Init, InStep
  <1>2. Inv /\ [Next]_vars => Inv'
    BY RingStep, PlaceStep, FlagsStep, ShiftStep
  <1>3. Inv => ReceiverInShift
    BY DEF InStep, ReceiverInShift
  <1> HIDE DEF Inv
  <1> QED
    BY <1>1, <1>2, <1>3, PTL DEF Spec

-----------------------------------------------------------------------------
(* The queue that the ring implements.                                     *)

Held == Messages \union {NoMessage}

(* A ring holds its texts in the slots from tail on; it is empty or full   *)
(* as isQueueEmpty and isQueueFull say.                                    *)
LEMMA CountFits ==
  ASSUME NEW h \in Slots, NEW t \in Slots
  PROVE  /\ CountOf(h, t) \in Nat
         /\ CountOf(h, t) <= MAX_QUEUE_MESSAGES - 1
         /\ CountOf(h, t) = 0 <=> h = t
         /\ NextSlot(h) # t => CountOf(h, t) < MAX_QUEUE_MESSAGES - 1
         /\ NextSlot(h) # t => CountOf(NextSlot(h), t) = CountOf(h, t) + 1
         /\ h # t => CountOf(h, NextSlot(t)) = CountOf(h, t) - 1
  BY QueueAssumption DEF CountOf, Slots, NextSlot

(* The texts follow each other from slot to slot up to the head.           *)
LEMMA PlacesFit ==
  ASSUME NEW h \in Slots, NEW t \in Slots,
         NEW k \in Nat, 1 <= k, k <= CountOf(h, t) + 1
  PROVE  /\ SlotOf(t, k) \in Slots
         /\ SlotOf(t, k) = h <=> k = CountOf(h, t) + 1
         /\ SlotOf(NextSlot(t), k) = SlotOf(t, k + 1)
         /\ SlotOf(t, 1) = t
  BY QueueAssumption DEF CountOf, SlotOf, Slots, NextSlot

(* The texts of a ring are a sequence of as many as it holds.              *)
LEMMA TextsType ==
  ASSUME NEW b \in [Slots -> Held], NEW h \in Slots, NEW t \in Slots
  PROVE  /\ TextsOf(b, h, t) \in Seq(Held)
         /\ Len(TextsOf(b, h, t)) = CountOf(h, t)
         /\ \A k \in 1 .. CountOf(h, t) : TextsOf(b, h, t)[k] = b[SlotOf(t, k)]
  <1>1. CountOf(h, t) \in Nat
    BY CountFits
  <1>2. ASSUME NEW k \in 1 .. CountOf(h, t) PROVE b[SlotOf(t, k)] \in Held
    BY <1>1, <1>2, PlacesFit
  <1> QED
    BY <1>1, <1>2 DEF TextsOf

(* A text written at the head of a ring that is not full is the last.      *)
LEMMA TextsPut ==
  ASSUME NEW b \in [Slots -> Held], NEW h \in Slots, NEW t \in Slots,
         NEW m \in Messages, NextSlot(h) # t
  PROVE  TextsOf([b EXCEPT ![h] = m], NextSlot(h), t) = Append(TextsOf(b, h, t), m)
  <1> DEFINE c == [b EXCEPT ![h] = m]
             old == TextsOf(b, h, t)
             new == TextsOf(c, NextSlot(h), t)
             count == CountOf(h, t)
  <1>1. c \in [Slots -> Held] /\ NextSlot(h) \in Slots
    BY NextSlotType DEF Held
  <1>2. count \in Nat /\ CountOf(NextSlot(h), t) = count + 1
    BY CountFits
  <1>3. /\ old \in Seq(Held) /\ Len(old) = count
        /\ \A k \in 1 .. count : old[k] = b[SlotOf(t, k)]
    BY TextsType
  <1>4. /\ new \in Seq(Held) /\ Len(new) = count + 1
        /\ \A k \in 1 .. count + 1 : new[k] = c[SlotOf(t, k)]
    <2> DEFINE after == NextSlot(h)
    <2> HIDE DEF c, after, count
    <2>1. /\ TextsOf(c, after, t) \in Seq(Held)
          /\ Len(TextsOf(c, after, t)) = CountOf(after, t)
          /\ \A k \in 1 .. CountOf(after, t) : TextsOf(c, after, t)[k] = c[SlotOf(t, k)]
      BY <1>1, TextsType DEF after
    <2>2. CountOf(after, t) = count + 1
      BY <1>2 DEF after
    <2> QED
      BY <2>1, <2>2 DEF after
  <1>5. ASSUME NEW k \in 1 .. count + 1 PROVE new[k] = Append(old, m)[k]
    <2>1. k \in Nat /\ 1 <= k /\ k <= count + 1
      BY <1>2
    <2>2. SlotOf(t, k) \in Slots /\ (SlotOf(t, k) = h <=> k = count + 1)
      BY <2>1, PlacesFit
    <2>3. new[k] = c[SlotOf(t, k)]
      BY <1>4
    <2> HIDE DEF old, new, count
    <2>4. CASE k = count + 1
      BY <1>2, <1>3, <2>2, <2>3, <2>4
    <2>5. CASE k # count + 1
      <3>1. k \in 1 .. count
        BY <1>2, <2>1, <2>5
      <3>2. new[k] = old[k]
        BY <1>3, <2>2, <2>3, <2>5, <3>1
      <3> QED
        BY <1>2, <1>3, <3>1, <3>2
    <2> QED
      BY <2>4, <2>5
  <1>6. m \in Held
    BY DEF Held
  <1> HIDE DEF old, new, count
  <1>7. Append(old, m) \in Seq(Held) /\ Len(Append(old, m)) = count + 1
    BY <1>2, <1>3, <1>6
  <1>8. new = Append(old, m)
    BY <1>2, <1>4, <1>5, <1>7, SeqEqual
  <1> QED
    BY <1>8 DEF old, new

(* A text taken from the tail of a ring that is not empty was the first.   *)
LEMMA TextsTake ==
  ASSUME NEW b \in [Slots -> Held], NEW h \in Slots, NEW t \in Slots, h # t
  PROVE  /\ TextsOf(b, h, t) # << >>
         /\ Head(TextsOf(b, h, t)) = b[t]
         /\ TextsOf(b, h, NextSlot(t)) = Tail(TextsOf(b, h, t))
  <1> DEFINE old == TextsOf(b, h, t)
             new == TextsOf(b, h, NextSlot(t))
             count == CountOf(h, t)
  <1>1. NextSlot(t) \in Slots
    BY NextSlotType
  <1>2. count \in Nat /\ count # 0 /\ CountOf(h, NextSlot(t)) = count - 1
    BY CountFits
  <1>3. /\ old \in Seq(Held) /\ Len(old) = count
        /\ \A k \in 1 .. count : old[k] = b[SlotOf(t, k)]
    BY TextsType
  <1>4. /\ new \in Seq(Held) /\ Len(new) = count - 1
        /\ \A k \in 1 .. count - 1 : new[k] = b[SlotOf(NextSlot(t), k)]
    BY <1>1, <1>2, TextsType
  <1>5. SlotOf(t, 1) = t
    BY <1>2, PlacesFit
  <1>6. ASSUME NEW k \in 1 .. count - 1 PROVE new[k] = old[k + 1]
    <2>1. k \in Nat /\ 1 <= k /\ k <= count + 1 /\ k + 1 \in 1 .. count
      BY <1>2
    <2>2. SlotOf(NextSlot(t), k) = SlotOf(t, k + 1)
      BY <2>1, PlacesFit
    <2> QED
      BY <1>3, <1>4, <2>1, <2>2
  <1> HIDE DEF old, new, count
  <1>7. old # << >> /\ Head(old) = b[t]
    BY <1>2, <1>3, <1>5
  <1>8. /\ Tail(old) \in Seq(Held) /\ Len(Tail(old)) = count - 1
        /\ \A k \in 1 .. count - 1 : Tail(old)[k] = old[k + 1]
    BY <1>2, <1>3, <1>7, HeadTailProperties
  <1>9. new = Tail(old)
    BY <1>2, <1>4, <1>6, <1>8, SeqEqual
  <1> QED
    BY <1>7, <1>9 DEF old, new

(* What every text of the ring and the sender's is: one the host has sent. *)
Sent ==
  /\ \A k \in 1 .. CountOf(queue_head, queue_tail) : Waiting[k] \in Messages
  /\ text # NoSlot => taken \in Messages

(* A command adds the text it has to the texts that wait, or none when the *)
(* ring is full; {X0} discards them.                                       *)
LEMMA CommandTexts ==
  ASSUME RingOK, ProcessSerialIn
  PROVE  /\ text' = text /\ taken' = taken
         /\ \/ Waiting' = Waiting
            \/ /\ Waiting' = << >> /\ DigiTxOn' = FALSE
            \/ /\ Len(Waiting) < MAX_QUEUE_MESSAGES - 1
               /\ DigiTxOn' = DigiTxOn
               /\ \E m \in Messages : Waiting' = Append(Waiting, m)
  <1> USE DEF ringVars, senderVars, ghostVars
  <1>1. text' = text /\ taken' = taken
    BY DEF ProcessSerialIn, enqueueMessage, DigiOn, DigiOff, ForceOff
  <1>2. CASE DigiOn \/ ForceOff
    BY <1>1, <1>2 DEF DigiOn, ForceOff, Waiting
  <1>3. CASE DigiOff
    <2>1. queue_head' = 0 /\ queue_tail' = 0 /\ DigiTxOn' = FALSE
      BY <1>3 DEF DigiOff, clearQueue
    <2>2. CountOf(0, 0) = 0
      BY DEF CountOf
    <2>3. Waiting' = << >>
      BY <2>1, <2>2 DEF Waiting, TextsOf
    <2> QED
      BY <1>1, <2>1, <2>3
  <1>4. ASSUME NEW m \in Messages, enqueueMessage(m), ~ isQueueFull
        PROVE  /\ Len(Waiting) < MAX_QUEUE_MESSAGES - 1
               /\ DigiTxOn' = DigiTxOn
               /\ Waiting' = Append(Waiting, m)
    <2>1. /\ message_buffer' = [message_buffer EXCEPT ![queue_head] = m]
          /\ queue_head' = NextSlot(queue_head)
          /\ queue_tail' = queue_tail /\ DigiTxOn' = DigiTxOn
      BY <1>4 DEF enqueueMessage
    <2>2. /\ message_buffer \in [Slots -> Held]
          /\ queue_head \in Slots /\ queue_tail \in Slots
          /\ NextSlot(queue_head) # queue_tail
      BY <1>4 DEF RingOK, Held, isQueueFull
    <2>3. Len(Waiting) = CountOf(queue_head, queue_tail)
      BY <2>2, TextsType DEF Waiting
    <2>4. CountOf(queue_head, queue_tail) < MAX_QUEUE_MESSAGES - 1
      BY <2>2, CountFits
    <2>5. Waiting' = Append(Waiting, m)
      BY <2>1, <2>2, TextsPut DEF Waiting
    <2> QED
      BY <2>1, <2>3, <2>4, <2>5
  <1>5. ASSUME NEW m \in Messages, enqueueMessage(m), isQueueFull
        PROVE  Waiting' = Waiting
    BY <1>5 DEF enqueueMessage, Waiting
  <1> QED
    BY <1>1, <1>2, <1>3, <1>4, <1>5 DEF ProcessSerialIn

(* dequeueMessage takes the first of the texts that wait.                  *)
LEMMA DequeueTexts ==
  ASSUME RingOK, Sent, dequeueMessage, ~ isQueueEmpty
  PROVE  /\ Waiting # << >> /\ Waiting' = Tail(Waiting)
         /\ taken' = Head(Waiting) /\ taken' \in Messages
         /\ text' # NoSlot
  <1>1. /\ message_buffer' = message_buffer /\ queue_head' = queue_head
        /\ queue_tail' = NextSlot(queue_tail)
        /\ text' = queue_tail /\ taken' = message_buffer[queue_tail]
    BY DEF dequeueMessage
  <1>2. /\ message_buffer \in [Slots -> Held]
        /\ queue_head \in Slots /\ queue_tail \in Slots /\ queue_head # queue_tail
    BY DEF RingOK, Held, isQueueEmpty
  <1>3. /\ Waiting # << >> /\ Head(Waiting) = message_buffer[queue_tail]
        /\ Waiting' = Tail(Waiting)
    BY <1>1, <1>2, TextsTake DEF Waiting
  <1>4. /\ Waiting \in Seq(Held) /\ Len(Waiting) = CountOf(queue_head, queue_tail)
    BY <1>2, TextsType DEF Waiting
  <1>5. Head(Waiting) \in Messages
    <2>1. 1 \in 1 .. CountOf(queue_head, queue_tail)
      BY <1>3, <1>4, EmptySeq
    <2> QED
      BY <1>3, <1>4, <2>1 DEF Sent
  <1>6. text' # NoSlot
    BY <1>1, <1>2, QueueAssumption DEF Slots, NoSlot
  <1> QED
    BY <1>1, <1>3, <1>5, <1>6

(* The three things a step of the sender may do to the queue: nothing but  *)
(* switch off, take the first text, or give up the last one.               *)
LeavesTexts ==
  /\ Waiting' = Waiting /\ text' = text /\ taken' = taken
  /\ DigiTxOn' = DigiTxOn \/ DigiTxOn' = FALSE

TakesText ==
  /\ DigiTxOn \/ text # NoSlot
  /\ DigiTxOn' = DigiTxOn
  /\ Waiting # << >> /\ Waiting' = Tail(Waiting)
  /\ taken' = Head(Waiting) /\ taken' \in Messages /\ text' # NoSlot

ReleasesText ==
  /\ Waiting = << >> /\ Waiting' = << >>
  /\ text # NoSlot /\ text' = NoSlot /\ taken' = taken
  /\ DigiTxOn' = DigiTxOn

(* An empty ring has no texts.                                             *)
LEMMA EmptyTexts == ASSUME RingOK, isQueueEmpty PROVE Waiting = << >>
  <1>1. CountOf(queue_head, queue_tail) = 0
    BY CountFits DEF RingOK, isQueueEmpty
  <1> QED
    BY <1>1 DEF Waiting, TextsOf

(* A step of the sender does one of them.                                  *)
LEMMA SenderTexts ==
  ASSUME RingOK, PlaceOK, Sent, transmitRttyString
  PROVE  LeavesTexts \/ TakesText \/ ReleasesText
  <1> USE DEF ringVars, senderVars, ghostVars
  <1>1. CASE /\ UNCHANGED <<ringVars, text, taken>>
             /\ DigiTxOn' = DigiTxOn \/ DigiTxOn' = FALSE
    BY <1>1 DEF LeavesTexts, Waiting
  <1>2. CASE /\ NextText /\ DigiTxOn' = DigiTxOn /\ text # NoSlot
    <2>1. CASE ~ isQueueEmpty /\ dequeueMessage
      BY <1>2, <2>1, DequeueTexts DEF TakesText
    <2>2. CASE isQueueEmpty /\ text' = NoSlot /\ UNCHANGED <<ringVars, taken>>
      <3>1. Waiting = << >> /\ Waiting' = Waiting
        BY <2>2, EmptyTexts DEF Waiting
      <3> QED
        BY <1>2, <2>2, <3>1 DEF ReleasesText
    <2> QED
      BY <1>2, <2>1, <2>2 DEF NextText
  <1>3. CASE Start
    BY <1>3, DequeueTexts DEF Start, TakesText
  <1>4. pc \in {"preamble", "char", "gap"} => text # NoSlot
    BY DEF PlaceOK
  <1>5. CASE EndPreamble
    <2>1. CASE NextText
      BY <1>2, <1>4, <1>5, <2>1 DEF EndPreamble
    <2> QED
      BY <1>1, <1>5, <2>1 DEF EndPreamble
  <1>6. CASE EndChar \/ EndGap
    <2>1. CASE NextText
      BY <1>2, <1>4, <1>6, <2>1 DEF EndChar, EndGap
    <2>2. PICK p : Continue(p) /\ DigiTxOn' = DigiTxOn
      BY <1>6 DEF EndChar, EndGap
    <2> QED
      BY <1>1, <2>1, <2>2 DEF Continue, BeginChar
  <1>7. CASE StartEmpty \/ EndShift \/ EndTrailer
    BY <1>1, <1>7 DEF StartEmpty, EndShift, EndTrailer
  <1> QED
    BY <1>3, <1>5, <1>6, <1>7 DEF transmitRttyString

(* The texts stay the host's.                                              *)
LEMMA SentStep ==
  ASSUME RingOK, RingOK', PlaceOK, Sent, [Next]_vars
  PROVE  Sent'
  <1>1. /\ Waiting \in Seq(Held) /\ Len(Waiting) = CountOf(queue_head, queue_tail)
    BY TextsType DEF Waiting, RingOK, Held
  <1>2. /\ Waiting' \in Seq(Held) /\ Len(Waiting') = CountOf(queue_head', queue_tail')
    BY TextsType DEF Waiting, RingOK, Held
  <1>3. \A k \in 1 .. Len(Waiting) : Waiting[k] \in Messages
    BY <1>1 DEF Sent
  <1>4. SUFFICES /\ \A k \in 1 .. Len(Waiting') : Waiting'[k] \in Messages
                 /\ text' # NoSlot => taken' \in Messages
    BY <1>2 DEF Sent
  <1>5. text # NoSlot => taken \in Messages
    BY DEF Sent
  <1>6. CASE ProcessSerialIn
    <2>1. ASSUME NEW m \in Messages, Waiting' = Append(Waiting, m)
          PROVE  \A k \in 1 .. Len(Waiting') : Waiting'[k] \in Messages
      <3> DEFINE w == Waiting
      <3> HIDE DEF w
      <3>1. /\ m \in Held /\ w \in Seq(Held)
            /\ \A k \in 1 .. Len(w) : w[k] \in Messages
        BY <1>1, <1>3 DEF Held, w
      <3>2. \A k \in 1 .. Len(Append(w, m)) : Append(w, m)[k] \in Messages
        BY <3>1
      <3> QED
        BY <2>1, <3>2 DEF w
    <2>2. ASSUME Waiting' = << >>
          PROVE  \A k \in 1 .. Len(Waiting') : Waiting'[k] \in Messages
      BY <2>2, EmptySeq
    <2>3. /\ text' = text /\ taken' = taken
          /\ \/ Waiting' = Waiting \/ Waiting' = << >>
             \/ \E m \in Messages : Waiting' = Append(Waiting, m)
      BY <1>6, CommandTexts
    <2>4. \A k \in 1 .. Len(Waiting') : Waiting'[k] \in Messages
      BY <1>3, <2>1, <2>2, <2>3
    <2> QED
      BY <1>5, <2>3, <2>4
  <1>7. CASE LeavesTexts \/ ReleasesText
    BY <1>3, <1>5, <1>7 DEF LeavesTexts, ReleasesText
  <1>8. CASE TakesText
    <2>1. Waiting # << >> /\ Waiting' = Tail(Waiting)
      BY <1>8 DEF TakesText
    <2>2. \A k \in 1 .. Len(Waiting') : Waiting'[k] \in Messages
      <3> DEFINE w == Waiting
      <3> HIDE DEF w
      <3>1. w \in Seq(Held) /\ w # << >> /\ \A k \in 1 .. Len(w) : w[k] \in Messages
        BY <1>1, <1>3, <2>1 DEF w
      <3>2. \A k \in 1 .. Len(Tail(w)) : Tail(w)[k] \in Messages
        BY <3>1
      <3> QED
        BY <2>1, <3>2 DEF w
    <2> QED
      BY <1>8, <2>2 DEF TakesText
  <1>9. CASE UNCHANGED vars
    BY <1>3, <1>5, <1>9 DEF vars, ringVars, senderVars, ghostVars, Waiting
  <1> QED
    BY <1>6, <1>7, <1>8, <1>9, SenderTexts DEF Next

(* Every step of the ring and the sender is a step of the queue, or none.  *)
LEMMA FifoStep ==
  ASSUME RingOK, PlaceOK, Sent, [Next]_vars
  PROVE  [Fifo!Next]_(Fifo!fifoVars)
  <1> USE DEF Fifo!Next, Fifo!fifoVars
  <1>1. CASE ProcessSerialIn
    <2>1. CASE Waiting' = << >> /\ DigiTxOn' = FALSE
      BY <1>1, <2>1, CommandTexts DEF Fifo!Clear
    <2>2. CASE \E m \in Messages : /\ Waiting' = Append(Waiting, m)
                                   /\ Len(Waiting) < MAX_QUEUE_MESSAGES - 1
                                   /\ DigiTxOn' = DigiTxOn
      BY <1>1, <2>2, CommandTexts DEF Fifo!Put
    <2>3. CASE Waiting' = Waiting
      <3>1. DigiTxOn' = DigiTxOn \/ DigiTxOn' = TRUE \/ DigiTxOn' = FALSE
        BY <1>1 DEF ProcessSerialIn, enqueueMessage, DigiOn, DigiOff, ForceOff
      <3> QED
        BY <1>1, <2>3, <3>1, CommandTexts DEF Fifo!SwitchOn, Fifo!SwitchOff
    <2> QED
      BY <1>1, <2>1, <2>2, <2>3, CommandTexts
  <1>2. CASE LeavesTexts
    BY <1>2 DEF LeavesTexts, Fifo!SwitchOff
  <1>3. CASE TakesText
    <2>1. NoMessage \notin Messages
      BY QueueAssumption
    <2> QED
      BY <1>3, <2>1 DEF TakesText, Fifo!Take, Sent
  <1>4. CASE ReleasesText
    <2>1. NoMessage \notin Messages
      BY QueueAssumption
    <2> QED
      BY <1>4, <2>1 DEF ReleasesText, Fifo!Release, Sent
  <1>5. CASE UNCHANGED vars
    BY <1>5 DEF vars, ringVars, senderVars, ghostVars, Waiting
  <1> QED
    BY <1>1, <1>2, <1>3, <1>4, <1>5, SenderTexts DEF Next

(* The ring and the sender implement the bounded queue, whatever its size  *)
(* and the texts: each accepted text is taken once, in the order of the    *)
(* {Z} commands, and only {X0} discards texts that wait.                   *)
THEOREM ImplementsFifoHolds == Spec => ImplementsFifo
  <1> DEFINE Inv == RingOK /\ PlaceOK /\ Sent
  <1>1. ASSUME Init PROVE Inv /\ Fifo!Init
    <2>1. /\ queue_head = 0 /\ queue_tail = 0 /\ text = NoSlot /\ DigiTxOn = FALSE
      BY <1>1 DEF Init, initialiseQueue
    <2>2. CountOf(0, 0) = 0
      BY DEF CountOf
    <2>3. Waiting = << >>
      BY <2>1, <2>2 DEF Waiting, TextsOf
    <2>4. Sent
      BY <2>1, <2>2 DEF Sent
    <2> QED
      BY <1>1, <2>1, <2>3, <2>4, TypeInit DEF Fifo!Init
  <1>2. Inv /\ [Next]_vars => Inv'
    BY RingStep, PlaceStep, SentStep
  <1>3. Inv /\ [Next]_vars => [Fifo!Next]_(Fifo!fifoVars)
    BY FifoStep
  <1> HIDE DEF Inv
  <1> QED
    BY <1>1, <1>2, <1>3, PTL DEF Spec, ImplementsFifo, Fifo!Spec
=============================================================================
