----------------------- MODULE FrequencyTrackingProofs ----------------------
(***************************************************************************)
(* Proofs about FrequencyTracking, for all frequencies, for any number of  *)
(* SDRuno's threads and for everything that may happen.                    *)
(***************************************************************************)
EXTENDS FrequencyTracking, SequenceTheorems, FiniteSetTheorems, TLAPS

(* TypeOK in parts: frequencies and counters, threads, places, messages,   *)
(* Booleans.                                                               *)
Numbers ==
  /\ vfo \in [{0, 1} -> Int] /\ events \in Nat
  /\ CurrentTXfreq \in Int /\ LastTXfreq \in Int /\ told \in Int /\ tmp \in Int
  /\ EncoderSteps \in Int /\ tune \in [vrx : {0, 1}, freq : Int]
  /\ moves \in 0 .. MaxMoves
  /\ wanted \in [rx : Int, tx : Int]

Threads ==
  /\ lastF \in [{0, 1} -> Int]
  /\ thread \in [Handlers -> [pc : {"idle", "enter", "freq1", "decide", "revert0", "revert1",
                                    "setTX", "queueRX", "leave"},
                              freq0 : Int, freq1 : Int, bF0changed : BOOLEAN,
                              bF1changed : BOOLEAN]]

Places ==
  /\ SplitMode \in {"None", "TxRx", "FT8"}
  /\ fpc \in {"idle", "rx", "rxSet", "tx", "vrx1", "rx0", "rx1", "swap1", "data0", "data1",
              "dataTx", "end0", "end1"}
  /\ tpc \in {"idle", "set"}

Messages == queue \in Seq({"RX", "TX"})

Flags ==
  /\ bBusy \in BOOLEAN /\ TrackFreq \in BOOLEAN
  /\ RITchkbox \in BOOLEAN /\ bRITchkbox \in BOOLEAN
  /\ hurried \in BOOLEAN /\ dropped \in BOOLEAN /\ forced \in BOOLEAN

(* A frequency the transmitter has not been told is on its way: it is      *)
(* queued, or the form's thread is about to send it.                       *)
Announced ==
  /\ ~ forced => told = LastTXfreq
  /\ \/ LastTXfreq = CurrentTXfreq
     \/ queue # <<>>
     \/ fpc \in {"rx", "rxSet", "tx", "data0", "data1", "dataTx"}

(* A message is taken only if there is one.                                *)
LEMMA MessagesStep == Messages /\ [Next]_vars => Messages'
<1> SUFFICES ASSUME Messages, [Next]_vars PROVE Messages'
  OBVIOUS
<1> USE DEF Messages
<1>1. ASSUME NEW h \in Handlers, HandleEvent(h) PROVE Messages'
  <2>1. CASE SendSerialMsg(h)
    BY <2>1 DEF SendSerialMsg
  <2>2. CASE ~ SendSerialMsg(h)
    BY <1>1, <2>2 DEF HandleEvent, Deliver, Enter, ReadVfo1, Decide, Revert, Return
  <2> QED
    BY <2>1, <2>2
<1>2. CASE OnTimer
  <2>1. CASE queue = <<>>
    BY <1>2, <2>1 DEF OnTimer
  <2>2. CASE queue # <<>>
    BY <1>2, <2>2 DEF OnTimer
  <2> QED
    BY <2>1, <2>2
<1>3. CASE ReadRXfreq \/ SetRXfreq \/ SendTXfreq \/ ForceVrx1 \/ SetReceiver
  BY <1>3 DEF ReadRXfreq, SetRXfreq, SendTXfreq, ForceVrx1, SetReceiver
<1>4. CASE Tuner
  BY <1>4 DEF Tuner, UseKnob, SetTuned, SendKeys
<1>5. CASE Outside
  BY <1>5 DEF Outside, TuneVRX0, TuneVRX1, TurnKnob, FixFreqBtnClicked, FixTXup, ResetRXFreq,
              SwapTxRxFreq, ClickRIT, SetupDataMode, HearStart
<1>6. CASE UNCHANGED vars
  BY <1>6 DEF vars
<1> QED
  BY <1>1, <1>2, <1>3, <1>4, <1>5, <1>6 DEF Next, Form, Done

(* What changes CurrentTXfreq leaves a message or the form's thread on its *)
(* way; what takes the last message is on its way itself.                  *)
LEMMA AnnouncedStep == Messages /\ Announced /\ [Next]_vars => Announced'
<1> SUFFICES ASSUME Messages, Announced, [Next]_vars PROVE Announced'
  OBVIOUS
<1> USE DEF Announced
<1>1. ASSUME NEW h \in Handlers, HandleEvent(h) PROVE Announced'
  <2>1. CASE SendSerialMsg(h)
    <3>1. queue' # <<>>
      BY <2>1 DEF SendSerialMsg, Messages
    <3> QED
      BY <2>1, <3>1 DEF SendSerialMsg, form, observe
  <2>2. CASE ~ SendSerialMsg(h)
    BY <1>1, <2>2 DEF HandleEvent, Deliver, Enter, ReadVfo1, Decide, Revert, Return, form,
                      observe
  <2> QED
    BY <2>1, <2>2
<1>2. CASE OnTimer
  BY <1>2 DEF OnTimer, observe
<1>3. CASE ReadRXfreq \/ SetRXfreq
  BY <1>3 DEF ReadRXfreq, SetRXfreq, Step, observe
<1>4. CASE SendTXfreq
  BY <1>4 DEF SendTXfreq, Step, observe
<1>5. CASE ForceVrx1 \/ SetReceiver
  BY <1>5 DEF ForceVrx1, SetReceiver, Step, observe
<1>6. CASE Tuner
  BY <1>6 DEF Tuner, UseKnob, SetTuned, SendKeys, form, observe
<1>7. CASE TuneVRX0 \/ TuneVRX1 \/ TurnKnob \/ ClickRIT
  BY <1>7 DEF TuneVRX0, TuneVRX1, TurnKnob, ClickRIT, form
<1>8. CASE FixFreqBtnClicked \/ FixTXup \/ HearStart
  BY <1>8 DEF FixFreqBtnClicked, FixTXup, HearStart, OnForm, Step
<1>9. CASE ResetRXFreq \/ SwapTxRxFreq
  BY <1>9 DEF ResetRXFreq, SwapTxRxFreq, OnForm, Step
<1>10. CASE SetupDataMode
  BY <1>10 DEF SetupDataMode, OnForm, Step
<1>11. CASE UNCHANGED vars
  BY <1>11 DEF vars, form, observe
<1> QED
  BY <1>1, <1>2, <1>3, <1>4, <1>5, <1>6, <1>7, <1>8, <1>9, <1>10, <1>11
     DEF Next, Form, Outside, Done

(* At the start nothing is queued, and the transmitter has the form's      *)
(* frequency.                                                              *)
LEMMA AnnouncedInit == Init => Messages /\ Announced
BY EmptySeq DEF Init, Messages, Announced

(* However the threads run and whatever events are dropped, nothing comes  *)
(* to rest with a transmitter that has not been told the form's frequency  *)
(* (SendTXfreq, Form.cpp:1074), but for an answer to {~TX} (Form.cpp:794). *)
THEOREM ToldAtRestHolds == Spec => []ToldAtRest
<1>1. Messages /\ Announced /\ [Next]_vars => (Messages /\ Announced)'
  BY MessagesStep, AnnouncedStep
<1>2. Messages /\ Announced => ToldAtRest
  BY DEF Announced, ToldAtRest, AtRest
<1> QED
  BY AnnouncedInit, <1>1, <1>2, PTL DEF Spec

(* A receiver's frequency is a number if what it is set to is one.         *)
LEMMA SetVfoType ==
  ASSUME NEW vrx \in {0, 1}, NEW freq \in Int, vfo \in [{0, 1} -> Int], events \in Nat,
         SetVfoFrequency(vrx, freq)
  PROVE  vfo' \in [{0, 1} -> Int] /\ events' \in Nat
<1>1. vfo' = [vfo EXCEPT ![vrx] = freq]
  BY DEF SetVfoFrequency
<1>2. events' \in {events, events + 1}
  BY DEF SetVfoFrequency
<1> QED
  BY <1>1, <1>2

(* Every step keeps the places.                                            *)
LEMMA PlacesStep == Places /\ [Next]_vars => Places'
<1> SUFFICES ASSUME Places, [Next]_vars PROVE Places'
  OBVIOUS
<1> USE DEF Places
<1>1. ASSUME NEW h \in Handlers, HandleEvent(h) PROVE Places'
  BY <1>1 DEF HandleEvent, Deliver, Enter, ReadVfo1, Decide, Revert, SendSerialMsg, Return,
              mode, form, tuner
<1>2. CASE Form
  BY <1>2 DEF Form, OnTimer, ReadRXfreq, SetRXfreq, SendTXfreq, ForceVrx1, SetReceiver, Step,
              mode, tuner
<1>3. CASE Tuner
  BY <1>3 DEF Tuner, UseKnob, SetTuned, SendKeys, mode, form
<1>4. CASE TuneVRX0 \/ TuneVRX1 \/ TurnKnob \/ ClickRIT
  BY <1>4 DEF TuneVRX0, TuneVRX1, TurnKnob, ClickRIT, mode, form, tuner
<1>5. CASE FixFreqBtnClicked \/ FixTXup \/ SetupDataMode
  BY <1>5 DEF FixFreqBtnClicked, FixTXup, SetupDataMode, OnForm, Step, tuner
<1>6. CASE ResetRXFreq \/ SwapTxRxFreq \/ HearStart
  BY <1>6 DEF ResetRXFreq, SwapTxRxFreq, HearStart, OnForm, Step, mode, tuner
<1>7. CASE UNCHANGED vars
  BY <1>7 DEF vars, mode, form, tuner
<1> QED
  BY <1>1, <1>2, <1>3, <1>4, <1>5, <1>6, <1>7 DEF Next, Outside, Done

(* Every step leaves the flags Boolean.                                    *)
LEMMA FlagsStep == Flags /\ [Next]_vars => Flags'
<1> SUFFICES ASSUME Flags, [Next]_vars PROVE Flags'
  OBVIOUS
<1> USE DEF Flags
<1>1. ASSUME NEW h \in Handlers, HandleEvent(h) PROVE Flags'
  <2>1. UNCHANGED <<TrackFreq, RITchkbox, bRITchkbox, hurried, forced>>
    BY <1>1 DEF HandleEvent, Deliver, Enter, ReadVfo1, Decide, Revert, SendSerialMsg, Return,
                mode, form, observe
  <2>2. (bBusy' = bBusy \/ bBusy' = TRUE \/ bBusy' = FALSE) /\ (dropped' = dropped \/ dropped' = TRUE)
    BY <1>1 DEF HandleEvent, Deliver, Enter, ReadVfo1, Decide, Revert, SendSerialMsg, Return
  <2> QED
    BY <2>1, <2>2
<1>2. CASE Form
  <2>1. bRITchkbox' = bRITchkbox \/ bRITchkbox' = RITchkbox
    BY <1>2 DEF Form, OnTimer, ReadRXfreq, SetRXfreq, SendTXfreq, ForceVrx1, SetReceiver
  <2>2. UNCHANGED <<bBusy, TrackFreq, RITchkbox, hurried, dropped, forced>>
    BY <1>2 DEF Form, OnTimer, ReadRXfreq, SetRXfreq, SendTXfreq, ForceVrx1, SetReceiver,
                handler, mode, observe
  <2> QED
    BY <2>1, <2>2
<1>3. CASE Tuner
  BY <1>3 DEF Tuner, UseKnob, SetTuned, SendKeys, handler, mode, form, observe
<1>4. CASE Outside
  <2>1. PICK op : Happens(op)
    BY <1>4 DEF Outside, TuneVRX0, TuneVRX1, TurnKnob, FixFreqBtnClicked, FixTXup, ResetRXFreq,
                SwapTxRxFreq, ClickRIT, SetupDataMode, HearStart, OnForm
  <2>2. hurried' \in BOOLEAN
    BY <2>1 DEF Happens
  <2>3. UNCHANGED <<bBusy, dropped, bRITchkbox>>
    BY <1>4 DEF Outside, TuneVRX0, TuneVRX1, TurnKnob, FixFreqBtnClicked, FixTXup, ResetRXFreq,
                SwapTxRxFreq, ClickRIT, SetupDataMode, HearStart, handler, form
  <2>4. TrackFreq' \in {TrackFreq, TRUE, FALSE} /\ RITchkbox' \in {RITchkbox, ~ RITchkbox}
    BY <1>4 DEF Outside, TuneVRX0, TuneVRX1, TurnKnob, FixFreqBtnClicked, FixTXup, ResetRXFreq,
                SwapTxRxFreq, ClickRIT, SetupDataMode, HearStart, mode
  <2>5. forced' = forced \/ forced' = (forced \/ CurrentTXfreq # LastTXfreq)
    BY <1>4 DEF Outside, TuneVRX0, TuneVRX1, TurnKnob, FixFreqBtnClicked, FixTXup, ResetRXFreq,
                SwapTxRxFreq, ClickRIT, SetupDataMode, HearStart
  <2> QED
    BY <2>2, <2>3, <2>4, <2>5
<1>5. CASE UNCHANGED vars
  BY <1>5 DEF vars, handler, mode, form, observe
<1> QED
  BY <1>1, <1>2, <1>3, <1>4, <1>5 DEF Next, Done

(* What a thread has read are numbers, and every step of it goes to one of *)
(* its places.                                                             *)
LEMMA ThreadsStep == Numbers /\ Places /\ Flags /\ Threads /\ [Next]_vars => Threads'
<1> SUFFICES ASSUME Numbers, Places, Flags, Threads, [Next]_vars PROVE Threads'
  OBVIOUS
<1> USE DEF Threads
<1>1. ASSUME NEW h \in Handlers, HandleEvent(h) PROVE Threads'
  <2>1. CASE Deliver(h)
    BY <2>1 DEF Deliver, Go
  <2>2. CASE Enter(h)
    <3>1. (vfo[0] # lastF[0]) \in BOOLEAN /\ vfo[0] \in Int
      BY DEF Numbers
    <3> QED
      BY <2>2, <3>1 DEF Enter
  <2>3. CASE ReadVfo1(h)
    <3>1. (vfo[1] # lastF[1]) \in BOOLEAN /\ vfo[1] \in Int
      BY DEF Numbers
    <3> QED
      BY <2>3, <3>1 DEF ReadVfo1
  <2>4. CASE Decide(h)
    <3>1. Reaction(thread[h]) \in {"leave", "revert0", "revert1", "setTX", "queueRX"}
      BY DEF Reaction, Places
    <3> QED
      BY <2>4, <3>1 DEF Decide, Go
  <2>5. CASE Revert(h) \/ SendSerialMsg(h)
    BY <2>5 DEF Revert, SendSerialMsg, Go
  <2>6. CASE Return(h)
    BY <2>6 DEF Return, Idle, NoFreq
  <2> QED
    BY <1>1, <2>1, <2>2, <2>3, <2>4, <2>5, <2>6 DEF HandleEvent
<1>2. CASE Form
  BY <1>2 DEF Form, OnTimer, ReadRXfreq, SetRXfreq, SendTXfreq, ForceVrx1, SetReceiver, handler
<1>3. CASE Tuner
  BY <1>3 DEF Tuner, UseKnob, SetTuned, SendKeys, handler
<1>4. CASE Outside
  BY <1>4 DEF Outside, TuneVRX0, TuneVRX1, TurnKnob, FixFreqBtnClicked, FixTXup, ResetRXFreq,
              SwapTxRxFreq, ClickRIT, SetupDataMode, HearStart, handler
<1>5. CASE UNCHANGED vars
  BY <1>5 DEF vars, handler
<1> QED
  BY <1>1, <1>2, <1>3, <1>4, <1>5 DEF Next, Done

(* What receivers and transmitter are set to are numbers.                  *)
LEMMA NumbersStep == Numbers /\ Places /\ Threads /\ [Next]_vars => Numbers'
<1> SUFFICES ASSUME Numbers, Places, Threads, [Next]_vars PROVE Numbers'
  OBVIOUS
<1> USE TrackingAssumption DEF Numbers
<1>1. ASSUME NEW h \in Handlers, HandleEvent(h) PROVE Numbers'
  <2>0. thread[h].freq0 \in Int /\ thread[h].freq1 \in Int
    BY DEF Threads
  <2>1. CASE Deliver(h)
    BY <2>1 DEF Deliver, form, tuner, observe
  <2>2. CASE Enter(h) \/ ReadVfo1(h) \/ Decide(h) \/ Return(h)
    BY <2>2 DEF Enter, ReadVfo1, Decide, Return, sdruno, form, tuner, observe
  <2>3. CASE Revert(h)
    <3>1. vfo' \in [{0, 1} -> Int] /\ events' \in Nat
      BY <2>0, <2>3, SetVfoType DEF Revert
    <3> QED
      BY <2>3, <3>1 DEF Revert, form, tuner, observe
  <2>4. CASE SendSerialMsg(h)
    BY <2>0, <2>4 DEF SendSerialMsg, sdruno, form, tuner, observe
  <2> QED
    BY <1>1, <2>1, <2>2, <2>3, <2>4 DEF HandleEvent
<1>2. CASE Form
  <2>1. CASE OnTimer
    BY <2>1 DEF OnTimer, sdruno, tuner, observe
  <2>2. CASE ReadRXfreq \/ SetRXfreq \/ SendTXfreq
    BY <2>2 DEF ReadRXfreq, SetRXfreq, SendTXfreq, NoFreq, sdruno, tuner, observe
  <2>3. CASE ForceVrx1
    <3>1. vfo' \in [{0, 1} -> Int] /\ events' \in Nat
      BY <2>3, SetVfoType DEF ForceVrx1, sdruno
    <3> QED
      BY <2>3, <3>1 DEF ForceVrx1, tuner, observe
  <2>4. CASE SetReceiver
    <3>1. CurrentTXfreq + TXDF \in Int
      OBVIOUS
    <3>2. vfo' \in [{0, 1} -> Int] /\ events' \in Nat
      BY <2>4, <3>1, SetVfoType DEF SetReceiver
    <3> QED
      BY <2>4, <3>2 DEF SetReceiver, NoFreq, tuner, observe
  <2> QED
    BY <1>2, <2>1, <2>2, <2>3, <2>4 DEF Form
<1>3. CASE Tuner
  <2>1. CASE UseKnob
    BY <2>1 DEF UseKnob, sdruno, form, observe
  <2>2. CASE SetTuned
    <3>1. vfo' \in [{0, 1} -> Int] /\ events' \in Nat
      BY <2>2, SetVfoType DEF SetTuned
    <3> QED
      BY <2>2, <3>1 DEF SetTuned, NoFreq, form, observe
  <2>3. CASE SendKeys
    BY <2>3 DEF SendKeys, sdruno, form, observe
  <2> QED
    BY <1>3, <2>1, <2>2, <2>3 DEF Tuner
<1>4. CASE Outside
  <2>1. moves' \in 0 .. MaxMoves
    BY <1>4 DEF Outside, TuneVRX0, TuneVRX1, TurnKnob, FixFreqBtnClicked, FixTXup, ResetRXFreq,
                SwapTxRxFreq, ClickRIT, SetupDataMode, HearStart, OnForm, Happens
  <2>2. CASE TuneVRX0 \/ TuneVRX1
    <3>1. PICK f \in Freqs : f \in Int /\ wanted' \in {[rx |-> f, tx |-> f],
               [wanted EXCEPT !.rx = f], [wanted EXCEPT !.tx = f],
               [wanted EXCEPT !.rx = wanted.tx], wanted}
                 /\ (vfo' = [vfo EXCEPT ![0] = f] \/ vfo' = [vfo EXCEPT ![1] = f])
      BY <2>2 DEF TuneVRX0, TuneVRX1, Places
    <3> QED
      BY <2>1, <2>2, <3>1 DEF TuneVRX0, TuneVRX1, form, tuner
  <2>3. CASE TurnKnob
    <3>1. PICK d \in {-1, 1} : EncoderSteps' = EncoderSteps + d /\ wanted' \in
               {[rx |-> wanted.rx + d, tx |-> wanted.rx + d], [wanted EXCEPT !.rx = @ + d],
                [wanted EXCEPT !.tx = @ + d], wanted}
      BY <2>3 DEF TurnKnob, Places
    <3>2. EncoderSteps' \in Int
      BY <3>1
    <3>3. wanted' \in [rx : Int, tx : Int]
      <4>1. wanted.rx + d \in Int /\ wanted.tx + d \in Int
        OBVIOUS
      <4> QED
        BY <3>1, <4>1
    <3> QED
      BY <2>1, <2>3, <3>2, <3>3 DEF TurnKnob, sdruno, form
  <2>4. CASE FixFreqBtnClicked \/ FixTXup \/ ResetRXFreq
    BY <2>1, <2>4 DEF FixFreqBtnClicked, FixTXup, ResetRXFreq, sdruno, form, tuner
  <2>5. CASE SwapTxRxFreq
    <3>1. vfo' \in [{0, 1} -> Int] /\ events' \in Nat
      BY <2>5, SetVfoType DEF SwapTxRxFreq
    <3> QED
      BY <2>1, <2>5, <3>1 DEF SwapTxRxFreq, tuner
  <2>6. CASE SetupDataMode \/ HearStart \/ ClickRIT
    BY <2>1, <2>6 DEF SetupDataMode, HearStart, ClickRIT, sdruno, form, tuner
  <2> QED
    BY <1>4, <2>2, <2>3, <2>4, <2>5, <2>6 DEF Outside
<1>5. CASE UNCHANGED vars
  BY <1>5 DEF vars, sdruno, form, tuner, observe
<1> QED
  BY <1>1, <1>2, <1>3, <1>4, <1>5 DEF Next, Done

(* The program starts with everything of its type.                         *)
LEMMA TypesInit == Init => Numbers /\ Threads /\ Places /\ Flags
<1> SUFFICES ASSUME Init PROVE Numbers /\ Threads /\ Places /\ Flags
  OBVIOUS
<1>1. PICK f, g \in Freqs :
        vfo = [v \in {0, 1} |-> IF v = 0 \/ SplitMode = "None" THEN f
                               ELSE IF SplitMode = "TxRx" THEN g ELSE f + TXDF]
  BY DEF Init
<1>2. vfo \in [{0, 1} -> Int]
  BY <1>1, TrackingAssumption
<1>3. Numbers
  BY <1>2, TrackingAssumption DEF Init, Numbers, NoFreq
<1>4. Threads
  <2>1. lastF = vfo /\ thread = [h \in Handlers |-> Idle]
    BY DEF Init
  <2> QED
    BY <1>2, <2>1 DEF Threads, Idle, NoFreq
<1>5. Places
  BY DEF Init, Places
<1>6. Flags
  <2>1. TrackFreq \in BOOLEAN
    BY DEF Init
  <2> QED
    BY <2>1 DEF Init, Flags
<1> QED
  BY <1>3, <1>4, <1>5, <1>6

(* Every reachable state has its types, whatever is tuned, clicked and     *)
(* turned, and however many of SDRuno's threads deliver events.            *)
THEOREM TypeCorrect == Spec => []TypeOK
<1> DEFINE Inv == Numbers /\ Threads /\ Places /\ Flags /\ Messages
<1>1. Init => Inv
  BY TypesInit, AnnouncedInit
<1>2. Inv /\ [Next]_vars => Inv'
  BY NumbersStep, ThreadsStep, PlacesStep, FlagsStep, MessagesStep
<1>3. Inv => TypeOK
  BY DEF Numbers, Threads, Places, Flags, Messages, TypeOK
<1> QED
  BY <1>1, <1>2, <1>3, PTL DEF Spec

-----------------------------------------------------------------------------
(* Where the frequencies go while one thing at a time happens and no event *)
(* is dropped.                                                             *)
Calm == ~ hurried /\ ~ dropped

AllIdle     == \A h \in Handlers : thread[h].pc = "idle"
Alone(h)    == \A k \in Handlers \ {h} : thread[k].pc = "idle"
Some(pc)    == \E h \in Handlers : thread[h].pc = pc

(* What the modes say of TrackFreq and of the operator's wish.             *)
Modes ==
  /\ SplitMode = "None" => TrackFreq /\ wanted.rx = wanted.tx
  /\ SplitMode = "TxRx" /\ TrackFreq => Restored
  /\ SplitMode = "FT8" /\ TrackFreq => wanted.rx = wanted.tx

(* A receiver that has moved since a handler last looked is looked at.     *)
Unread ==
  /\ vfo[0] # lastF[0] => events > 0 \/ Some("enter")
  /\ vfo[1] # lastF[1] => events > 0 \/ Some("enter") \/ Some("freq1")

(* The knob has been turned, and everything else waits for TunerServer:    *)
(* only the receiver it tunes is not yet where it is wanted.               *)
Quiet ==
  /\ events = 0 /\ AllIdle /\ queue = <<>> /\ fpc = "idle" /\ bRITchkbox = RITchkbox
  /\ LastTXfreq = CurrentTXfreq

Turning == tpc = "set" \/ (EncoderSteps # 0 /\ SplitMode # "FT8")
KnobVrx == IF SplitMode = "None" \/ bRITchkbox THEN 0 ELSE 1
Aim     == IF tpc = "set" THEN tune.freq ELSE vfo[KnobVrx] + EncoderSteps

Turned ==
  /\ Quiet /\ SplitMode # "FT8"
  /\ tpc = "set" => EncoderSteps = 0 /\ tune.vrx = KnobVrx
  /\ vfo[1] = CurrentTXfreq
  /\ KnobVrx = 0 => Aim = wanted.rx
  /\ KnobVrx = 1 => vfo[0] = wanted.rx /\ Aim = wanted.tx
  /\ SplitMode = "None" => vfo[0] = CurrentTXfreq
  /\ SplitMode = "TxRx" /\ KnobVrx = 0 => CurrentTXfreq = wanted.tx

(* Without a split VRX0 is where it is wanted, so that whatever is written *)
(* is that frequency; the transmitter and then VRX1 are still to follow.   *)
FromVRX0 ==
  /\ vfo[0] = wanted.rx
  /\ \A h \in Handlers :
       /\ thread[h].pc \notin {"setTX", "revert0"}
       /\ thread[h].pc \in {"idle", "enter"} \/ thread[h].freq0 = wanted.rx
  /\ queue \in Seq({"RX"})
  /\ fpc \in {"idle", "rx", "rxSet", "tx", "vrx1", "rx0", "rx1"}
  /\ fpc = "rxSet" => tmp = wanted.rx
  /\ fpc \in {"tx", "vrx1", "rx0", "rx1"} => CurrentTXfreq = wanted.rx

TXFollows ==
  CurrentTXfreq # wanted.rx =>
    /\ LastTXfreq = CurrentTXfreq /\ vfo[1] = lastF[1]
    /\ \A h \in Handlers : /\ thread[h].pc # "revert1"
                           /\ thread[h].pc = "decide" => ~ thread[h].bF1changed
    /\ \/ vfo[0] # lastF[0]
       \/ \E h \in Handlers : thread[h].pc \in {"freq1", "decide"} /\ thread[h].bF0changed
       \/ Some("queueRX") \/ queue # <<>> \/ fpc \in {"rx", "rxSet"}

VRX1Follows ==
  CurrentTXfreq = wanted.rx /\ vfo[1] # wanted.rx =>
    \/ vfo[1] # lastF[1]
    \/ \E h \in Handlers : thread[h].pc = "decide" /\ thread[h].bF1changed
    \/ Some("revert1")
    \/ fpc = "tx" /\ CurrentTXfreq # LastTXfreq
    \/ fpc = "vrx1"

(* With a split VRX1 is where the transmitter is wanted, or the form is    *)
(* about to put it there ...                                               *)
FromVRX1 ==
  /\ fpc \in {"idle", "rx", "tx", "vrx1", "rx0", "rx1", "swap1"}
  /\ fpc = "rx" => ~ TrackFreq
  /\ fpc = "rx0" => wanted.rx = wanted.tx
  /\ vfo[0] = wanted.rx \/ fpc = "rx0"
  /\ queue \in Seq({"TX"})
  /\ fpc \notin {"idle", "swap1"} \/ queue # <<>> => CurrentTXfreq = wanted.tx
  /\ \/ vfo[1] = wanted.tx
     \/ fpc = "swap1"
     \/ /\ fpc = "vrx1" \/ (fpc = "tx" /\ CurrentTXfreq # LastTXfreq)
        /\ events = 0 /\ AllIdle

(* ... in the middle of a swap, of which one handler at most has heard.    *)
InSwap ==
  fpc = "swap1" =>
    /\ tmp = wanted.tx /\ vfo[1] = CurrentTXfreq /\ lastF[1] = vfo[1]
    /\ \/ events \in {0, 1} /\ AllIdle
       \/ events = 0 /\ \E h \in Handlers : Alone(h) /\ (thread[h].pc = "enter" \/ bBusy)

(* What a handler has read is wanted, or it read between the halves of a   *)
(* swap, and then it has the busy flag and will find nothing to do.        *)
ReadsVRX1 ==
  \A h \in Handlers :
    /\ thread[h].pc \notin {"revert0", "revert1", "queueRX"}
    /\ thread[h].pc = "setTX" => thread[h].freq1 = wanted.tx /\ fpc # "swap1"
    /\ thread[h].pc = "decide" =>
         \/ thread[h].freq1 = wanted.tx /\ fpc # "swap1"
         \/ /\ thread[h].freq1 = CurrentTXfreq /\ Alone(h) /\ bBusy
            /\ fpc = "swap1" \/ vfo[1] # lastF[1]

TXFollowsVRX1 ==
  \/ CurrentTXfreq = wanted.tx
  \/ fpc = "swap1"
  \/ vfo[1] # lastF[1]
  \/ \E h \in Handlers : /\ thread[h].pc = "decide" /\ thread[h].bF1changed
                         /\ thread[h].freq1 = wanted.tx
  \/ Some("setTX")

(* With WSJT-X the transmitter is where it is wanted.  VRX0 is there too,  *)
(* but for +TX, or will be put there.                                      *)
FromDial ==
  /\ tpc = "idle" /\ queue = <<>> /\ fpc # "swap1"
  /\ CurrentTXfreq = wanted.tx
  /\ \A h \in Handlers : thread[h].pc \notin {"setTX", "queueRX", "revert1"}
  /\ fpc = "rxSet" => tmp = wanted.tx
  /\ wanted.rx # wanted.tx =>
       /\ events = 0 /\ AllIdle /\ vfo[0] = wanted.rx
       /\ fpc \in {"idle", "rx", "tx", "vrx1"}

BackToDial ==
  vfo[0] # wanted.rx =>
    /\ fpc \in {"idle", "rx0", "data0", "end0"}
    /\ fpc = "idle" =>
       /\ \A h \in Handlers :
            thread[h].pc \in {"freq1", "decide"} => thread[h].freq0 # CurrentTXfreq
       /\ \/ vfo[0] # lastF[0] \/ vfo[1] # lastF[1]
          \/ \E h \in Handlers :
               \/ thread[h].pc = "freq1" /\ thread[h].bF0changed
               \/ thread[h].pc = "decide" /\ (thread[h].bF0changed \/ thread[h].bF1changed)
          \/ Some("revert0")

InNone == FromVRX0 /\ TXFollows /\ VRX1Follows
InTxRx == FromVRX1 /\ InSwap /\ ReadsVRX1 /\ TXFollowsVRX1
InFT8  == FromDial /\ BackToDial

OnItsWay ==
  /\ Turning => Turned
  /\ ~ Turning /\ SplitMode = "None" => InNone
  /\ ~ Turning /\ SplitMode = "TxRx" => InTxRx
  /\ SplitMode = "FT8" => InFT8

Tracked == Calm => OnItsWay

(* What no step of a handler changes.                                      *)
Still == UNCHANGED <<SplitMode, TrackFreq, LastTXfreq, fpc, tmp, bRITchkbox, RITchkbox,
                     EncoderSteps, tpc, tune, wanted, hurried, moves>>

(* The other threads are where they were.                                  *)
Others(h) == \A k \in Handlers \ {h} : thread'[k] = thread[k]

(* A handler changes neither the mode, nor the form's and the tuner's      *)
(* place.                                                                  *)
LEMMA HandlerLeaves == ASSUME NEW h \in Handlers, HandleEvent(h) PROVE Still
BY DEF HandleEvent, Deliver, Enter, ReadVfo1, Decide, Revert, SendSerialMsg, Return, Still, mode,
   form, tuner, observe

(* Setting a receiver to what it is not makes an event, and leaves the     *)
(* other one alone.                                                        *)
LEMMA SetDoes ==
  ASSUME Numbers, NEW vrx \in {0, 1}, NEW freq \in Int, SetVfoFrequency(vrx, freq)
  PROVE  /\ vfo'[vrx] = freq /\ vfo'[1 - vrx] = vfo[1 - vrx]
         /\ events' \in {events, events + 1} /\ (freq # vfo[vrx] => events' = events + 1)
BY DEF SetVfoFrequency, Numbers

(* An event that is not dropped finds no other one being handled.          *)
LEMMA DeliverDoes ==
  ASSUME NEW h \in Handlers, Threads, Flags, Deliver(h), ~ dropped'
  PROVE  /\ thread[h].pc = "idle" /\ thread'[h].pc = "enter" /\ Others(h)
         /\ events > 0 /\ events' = events - 1 /\ ~ bBusy /\ ~ dropped
         /\ UNCHANGED <<vfo, bBusy, lastF, queue, CurrentTXfreq>>
BY DEF Deliver, At, Go, Threads, Flags, Others

(* A handler takes the busy flag and reads VRX0 ...                        *)
LEMMA EnterDoes ==
  ASSUME NEW h \in Handlers, Threads, Enter(h)
  PROVE  /\ thread[h].pc = "enter" /\ thread'[h].pc = "freq1" /\ Others(h)
         /\ thread'[h].freq0 = vfo[0] /\ thread'[h].bF0changed = (vfo[0] # lastF[0])
         /\ bBusy' = TRUE /\ lastF'[0] = vfo[0] /\ lastF'[1] = lastF[1]
         /\ UNCHANGED <<vfo, events, dropped, queue, CurrentTXfreq>>
BY DEF Enter, At, Threads, Others, sdruno

(* ... then VRX1 ...                                                       *)
LEMMA ReadVfo1Does ==
  ASSUME NEW h \in Handlers, Threads, ReadVfo1(h)
  PROVE  /\ thread[h].pc = "freq1" /\ thread'[h].pc = "decide" /\ Others(h)
         /\ thread'[h].freq0 = thread[h].freq0 /\ thread'[h].bF0changed = thread[h].bF0changed
         /\ thread'[h].freq1 = vfo[1] /\ thread'[h].bF1changed = (vfo[1] # lastF[1])
         /\ lastF'[1] = vfo[1] /\ lastF'[0] = lastF[0]
         /\ UNCHANGED <<vfo, events, bBusy, dropped, queue, CurrentTXfreq>>
BY DEF ReadVfo1, At, Threads, Others, sdruno

(* ... goes where what it has read sends it ...                            *)
LEMMA DecideDoes ==
  ASSUME NEW h \in Handlers, Threads, Decide(h)
  PROVE  /\ thread[h].pc = "decide" /\ thread'[h].pc = Reaction(thread[h]) /\ Others(h)
         /\ thread'[h].freq0 = thread[h].freq0 /\ thread'[h].freq1 = thread[h].freq1
         /\ UNCHANGED <<vfo, events, bBusy, lastF, dropped, queue, CurrentTXfreq>>
BY DEF Decide, At, Go, Threads, Others, sdruno

(* ... which is to set a receiver back ...                                 *)
LEMMA RevertDoes ==
  ASSUME NEW h \in Handlers, Numbers, Threads, Revert(h)
  PROVE  /\ thread[h].pc \in {"revert0", "revert1"} /\ thread'[h].pc = "leave" /\ Others(h)
         /\ thread'[h].freq0 = thread[h].freq0 /\ thread'[h].freq1 = thread[h].freq1
         /\ events' \in {events, events + 1}
         /\ (vfo'[0] # vfo[0] \/ vfo'[1] # vfo[1] => events' = events + 1)
         /\ vfo'[0] = IF thread[h].pc = "revert0" THEN CurrentTXfreq ELSE vfo[0]
         /\ vfo'[1] = IF thread[h].pc = "revert1" THEN thread[h].freq0 ELSE vfo[1]
         /\ UNCHANGED <<bBusy, lastF, dropped, queue, CurrentTXfreq>>
<1>1. /\ thread'[h].pc = "leave" /\ Others(h)
      /\ thread'[h].freq0 = thread[h].freq0 /\ thread'[h].freq1 = thread[h].freq1
      /\ UNCHANGED <<bBusy, lastF, dropped, queue, CurrentTXfreq>>
  BY DEF Revert, Go, Threads, Others
<1>2. CASE thread[h].pc = "revert1"
  <2>1. SetVfoFrequency(1, thread[h].freq0) /\ thread[h].freq0 \in Int
    BY <1>2 DEF Revert, At, Threads
  <2> QED
    BY <1>1, <1>2, <2>1, SetDoes
<1>3. CASE thread[h].pc = "revert0"
  <2>1. SetVfoFrequency(0, CurrentTXfreq) /\ CurrentTXfreq \in Int
    BY <1>3 DEF Revert, At, Numbers
  <2> QED
    BY <1>1, <1>3, <2>1, SetDoes
<1> QED
  BY <1>2, <1>3 DEF Revert, At

(* ... or to have a frequency sent ...                                     *)
LEMMA SendSerialMsgDoes ==
  ASSUME NEW h \in Handlers, Threads, SendSerialMsg(h)
  PROVE  /\ thread'[h].pc = "leave" /\ Others(h)
         /\ thread'[h].freq0 = thread[h].freq0 /\ thread'[h].freq1 = thread[h].freq1
         /\ \/ /\ thread[h].pc = "setTX" /\ CurrentTXfreq' = thread[h].freq1
               /\ queue' = Append(queue, "TX")
            \/ /\ thread[h].pc = "queueRX" /\ CurrentTXfreq' = CurrentTXfreq
               /\ queue' = Append(queue, "RX")
         /\ UNCHANGED <<vfo, events, bBusy, lastF, dropped>>
BY DEF SendSerialMsg, At, Go, Threads, Others, sdruno

(* ... and gives the busy flag back.                                       *)
LEMMA ReturnDoes ==
  ASSUME NEW h \in Handlers, Threads, Return(h)
  PROVE  /\ thread[h].pc = "leave" /\ thread'[h].pc = "idle" /\ Others(h)
         /\ bBusy' = FALSE
         /\ UNCHANGED <<vfo, events, lastF, dropped, queue, CurrentTXfreq>>
BY DEF Return, At, Idle, Threads, Others, sdruno

(* Without a split the threads keep the frequencies on their way: an event *)
(* is looked at ...                                                        *)
LEMMA NoneDeliver ==
  ASSUME NEW h \in Handlers, Threads, Flags, InNone, Deliver(h), ~ dropped'
  PROVE  InNone'
<1>1. Still
  BY HandlerLeaves DEF HandleEvent
<1>2. FromVRX0'
  BY <1>1, DeliverDoes DEF InNone, FromVRX0, Still, Others
<1>3. TXFollows'
  BY <1>1, DeliverDoes DEF InNone, TXFollows, Still, Others, Some
<1>4. VRX1Follows'
  BY <1>1, DeliverDoes DEF InNone, VRX1Follows, Still, Others, Some
<1> QED
  BY <1>2, <1>3, <1>4 DEF InNone

(* ... VRX0 is where it is wanted, a change of it is noticed ...           *)
LEMMA NoneEnter ==
  ASSUME NEW h \in Handlers, Threads, InNone, Enter(h)
  PROVE  InNone'
<1>1. Still
  BY HandlerLeaves DEF HandleEvent
<1>0. thread'[h].pc = "freq1" /\ thread'[h].freq0 = vfo[0] /\ Others(h)
      /\ UNCHANGED <<vfo, queue, CurrentTXfreq>>
  BY EnterDoes
<1>2. FromVRX0'
  BY <1>0, <1>1 DEF InNone, FromVRX0, Still, Others
<1>3. TXFollows'
  BY <1>1, EnterDoes DEF InNone, FromVRX0, TXFollows, Still, Others, Some
<1>4. VRX1Follows'
  BY <1>1, EnterDoes DEF InNone, VRX1Follows, Still, Others, Some
<1> QED
  BY <1>2, <1>3, <1>4 DEF InNone

(* ... and so is one of VRX1 ...                                           *)
LEMMA NoneReadVfo1 ==
  ASSUME NEW h \in Handlers, Threads, InNone, ReadVfo1(h)
  PROVE  InNone'
<1>1. Still
  BY HandlerLeaves DEF HandleEvent
<1>2. FromVRX0'
  BY <1>1, ReadVfo1Does DEF InNone, FromVRX0, Still, Others
<1>3. TXFollows'
  BY <1>1, ReadVfo1Does, ZenonT(30) DEF InNone, FromVRX0, TXFollows, Still, Others, Some
<1>4. VRX1Follows'
  BY <1>1, ReadVfo1Does, ZenonT(30) DEF InNone, FromVRX0, VRX1Follows, Still, Others, Some
<1> QED
  BY <1>2, <1>3, <1>4 DEF InNone

(* ... which is dealt with first, as the transmitter then follows VRX0     *)
(* already ...                                                             *)
LEMMA NoneDecide ==
  ASSUME NEW h \in Handlers, Threads, SplitMode = "None", InNone, Decide(h)
  PROVE  InNone'
<1>1. Still
  BY HandlerLeaves DEF HandleEvent
<1>0. thread'[h].pc = IF ~ thread[h].bF0changed /\ ~ thread[h].bF1changed THEN "leave"
                      ELSE IF thread[h].bF1changed THEN "revert1" ELSE "queueRX"
  <2>1. thread'[h].pc = Reaction(thread[h])
    BY DecideDoes
  <2> QED
    BY <2>1 DEF Reaction
<1>2. FromVRX0'
  BY <1>0, <1>1, DecideDoes DEF InNone, FromVRX0, Still, Others
<1>3. TXFollows'
  BY <1>0, <1>1, DecideDoes DEF InNone, FromVRX0, TXFollows, Still, Others, Some
<1>4. VRX1Follows'
  BY <1>0, <1>1, DecideDoes DEF InNone, FromVRX0, VRX1Follows, Still, Others, Some
<1> QED
  BY <1>2, <1>3, <1>4 DEF InNone

(* ... by setting VRX1 to VRX0's frequency ...                             *)
LEMMA NoneRevert ==
  ASSUME NEW h \in Handlers, Numbers, Threads, InNone, Revert(h)
  PROVE  InNone'
<1>1. Still
  BY HandlerLeaves DEF HandleEvent
<1>2. FromVRX0'
  BY <1>1, RevertDoes DEF InNone, FromVRX0, Still, Others
<1>3. TXFollows'
  BY <1>1, RevertDoes DEF InNone, FromVRX0, TXFollows, Still, Others, Some
<1>4. VRX1Follows'
  BY <1>1, RevertDoes DEF InNone, FromVRX0, VRX1Follows, Still, Others, Some
<1> QED
  BY <1>2, <1>3, <1>4 DEF InNone

(* ... and the transmitter's frequency is sent ...                         *)
LEMMA NoneSendSerialMsg ==
  ASSUME NEW h \in Handlers, Threads, InNone, SendSerialMsg(h)
  PROVE  InNone'
<1>1. Still
  BY HandlerLeaves DEF HandleEvent
<1>0. thread[h].pc = "queueRX" /\ CurrentTXfreq' = CurrentTXfreq
      /\ queue' = Append(queue, "RX") /\ queue \in Seq({"RX"})
  BY SendSerialMsgDoes DEF InNone, FromVRX0
<1>a. queue' \in Seq({"RX"}) /\ queue' # <<>>
  BY <1>0
<1>2. FromVRX0'
  BY <1>0, <1>a, <1>1, SendSerialMsgDoes DEF InNone, FromVRX0, Still, Others
<1>3. TXFollows'
  BY <1>0, <1>a, <1>1, SendSerialMsgDoes DEF InNone, FromVRX0, TXFollows, Still, Others, Some
<1>4. VRX1Follows'
  BY <1>0, <1>a, <1>1, SendSerialMsgDoes DEF InNone, FromVRX0, VRX1Follows, Still, Others, Some
<1> QED
  BY <1>2, <1>3, <1>4 DEF InNone

(* ... before the handler is done.                                         *)
LEMMA NoneReturn ==
  ASSUME NEW h \in Handlers, Threads, InNone, Return(h)
  PROVE  InNone'
<1>1. Still
  BY HandlerLeaves DEF HandleEvent
<1>2. FromVRX0'
  BY <1>1, ReturnDoes DEF InNone, FromVRX0, Still, Others
<1>3. TXFollows'
  BY <1>1, ReturnDoes DEF InNone, FromVRX0, TXFollows, Still, Others, Some
<1>4. VRX1Follows'
  BY <1>1, ReturnDoes DEF InNone, FromVRX0, VRX1Follows, Still, Others, Some
<1> QED
  BY <1>2, <1>3, <1>4 DEF InNone

(* With a split: while a handler works on what it read between the halves  *)
(* of a swap, any other event is dropped.                                  *)
LEMMA TxRxDeliver ==
  ASSUME NEW h \in Handlers, Numbers, Threads, Flags, InTxRx, ~ dropped', Deliver(h)
  PROVE  InTxRx'
<1>1. Still
  BY HandlerLeaves DEF HandleEvent
<1>2. FromVRX1'
  BY <1>1, DeliverDoes DEF InTxRx, FromVRX1, AllIdle, Still, Others
<1>3. InSwap'
  BY <1>1, DeliverDoes DEF InTxRx, FromVRX1, InSwap, ReadsVRX1, AllIdle, Alone, Still, Others
<1>4. ReadsVRX1'
  BY <1>1, DeliverDoes DEF InTxRx, FromVRX1, InSwap, ReadsVRX1, AllIdle, Alone, Still, Others
<1>5. TXFollowsVRX1'
  BY <1>1, DeliverDoes DEF InTxRx, FromVRX1, InSwap, ReadsVRX1, TXFollowsVRX1, Some, AllIdle,
     Alone, Still, Others
<1> QED
  BY <1>2, <1>3, <1>4, <1>5 DEF InTxRx

(* VRX0 does not matter.                                                   *)
LEMMA TxRxEnter ==
  ASSUME NEW h \in Handlers, Threads, InTxRx, Enter(h)
  PROVE  InTxRx'
<1>1. Still
  BY HandlerLeaves DEF HandleEvent
<1>2. /\ thread[h].pc = "enter" /\ thread'[h].pc = "freq1" /\ Others(h)
      /\ bBusy' /\ lastF'[1] = lastF[1] /\ UNCHANGED <<vfo, events, queue, CurrentTXfreq>>
  BY EnterDoes
<1>3. FromVRX1'
  BY <1>1, <1>2 DEF InTxRx, FromVRX1, AllIdle, Still
<1>4. InSwap'
  BY <1>1, <1>2 DEF InTxRx, InSwap, AllIdle, Alone, Still, Others
<1>5. ReadsVRX1'
  BY <1>1, <1>2 DEF InTxRx, ReadsVRX1, Alone, Still, Others
<1>6. TXFollowsVRX1'
  BY <1>1, <1>2 DEF InTxRx, TXFollowsVRX1, Some, Still, Others
<1> QED
  BY <1>3, <1>4, <1>5, <1>6 DEF InTxRx

(* VRX1 is where the transmitter is wanted, or the form is between the     *)
(* halves of a swap.                                                       *)
LEMMA TxRxReadVfo1 ==
  ASSUME NEW h \in Handlers, Threads, InTxRx, ReadVfo1(h)
  PROVE  InTxRx'
<1>1. Still
  BY HandlerLeaves DEF HandleEvent
<1>2. FromVRX1'
  BY <1>1, ReadVfo1Does DEF InTxRx, FromVRX1, AllIdle, Still, Others
<1>3. InSwap'
  BY <1>1, ReadVfo1Does DEF InTxRx, FromVRX1, InSwap, ReadsVRX1, AllIdle, Alone, Still, Others
<1>4. ReadsVRX1'
  BY <1>1, ReadVfo1Does DEF InTxRx, FromVRX1, InSwap, ReadsVRX1, AllIdle, Alone, Still, Others
<1>5. TXFollowsVRX1'
  BY <1>1, ReadVfo1Does, ZenonT(30) DEF InTxRx, FromVRX1, InSwap, ReadsVRX1, TXFollowsVRX1, Some, AllIdle,
     Alone, Still, Others
<1> QED
  BY <1>2, <1>3, <1>4, <1>5 DEF InTxRx

(* What was read between the halves is CurrentTXfreq, and nothing is to be *)
(* done.                                                                   *)
LEMMA TxRxDecide ==
  ASSUME NEW h \in Handlers, Threads, SplitMode = "TxRx", InTxRx, Decide(h)
  PROVE  InTxRx'
<1>1. Still
  BY HandlerLeaves DEF HandleEvent
<1>0. thread'[h].pc = IF ~ thread[h].bF0changed /\ ~ thread[h].bF1changed THEN "leave"
                      ELSE IF thread[h].freq1 # CurrentTXfreq THEN "setTX" ELSE "leave"
  <2>1. thread'[h].pc = Reaction(thread[h])
    BY DecideDoes
  <2> QED
    BY <2>1 DEF Reaction
<1>2. FromVRX1'
  BY <1>0, <1>1, DecideDoes DEF InTxRx, FromVRX1, AllIdle, Still, Others
<1>3. InSwap'
  BY <1>0, <1>1, DecideDoes DEF InTxRx, FromVRX1, InSwap, ReadsVRX1, AllIdle, Alone, Still, Others
<1>4. ReadsVRX1'
  BY <1>0, <1>1, DecideDoes DEF InTxRx, FromVRX1, InSwap, ReadsVRX1, AllIdle, Alone, Still, Others
<1>5. TXFollowsVRX1'
  BY <1>0, <1>1, DecideDoes DEF InTxRx, FromVRX1, InSwap, ReadsVRX1, TXFollowsVRX1, Some,
     AllIdle, Alone, Still, Others
<1> QED
  BY <1>2, <1>3, <1>4, <1>5 DEF InTxRx

(* No receiver is set back.                                                *)
LEMMA TxRxRevert ==
  ASSUME NEW h \in Handlers, InTxRx, Revert(h)
  PROVE  FALSE
BY DEF InTxRx, ReadsVRX1, Revert, At

(* What is sent is wanted.                                                 *)
LEMMA TxRxSendSerialMsg ==
  ASSUME NEW h \in Handlers, Threads, InTxRx, SendSerialMsg(h)
  PROVE  InTxRx'
<1>1. Still
  BY HandlerLeaves DEF HandleEvent
<1>2. /\ thread[h].pc = "setTX" /\ thread[h].freq1 = wanted.tx /\ fpc # "swap1"
      /\ thread'[h].pc = "leave" /\ Others(h)
      /\ CurrentTXfreq' = wanted.tx /\ UNCHANGED <<vfo, events, bBusy, lastF>>
  BY SendSerialMsgDoes DEF InTxRx, ReadsVRX1
<1>3. queue' \in Seq({"TX"})
  <2>1. queue' = Append(queue, "TX") /\ queue \in Seq({"TX"})
    BY <1>2, SendSerialMsgDoes DEF InTxRx, FromVRX1
  <2> QED
    BY <2>1
<1>4. FromVRX1'
  BY <1>1, <1>2, <1>3 DEF InTxRx, FromVRX1, AllIdle, Still
<1>5. InSwap'
  BY <1>1, <1>2 DEF InSwap, Still
<1>6. ReadsVRX1'
  BY <1>1, <1>2 DEF InTxRx, ReadsVRX1, Alone, Still, Others
<1>7. TXFollowsVRX1'
  BY <1>1, <1>2 DEF TXFollowsVRX1, Still
<1> QED
  BY <1>4, <1>5, <1>6, <1>7 DEF InTxRx

(* The one handler that has heard of a swap leaves none behind.            *)
LEMMA TxRxReturn ==
  ASSUME NEW h \in Handlers, Threads, InTxRx, Return(h)
  PROVE  InTxRx'
<1>1. Still
  BY HandlerLeaves DEF HandleEvent
<1>2. /\ thread[h].pc = "leave" /\ thread'[h].pc = "idle" /\ Others(h)
      /\ UNCHANGED <<vfo, events, lastF, queue, CurrentTXfreq>>
  BY ReturnDoes
<1>3. FromVRX1'
  BY <1>1, <1>2 DEF InTxRx, FromVRX1, AllIdle, Still
<1>4. InSwap'
  <2>1. SUFFICES ASSUME fpc = "swap1" PROVE events = 0 /\ AllIdle'
    BY <1>1, <1>2 DEF InTxRx, InSwap, Still
  <2>2. PICK k \in Handlers : Alone(k) /\ events = 0
    BY <1>2, <2>1 DEF InTxRx, InSwap, AllIdle
  <2>3. k = h
    BY <1>2, <2>2 DEF Alone
  <2> QED
    BY <1>2, <2>2, <2>3 DEF Alone, AllIdle, Others
<1>5. ReadsVRX1'
  BY <1>1, <1>2 DEF InTxRx, ReadsVRX1, Alone, Still, Others
<1>6. TXFollowsVRX1'
  BY <1>1, <1>2 DEF InTxRx, TXFollowsVRX1, Some, Still, Others
<1> QED
  BY <1>3, <1>4, <1>5, <1>6 DEF InTxRx

(* With WSJT-X a handler looks at what the operator has tuned ...          *)
LEMMA FT8Deliver ==
  ASSUME NEW h \in Handlers, Numbers, Threads, Flags, InFT8, Deliver(h), ~ dropped'
  PROVE  InFT8'
<1>1. Still
  BY HandlerLeaves DEF HandleEvent
<1>2. FromDial'
  BY <1>1, DeliverDoes DEF InFT8, FromDial, AllIdle, Still, Others
<1>3. BackToDial'
  BY <1>1, DeliverDoes DEF InFT8, BackToDial, Some, Still, Others
<1> QED
  BY <1>2, <1>3 DEF InFT8

(* ... finds VRX0 away from CurrentTXfreq ...                              *)
LEMMA FT8Enter ==
  ASSUME NEW h \in Handlers, Threads, InFT8, Enter(h)
  PROVE  InFT8'
<1>1. Still
  BY HandlerLeaves DEF HandleEvent
<1>0. /\ thread[h].pc = "enter" /\ thread'[h].pc = "freq1" /\ Others(h)
      /\ thread'[h].freq0 = vfo[0] /\ (vfo[0] # lastF[0] => thread'[h].bF0changed)
      /\ lastF'[1] = lastF[1] /\ UNCHANGED <<vfo, events, queue, CurrentTXfreq>>
  BY EnterDoes
<1>2. FromDial'
  BY <1>0, <1>1 DEF InFT8, FromDial, AllIdle, Still, Others
<1>3. BackToDial'
  BY <1>0, <1>1 DEF InFT8, FromDial, BackToDial, AllIdle, Some, Still, Others
<1> QED
  BY <1>2, <1>3 DEF InFT8

(* ... or VRX1 moved ...                                                   *)
LEMMA FT8ReadVfo1 ==
  ASSUME NEW h \in Handlers, Threads, InFT8, ReadVfo1(h)
  PROVE  InFT8'
<1>1. Still
  BY HandlerLeaves DEF HandleEvent
<1>0. /\ thread[h].pc = "freq1" /\ thread'[h].pc = "decide" /\ Others(h)
      /\ thread'[h].freq0 = thread[h].freq0 /\ thread'[h].bF0changed = thread[h].bF0changed
      /\ (vfo[1] # lastF[1] => thread'[h].bF1changed)
      /\ lastF'[0] = lastF[0] /\ UNCHANGED <<vfo, events, queue, CurrentTXfreq>>
  BY ReadVfo1Does
<1>2. FromDial'
  BY <1>0, <1>1 DEF InFT8, FromDial, AllIdle, Still, Others
<1>3. BackToDial'
  BY <1>0, <1>1 DEF InFT8, FromDial, BackToDial, AllIdle, Some, Still, Others
<1> QED
  BY <1>2, <1>3 DEF InFT8

(* ... and goes to set VRX0 back ...                                       *)
LEMMA FT8Decide ==
  ASSUME NEW h \in Handlers, Threads, SplitMode = "FT8", InFT8, Decide(h)
  PROVE  InFT8'
<1>1. Still
  BY HandlerLeaves DEF HandleEvent
<1>0. thread'[h].pc = IF ~ thread[h].bF0changed /\ ~ thread[h].bF1changed THEN "leave"
                      ELSE IF thread[h].freq0 # CurrentTXfreq THEN "revert0" ELSE "leave"
  <2>1. thread'[h].pc = Reaction(thread[h])
    BY DecideDoes
  <2> QED
    BY <2>1 DEF Reaction
<1>2. FromDial'
  BY <1>0, <1>1, DecideDoes DEF InFT8, FromDial, AllIdle, Still, Others
<1>3. BackToDial'
  BY <1>0, <1>1, DecideDoes DEF InFT8, FromDial, BackToDial, AllIdle, Some, Still, Others
<1> QED
  BY <1>2, <1>3 DEF InFT8

(* ... and does ...                                                        *)
LEMMA FT8Revert ==
  ASSUME NEW h \in Handlers, Numbers, Threads, InFT8, Revert(h)
  PROVE  InFT8'
<1>1. Still
  BY HandlerLeaves DEF HandleEvent
<1>0. /\ thread[h].pc = "revert0" /\ thread'[h].pc = "leave" /\ Others(h)
      /\ vfo'[0] = CurrentTXfreq /\ UNCHANGED <<queue, CurrentTXfreq>>
  BY RevertDoes DEF InFT8, FromDial
<1>2. FromDial'
  BY <1>0, <1>1 DEF InFT8, FromDial, AllIdle, Still, Others
<1>3. BackToDial'
  BY <1>0, <1>1 DEF InFT8, FromDial, BackToDial, AllIdle, Still
<1> QED
  BY <1>2, <1>3 DEF InFT8

(* ... without anything being sent ...                                     *)
LEMMA FT8SendSerialMsg ==
  ASSUME NEW h \in Handlers, InFT8, SendSerialMsg(h)
  PROVE  FALSE
BY DEF InFT8, FromDial, SendSerialMsg, At

(* ... before it is done.                                                  *)
LEMMA FT8Return ==
  ASSUME NEW h \in Handlers, Threads, InFT8, Return(h)
  PROVE  InFT8'
<1>1. Still
  BY HandlerLeaves DEF HandleEvent
<1>2. FromDial'
  BY <1>1, ReturnDoes DEF InFT8, FromDial, AllIdle, Still, Others
<1>3. BackToDial'
  BY <1>1, ReturnDoes DEF InFT8, BackToDial, Some, Still, Others
<1> QED
  BY <1>2, <1>3 DEF InFT8

(* What no step of the form's thread changes.                              *)
FormStill == UNCHANGED <<bBusy, lastF, thread, dropped, SplitMode, TrackFreq, RITchkbox,
                         EncoderSteps, tpc, tune, wanted, hurried, moves>>

(* The form's thread leaves the handlers, the mode and the knob alone.     *)
LEMMA FormLeaves == Form => FormStill
BY DEF Form, OnTimer, ReadRXfreq, SetRXfreq, SendTXfreq, ForceVrx1, SetReceiver, FormStill,
       handler, mode, tuner, observe

(* ForceVrx1 takes VRX1 to CurrentTXfreq, but with WSJT-X.                 *)
LEMMA ForceVrx1Does ==
  ASSUME Numbers, ForceVrx1
  PROVE  /\ fpc = "vrx1" /\ fpc' = "idle" /\ vfo'[0] = vfo[0]
         /\ vfo'[1] = IF SplitMode = "FT8" THEN vfo[1] ELSE CurrentTXfreq
         /\ events' \in {events, events + 1} /\ (vfo'[1] # vfo[1] => events' = events + 1)
         /\ UNCHANGED <<queue, CurrentTXfreq, tmp, LastTXfreq>>
<1>1. fpc = "vrx1" /\ fpc' = "idle" /\ UNCHANGED <<queue, CurrentTXfreq, tmp, LastTXfreq>>
  BY DEF ForceVrx1, Step
<1>2. CASE vfo[1] # CurrentTXfreq /\ SplitMode # "FT8"
  <2>1. SetVfoFrequency(1, CurrentTXfreq) /\ CurrentTXfreq \in Int
    BY <1>2 DEF ForceVrx1, Numbers
  <2> QED
    BY <1>1, <1>2, <2>1, SetDoes
<1>3. CASE ~ (vfo[1] # CurrentTXfreq /\ SplitMode # "FT8")
  BY <1>1, <1>3 DEF ForceVrx1, sdruno
<1> QED
  BY <1>2, <1>3

(* SetReceiver sets the receiver of its place, and goes to the next.       *)
LEMMA SetReceiverDoes ==
  ASSUME Numbers, SetReceiver
  PROVE  /\ \/ /\ <<fpc, fpc'>> \in
                     {<<"rx0", "rx1">>, <<"data0", "data1">>, <<"end0", "end1">>}
               /\ vfo'[0] = CurrentTXfreq /\ vfo'[1] = vfo[1]
            \/ /\ vfo'[0] = vfo[0]
               /\ \/ fpc = "rx1" /\ fpc' = "idle" /\ vfo'[1] = CurrentTXfreq
                  \/ fpc = "data1" /\ fpc' = "dataTx" /\ vfo'[1] = CurrentTXfreq
                  \/ fpc = "swap1" /\ fpc' = "idle" /\ vfo'[1] = tmp
                  \/ fpc = "end1" /\ fpc' = "idle" /\ vfo'[1] = CurrentTXfreq + TXDF
         /\ events' \in {events, events + 1}
         /\ (vfo'[0] # vfo[0] \/ vfo'[1] # vfo[1] => events' = events + 1)
         /\ UNCHANGED <<queue, CurrentTXfreq, LastTXfreq>>
<1>0. CurrentTXfreq \in Int /\ tmp \in Int /\ CurrentTXfreq + TXDF \in Int
  BY TrackingAssumption DEF Numbers
<1>1. UNCHANGED <<queue, CurrentTXfreq, LastTXfreq>>
  BY DEF SetReceiver
<1>2. CASE fpc \in {"rx0", "data0", "end0"}
  <2>1. /\ SetVfoFrequency(0, CurrentTXfreq)
        /\ <<fpc, fpc'>> \in {<<"rx0", "rx1">>, <<"data0", "data1">>, <<"end0", "end1">>}
    BY <1>2 DEF SetReceiver, Step
  <2> QED
    BY <1>0, <1>1, <2>1, SetDoes
<1>3. CASE fpc \in {"rx1", "data1"}
  <2>1. /\ SetVfoFrequency(1, CurrentTXfreq)
        /\ <<fpc, fpc'>> \in {<<"rx1", "idle">>, <<"data1", "dataTx">>}
    BY <1>3 DEF SetReceiver, Step
  <2> QED
    BY <1>0, <1>1, <2>1, SetDoes
<1>4. CASE fpc = "swap1"
  <2>1. SetVfoFrequency(1, tmp) /\ fpc' = "idle"
    BY <1>4 DEF SetReceiver, Step
  <2> QED
    BY <1>0, <1>1, <1>4, <2>1, SetDoes
<1>5. CASE fpc = "end1"
  <2>1. SetVfoFrequency(1, CurrentTXfreq + TXDF) /\ fpc' = "idle"
    BY <1>5 DEF SetReceiver, Step
  <2> QED
    BY <1>0, <1>1, <1>5, <2>1, SetDoes
<1> QED
  BY <1>2, <1>3, <1>4, <1>5 DEF SetReceiver, Step

(* Without a split the form's thread takes VRX0's frequency to the         *)
(* transmitter and to VRX1.                                                *)
LEMMA NoneForm ==
  ASSUME Numbers, Messages, SplitMode = "None", TrackFreq, InNone, Form
  PROVE  InNone'
<1>1. FormStill
  BY FormLeaves
<1> USE <1>1 DEF FormStill, InNone
<1>2. CASE OnTimer /\ queue = <<>>
  BY <1>2 DEF OnTimer, FromVRX0, TXFollows, VRX1Follows, sdruno, Some
<1>3. CASE OnTimer /\ queue # <<>>
  <2>1. Head(queue) = "RX" /\ Tail(queue) \in Seq({"RX"})
    BY <1>3 DEF FromVRX0
  <2>2. /\ fpc = "idle" /\ fpc' = "rx" /\ queue' \in Seq({"RX"})
        /\ UNCHANGED <<vfo, CurrentTXfreq, tmp, LastTXfreq>>
    BY <1>3, <2>1 DEF OnTimer, sdruno
  <2> QED
    BY <2>2 DEF FromVRX0, TXFollows, VRX1Follows, Some
<1>4. CASE ReadRXfreq
  BY <1>4 DEF ReadRXfreq, Step, FromVRX0, TXFollows, VRX1Follows, sdruno, Some
<1>5. CASE SetRXfreq
  BY <1>5 DEF SetRXfreq, Step, FromVRX0, TXFollows, VRX1Follows, sdruno, Some
<1>6. CASE SendTXfreq
  BY <1>6 DEF SendTXfreq, Step, FromVRX0, TXFollows, VRX1Follows, sdruno, Some
<1>7. CASE ForceVrx1
  BY <1>7, ForceVrx1Does DEF FromVRX0, TXFollows, VRX1Follows, Some
<1>8. CASE SetReceiver
  BY <1>8, SetReceiverDoes DEF FromVRX0, TXFollows, VRX1Follows, Some
<1> QED
  BY <1>2, <1>3, <1>4, <1>5, <1>6, <1>7, <1>8 DEF Form

(* With a split it takes +TX to VRX1, and the second half of a swap.       *)
LEMMA TxRxForm ==
  ASSUME Numbers, Messages, SplitMode = "TxRx", InTxRx, Form
  PROVE  InTxRx'
<1>1. FormStill
  BY FormLeaves
<1> USE <1>1 DEF FormStill, InTxRx
<1>2. CASE OnTimer /\ queue = <<>>
  BY <1>2 DEF OnTimer, FromVRX1, InSwap, ReadsVRX1, TXFollowsVRX1, sdruno, Some, AllIdle, Alone
<1>3. CASE OnTimer /\ queue # <<>>
  <2>1. Head(queue) = "TX" /\ Tail(queue) \in Seq({"TX"})
    BY <1>3 DEF FromVRX1
  <2>2. /\ fpc = "idle" /\ fpc' = "tx" /\ queue' \in Seq({"TX"}) /\ CurrentTXfreq = wanted.tx
        /\ UNCHANGED <<vfo, events, CurrentTXfreq, tmp, LastTXfreq>>
    BY <1>3, <2>1 DEF OnTimer, sdruno, FromVRX1
  <2> QED
    BY <2>2 DEF FromVRX1, InSwap, ReadsVRX1, TXFollowsVRX1, Some, AllIdle, Alone
<1>4. CASE ReadRXfreq
  BY <1>4 DEF ReadRXfreq, Step, FromVRX1, InSwap, ReadsVRX1, TXFollowsVRX1, sdruno, Some,
     AllIdle, Alone
<1>5. CASE SetRXfreq
  BY <1>5 DEF SetRXfreq, Step, FromVRX1
<1>6. CASE SendTXfreq
  BY <1>6 DEF SendTXfreq, Step, FromVRX1, InSwap, ReadsVRX1, TXFollowsVRX1, sdruno, Some,
     AllIdle, Alone
<1>7. CASE ForceVrx1
  BY <1>7, ForceVrx1Does DEF FromVRX1, InSwap, ReadsVRX1, TXFollowsVRX1, Some, AllIdle, Alone
<1>8. CASE SetReceiver /\ fpc = "swap1"
  BY <1>8, SetReceiverDoes DEF FromVRX1, InSwap, ReadsVRX1, TXFollowsVRX1, Some, AllIdle, Alone
<1>9. CASE SetReceiver /\ fpc # "swap1"
  BY <1>9, SetReceiverDoes DEF FromVRX1, InSwap, ReadsVRX1, TXFollowsVRX1, Some, AllIdle, Alone
<1> QED
  BY <1>2, <1>3, <1>4, <1>5, <1>6, <1>7, <1>8, <1>9 DEF Form

(* With WSJT-X it takes CurrentTXfreq to VRX0.                             *)
LEMMA FT8Form ==
  ASSUME Numbers, SplitMode = "FT8", TrackFreq => wanted.rx = wanted.tx, InFT8, Form
  PROVE  InFT8'
<1>1. FormStill
  BY FormLeaves
<1> USE <1>1 DEF FormStill, InFT8
<1>2. CASE OnTimer
  BY <1>2 DEF OnTimer, FromDial, BackToDial, sdruno, Some, AllIdle
<1>4. CASE ReadRXfreq
  BY <1>4 DEF ReadRXfreq, Step, FromDial, BackToDial, sdruno, Some, AllIdle
<1>5. CASE SetRXfreq
  BY <1>5 DEF SetRXfreq, Step, FromDial, BackToDial, sdruno, Some, AllIdle
<1>6. CASE SendTXfreq
  BY <1>6 DEF SendTXfreq, Step, FromDial, BackToDial, sdruno, Some, AllIdle
<1>7. CASE ForceVrx1
  BY <1>7 DEF ForceVrx1, Step, FromDial, BackToDial, sdruno, Some, AllIdle
<1>8. CASE SetReceiver
  BY <1>8, SetReceiverDoes DEF FromDial, BackToDial, AllIdle
<1> QED
  BY <1>2, <1>4, <1>5, <1>6, <1>7, <1>8 DEF Form

(* TypeOK, in its parts.                                                   *)
Typed == Numbers /\ Threads /\ Places /\ Flags /\ Messages

(* The handlers have nothing to do while the knob is being used; else the  *)
(* lemmas on each mode apply.                                              *)
LEMMA HandlerTracks ==
  ASSUME Typed, OnItsWay, ~ dropped', NEW h \in Handlers, HandleEvent(h)
  PROVE  OnItsWay'
<1>1. Still
  BY HandlerLeaves
<1>2. ~ Turning
  BY DEF OnItsWay, Turned, Quiet, AllIdle, HandleEvent, Deliver, Enter, ReadVfo1, Decide, Revert,
         SendSerialMsg, Return, At
<1>3. ~ Turning' /\ SplitMode' = SplitMode
  BY <1>1, <1>2 DEF Turning, Still
<1>4. CASE SplitMode = "None"
  <2>1. InNone'
    BY <1>2, <1>4, NoneDeliver, NoneEnter, NoneReadVfo1, NoneDecide, NoneRevert,
       NoneSendSerialMsg, NoneReturn DEF OnItsWay, HandleEvent, Typed
  <2> QED
    BY <1>3, <1>4, <2>1 DEF OnItsWay
<1>5. CASE SplitMode = "TxRx"
  <2>1. InTxRx'
    BY <1>2, <1>5, TxRxDeliver, TxRxEnter, TxRxReadVfo1, TxRxDecide, TxRxRevert,
       TxRxSendSerialMsg, TxRxReturn DEF OnItsWay, HandleEvent, Typed
  <2> QED
    BY <1>3, <1>5, <2>1 DEF OnItsWay
<1>6. CASE SplitMode = "FT8"
  <2>1. InFT8'
    BY <1>2, <1>6, FT8Deliver, FT8Enter, FT8ReadVfo1, FT8Decide, FT8Revert,
       FT8SendSerialMsg, FT8Return DEF OnItsWay, HandleEvent, Typed
  <2> QED
    BY <1>3, <1>6, <2>1 DEF OnItsWay
<1> QED
  BY <1>4, <1>5, <1>6 DEF Typed, Places

(* Neither has the form's thread.                                          *)
LEMMA FormTracks ==
  ASSUME Typed, Modes, OnItsWay, Form
  PROVE  OnItsWay'
<1>1. FormStill
  BY FormLeaves
<1>2. ~ Turning
  BY DEF OnItsWay, Turned, Quiet, Form, OnTimer, ReadRXfreq, SetRXfreq, SendTXfreq, ForceVrx1,
         SetReceiver, Step
<1>3. ~ Turning' /\ SplitMode' = SplitMode
  BY <1>1, <1>2 DEF Turning, FormStill
<1>4. CASE SplitMode = "None"
  <2>1. InNone'
    BY <1>2, <1>4, NoneForm DEF OnItsWay, Modes, Typed
  <2> QED
    BY <1>3, <1>4, <2>1 DEF OnItsWay
<1>5. CASE SplitMode = "TxRx"
  <2>1. InTxRx'
    BY <1>2, <1>5, TxRxForm DEF OnItsWay, Typed
  <2> QED
    BY <1>3, <1>5, <2>1 DEF OnItsWay
<1>6. CASE SplitMode = "FT8"
  <2>1. InFT8'
    BY <1>6, FT8Form DEF OnItsWay, Modes, Typed
  <2> QED
    BY <1>3, <1>6, <2>1 DEF OnItsWay
<1> QED
  BY <1>4, <1>5, <1>6 DEF Typed, Places

(* TunerServer sets the receiver it has chosen.                            *)
LEMMA SetTunedDoes ==
  ASSUME Numbers, SetTuned
  PROVE  /\ vfo'[tune.vrx] = tune.freq /\ vfo'[1 - tune.vrx] = vfo[1 - tune.vrx]
         /\ events' \in {events, events + 1}
         /\ (vfo'[0] # vfo[0] \/ vfo'[1] # vfo[1] => events' = events + 1)
<1>1. tune.vrx \in {0, 1} /\ tune.freq \in Int /\ SetVfoFrequency(tune.vrx, tune.freq)
  BY DEF Numbers, SetTuned
<1>2. /\ vfo'[tune.vrx] = tune.freq /\ vfo'[1 - tune.vrx] = vfo[1 - tune.vrx]
      /\ events' \in {events, events + 1} /\ (tune.freq # vfo[tune.vrx] => events' = events + 1)
  BY <1>1, SetDoes
<1> QED
  BY <1>1, <1>2

(* TunerServer leaves all else alone.                                      *)
LEMMA TunerLeaves ==
  Tuner => UNCHANGED <<bBusy, lastF, thread, dropped, queue, SplitMode, TrackFreq, CurrentTXfreq,
                       fpc, tmp, bRITchkbox, LastTXfreq, RITchkbox, wanted, hurried>>
BY DEF Tuner, UseKnob, SetTuned, SendKeys, handler, mode, form, observe

(* TunerServer takes its receiver to where it is wanted, and the rest      *)
(* follows the receiver's event.                                           *)
LEMMA TunerTracks ==
  ASSUME Typed, Modes, Unread, OnItsWay, Tuner
  PROVE  OnItsWay'
<1>1. UNCHANGED <<bBusy, lastF, thread, dropped, queue, SplitMode, TrackFreq, CurrentTXfreq,
                  fpc, tmp, bRITchkbox, LastTXfreq, RITchkbox, wanted, hurried>>
  BY TunerLeaves
<1>2. CASE UseKnob
  <2>1. /\ tpc = "idle" /\ EncoderSteps # 0 /\ SplitMode # "FT8"
        /\ tpc' = "set" /\ EncoderSteps' = 0 /\ tune'.vrx = KnobVrx
        /\ tune'.freq = vfo[KnobVrx] + EncoderSteps /\ UNCHANGED <<vfo, events>>
    BY <1>2 DEF UseKnob, KnobVrx, sdruno
  <2>2. Turned
    BY <2>1 DEF OnItsWay, Turning
  <2>3. Turned'
    <3>1. KnobVrx' = KnobVrx /\ Aim' = Aim
      BY <1>1, <2>1 DEF KnobVrx, Aim
    <3> QED
      BY <1>1, <2>1, <2>2, <3>1 DEF Turned, Quiet, AllIdle
  <2> QED
    BY <1>1, <2>1, <2>3 DEF OnItsWay, Turning
<1>3. CASE SetTuned
  <2>1. Turned /\ tpc = "set" /\ SplitMode # "FT8"
    BY <1>3 DEF OnItsWay, Turning, SetTuned, Turned
  <2>2. tpc' = "idle" /\ EncoderSteps' = 0
    BY <1>3, <2>1 DEF SetTuned, Turned
  <2>3. vfo[0] = lastF[0] /\ vfo[1] = lastF[1]
    BY <2>1 DEF Unread, Turned, Quiet, AllIdle, Some
  <2>4. /\ tune.vrx = KnobVrx /\ Aim = tune.freq
        /\ KnobVrx = 0 => vfo'[0] = tune.freq /\ vfo'[1] = vfo[1]
        /\ KnobVrx = 1 => vfo'[1] = tune.freq /\ vfo'[0] = vfo[0]
    BY <1>3, <2>1, SetTunedDoes DEF Typed, Turned, Aim
  <2>5. CASE SplitMode = "None"
    <3>1. KnobVrx = 0
      BY <2>5 DEF KnobVrx
    <3>2. InNone'
      BY <1>1, <2>1, <2>3, <2>4, <2>5, <3>1 DEF InNone, FromVRX0, TXFollows, VRX1Follows, Turned,
         Quiet, AllIdle
    <3> QED
      BY <1>1, <2>2, <2>5, <3>2 DEF OnItsWay, Turning
  <2>6. CASE SplitMode = "TxRx"
    <3>1. KnobVrx \in {0, 1}
      BY DEF KnobVrx
    <3>2. InTxRx'
      BY <1>1, <2>1, <2>3, <2>4, <2>6, <3>1 DEF InTxRx, FromVRX1, InSwap, ReadsVRX1,
         TXFollowsVRX1, Turned, Quiet, AllIdle
    <3> QED
      BY <1>1, <2>2, <2>6, <3>2 DEF OnItsWay, Turning
  <2> QED
    BY <2>1, <2>5, <2>6 DEF Typed, Places
<1>4. CASE SendKeys
  <2>1. SplitMode = "FT8" /\ tpc = "idle" /\ tpc' = "idle" /\ UNCHANGED <<vfo, events>>
    BY <1>4 DEF SendKeys, sdruno
  <2>2. InFT8'
    BY <1>1, <2>1 DEF OnItsWay, InFT8, FromDial, BackToDial, AllIdle, Some
  <2> QED
    BY <1>1, <2>1, <2>2 DEF OnItsWay, Turning
<1> QED
  BY <1>2, <1>3, <1>4 DEF Tuner

(* All is at rest, and where it is wanted.                                 *)
Settled ==
  /\ Quiet /\ tpc = "idle" /\ (EncoderSteps = 0 \/ SplitMode = "FT8")
  /\ vfo[0] = lastF[0] /\ vfo[1] = lastF[1]
  /\ CurrentTXfreq = wanted.tx /\ vfo[0] = wanted.rx
  /\ SplitMode # "FT8" => vfo[1] = wanted.tx

(* What is on its way and at rest has arrived.                             *)
LEMMA RestIsSettled ==
  ASSUME Typed, Modes, Announced, Unread, OnItsWay, AtRest
  PROVE  Settled
<1>1. Quiet /\ tpc = "idle" /\ (EncoderSteps = 0 \/ SplitMode = "FT8")
  BY DEF AtRest, Quiet, AllIdle, Idle, Announced
<1>2. vfo[0] = lastF[0] /\ vfo[1] = lastF[1]
  BY <1>1 DEF Unread, Quiet, AllIdle, Some
<1>3. ~ Turning
  BY <1>1 DEF Turning
<1>4. /\ CurrentTXfreq = wanted.tx /\ vfo[0] = wanted.rx
      /\ SplitMode # "FT8" => vfo[1] = wanted.tx
  <2>1. CASE SplitMode = "None"
    BY <1>1, <1>2, <1>3, <2>1 DEF OnItsWay, Modes, InNone, FromVRX0, TXFollows, VRX1Follows,
       Quiet, AllIdle, Some
  <2>2. CASE SplitMode = "TxRx"
    BY <1>1, <1>2, <1>3, <2>2 DEF OnItsWay, InTxRx, FromVRX1, TXFollowsVRX1, Quiet, AllIdle, Some
  <2>3. CASE SplitMode = "FT8"
    BY <1>1, <1>2, <2>3 DEF OnItsWay, InFT8, FromDial, BackToDial, Quiet, AllIdle, Some
  <2> QED
    BY <2>1, <2>2, <2>3 DEF Typed, Places
<1> QED
  BY <1>1, <1>2, <1>4 DEF Settled

(* What has arrived is on its way.                                         *)
LEMMA SettledTracks == ASSUME Settled, Modes PROVE OnItsWay
<1>1. ~ Turning
  BY DEF Settled, Turning
<1>2. queue = <<>> /\ <<>> \in Seq({"RX"}) /\ <<>> \in Seq({"TX"})
  BY DEF Settled, Quiet
<1>3. SplitMode = "None" => InNone
  BY <1>2 DEF Settled, Modes, Quiet, AllIdle, InNone, FromVRX0, TXFollows, VRX1Follows
<1>4. SplitMode = "TxRx" => InTxRx
  BY <1>2 DEF Settled, Quiet, AllIdle, InTxRx, FromVRX1, InSwap, ReadsVRX1, TXFollowsVRX1
<1>5. SplitMode = "FT8" => InFT8
  BY <1>2 DEF Settled, Quiet, AllIdle, InFT8, FromDial, BackToDial
<1> QED
  BY <1>1, <1>3, <1>4, <1>5 DEF OnItsWay

(* At the start everything has arrived.                                    *)
LEMMA InitSettled == Init => Settled /\ Modes
<1> SUFFICES ASSUME Init PROVE Settled /\ Modes
  OBVIOUS
<1>1. PICK f, g \in Freqs :
        vfo = [v \in {0, 1} |-> IF v = 0 \/ SplitMode = "None" THEN f
                               ELSE IF SplitMode = "TxRx" THEN g ELSE f + TXDF]
  BY DEF Init
<1>2. /\ SplitMode \in {"None", "TxRx", "FT8"} /\ events = 0 /\ lastF = vfo
      /\ thread = [h \in Handlers |-> Idle] /\ queue = <<>> /\ LastTXfreq = CurrentTXfreq
      /\ fpc = "idle" /\ RITchkbox = FALSE /\ bRITchkbox = FALSE /\ EncoderSteps = 0 /\ tpc = "idle"
      /\ wanted = [rx |-> vfo[0], tx |-> CurrentTXfreq]
      /\ CurrentTXfreq = IF SplitMode = "TxRx" THEN vfo[1] ELSE vfo[0]
      /\ TrackFreq \in IF SplitMode = "None" \/ Restored THEN {TRUE}
                       ELSE IF SplitMode = "TxRx" THEN {FALSE} ELSE BOOLEAN
  BY DEF Init
<1>3. SplitMode = "None" => vfo[0] = vfo[1]
  BY <1>1
<1>4. AllIdle
  BY <1>2 DEF AllIdle, Idle
<1>5. Settled
  BY <1>2, <1>3, <1>4 DEF Settled, Quiet
<1>6. Modes
  BY <1>2, TrackingAssumption DEF Modes
<1> QED
  BY <1>5, <1>6

(* Every step keeps the modes together with TrackFreq and the operator's   *)
(* wish.                                                                   *)
LEMMA ModesStep == Numbers /\ Places /\ Flags /\ Modes /\ [Next]_vars => Modes'
<1> SUFFICES ASSUME Numbers, Places, Flags, Modes, [Next]_vars PROVE Modes'
  OBVIOUS
<1>0. ASSUME UNCHANGED <<SplitMode, TrackFreq, wanted>> PROVE Modes'
  BY <1>0 DEF Modes
<1>1. ASSUME NEW h \in Handlers, HandleEvent(h) PROVE Modes'
  BY <1>0, <1>1, HandlerLeaves DEF Still
<1>2. CASE Form
  BY <1>0, <1>2, FormLeaves DEF FormStill
<1>3. CASE Tuner
  BY <1>0, <1>3, TunerLeaves
<1>4. CASE TuneVRX0
  BY <1>4 DEF TuneVRX0, Modes, mode, Places, Numbers
<1>5. CASE TuneVRX1
  BY <1>5 DEF TuneVRX1, Modes, mode, Places, Numbers
<1>6. CASE TurnKnob
  BY <1>6 DEF TurnKnob, Modes, mode, Places, Numbers
<1>7. CASE FixFreqBtnClicked
  BY <1>7 DEF FixFreqBtnClicked, Modes, Numbers
<1>8. CASE FixTXup
  BY <1>8 DEF FixTXup, Modes, Places, Flags
<1>9. CASE ResetRXFreq
  BY <1>9 DEF ResetRXFreq, Modes, mode, Numbers
<1>10. CASE SwapTxRxFreq
  BY <1>10 DEF SwapTxRxFreq, Modes, mode
<1>11. CASE SetupDataMode
  BY <1>11 DEF SetupDataMode, Modes
<1>12. CASE HearStart \/ ClickRIT
  BY <1>0, <1>12 DEF HearStart, ClickRIT, mode
<1>13. CASE UNCHANGED vars
  BY <1>0, <1>13 DEF vars, mode, observe
<1> QED
  BY <1>1, <1>2, <1>3, <1>4, <1>5, <1>6, <1>7, <1>8, <1>9, <1>10, <1>11, <1>12, <1>13
     DEF Next, Outside, Done

(* What happens outside makes an event of each change of a receiver, and   *)
(* so ...                                                                  *)
LEMMA OutsideMoves ==
  ASSUME Numbers, Outside
  PROVE  /\ UNCHANGED <<thread, lastF, dropped>>
         /\ events' \in {events, events + 1}
         /\ (vfo'[0] # vfo[0] \/ vfo'[1] # vfo[1] => events' = events + 1)
<1>1. CASE TuneVRX0 \/ TuneVRX1
  BY <1>1 DEF TuneVRX0, TuneVRX1, handler
<1>2. CASE SwapTxRxFreq
  <2>1. SetVfoFrequency(0, vfo[1]) /\ vfo[1] \in Int /\ UNCHANGED <<thread, lastF, dropped>>
    BY <1>2 DEF SwapTxRxFreq, Numbers, handler
  <2> QED
    BY <2>1, SetDoes
<1>3. CASE \/ TurnKnob \/ FixFreqBtnClicked \/ FixTXup \/ ResetRXFreq \/ ClickRIT
           \/ SetupDataMode \/ HearStart
  BY <1>3 DEF TurnKnob, FixFreqBtnClicked, FixTXup, ResetRXFreq, ClickRIT, SetupDataMode,
     HearStart, sdruno, handler
<1> QED
  BY <1>1, <1>2, <1>3 DEF Outside

(* ... no change escapes the handlers ...                                  *)
LEMMA Reported ==
  ASSUME Numbers, Unread, UNCHANGED <<thread, lastF>>, events' \in {events, events + 1},
         vfo'[0] # vfo[0] \/ vfo'[1] # vfo[1] => events' = events + 1
  PROVE  Unread'
BY DEF Numbers, Unread, Some

(* ... nor does one that the form makes ...                                *)
LEMMA FormMoves ==
  ASSUME Numbers, Form
  PROVE  /\ UNCHANGED <<thread, lastF, dropped>>
         /\ events' \in {events, events + 1}
         /\ (vfo'[0] # vfo[0] \/ vfo'[1] # vfo[1] => events' = events + 1)
<1>1. UNCHANGED <<thread, lastF, dropped>>
  BY FormLeaves DEF FormStill
<1>2. CASE OnTimer \/ ReadRXfreq \/ SetRXfreq \/ SendTXfreq
  BY <1>1, <1>2 DEF OnTimer, ReadRXfreq, SetRXfreq, SendTXfreq, sdruno
<1>3. CASE ForceVrx1
  BY <1>1, <1>3, ForceVrx1Does
<1>4. CASE SetReceiver
  BY <1>1, <1>4, SetReceiverDoes
<1> QED
  BY <1>2, <1>3, <1>4 DEF Form

(* ... and a handler that looks afterwards sees it, unless its event is    *)
(* dropped.                                                                *)
LEMMA UnreadStep ==
  ASSUME Numbers, Threads, Flags, Unread, [Next]_vars, ~ dropped'
  PROVE  Unread'
<1>1. ASSUME NEW h \in Handlers, HandleEvent(h) PROVE Unread'
  <2>1. CASE Deliver(h)
    <3>1. thread'[h].pc = "enter" /\ UNCHANGED <<vfo, lastF>>
      BY <2>1, DeliverDoes
    <3>2. Some("enter")'
      BY <3>1 DEF Some
    <3> QED
      BY <3>2 DEF Unread
  <2>2. CASE Enter(h)
    <3>1. /\ thread'[h].pc = "freq1" /\ lastF'[0] = vfo[0] /\ UNCHANGED <<vfo, events>>
      BY <2>2, EnterDoes
    <3>2. Some("freq1")'
      BY <3>1 DEF Some
    <3> QED
      BY <3>1, <3>2 DEF Unread
  <2>3. CASE ReadVfo1(h)
    <3>1. /\ thread[h].pc = "freq1" /\ Others(h) /\ lastF'[0] = lastF[0] /\ lastF'[1] = vfo[1]
          /\ UNCHANGED <<vfo, events>>
      BY <2>3, ReadVfo1Does
    <3> QED
      BY <3>1 DEF Unread, Some, Others
  <2>4. CASE Revert(h)
    <3>1. /\ thread[h].pc \notin {"enter", "freq1"} /\ Others(h) /\ events' \in {events, events + 1}
          /\ lastF' = lastF /\ (vfo'[0] # vfo[0] \/ vfo'[1] # vfo[1] => events' = events + 1)
      BY <2>4, RevertDoes
    <3> QED
      BY <3>1 DEF Unread, Some, Others, Numbers
  <2>5. CASE Decide(h) \/ SendSerialMsg(h) \/ Return(h)
    <3>1. /\ thread[h].pc \notin {"enter", "freq1"} /\ Others(h)
          /\ UNCHANGED <<vfo, events, lastF>>
      BY <2>5, DecideDoes, SendSerialMsgDoes, ReturnDoes
    <3> QED
      BY <3>1 DEF Unread, Some, Others
  <2> QED
    BY <1>1, <2>1, <2>2, <2>3, <2>4, <2>5 DEF HandleEvent
<1>2. CASE Form
  BY <1>2, FormMoves, Reported
<1>3. CASE Tuner
  <2>1. UNCHANGED <<thread, lastF>>
    BY <1>3, TunerLeaves
  <2>2. CASE SetTuned
    BY <2>1, <2>2, SetTunedDoes, Reported
  <2>3. CASE ~ SetTuned
    BY <1>3, <2>1, <2>3, Reported DEF Tuner, UseKnob, SendKeys, sdruno
  <2> QED
    BY <2>2, <2>3
<1>4. CASE Outside
  BY <1>4, OutsideMoves, Reported
<1>5. CASE UNCHANGED vars
  BY <1>5 DEF vars, sdruno, handler, Unread, Some
<1> QED
  BY <1>1, <1>2, <1>3, <1>4, <1>5 DEF Next, Done

(* The operator waits for everything to settle.                            *)
LEMMA CalmRest ==
  ASSUME NEW op, Happens(op), ~ hurried'
  PROVE  AtRest /\ ~ hurried /\ ~ Leftovers(op) /\ op \in Ops
BY DEF Happens

(* Whatever happens when all has arrived sends its frequencies on their    *)
(* way.  {~TX} takes the transmitter to VRX0 if TrackFreq is set, with a   *)
(* split only if that is from the ini file.                                *)
LEMMA OutsideTracks ==
  ASSUME Restored => "Restart" \notin Ops,
         Typed, Modes, Modes', Announced, Unread, OnItsWay, Outside, ~ hurried'
  PROVE  OnItsWay'
<1>0. PICK op : Happens(op)
  BY DEF Outside, TuneVRX0, TuneVRX1, TurnKnob, FixFreqBtnClicked, FixTXup, ResetRXFreq,
         SwapTxRxFreq, ClickRIT, SetupDataMode, HearStart, OnForm
<1>1. Settled
  BY <1>0, CalmRest, RestIsSettled
<1>2. /\ events = 0 /\ AllIdle /\ queue = <<>> /\ fpc = "idle" /\ bRITchkbox = RITchkbox
      /\ LastTXfreq = CurrentTXfreq /\ tpc = "idle" /\ (EncoderSteps = 0 \/ SplitMode = "FT8")
      /\ vfo[0] = lastF[0] /\ vfo[1] = lastF[1]
      /\ CurrentTXfreq = wanted.tx /\ vfo[0] = wanted.rx
      /\ SplitMode # "FT8" => vfo[1] = wanted.tx
  BY <1>1 DEF Settled, Quiet
<1>3. <<>> \in Seq({"RX"}) /\ <<>> \in Seq({"TX"})
  OBVIOUS
<1>4. /\ vfo \in [{0, 1} -> Int] /\ CurrentTXfreq \in Int /\ EncoderSteps \in Int
      /\ wanted \in [rx : Int, tx : Int] /\ SplitMode \in {"None", "TxRx", "FT8"}
      /\ SplitMode = "None" => TrackFreq /\ wanted.rx = wanted.tx
  BY DEF Typed, Numbers, Places, Modes
<1>5. CASE TuneVRX0
  <2>1. PICK f \in Freqs \ {vfo[0]} :
          /\ vfo' = [vfo EXCEPT ![0] = f]
          /\ wanted' = CASE SplitMode = "None" -> [rx |-> f, tx |-> f]
                         [] SplitMode = "TxRx" -> [wanted EXCEPT !.rx = f]
                         [] SplitMode = "FT8"  -> [wanted EXCEPT !.rx = wanted.tx]
    BY <1>5 DEF TuneVRX0
  <2>2. vfo'[0] = f /\ f # vfo[0] /\ vfo'[1] = vfo[1]
    BY <1>4, <2>1
  <2>3. UNCHANGED <<thread, lastF, queue, SplitMode, CurrentTXfreq, fpc, tmp, LastTXfreq,
                    EncoderSteps, tpc>>
    BY <1>5 DEF TuneVRX0, handler, mode, form, tuner
  <2>4. ~ Turning'
    BY <1>2, <2>3 DEF Turning
  <2>5. CASE SplitMode = "None"
    <3>1. wanted'.rx = f /\ wanted'.tx = f
      BY <2>1, <2>5
    <3>2. InNone'
      BY <1>2, <1>3, <1>4, <2>2, <2>3, <2>5, <3>1 DEF InNone, FromVRX0, TXFollows, VRX1Follows,
         AllIdle
    <3> QED
      BY <2>3, <2>4, <2>5, <3>2 DEF OnItsWay
  <2>6. CASE SplitMode = "TxRx"
    <3>1. wanted'.rx = f /\ wanted'.tx = wanted.tx
      BY <1>4, <2>1, <2>6
    <3>2. InTxRx'
      BY <1>2, <1>3, <2>2, <2>3, <2>6, <3>1 DEF InTxRx, FromVRX1, InSwap, ReadsVRX1,
         TXFollowsVRX1, AllIdle
    <3> QED
      BY <2>3, <2>4, <2>6, <3>2 DEF OnItsWay
  <2>7. CASE SplitMode = "FT8"
    <3>1. wanted'.rx = wanted.tx /\ wanted'.tx = wanted.tx
      BY <1>4, <2>1, <2>7
    <3>2. InFT8'
      BY <1>2, <2>2, <2>3, <2>7, <3>1 DEF InFT8, FromDial, BackToDial, AllIdle
    <3> QED
      BY <2>3, <2>4, <2>7, <3>2 DEF OnItsWay
  <2> QED
    BY <1>4, <2>5, <2>6, <2>7
<1>6. CASE TuneVRX1
  <2>1. PICK f \in Freqs \ {vfo[1]} :
          /\ vfo' = [vfo EXCEPT ![1] = f]
          /\ wanted' = CASE SplitMode = "None" -> wanted
                         [] SplitMode = "TxRx" -> [wanted EXCEPT !.tx = f]
                         [] SplitMode = "FT8"  -> [wanted EXCEPT !.rx = wanted.tx]
    BY <1>6 DEF TuneVRX1
  <2>2. vfo'[1] = f /\ f # vfo[1] /\ vfo'[0] = vfo[0]
    BY <1>4, <2>1
  <2>3. UNCHANGED <<thread, lastF, queue, SplitMode, CurrentTXfreq, fpc, tmp, LastTXfreq,
                    EncoderSteps, tpc>>
    BY <1>6 DEF TuneVRX1, handler, mode, form, tuner
  <2>4. ~ Turning'
    BY <1>2, <2>3 DEF Turning
  <2>5. CASE SplitMode = "None"
    <3>1. wanted' = wanted
      BY <2>1, <2>5
    <3>2. InNone'
      BY <1>2, <1>3, <1>4, <2>2, <2>3, <2>5, <3>1 DEF InNone, FromVRX0, TXFollows, VRX1Follows,
         AllIdle
    <3> QED
      BY <2>3, <2>4, <2>5, <3>2 DEF OnItsWay
  <2>6. CASE SplitMode = "TxRx"
    <3>1. wanted'.tx = f /\ wanted'.rx = wanted.rx
      BY <1>4, <2>1, <2>6
    <3>2. InTxRx'
      BY <1>2, <1>3, <2>2, <2>3, <2>6, <3>1 DEF InTxRx, FromVRX1, InSwap, ReadsVRX1,
         TXFollowsVRX1, AllIdle
    <3> QED
      BY <2>3, <2>4, <2>6, <3>2 DEF OnItsWay
  <2>7. CASE SplitMode = "FT8"
    <3>1. wanted'.rx = wanted.tx /\ wanted'.tx = wanted.tx
      BY <1>4, <2>1, <2>7
    <3>2. InFT8'
      BY <1>2, <2>2, <2>3, <2>7, <3>1 DEF InFT8, FromDial, BackToDial, AllIdle
    <3> QED
      BY <2>3, <2>4, <2>7, <3>2 DEF OnItsWay
  <2> QED
    BY <1>4, <2>5, <2>6, <2>7
<1>7. CASE TurnKnob
  <2>1. PICK d \in {-1, 1} :
       /\ EncoderSteps' = EncoderSteps + d
       /\ wanted' = CASE SplitMode = "None" -> [rx |-> wanted.rx + d, tx |-> wanted.rx + d]
                      [] SplitMode = "TxRx" -> IF RITchkbox THEN [wanted EXCEPT !.rx = @ + d]
                                                            ELSE [wanted EXCEPT !.tx = @ + d]
                      [] SplitMode = "FT8"  -> wanted
    BY <1>7 DEF TurnKnob
  <2>2. UNCHANGED <<vfo, events, thread, lastF, queue, SplitMode, CurrentTXfreq, fpc, tmp,
                    LastTXfreq, RITchkbox, bRITchkbox, tpc>>
    BY <1>7 DEF TurnKnob, sdruno, handler, mode, form
  <2>3. CASE SplitMode = "FT8"
    <3>1. wanted' = wanted
      BY <2>1, <2>3
    <3>2. InFT8'
      BY <1>2, <2>2, <2>3, <3>1 DEF InFT8, FromDial, BackToDial, AllIdle
    <3> QED
      BY <1>2, <2>2, <2>3, <3>2 DEF OnItsWay, Turning
  <2>4. CASE SplitMode # "FT8"
    <3>1. EncoderSteps' = d /\ EncoderSteps' # 0 /\ Turning'
      BY <1>2, <2>1, <2>2, <2>4 DEF Turning
    <3>2. KnobVrx' = KnobVrx /\ Aim' = vfo[KnobVrx] + d
      BY <1>2, <2>2, <3>1 DEF KnobVrx, Aim
    <3>3. CASE SplitMode = "None"
      <4>1. KnobVrx = 0 /\ wanted'.rx = wanted.rx + d /\ wanted'.tx = wanted.rx + d
        BY <2>1, <3>3 DEF KnobVrx
      <4> QED
        BY <1>2, <1>4, <2>2, <3>1, <3>2, <3>3, <4>1 DEF OnItsWay, Turned, Quiet, AllIdle
    <3>4. CASE SplitMode = "TxRx" /\ RITchkbox
      <4>1. KnobVrx = 0 /\ wanted'.rx = wanted.rx + d /\ wanted'.tx = wanted.tx
        BY <1>2, <1>4, <2>1, <3>4 DEF KnobVrx
      <4> QED
        BY <1>2, <2>2, <3>1, <3>2, <3>4, <4>1 DEF OnItsWay, Turned, Quiet, AllIdle
    <3>5. CASE SplitMode = "TxRx" /\ ~ RITchkbox
      <4>1. KnobVrx = 1 /\ wanted'.rx = wanted.rx /\ wanted'.tx = wanted.tx + d
        BY <1>2, <1>4, <2>1, <3>5 DEF KnobVrx
      <4> QED
        BY <1>2, <2>2, <3>1, <3>2, <3>5, <4>1 DEF OnItsWay, Turned, Quiet, AllIdle
    <3> QED
      BY <1>4, <2>4, <3>3, <3>4, <3>5
  <2> QED
    BY <2>3, <2>4
<1>8. CASE FixFreqBtnClicked
  <2>1. UNCHANGED <<vfo, events, thread, lastF, queue, CurrentTXfreq, tmp, LastTXfreq,
                    EncoderSteps, tpc>>
    BY <1>8 DEF FixFreqBtnClicked, sdruno, handler, tuner
  <2>2. ~ Leftovers("Split")
    BY <1>8, CalmRest DEF FixFreqBtnClicked, OnForm
  <2>3. EncoderSteps = 0 /\ (SplitMode = "FT8" => vfo[1] = CurrentTXfreq)
    BY <1>2, <2>2 DEF Leftovers
  <2>4. ~ Turning'
    BY <1>2, <2>1, <2>3 DEF Turning
  <2>5. CASE SplitMode = "None"
    <3>1. fpc' = "idle" /\ SplitMode' = "TxRx" /\ wanted' = wanted
      BY <1>8, <2>5 DEF FixFreqBtnClicked, OnForm, Step
    <3>2. InTxRx'
      BY <1>2, <1>3, <2>1, <2>5, <3>1 DEF InTxRx, FromVRX1, InSwap, ReadsVRX1,
         TXFollowsVRX1, AllIdle
    <3> QED
      BY <2>4, <3>1, <3>2 DEF OnItsWay
  <2>6. CASE SplitMode # "None"
    <3>1. fpc' = "rx" /\ SplitMode' = "None" /\ wanted'.rx = wanted.rx /\ wanted'.tx = wanted.rx
      BY <1>4, <1>8, <2>6 DEF FixFreqBtnClicked, OnForm, Step
    <3>2. InNone'
      BY <1>2, <1>3, <1>4, <2>1, <2>3, <2>6, <3>1 DEF InNone, FromVRX0, TXFollows, VRX1Follows,
         AllIdle
    <3> QED
      BY <2>4, <3>1, <3>2 DEF OnItsWay
  <2> QED
    BY <2>5, <2>6
<1>9. CASE FixTXup
  <2>1. UNCHANGED <<vfo, events, thread, lastF, queue, tmp, LastTXfreq, EncoderSteps, tpc>>
    BY <1>9 DEF FixTXup, sdruno, handler, tuner
  <2>2. ~ Leftovers("TXup")
    BY <1>9, CalmRest DEF FixTXup, OnForm
  <2>3. EncoderSteps = 0
    BY <1>2, <2>2 DEF Leftovers
  <2>4. /\ CurrentTXfreq' = CurrentTXfreq + TXupHz /\ TXupHz \in Nat \ {0} /\ fpc' = "tx"
        /\ wanted'.rx = wanted.rx /\ wanted'.tx = wanted.tx + TXupHz
        /\ SplitMode' = IF TrackFreq THEN "TxRx" ELSE SplitMode
    BY <1>4, <1>9, TrackingAssumption DEF FixTXup, OnForm, Step
  <2>5. ~ Turning' /\ SplitMode' # "None"
    BY <1>2, <1>4, <2>1, <2>3, <2>4 DEF Turning
  <2>6. CASE SplitMode' = "TxRx"
    <3>1. CurrentTXfreq' # LastTXfreq'
      BY <1>2, <1>4, <2>1, <2>4
    <3>2. InTxRx'
      BY <1>2, <1>3, <2>1, <2>4, <2>6, <3>1 DEF InTxRx, FromVRX1, InSwap, ReadsVRX1,
         TXFollowsVRX1, AllIdle
    <3> QED
      BY <2>5, <2>6, <3>2 DEF OnItsWay
  <2>7. CASE SplitMode' = "FT8"
    <3>1. InFT8'
      BY <1>2, <2>1, <2>4, <2>7 DEF InFT8, FromDial, BackToDial, AllIdle
    <3> QED
      BY <2>5, <2>7, <3>1 DEF OnItsWay
  <2> QED
    BY <1>4, <2>4, <2>5, <2>6, <2>7
<1>10. CASE ResetRXFreq \/ HearStart
  <2>1. UNCHANGED <<vfo, events, thread, lastF, queue, SplitMode, TrackFreq, CurrentTXfreq, tmp,
                    LastTXfreq, EncoderSteps, tpc>>
    BY <1>10 DEF ResetRXFreq, HearStart, sdruno, handler, mode, tuner
  <2>2. /\ wanted'.tx = wanted.tx
        /\ \/ fpc' = "rx0" /\ wanted'.rx = wanted.tx
           \/ fpc' = "rx" /\ wanted'.rx = wanted.rx /\ "Restart" \in Ops
    BY <1>4, <1>10, CalmRest DEF ResetRXFreq, HearStart, OnForm, Step
  <2>3. ~ Turning'
    BY <1>2, <2>1 DEF Turning
  <2>4. CASE SplitMode = "None"
    <3>1. InNone'
      BY <1>2, <1>3, <1>4, <2>1, <2>2, <2>4 DEF InNone, FromVRX0, TXFollows, VRX1Follows, AllIdle
    <3> QED
      BY <2>1, <2>3, <2>4, <3>1 DEF OnItsWay
  <2>5. CASE SplitMode = "TxRx"
    <3>1. fpc' = "rx" => ~ TrackFreq
      BY <2>2, <2>5 DEF Modes
    <3>2. InTxRx'
      BY <1>2, <1>3, <2>1, <2>2, <2>5, <3>1 DEF InTxRx, FromVRX1, InSwap, ReadsVRX1,
         TXFollowsVRX1, AllIdle
    <3> QED
      BY <2>1, <2>3, <2>5, <3>2 DEF OnItsWay
  <2>6. CASE SplitMode = "FT8"
    <3>1. InFT8'
      BY <1>2, <2>1, <2>2, <2>6 DEF InFT8, FromDial, BackToDial, AllIdle
    <3> QED
      BY <2>1, <2>3, <2>6, <3>1 DEF OnItsWay
  <2> QED
    BY <1>4, <2>4, <2>5, <2>6
<1>11. CASE SwapTxRxFreq
  <2>1. UNCHANGED <<thread, lastF, queue, SplitMode, CurrentTXfreq, LastTXfreq, EncoderSteps, tpc>>
    BY <1>11 DEF SwapTxRxFreq, handler, mode, tuner
  <2>2. /\ SplitMode = "TxRx" /\ fpc' = "swap1" /\ tmp' = vfo[0]
        /\ wanted'.rx = wanted.tx /\ wanted'.tx = wanted.rx
    BY <1>11 DEF SwapTxRxFreq, OnForm, Step
  <2>3. vfo'[0] = vfo[1] /\ vfo'[1] = vfo[1] /\ events' \in {0, 1}
    BY <1>2, <1>4, <1>11, SetDoes DEF SwapTxRxFreq, Typed
  <2>4. ~ Turning'
    BY <1>2, <2>1, <2>2 DEF Turning
  <2>5. InTxRx'
    BY <1>2, <1>3, <2>1, <2>2, <2>3 DEF InTxRx, FromVRX1, InSwap, ReadsVRX1, TXFollowsVRX1,
       AllIdle
  <2> QED
    BY <2>1, <2>2, <2>4, <2>5 DEF OnItsWay
<1>12. CASE SetupDataMode
  <2>1. UNCHANGED <<vfo, events, thread, lastF, queue, tmp, LastTXfreq, EncoderSteps, tpc>>
    BY <1>12 DEF SetupDataMode, sdruno, handler, tuner
  <2>2. PICK f \in Freqs :
          /\ CurrentTXfreq' = f /\ wanted' = [rx |-> f, tx |-> f]
          /\ fpc' \in {"end0", "data0"} /\ SplitMode' = "FT8"
    BY <1>12 DEF SetupDataMode, OnForm, Step
  <2>3. InFT8'
    BY <1>2, <2>1, <2>2 DEF InFT8, FromDial, BackToDial, AllIdle
  <2> QED
    BY <1>2, <2>1, <2>2, <2>3 DEF OnItsWay, Turning
<1>13. CASE ClickRIT
  <2>1. UNCHANGED <<vfo, events, thread, lastF, queue, SplitMode, TrackFreq, CurrentTXfreq, fpc,
                    tmp, LastTXfreq, EncoderSteps, tpc, wanted>>
    BY <1>13 DEF ClickRIT, sdruno, handler, mode, form, tuner
  <2>2. ~ Turning'
    BY <1>2, <2>1 DEF Turning
  <2>3. SplitMode = "None" => InNone'
    BY <1>2, <1>3, <1>4, <2>1 DEF InNone, FromVRX0, TXFollows, VRX1Follows, AllIdle
  <2>4. SplitMode = "TxRx" => InTxRx'
    BY <1>2, <1>3, <2>1 DEF InTxRx, FromVRX1, InSwap, ReadsVRX1, TXFollowsVRX1, AllIdle
  <2>5. SplitMode = "FT8" => InFT8'
    BY <1>2, <2>1 DEF InFT8, FromDial, BackToDial, AllIdle
  <2> QED
    BY <2>1, <2>2, <2>3, <2>4, <2>5 DEF OnItsWay
<1> QED
  BY <1>5, <1>6, <1>7, <1>8, <1>9, <1>10, <1>11, <1>12, <1>13 DEF Outside

(* Every step keeps the frequencies on their way.                          *)
LEMMA TrackedStep ==
  ASSUME Restored => "Restart" \notin Ops,
         Typed, Modes, Modes', Announced, ~ dropped => Unread, Tracked, [Next]_vars
  PROVE  Tracked'
<1> SUFFICES ASSUME ~ hurried', ~ dropped' PROVE OnItsWay'
  BY DEF Tracked, Calm
<1>1. ASSUME NEW h \in Handlers, HandleEvent(h) PROVE OnItsWay'
  <2>1. ~ hurried
    BY <1>1, HandlerLeaves DEF Still
  <2>2. ~ dropped
    BY <1>1 DEF HandleEvent, Deliver, Enter, ReadVfo1, Decide, Revert, SendSerialMsg, Return
  <2> QED
    BY <1>1, <2>1, <2>2, HandlerTracks DEF Tracked, Calm
<1>2. CASE Form
  BY <1>2, FormLeaves, FormTracks DEF FormStill, Tracked, Calm
<1>3. CASE Tuner
  BY <1>3, TunerLeaves, TunerTracks DEF Tracked, Calm
<1>4. CASE Outside
  <2>1. ~ dropped
    BY <1>4, OutsideMoves DEF Typed
  <2>2. ~ hurried
    BY <1>4, CalmRest DEF Outside, TuneVRX0, TuneVRX1, TurnKnob, FixFreqBtnClicked, FixTXup,
       ResetRXFreq, SwapTxRxFreq, ClickRIT, SetupDataMode, HearStart, OnForm
  <2> QED
    BY <1>4, <2>1, <2>2, OutsideTracks DEF Tracked, Calm
<1>5. CASE UNCHANGED vars
  <2>1. OnItsWay
    BY <1>5 DEF vars, handler, observe, Tracked, Calm
  <2> QED
    BY <1>5, <2>1 DEF vars, sdruno, handler, mode, form, tuner, observe, OnItsWay, Turning,
       Turned, Quiet, AllIdle, KnobVrx, Aim, InNone, FromVRX0, TXFollows, VRX1Follows, InTxRx, FromVRX1,
       InSwap, Alone, ReadsVRX1, TXFollowsVRX1, InFT8, FromDial, BackToDial, Some
<1> QED
  BY <1>1, <1>2, <1>3, <1>4, <1>5 DEF Next, Done

(* The frequencies are on their way, with what that rests on: the          *)
(* inductive invariant.                                                    *)
Travels == Typed /\ Announced /\ Modes /\ (~ dropped => Unread) /\ Tracked

(* It holds of every state.                                                *)
LEMMA TravelsHolds ==
  ASSUME Restored => "Restart" \notin Ops
  PROVE  Spec => []Travels
<1> USE DEF Travels
<1>1. Init => Travels
  <2> SUFFICES ASSUME Init PROVE Travels
    OBVIOUS
  <2>1. Typed /\ Announced
    BY TypesInit, AnnouncedInit DEF Typed
  <2>2. Settled /\ Modes
    BY InitSettled
  <2>3. Unread
    BY <2>2 DEF Settled, Unread
  <2> QED
    BY <2>1, <2>2, <2>3, SettledTracks DEF Tracked
<1>2. Travels /\ [Next]_vars => Travels'
  <2> SUFFICES ASSUME Travels, [Next]_vars PROVE Travels'
    OBVIOUS
  <2>1. Typed'
    BY NumbersStep, ThreadsStep, PlacesStep, FlagsStep, MessagesStep DEF Typed
  <2>2. Announced'
    BY AnnouncedStep DEF Typed
  <2>3. Modes'
    BY ModesStep DEF Typed
  <2>4. ~ dropped' => Unread'
    <3>1. ~ dropped' => ~ dropped
      BY HandlerLeaves, FormLeaves, TunerLeaves, OutsideMoves DEF Next, Done, Typed, FormStill,
         vars, handler, HandleEvent, Deliver, Enter, ReadVfo1, Decide, Revert, SendSerialMsg,
         Return
    <3> QED
      BY <3>1, UnreadStep DEF Typed
  <2>5. Tracked'
    BY <2>3, TrackedStep
  <2> QED
    BY <2>1, <2>2, <2>3, <2>4, <2>5
<1> QED
  BY <1>1, <1>2, PTL DEF Spec

(* What the operator and WSJT-X want is what receivers and transmitter     *)
(* come to rest with, in whichever order SDRuno's threads (HandleEvent,    *)
(* SDRunoPlugin_TXLinkUi.cpp:132), the form's and TunerServer's take their *)
(* steps, if each change waits for the last and no event is dropped.  With *)
(* a split from the ini file (SDRunoPlugin_TXLinkForm.cpp:354) TrackFreq   *)
(* is still TRUE, and {~TX} (:794) takes the transmitter to VRX0: so a     *)
(* restart is excepted there.                                              *)
THEOREM AsWantedHolds ==
  ASSUME Restored => "Restart" \notin Ops
  PROVE  Spec => []AsWanted
<1>1. Travels => AsWanted
  BY RestIsSettled DEF Travels, Settled, Tracked, Calm, AsWanted
<1> QED
  BY <1>1, TravelsHolds, PTL

(* To count conditions.                                                    *)
One(b) == IF b THEN 1 ELSE 0

(* What a thread of SDRuno has left to do, in units that a step takes at   *)
(* least one of; a message it sends and an event it causes are to be paid  *)
(* for.                                                                    *)
Left(t) ==
  CASE t.pc = "idle"    -> 0
    [] t.pc = "leave"   -> 1
    [] t.pc = "enter"   -> 5
    [] t.pc = "freq1"   -> 4 + 11 * One(t.bF0changed)
    [] t.pc = "decide"  -> 3 + 11 * One(t.bF0changed) + 11 * One(t.bF1changed)
    [] t.pc \in {"revert0", "revert1"} -> 8
    [] t.pc \in {"setTX", "queueRX"}   -> 13

(* That of all threads, as a set: its cardinality is their sum.            *)
Work(s) == {w \in Handlers \X (1 .. 25) : w[2] <= Left(s[w[1]])}

(* What the form's thread has left to do ...                               *)
FormLeft ==
  CASE fpc = "idle"   -> 0
    [] fpc \in {"vrx1", "swap1"} -> 7
    [] fpc = "tx"     -> 8
    [] fpc = "rxSet"  -> 9
    [] fpc = "rx"     -> 10
    [] fpc \in {"rx1", "end1"} -> 18
    [] fpc \in {"rx0", "end0"} -> 25
    [] fpc = "dataTx" -> 26
    [] fpc = "data1"  -> 44
    [] fpc = "data0"  -> 51

(* ... with the box and the knob.                                          *)
Elsewhere ==
  FormLeft + One(bRITchkbox # RITchkbox) + 8 * One(EncoderSteps # 0) + 7 * One(tpc = "set")

(* What of a receiver has to be looked at and is not where it is wanted.   *)
Off0 == One(vfo[0] # lastF[0]) + One(vfo[0] # wanted.rx)
Off1 == One(vfo[1] # lastF[1]) + One(SplitMode # "FT8" /\ vfo[1] # wanted.tx)

(* What is to be heard of and looked at.                                   *)
Ahead  == 6 * events + 11 * Len(queue) + 11 * Off0 + 11 * Off1
Effort == Elsewhere + (Cardinality(Work(thread)) + Ahead)

(* What a thread has left to do is at most 25.                             *)
LEMMA LeftType ==
  ASSUME Threads, NEW h \in Handlers
  PROVE  Left(thread[h]) \in 0 .. 25
BY DEF Threads, Left, One

(* There are n numbers from 1 to n.                                        *)
LEMMA FirstNumbers ==
  ASSUME NEW n \in Nat
  PROVE  IsFiniteSet(1 .. n) /\ Cardinality(1 .. n) = n
<1>1. 1 \in Int /\ n \in Int
  OBVIOUS
<1>2. IsFiniteSet(1 .. n) /\ Cardinality(1 .. n) = IF 1 > n THEN 0 ELSE n - 1 + 1
  BY <1>1, FS_Interval, Zenon
<1> QED
  BY <1>2

(* The work of all threads is finite if the threads are.                   *)
LEMMA WorkIs ==
  ASSUME IsFiniteSet(Handlers), NEW s
  PROVE  IsFiniteSet(Work(s)) /\ Cardinality(Work(s)) \in Nat
<1>1. IsFiniteSet(1 .. 25)
  BY FirstNumbers
<1>2. IsFiniteSet(Handlers \X (1 .. 25))
  BY <1>1, FS_Product, Zenon
<1>3. Work(s) \in SUBSET (Handlers \X (1 .. 25))
  BY DEF Work
<1> QED
  BY <1>2, <1>3, FS_Subset, FS_CardinalityType

(* What the work of one thread is of all the work.                         *)
LEMMA WorkSplit ==
  ASSUME IsFiniteSet(Handlers), NEW h \in Handlers, NEW s, Left(s[h]) \in 0 .. 25
  PROVE  Cardinality(Work(s)) =
           Cardinality({w \in (Handlers \ {h}) \X (1 .. 25) : w[2] <= Left(s[w[1]])}) + Left(s[h])
<1> DEFINE others == {w \in (Handlers \ {h}) \X (1 .. 25) : w[2] <= Left(s[w[1]])}
           n == Left(s[h])
           own == {h} \X (1 .. n)
<1>2. Work(s) = others \cup own
  <2>1. ASSUME NEW w \in Work(s) PROVE w \in others \cup own
    <3>1. PICK k \in Handlers, i \in 1 .. 25 : w = <<k, i>>
      BY DEF Work
    <3>2. i <= Left(s[k])
      BY <3>1 DEF Work
    <3> QED
      BY <3>1, <3>2
  <2>2. ASSUME NEW w \in others PROVE w \in Work(s)
    BY DEF Work
  <2>3. ASSUME NEW w \in own PROVE w \in Work(s)
    <3>1. PICK i \in 1 .. n : w = <<h, i>>
      OBVIOUS
    <3>2. i \in 1 .. 25 /\ i <= Left(s[h])
      OBVIOUS
    <3> QED
      BY <3>1, <3>2 DEF Work
  <2> QED
    BY <2>1, <2>2, <2>3
<1>3. others \cap own = {}
  OBVIOUS
<1>4. IsFiniteSet(own) /\ Cardinality(own) = n
  <2>1. IsFiniteSet({h}) /\ Cardinality({h}) = 1
    BY FS_Singleton
  <2>2. n \in Nat
    OBVIOUS
  <2>3. IsFiniteSet(1 .. n) /\ Cardinality(1 .. n) = n
    BY <2>2, FirstNumbers
  <2> HIDE DEF n
  <2>4. IsFiniteSet(own) /\ Cardinality(own) = 1 * n
    BY <2>1, <2>3, FS_Product, Zenon
  <2> QED
    BY <2>2, <2>4
<1>5. IsFiniteSet(others)
  <2>1. IsFiniteSet(Work(s))
    BY WorkIs
  <2>2. others \in SUBSET Work(s)
    BY <1>2
  <2> HIDE DEF others
  <2> QED
    BY <2>1, <2>2, FS_Subset
<1>6. Cardinality(Work(s)) = Cardinality(others) + n
  <2>1. Cardinality(others \cap own) = 0
    BY <1>3, FS_EmptySet
  <2>2. Cardinality(others) \in Nat
    BY <1>5, FS_CardinalityType, Zenon
  <2>3. n \in Nat
    OBVIOUS
  <2> HIDE DEF others, own, n
  <2>4. Cardinality(others \cup own)
          = Cardinality(others) + Cardinality(own) - Cardinality(others \cap own)
    BY <1>4, <1>5, FS_Union, Zenon
  <2> QED
    BY <1>2, <1>4, <2>1, <2>2, <2>3, <2>4
<1> QED
  BY <1>6

(* The work changes by what the thread that takes a step has more or less  *)
(* to do.                                                                  *)
LEMMA WorkStep ==
  ASSUME IsFiniteSet(Handlers), NEW h \in Handlers, NEW s, NEW t,
         Left(s[h]) \in 0 .. 25, Left(t[h]) \in 0 .. 25, \A k \in Handlers \ {h} : t[k] = s[k]
  PROVE  Cardinality(Work(t)) = Cardinality(Work(s)) - Left(s[h]) + Left(t[h])
<1> DEFINE others(u) == {w \in (Handlers \ {h}) \X (1 .. 25) : w[2] <= Left(u[w[1]])}
<1>1. Cardinality(Work(s)) = Cardinality(others(s)) + Left(s[h])
  BY WorkSplit
<1>2. Cardinality(Work(t)) = Cardinality(others(t)) + Left(t[h])
  BY WorkSplit
<1>3. others(t) = others(s)
  OBVIOUS
<1>4. Cardinality(Work(s)) \in Nat
  BY WorkIs
<1>5. Cardinality(others(s)) \in Nat
  <2>1. IsFiniteSet(Work(s)) /\ others(s) \in SUBSET Work(s)
    BY WorkIs DEF Work
  <2> HIDE DEF others
  <2> QED
    BY <2>1, FS_Subset, FS_CardinalityType
<1> HIDE DEF others
<1> QED
  BY <1>1, <1>2, <1>3, <1>4, <1>5

(* A receiver can be off in two ways.                                      *)
LEMMA OffType ==
  Off0 \in 0 .. 2 /\ Off1 \in 0 .. 2
BY DEF Off0, Off1, One

(* The parts of what is ahead are numbers ...                              *)
LEMMA AheadParts ==
  ASSUME Typed
  PROVE  events \in Nat /\ Len(queue) \in Nat /\ Off0 \in Nat /\ Off1 \in Nat
<1>1. events \in Nat /\ Len(queue) \in Nat
  BY DEF Typed, Numbers, Messages
<1>2. Off0 \in Nat /\ Off1 \in Nat
  BY OffType
<1> QED
  BY <1>1, <1>2

(* ... it is one itself ...                                                *)
LEMMA AheadType ==
  ASSUME Typed
  PROVE  Elsewhere \in Nat /\ Ahead \in Nat
<1>1. events \in Nat /\ Len(queue) \in Nat
  BY DEF Typed, Numbers, Messages
<1>3. FormLeft \in Nat
  BY DEF Typed, Places, FormLeft
<1>4. Elsewhere \in Nat
  BY <1>3 DEF Elsewhere, One
<1>5. Ahead \in Nat
  <2>1. 6 * events \in Nat /\ 11 * Len(queue) \in Nat /\ 11 * Off0 \in Nat /\ 11 * Off1 \in Nat
    BY <1>1, OffType
  <2> QED
    BY <2>1 DEF Ahead
<1> QED
  BY <1>4, <1>5

(* ... and stays one.                                                      *)
LEMMA AheadTypeAfter ==
  ASSUME Typed'
  PROVE  Elsewhere' \in Nat /\ Ahead' \in Nat
<1>1. events' \in Nat /\ Len(queue') \in Nat
  BY DEF Typed, Numbers, Messages
<1>3. FormLeft' \in Nat
  BY DEF Typed, Places, FormLeft
<1>4. Elsewhere' \in Nat
  <2>1. /\ One(bRITchkbox' # RITchkbox') \in Nat /\ One(EncoderSteps' # 0) \in Nat
        /\ One(tpc' = "set") \in Nat
    BY DEF One
  <2>2. FormLeft' + One(bRITchkbox' # RITchkbox') \in Nat
    BY <1>3, <2>1
  <2>3. FormLeft' + One(bRITchkbox' # RITchkbox') + 8 * One(EncoderSteps' # 0) \in Nat
    BY <2>1, <2>2
  <2>4. FormLeft' + One(bRITchkbox' # RITchkbox') + 8 * One(EncoderSteps' # 0)
          + 7 * One(tpc' = "set") \in Nat
    BY <2>1, <2>3
  <2> QED
    BY <2>4 DEF Elsewhere
<1>5. Ahead' \in Nat
  <2>1. Off0' \in 0 .. 2 /\ Off1' \in 0 .. 2
    BY DEF Off0, Off1, One
  <2>2. 6 * events' + 11 * Len(queue') \in Nat
    BY <1>1
  <2>3. 6 * events' + 11 * Len(queue') + 11 * Off0' \in Nat
    BY <2>1, <2>2
  <2>4. 6 * events' + 11 * Len(queue') + 11 * Off0' + 11 * Off1' \in Nat
    BY <2>1, <2>3
  <2> QED
    BY <2>4 DEF Ahead
<1> QED
  BY <1>4, <1>5

(* What is gained elsewhere outweighs what comes to be ahead: the steps of *)
(* the form and of TunerServer make one of these trades.                   *)
LEMMA Trade ==
  ASSUME NEW e \in Nat, NEW a \in Nat, NEW e1 \in Nat, NEW a1 \in Nat,
         \/ e1 < e /\ a1 = a
         \/ e1 <= e + 10 /\ a1 = a - 11
         \/ e1 <= e - 7 /\ a1 <= a + 6
         \/ e1 <= e - 18 /\ a1 <= a + 17
  PROVE  e1 + a1 < e + a
OBVIOUS

(* The rest of the effort makes no difference.                             *)
LEMMA LessHere ==
  ASSUME NEW c \in Nat, NEW e \in Nat, NEW a \in Nat, NEW c1 \in Nat, NEW a1 \in Nat,
         c1 + a1 < c + a
  PROVE  e + (c1 + a1) < e + (c + a)
OBVIOUS

(* Nor does the work of the threads.                                       *)
LEMMA LessThere ==
  ASSUME NEW c \in Nat, NEW e \in Nat, NEW a \in Nat, NEW e1 \in Nat, NEW a1 \in Nat,
         e1 + a1 < e + a
  PROVE  e1 + (c + a1) < e + (c + a)
OBVIOUS

(* A step that leaves a thread less to do than it puts ahead lessens the   *)
(* effort ...                                                              *)
LEMMA HandlerEffort ==
  ASSUME IsFiniteSet(Handlers), Typed, Typed', NEW h \in Handlers, Others(h),
         Elsewhere' = Elsewhere, Left(thread'[h]) + Ahead' < Left(thread[h]) + Ahead
  PROVE  Effort' < Effort
<1>1. Left(thread[h]) \in 0 .. 25
  BY LeftType DEF Typed
<1>2. Left(thread'[h]) \in 0 .. 25
  BY DEF Typed, Threads, Left, One
<1>3. Cardinality(Work(thread')) = Cardinality(Work(thread)) - Left(thread[h]) + Left(thread'[h])
  BY <1>1, <1>2, WorkStep DEF Others
<1>4. Cardinality(Work(thread)) \in Nat
  BY WorkIs
<1>5. Elsewhere \in Nat /\ Ahead \in Nat
  BY AheadType
<1>6. Ahead' \in Nat
  BY AheadTypeAfter
<1>7. Effort' = Elsewhere + (Cardinality(Work(thread')) + Ahead')
  BY DEF Effort, Work
<1>8. Cardinality(Work(thread')) + Ahead' < Cardinality(Work(thread)) + Ahead
  BY <1>1, <1>2, <1>3, <1>4, <1>5, <1>6
<1>9. Cardinality(Work(thread')) \in Nat
  BY WorkIs
<1>10. Elsewhere + (Cardinality(Work(thread')) + Ahead')
         < Elsewhere + (Cardinality(Work(thread)) + Ahead)
  BY <1>4, <1>5, <1>6, <1>8, <1>9, LessHere, Zenon
<1> QED
  BY <1>7, <1>10 DEF Effort

(* ... and so does a good trade of the form or of TunerServer.             *)
LEMMA OtherEffort ==
  ASSUME IsFiniteSet(Handlers), Typed, Typed', UNCHANGED thread,
         \/ Elsewhere' < Elsewhere /\ Ahead' = Ahead
         \/ Elsewhere' <= Elsewhere + 10 /\ Ahead' = Ahead - 11
         \/ Elsewhere' <= Elsewhere - 7 /\ Ahead' <= Ahead + 6
         \/ Elsewhere' <= Elsewhere - 18 /\ Ahead' <= Ahead + 17
  PROVE  Effort' < Effort
<1>4. Cardinality(Work(thread)) \in Nat
  BY WorkIs
<1>5. Elsewhere \in Nat /\ Ahead \in Nat
  BY AheadType
<1>6. Elsewhere' \in Nat /\ Ahead' \in Nat
  BY AheadTypeAfter
<1>7. Effort' = Elsewhere' + (Cardinality(Work(thread)) + Ahead')
  BY DEF Effort, Work
<1>9. Elsewhere' + Ahead' < Elsewhere + Ahead
  BY <1>5, <1>6, Trade, Zenon
<1>8. Elsewhere' + (Cardinality(Work(thread)) + Ahead')
        < Elsewhere + (Cardinality(Work(thread)) + Ahead)
  BY <1>4, <1>5, <1>6, <1>9, LessThere, Zenon
<1> QED
  BY <1>7, <1>8 DEF Effort

(* A receiver that is set to where it is wanted is no further off; with    *)
(* WSJT-X VRX1 may be.                                                     *)
LEMMA NoFurther ==
  ASSUME UNCHANGED <<lastF, wanted, SplitMode>>
  PROVE  /\ vfo'[0] \in {vfo[0], wanted.rx} => Off0' <= Off0
         /\ vfo'[1] = vfo[1] => Off1' <= Off1
         /\ vfo'[1] = wanted.tx /\ SplitMode # "FT8" => Off1' <= Off1
         /\ SplitMode = "FT8" => Off1' <= Off1 + 1
<1>1. ASSUME vfo'[0] \in {vfo[0], wanted.rx} PROVE Off0' <= Off0
  BY <1>1 DEF Off0, One
<1>2. ASSUME vfo'[1] = vfo[1] PROVE Off1' <= Off1
  <2>1. Off1' = Off1
    BY <1>2 DEF Off1
  <2> QED
    BY <2>1, OffType
<1>3. ASSUME vfo'[1] = wanted.tx, SplitMode # "FT8", vfo'[1] # vfo[1] PROVE Off1' <= Off1
  <2>1. Off1' = One(vfo'[1] # lastF[1]) /\ Off1 >= 1
    BY <1>3 DEF Off1, One
  <2> QED
    BY <2>1, OffType DEF One
<1>4. ASSUME SplitMode = "FT8" PROVE Off1' <= Off1 + 1
  BY <1>4 DEF Off1, One
<1> QED
  BY <1>1, <1>2, <1>3, <1>4

(* An event and x receivers more.                                          *)
LEMMA Sums ==
  ASSUME NEW e \in Nat, NEW q \in Nat, NEW o0 \in Nat, NEW o1 \in Nat,
         NEW f \in Nat, NEW p0 \in Nat, NEW p1 \in Nat, NEW x \in Nat,
         f \in {e, e + 1}, p0 <= o0, p1 <= o1 + x
  PROVE  6 * f + 11 * q + 11 * p0 + 11 * p1 <= 6 * e + 11 * q + 11 * o0 + 11 * o1 + 6 + 11 * x
OBVIOUS

(* Setting a receiver puts at most that ahead.                             *)
LEMMA AheadGrows ==
  ASSUME Typed, Typed', NEW x \in Nat, queue' = queue, events' \in {events, events + 1},
         Off0' <= Off0, Off1' <= Off1 + x
  PROVE  Ahead' <= Ahead + 6 + 11 * x
<1>1. events \in Nat /\ events' \in Nat /\ Len(queue) \in Nat
  BY DEF Typed, Numbers, Messages
<1>2. Off0 \in Nat /\ Off1 \in Nat /\ Off0' \in Nat /\ Off1' \in Nat
  BY DEF Off0, Off1, One
<1>3. 6 * events' + 11 * Len(queue) + 11 * Off0' + 11 * Off1'
       <= 6 * events + 11 * Len(queue) + 11 * Off0 + 11 * Off1 + 6 + 11 * x
  BY <1>1, <1>2, Sums, Zenon
<1> QED
  BY <1>3 DEF Ahead

(* A handler does one thing of what it has to do, or hands it over: what   *)
(* it sets is set to where it is wanted, and its event finds nothing       *)
(* changed.                                                                *)
LEMMA HandlerSettles ==
  ASSUME IsFiniteSet(Handlers), Typed, Typed', Modes, OnItsWay, ~ dropped',
         NEW h \in Handlers, HandleEvent(h)
  PROVE  Effort' < Effort
<1>1. Still /\ Elsewhere' = Elsewhere
  BY HandlerLeaves DEF Still, Elsewhere, FormLeft
<1>2. Numbers /\ Threads /\ Flags
  BY DEF Typed
<1>3. Ahead \in Nat /\ Ahead' \in Nat
  BY AheadType, AheadTypeAfter
<1>4. thread[h].pc # "idle" => ~ Turning
  BY DEF OnItsWay, Turned, Quiet, AllIdle
<1>5. CASE Deliver(h)
  <2>1. /\ thread[h].pc = "idle" /\ thread'[h].pc = "enter" /\ Others(h)
        /\ events' = events - 1 /\ UNCHANGED <<vfo, lastF, queue>>
    BY <1>2, <1>5, DeliverDoes
  <2>2. Off0' = Off0 /\ Off1' = Off1
    BY <1>1, <2>1 DEF Off0, Off1, Still
  <2>3. Ahead' = Ahead - 6
    <3>1. events \in Nat /\ Len(queue) \in Nat /\ Off0 \in Nat /\ Off1 \in Nat
      BY AheadParts
    <3> QED
      BY <2>1, <2>2, <3>1 DEF Ahead
  <2>4. Left(thread[h]) = 0 /\ Left(thread'[h]) = 5
    BY <2>1 DEF Left
  <2> QED
    BY <1>1, <1>3, <2>1, <2>3, <2>4, HandlerEffort
<1>6. CASE Enter(h)
  <2>1. /\ thread[h].pc = "enter" /\ thread'[h].pc = "freq1" /\ Others(h)
        /\ thread'[h].bF0changed = (vfo[0] # lastF[0]) /\ lastF'[0] = vfo[0] /\ lastF'[1] = lastF[1]
        /\ UNCHANGED <<vfo, events, queue>>
    BY <1>2, <1>6, EnterDoes
  <2>2. Off0' = Off0 - One(vfo[0] # lastF[0]) /\ Off1' = Off1
    BY <1>1, <2>1 DEF Off0, Off1, Still, One
  <2>3. Ahead' = Ahead - 11 * One(vfo[0] # lastF[0])
    <3>1. /\ events \in Nat /\ Len(queue) \in Nat /\ Off0 \in Nat /\ Off1 \in Nat
          /\ One(vfo[0] # lastF[0]) \in Nat
      BY AheadParts DEF One
    <3> QED
      BY <2>1, <2>2, <3>1 DEF Ahead
  <2>4. Left(thread[h]) = 5 /\ Left(thread'[h]) = 4 + 11 * One(vfo[0] # lastF[0])
    BY <2>1 DEF Left
  <2> QED
    BY <1>1, <1>3, <2>1, <2>3, <2>4, HandlerEffort DEF One
<1>7. CASE ReadVfo1(h)
  <2>1. /\ thread[h].pc = "freq1" /\ thread'[h].pc = "decide" /\ Others(h)
        /\ thread'[h].bF0changed = thread[h].bF0changed
        /\ thread'[h].bF1changed = (vfo[1] # lastF[1]) /\ lastF'[1] = vfo[1] /\ lastF'[0] = lastF[0]
        /\ UNCHANGED <<vfo, events, queue>>
    BY <1>2, <1>7, ReadVfo1Does
  <2>2. Off0' = Off0 /\ Off1' = Off1 - One(vfo[1] # lastF[1])
    BY <1>1, <2>1 DEF Off0, Off1, Still, One
  <2>3. Ahead' = Ahead - 11 * One(vfo[1] # lastF[1])
    <3>1. /\ events \in Nat /\ Len(queue) \in Nat /\ Off0 \in Nat /\ Off1 \in Nat
          /\ One(vfo[1] # lastF[1]) \in Nat
      BY AheadParts DEF One
    <3> QED
      BY <2>1, <2>2, <3>1 DEF Ahead
  <2>4. /\ Left(thread[h]) = 4 + 11 * One(thread[h].bF0changed)
        /\ Left(thread'[h]) = 3 + 11 * One(thread[h].bF0changed) + 11 * One(vfo[1] # lastF[1])
    BY <2>1 DEF Left
  <2> QED
    BY <1>1, <1>3, <2>1, <2>3, <2>4, HandlerEffort DEF One
<1>8. CASE Decide(h)
  <2>1. /\ thread[h].pc = "decide" /\ thread'[h].pc = Reaction(thread[h]) /\ Others(h)
        /\ UNCHANGED <<vfo, events, lastF, queue>>
    BY <1>2, <1>8, DecideDoes
  <2>2. Ahead' = Ahead
    BY <1>1, <2>1 DEF Ahead, Off0, Off1, Still
  <2>3. \/ thread'[h].pc = "leave"
        \/ /\ thread'[h].pc \in {"revert0", "revert1", "setTX", "queueRX"}
           /\ thread[h].bF0changed \/ thread[h].bF1changed
    BY <2>1 DEF Reaction, Typed, Places
  <2>4. Left(thread'[h]) < Left(thread[h])
    BY <2>1, <2>3 DEF Left, One
  <2>5. Left(thread[h]) \in 0 .. 25 /\ Left(thread'[h]) \in 0 .. 25
    BY <2>1, <2>3, LeftType DEF Typed, Left
  <2> QED
    BY <1>1, <1>3, <2>1, <2>2, <2>4, <2>5, HandlerEffort
<1>9. CASE Revert(h)
  <2>1. /\ thread[h].pc \in {"revert0", "revert1"} /\ thread'[h].pc = "leave" /\ Others(h)
        /\ events' \in {events, events + 1} /\ UNCHANGED <<lastF, queue>>
        /\ vfo'[0] = IF thread[h].pc = "revert0" THEN CurrentTXfreq ELSE vfo[0]
        /\ vfo'[1] = IF thread[h].pc = "revert1" THEN thread[h].freq0 ELSE vfo[1]
    BY <1>2, <1>9, RevertDoes
  <2>2. vfo'[0] \in {vfo[0], wanted.rx} /\ vfo'[1] \in {vfo[1], wanted.tx}
    <3>1. CASE SplitMode = "None"
      BY <1>4, <2>1, <3>1 DEF OnItsWay, InNone, FromVRX0, Modes
    <3>2. CASE SplitMode = "TxRx"
      BY <1>4, <2>1, <3>2 DEF OnItsWay, InTxRx, ReadsVRX1
    <3>3. CASE SplitMode = "FT8"
      BY <2>1, <3>3 DEF OnItsWay, InFT8, FromDial, AllIdle
    <3> QED
      BY <3>1, <3>2, <3>3 DEF Typed, Places
  <2>3. Off0' <= Off0 /\ Off1' <= Off1
    <3>1. vfo'[1] = vfo[1] \/ SplitMode # "FT8"
      BY <2>1, <2>2 DEF OnItsWay, InFT8, FromDial
    <3> QED
      BY <1>1, <2>1, <2>2, <3>1, NoFurther DEF Still
  <2>4. Ahead' <= Ahead + 6
    <3>1. Off1' <= Off1 + 0
      BY <2>3, OffType
    <3>2. Ahead' <= Ahead + 6 + 11 * 0
      BY <2>1, <2>3, <3>1, AheadGrows
    <3> QED
      BY <1>3, <3>2
  <2>5. Left(thread[h]) = 8 /\ Left(thread'[h]) = 1
    BY <2>1 DEF Left
  <2> QED
    BY <1>1, <1>3, <2>1, <2>4, <2>5, HandlerEffort
<1>10. CASE SendSerialMsg(h)
  <2>1. /\ thread[h].pc \in {"setTX", "queueRX"} /\ thread'[h].pc = "leave" /\ Others(h)
        /\ UNCHANGED <<vfo, events, lastF>>
    BY <1>2, <1>10, SendSerialMsgDoes
  <2>2. Len(queue') = Len(queue) + 1
    BY <1>10 DEF SendSerialMsg, Typed, Messages
  <2>3. Off0' = Off0 /\ Off1' = Off1
    BY <1>1, <2>1 DEF Off0, Off1, Still
  <2>4. Ahead' = Ahead + 11
    <3>1. events \in Nat /\ Len(queue) \in Nat /\ Off0 \in Nat /\ Off1 \in Nat
      BY AheadParts
    <3> QED
      BY <2>1, <2>2, <2>3, <3>1 DEF Ahead
  <2>5. Left(thread[h]) = 13 /\ Left(thread'[h]) = 1
    BY <2>1 DEF Left
  <2> QED
    BY <1>1, <1>3, <2>1, <2>4, <2>5, HandlerEffort
<1>11. CASE Return(h)
  <2>1. /\ thread[h].pc = "leave" /\ thread'[h].pc = "idle" /\ Others(h)
        /\ UNCHANGED <<vfo, events, lastF, queue>>
    BY <1>2, <1>11, ReturnDoes
  <2>2. Ahead' = Ahead
    BY <1>1, <2>1 DEF Ahead, Off0, Off1, Still
  <2>3. Left(thread[h]) = 1 /\ Left(thread'[h]) = 0
    BY <2>1 DEF Left
  <2> QED
    BY <1>1, <1>3, <2>1, <2>2, <2>3, HandlerEffort
<1> QED
  BY <1>5, <1>6, <1>7, <1>8, <1>9, <1>10, <1>11 DEF HandleEvent

(* The form's thread has every receiver it sets one step nearer to rest.   *)
LEMMA FormSettles ==
  ASSUME IsFiniteSet(Handlers), Typed, Typed', Modes, OnItsWay, Form
  PROVE  Effort' < Effort
<1>1. FormStill
  BY FormLeaves
<1>0. UNCHANGED thread
  BY <1>1 DEF FormStill
<1>2. Numbers /\ Places
  BY DEF Typed
<1>3. Ahead \in Nat /\ Ahead' \in Nat /\ Elsewhere \in Nat /\ Elsewhere' \in Nat
  BY AheadType, AheadTypeAfter
<1>4. ~ Turning
  BY DEF OnItsWay, Turned, Quiet, Form, OnTimer, ReadRXfreq, SetRXfreq, SendTXfreq, ForceVrx1,
         SetReceiver, Step
<1> DEFINE box == One(bRITchkbox # RITchkbox)
           knob == 8 * One(EncoderSteps # 0) + 7 * One(tpc = "set")
<1>5. knob \in Nat /\ knob' = knob /\ box \in 0 .. 1
  BY <1>1 DEF FormStill, One
<1>6. Elsewhere = FormLeft + box + knob /\ Elsewhere' = FormLeft' + box' + knob'
  <2>1. FormLeft \in Nat /\ FormLeft' \in Nat
    BY DEF Typed, Places, FormLeft
  <2>2. Elsewhere = FormLeft + box + knob
    BY <2>1 DEF Elsewhere, One
  <2>3. Elsewhere' = FormLeft' + box' + knob'
    BY <2>1 DEF Elsewhere, One
  <2> QED
    BY <2>2, <2>3
<1>7. CASE OnTimer
  <2>1. /\ fpc = "idle" /\ bRITchkbox' = RITchkbox /\ RITchkbox' = RITchkbox
        /\ queue # <<>> \/ bRITchkbox # RITchkbox
        /\ UNCHANGED <<vfo, events>>
    BY <1>7 DEF OnTimer, sdruno
  <2>2. Off0' = Off0 /\ Off1' = Off1
    BY <1>1, <2>1 DEF Off0, Off1, FormStill
  <2>3. box' = 0 /\ FormLeft = 0
    BY <2>1 DEF One, FormLeft
  <2>4. CASE queue = <<>>
    <3>1. fpc' = "idle" /\ queue' = queue /\ box = 1
      BY <1>7, <2>1, <2>4 DEF OnTimer, One
    <3>2. Ahead' = Ahead
      BY <2>1, <2>2, <3>1 DEF Ahead
    <3>3. FormLeft' = 0
      BY <3>1 DEF FormLeft
    <3>4. Elsewhere' < Elsewhere
      BY <1>5, <1>6, <2>3, <3>1, <3>3
    <3> QED
      BY <1>0, <3>2, <3>4, OtherEffort, Zenon
  <2>5. CASE queue # <<>>
    <3>1. fpc' \in {"rx", "tx"} /\ queue' = Tail(queue)
      BY <1>7, <2>5 DEF OnTimer
    <3>2. Len(queue') = Len(queue) - 1
      BY <2>5, <3>1 DEF Typed, Messages
    <3>3. Ahead' = Ahead - 11
      <4>1. events \in Nat /\ Len(queue) \in Nat /\ Off0 \in Nat /\ Off1 \in Nat
        BY AheadParts
      <4> QED
        BY <2>1, <2>2, <3>2, <4>1 DEF Ahead
    <3>4. FormLeft' \in 0 .. 10
      BY <3>1 DEF FormLeft
    <3>5. Elsewhere' <= Elsewhere + 10
      BY <1>5, <1>6, <2>3, <3>4
    <3> QED
      BY <1>0, <3>3, <3>5, OtherEffort, Zenon
  <2> QED
    BY <2>4, <2>5
<1>8. CASE ReadRXfreq \/ SetRXfreq \/ SendTXfreq
  <2>1. /\ UNCHANGED <<vfo, events, queue, bRITchkbox, RITchkbox>>
        /\ <<fpc, fpc'>> \in {<<"rx", "rxSet">>, <<"rx", "tx">>, <<"rxSet", "tx">>,
                              <<"tx", "idle">>, <<"tx", "vrx1">>, <<"dataTx", "end0">>}
    BY <1>8 DEF ReadRXfreq, SetRXfreq, SendTXfreq, Step, sdruno
  <2>2. Ahead' = Ahead
    BY <1>1, <2>1 DEF Ahead, Off0, Off1, FormStill
  <2>3. FormLeft \in Nat /\ FormLeft' \in Nat /\ FormLeft' < FormLeft
    BY <2>1 DEF FormLeft
  <2>4. box' = box
    BY <2>1
  <2>5. Elsewhere' < Elsewhere
    BY <1>5, <1>6, <2>3, <2>4
  <2> QED
    BY <1>0, <2>2, <2>5, OtherEffort, Zenon
<1>9. CASE ForceVrx1
  <2>1. /\ fpc = "vrx1" /\ fpc' = "idle" /\ vfo'[0] = vfo[0]
        /\ vfo'[1] = IF SplitMode = "FT8" THEN vfo[1] ELSE CurrentTXfreq
        /\ events' \in {events, events + 1} /\ queue' = queue
    BY <1>2, <1>9, ForceVrx1Does
  <2>2. SplitMode # "FT8" => CurrentTXfreq = wanted.tx
    BY <1>4, <2>1 DEF OnItsWay, InNone, FromVRX0, Modes, InTxRx, FromVRX1, Typed, Places
  <2>3. Off0' <= Off0 /\ Off1' <= Off1
    BY <1>1, <2>1, <2>2, NoFurther DEF FormStill
  <2>4. Ahead' <= Ahead + 6
    <3>1. Off1' <= Off1 + 0
      BY <2>3, OffType
    <3>2. Ahead' <= Ahead + 6 + 11 * 0
      BY <2>1, <2>3, <3>1, AheadGrows
    <3> QED
      BY <1>3, <3>2
  <2>5. FormLeft = 7 /\ FormLeft' = 0 /\ box' = box
    BY <1>1, <1>9, <2>1 DEF FormLeft, FormStill, ForceVrx1
  <2>6. Elsewhere' <= Elsewhere - 7
    BY <1>5, <1>6, <2>5
  <2> QED
    BY <1>0, <2>4, <2>6, OtherEffort, Zenon
<1>10. CASE SetReceiver
  <2>1. /\ events' \in {events, events + 1} /\ queue' = queue
        /\ UNCHANGED <<bRITchkbox, RITchkbox>>
    BY <1>2, <1>10, SetReceiverDoes DEF SetReceiver
  <2>2. box' = box
    BY <2>1
  <2>3. CASE fpc \in {"rx0", "data0", "end0"}
    <3>1. /\ <<fpc, fpc'>> \in {<<"rx0", "rx1">>, <<"data0", "data1">>, <<"end0", "end1">>}
          /\ vfo'[0] = CurrentTXfreq /\ vfo'[1] = vfo[1]
      BY <1>2, <1>10, <2>3, SetReceiverDoes
    <3>2. CurrentTXfreq = wanted.rx
      <4>1. CASE SplitMode = "None"
        BY <1>4, <3>1, <4>1 DEF OnItsWay, InNone, FromVRX0
      <4>2. CASE SplitMode = "TxRx"
        BY <1>4, <3>1, <4>2 DEF OnItsWay, InTxRx, FromVRX1
      <4>3. CASE SplitMode = "FT8"
        BY <3>1, <4>3 DEF OnItsWay, InFT8, FromDial
      <4> QED
        BY <4>1, <4>2, <4>3 DEF Typed, Places
    <3>3. Off0' <= Off0 /\ Off1' <= Off1
      BY <1>1, <3>1, <3>2, NoFurther DEF FormStill
    <3>4. Ahead' <= Ahead + 6
      <4>1. Off1' <= Off1 + 0
        BY <3>3, OffType
      <4>2. Ahead' <= Ahead + 6 + 11 * 0
        BY <2>1, <3>3, <4>1, AheadGrows
      <4> QED
        BY <1>3, <4>2
    <3>5. FormLeft \in Nat /\ FormLeft' = FormLeft - 7
      BY <3>1 DEF FormLeft
    <3>6. Elsewhere' <= Elsewhere - 7
      BY <1>5, <1>6, <2>2, <3>5
    <3> QED
      BY <1>0, <3>4, <3>6, OtherEffort, Zenon
  <2>4. CASE fpc = "swap1"
    <3>1. fpc' = "idle" /\ vfo'[0] = vfo[0] /\ vfo'[1] = tmp
      BY <1>2, <1>10, <2>4, SetReceiverDoes
    <3>2. SplitMode = "TxRx" /\ tmp = wanted.tx
      BY <1>4, <2>4 DEF OnItsWay, InNone, FromVRX0, InTxRx, InSwap, InFT8, FromDial, Typed, Places
    <3>3. Off0' <= Off0 /\ Off1' <= Off1
      BY <1>1, <3>1, <3>2, NoFurther DEF FormStill
    <3>4. Ahead' <= Ahead + 6
      <4>1. Off1' <= Off1 + 0
        BY <3>3, OffType
      <4>2. Ahead' <= Ahead + 6 + 11 * 0
        BY <2>1, <3>3, <4>1, AheadGrows
      <4> QED
        BY <1>3, <4>2
    <3>5. FormLeft = 7 /\ FormLeft' = 0
      BY <2>4, <3>1 DEF FormLeft
    <3>6. Elsewhere' <= Elsewhere - 7
      BY <1>5, <1>6, <2>2, <3>5
    <3> QED
      BY <1>0, <3>4, <3>6, OtherEffort, Zenon
  <2>5. CASE fpc \in {"rx1", "data1", "end1"}
    <3>1. /\ <<fpc, fpc'>> \in {<<"rx1", "idle">>, <<"data1", "dataTx">>, <<"end1", "idle">>}
          /\ vfo'[0] = vfo[0] /\ (fpc = "rx1" => vfo'[1] = CurrentTXfreq)
      BY <1>2, <1>10, <2>5, SetReceiverDoes
    <3>2. SplitMode # "FT8" => vfo'[1] = wanted.tx
      BY <1>4, <3>1 DEF OnItsWay, InNone, FromVRX0, Modes, InTxRx, FromVRX1, Typed, Places
    <3>3. Off0' <= Off0 /\ Off1' <= Off1 + 1
      <4>1. Off1' <= Off1 => Off1' <= Off1 + 1
        <5>1. Off1' \in 0 .. 2
          BY DEF Off1, One
        <5> QED
          BY <5>1, OffType
      <4> QED
        BY <1>1, <3>1, <3>2, <4>1, NoFurther DEF FormStill
    <3>4. Ahead' <= Ahead + 17
      <4>1. Ahead' <= Ahead + 6 + 11 * 1
        BY <2>1, <3>3, AheadGrows
      <4> QED
        BY <1>3, <4>1
    <3>5. FormLeft \in Nat /\ FormLeft' \in Nat /\ FormLeft' <= FormLeft - 18
      BY <3>1 DEF FormLeft
    <3>6. Elsewhere' <= Elsewhere - 18
      BY <1>5, <1>6, <2>2, <3>5
    <3> QED
      BY <1>0, <3>4, <3>6, OtherEffort, Zenon
  <2> QED
    BY <1>10, <2>3, <2>4, <2>5 DEF SetReceiver, Step
<1> QED
  BY <1>7, <1>8, <1>9, <1>10 DEF Form

(* TunerServer uses its steps up.                                          *)
LEMMA TunerSettles ==
  ASSUME IsFiniteSet(Handlers), Typed, Typed', OnItsWay, Tuner
  PROVE  Effort' < Effort
<1>1. UNCHANGED <<bBusy, lastF, thread, dropped, queue, SplitMode, TrackFreq, CurrentTXfreq,
                  fpc, tmp, bRITchkbox, LastTXfreq, RITchkbox, wanted, hurried>>
  BY TunerLeaves
<1>0. UNCHANGED thread
  BY <1>1
<1>2. Ahead \in Nat /\ Ahead' \in Nat /\ Elsewhere \in Nat /\ Elsewhere' \in Nat
  BY AheadType, AheadTypeAfter
<1> DEFINE rest == FormLeft + One(bRITchkbox # RITchkbox)
           knob == 8 * One(EncoderSteps # 0) + 7 * One(tpc = "set")
<1>3. rest \in Nat /\ rest' = rest
  BY <1>1 DEF Typed, Places, FormLeft, One
<1>4. Elsewhere = rest + knob /\ Elsewhere' = rest + knob'
  <2>1. FormLeft \in Nat
    BY DEF Typed, Places, FormLeft
  <2>2. Elsewhere = rest + knob
    BY <2>1 DEF Elsewhere, One
  <2>3. Elsewhere' = rest' + knob'
    <3>1. FormLeft' \in Nat
      BY <1>1, <2>1 DEF FormLeft
    <3> QED
      BY <3>1 DEF Elsewhere, One
  <2> QED
    BY <1>3, <2>2, <2>3
<1>5. CASE UseKnob \/ SendKeys
  <2>1. tpc = "idle" /\ EncoderSteps # 0 /\ EncoderSteps' = 0 /\ UNCHANGED <<vfo, events>>
    BY <1>5, TrackingAssumption DEF UseKnob, SendKeys, sdruno, Typed, Numbers
  <2>2. Ahead' = Ahead
    BY <1>1, <2>1 DEF Ahead, Off0, Off1
  <2>3. knob = 8 /\ (knob' = 7 \/ knob' = 0)
    BY <2>1 DEF One
  <2> HIDE DEF rest, knob
  <2>4. Elsewhere' < Elsewhere
    <3>1. Elsewhere = rest + 8
      BY <1>4, <2>3
    <3>2. Elsewhere' = rest + 7 \/ Elsewhere' = rest + 0
      BY <1>4, <2>3
    <3> QED
      BY <1>3, <3>1, <3>2
  <2> QED
    BY <1>0, <2>2, <2>4, OtherEffort, Zenon
<1>6. CASE SetTuned
  <2>1. Turned /\ tpc = "set" /\ tpc' = "idle" /\ EncoderSteps' = 0
    BY <1>6 DEF OnItsWay, Turning, SetTuned, Turned
  <2>2. /\ vfo'[tune.vrx] = tune.freq /\ vfo'[1 - tune.vrx] = vfo[1 - tune.vrx]
        /\ events' \in {events, events + 1}
    BY <1>6, SetTunedDoes DEF Typed
  <2>3. \/ vfo'[0] = wanted.rx /\ vfo'[1] = vfo[1]
        \/ vfo'[0] = vfo[0] /\ vfo'[1] = wanted.tx /\ SplitMode # "FT8"
    BY <2>1, <2>2 DEF Turned, Aim, KnobVrx
  <2>4. Off0' <= Off0 /\ Off1' <= Off1
    BY <1>1, <2>3, NoFurther
  <2>5. Ahead' <= Ahead + 6
    <3>1. Off1' <= Off1 + 0
      BY <2>4, OffType
    <3>2. Ahead' <= Ahead + 6 + 11 * 0
      BY <1>1, <2>2, <2>4, <3>1, AheadGrows
    <3> QED
      BY <1>2, <3>2
  <2>6. knob = 7 /\ knob' = 0
    BY <2>1 DEF One, Turned
  <2> HIDE DEF rest, knob
  <2>7. Elsewhere' <= Elsewhere - 7
    BY <1>3, <1>4, <2>6
  <2> QED
    BY <1>0, <2>5, <2>7, OtherEffort, Zenon
<1> QED
  BY <1>5, <1>6 DEF Tuner

(* What the program does on its own.                                       *)
Corrects == (\E h \in Handlers : HandleEvent(h)) \/ Form \/ Tuner

(* The program's corrections of the receivers (HandleEvent,                *)
(* SDRunoPlugin_TXLinkUi.cpp:132; SendTXfreq,                              *)
(* SDRunoPlugin_TXLinkForm.cpp:1074), which are changes again, are finite  *)
(* in number: while only one thing at a time happens and no event is       *)
(* dropped, every step of SDRuno's, the form's and the tuner's threads     *)
(* brings a natural number down, however many threads there are.           *)
THEOREM CorrectionsEnd ==
  ASSUME IsFiniteSet(Handlers), Restored => "Restart" \notin Ops
  PROVE  Spec => [](Effort \in Nat) /\ [][Corrects /\ Calm' => Effort' < Effort]_vars
<1>1. Travels => Effort \in Nat
  BY AheadType, WorkIs DEF Travels, Effort
<1>2. Travels /\ Travels' => [Corrects /\ Calm' => Effort' < Effort]_vars
  <2> SUFFICES ASSUME Travels, Travels', Corrects, Calm' PROVE Effort' < Effort
    OBVIOUS
  <2>1. ~ hurried /\ ~ dropped
    <3>1. ~ hurried' /\ ~ dropped'
      BY DEF Calm
    <3>2. ASSUME NEW h \in Handlers, HandleEvent(h) PROVE ~ hurried /\ ~ dropped
      <4>1. ~ hurried
        BY <3>1, <3>2, HandlerLeaves DEF Still
      <4>2. ~ dropped
        BY <3>1, <3>2 DEF HandleEvent, Deliver, Enter, ReadVfo1, Decide, Revert, SendSerialMsg,
                          Return
      <4> QED
        BY <4>1, <4>2
    <3>3. Form \/ Tuner => UNCHANGED <<hurried, dropped>>
      BY FormLeaves, TunerLeaves DEF FormStill
    <3> QED
      BY <3>1, <3>2, <3>3 DEF Corrects
  <2>2. Typed /\ Typed' /\ Modes /\ OnItsWay /\ ~ dropped'
    BY <2>1 DEF Travels, Tracked, Calm
  <2> QED
    BY <2>2, HandlerSettles, FormSettles, TunerSettles DEF Corrects
<1> QED
  BY <1>1, <1>2, TravelsHolds, PTL
=============================================================================
