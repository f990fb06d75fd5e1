-------------------------- MODULE FrequencyTracking -------------------------
(***************************************************************************)
(* The transmitter's frequency and SDRuno's two receivers.  SDRuno tells   *)
(* the plugin that a frequency has changed (HandleEvent, on any thread of  *)
(* SDRuno), the plugin's form follows on its timer and sets receivers      *)
(* itself, which are changes again; buttons, the tuning knob of            *)
(* TunerServer, WSJT-X and a transmitter that has reset come in between.   *)
(* An event does not say what changed: the handler reads both receivers    *)
(* when it gets to run.                                                    *)
(*                                                                         *)
(* A step of a thread is one access to what the threads share.  The        *)
(* serial port stays open (module TransmitterLink has its failures), VRX1  *)
(* is installed, and labels, annotations and CurrentRXfreq, which only     *)
(* they use, are left out.                                                 *)
(***************************************************************************)
EXTENDS Integers, Sequences

CONSTANTS
  Freqs,          \* what receivers and WSJT-X are set to
  TXupHz, TXDF,   \* what +TX adds; WSJT-X's offset
  Revolution,     \* steps of the knob that make a key stroke (800)
  Handlers,       \* SDRuno's threads that deliver events
  Restored,       \* SplitMode is from the ini file, TrackFreq is as at the start
  Ops,            \* what happens: subset of AllOps
  MaxMoves        \* bound: so many things happen

AllOps == {"VRX0", "VRX1", "Split", "TXup", "RXtoTX", "Swap", "Data", "Knob", "RIT", "Restart"}

ASSUME TrackingAssumption ==
  /\ Freqs \subseteq Nat \ {0} /\ TXupHz \in Nat \ {0} /\ TXDF \in Nat
  /\ Revolution \in Nat \ {0} /\ MaxMoves \in Nat
  /\ Restored \in BOOLEAN
  /\ Ops \subseteq AllOps

NoFreq == 0       \* a local variable that is not in use

VARIABLES
  vfo, events,          \* SDRuno: its receivers, and changes not yet reported
  bBusy, lastF, thread, \* HandleEvent: statics, and what each thread has got to
  queue,                \* SendSerialMsg: "RX" for $SendRXfreq$, "TX" for $SendTXfreq$
  SplitMode, TrackFreq, CurrentTXfreq, LastTXfreq,
  fpc, tmp,             \* the form's thread: its place, and a local variable
  told,                 \* the frequency the transmitter has
  RITchkbox, bRITchkbox,
  EncoderSteps, tpc, tune,   \* TunerServer: steps not used up, its place and locals
  moves,                \* what has happened, at most MaxMoves
  \* observers
  wanted,               \* what the operator wants received and transmitted
  hurried,              \* something happened before all was at rest
  dropped,              \* an event was
  forced                \* {~TX} was answered with a frequency that was still to be sent

sdruno  == <<vfo, events>>
handler == <<bBusy, lastF, thread, dropped>>
mode    == <<SplitMode, TrackFreq>>
form    == <<fpc, tmp, bRITchkbox, LastTXfreq, told>>
tuner   == <<EncoderSteps, tpc, tune>>
observe == <<moves, wanted, hurried, forced>>
vars    == <<sdruno, handler, queue, mode, CurrentTXfreq, form, RITchkbox, tuner, observe>>

Idle == [pc |-> "idle", freq0 |-> NoFreq, freq1 |-> NoFreq, bF0changed |-> FALSE,
         bF1changed |-> FALSE]

(* All is at rest.  FixFreqBtnClicked keeps TrackFreq and SplitMode        *)
(* together, SetupDataMode and LoadSplitMode leave TrackFreq alone.        *)
Init ==
  /\ SplitMode \in {"None", "TxRx", "FT8"}
  /\ TrackFreq \in IF SplitMode = "None" \/ Restored THEN {TRUE}
                   ELSE IF SplitMode = "TxRx" THEN {FALSE} ELSE BOOLEAN
  /\ \E f, g \in Freqs :
       vfo = [v \in {0, 1} |-> IF v = 0 \/ SplitMode = "None" THEN f
                              ELSE IF SplitMode = "TxRx" THEN g ELSE f + TXDF]
  /\ CurrentTXfreq = IF SplitMode = "TxRx" THEN vfo[1] ELSE vfo[0]
  /\ events = 0 /\ bBusy = FALSE /\ lastF = vfo /\ thread = [h \in Handlers |-> Idle]
  /\ queue = <<>>
  /\ LastTXfreq = CurrentTXfreq /\ told = CurrentTXfreq
  /\ fpc = "idle" /\ tmp = NoFreq
  /\ RITchkbox = FALSE /\ bRITchkbox = FALSE
  /\ EncoderSteps = 0 /\ tpc = "idle" /\ tune = [vrx |-> 0, freq |-> NoFreq]
  /\ moves = 0 /\ wanted = [rx |-> vfo[0], tx |-> CurrentTXfreq]
  /\ hurried = FALSE /\ dropped = FALSE /\ forced = FALSE

-----------------------------------------------------------------------------
(* SDRuno.  A frequency that is set to what it is may be reported too.     *)

SetVfoFrequency(vrx, freq) ==
  /\ vfo' = [vfo EXCEPT ![vrx] = freq]
  /\ events' \in IF vfo[vrx] = freq THEN {events, events + 1} ELSE {events + 1}

-----------------------------------------------------------------------------
(* HandleEvent of SDRunoPlugin_TXLink, then of SDRunoPlugin_TXLinkUi.      *)

At(h, pc) == thread[h].pc = pc
Go(h, pc) == thread' = [thread EXCEPT ![h].pc = pc]

(* An event is dropped while another is handled.                           *)
Deliver(h) ==
  /\ At(h, "idle") /\ events > 0
  /\ events' = events - 1
  /\ IF bBusy THEN dropped' = TRUE /\ UNCHANGED thread
              ELSE Go(h, "enter") /\ UNCHANGED dropped
  /\ UNCHANGED <<vfo, bBusy, lastF, queue, mode, CurrentTXfreq, form, RITchkbox, tuner, observe>>

Enter(h) ==
  /\ At(h, "enter")
  /\ bBusy' = TRUE
  /\ thread' = [thread EXCEPT ![h] = [@ EXCEPT !.pc = "freq1", !.freq0 = vfo[0],
                                              !.bF0changed = vfo[0] # lastF[0]]]
  /\ lastF' = [lastF EXCEPT ![0] = vfo[0]]
  /\ UNCHANGED <<sdruno, dropped, queue, mode, CurrentTXfreq, form, RITchkbox, tuner, observe>>

ReadVfo1(h) ==
  /\ At(h, "freq1")
  /\ thread' = [thread EXCEPT ![h] = [@ EXCEPT !.pc = "decide", !.freq1 = vfo[1],
                                              !.bF1changed = vfo[1] # lastF[1]]]
  /\ lastF' = [lastF EXCEPT ![1] = vfo[1]]
  /\ UNCHANGED <<sdruno, bBusy, dropped, queue, mode, CurrentTXfreq, form, RITchkbox, tuner,
                 observe>>

ReactionToDupes(t) ==
  CASE SplitMode = "None"                      -> IF t.bF0changed THEN "queueRX" ELSE "revert1"
    [] SplitMode = "FT8"                       -> IF t.freq0 # CurrentTXfreq THEN "revert0"
                                                                             ELSE "leave"
    [] SplitMode = "TxRx"                      -> IF t.freq1 # CurrentTXfreq THEN "setTX"
                                                                             ELSE "leave"

(* What is to be done about what has been read: nothing, if an earlier     *)
(* event has been the occasion.  VRX1 comes first: without a split it has  *)
(* to be as VRX0.                                                          *)
Reaction(t) ==
  IF ~ t.bF0changed /\ ~ t.bF1changed THEN "leave"
  ELSE CASE SplitMode = "None" -> IF t.bF1changed THEN "revert1" ELSE "queueRX"
         [] SplitMode = "FT8"  -> IF t.freq0 # CurrentTXfreq THEN "revert0" ELSE "leave"
         [] SplitMode = "TxRx" -> IF t.freq1 # CurrentTXfreq THEN "setTX" ELSE "leave"

Decide(h) ==
  /\ At(h, "decide")
  /\ Go(h, Reaction(thread[h]))
  /\ UNCHANGED <<sdruno, bBusy, lastF, dropped, queue, mode, CurrentTXfreq, form, RITchkbox,
                 tuner, observe>>

Revert(h) ==
  /\ \/ At(h, "revert1") /\ SetVfoFrequency(1, thread[h].freq0)
     \/ At(h, "revert0") /\ SetVfoFrequency(0, CurrentTXfreq)
  /\ Go(h, "leave")
  /\ UNCHANGED <<bBusy, lastF, dropped, queue, mode, CurrentTXfreq, form, RITchkbox, tuner,
                 observe>>

SendNothingForTX(h) ==
  /\ \/ /\ At(h, "setTX")
        /\ CurrentTXfreq' = thread[h].freq1
        /\ UNCHANGED queue
     \/ /\ At(h, "queueRX")
        /\ queue' = Append(queue, "RX")
        /\ UNCHANGED CurrentTXfreq
  /\ Go(h, "leave")
  /\ UNCHANGED <<sdruno, bBusy, lastF, dropped, mode, form, RITchkbox, tuner, observe>>

(* TX is set by VRX1; or it is to follow VRX0.                             *)
SendSerialMsg(h) ==
  /\ \/ /\ At(h, "setTX")
        /\ CurrentTXfreq' = thread[h].freq1
        /\ queue' = Append(queue, "TX")
     \/ /\ At(h, "queueRX")
        /\ queue' = Append(queue, "RX")
        /\ UNCHANGED CurrentTXfreq
  /\ Go(h, "leave")
  /\ UNCHANGED <<sdruno, bBusy, lastF, dropped, mode, form, RITchkbox, tuner, observe>>

Return(h) ==
  /\ At(h, "leave")
  /\ bBusy' = FALSE
  /\ thread' = [thread EXCEPT ![h] = Idle]
  /\ UNCHANGED <<sdruno, lastF, dropped, queue, mode, CurrentTXfreq, form, RITchkbox, tuner,
                 observe>>

HandleEvent(h) ==
  \/ Deliver(h) \/ Enter(h) \/ ReadVfo1(h) \/ Decide(h)
  \/ Revert(h) \/ SendSerialMsg(h) \/ Return(h)

-----------------------------------------------------------------------------
(* The form's thread: OnTimer.  A tick handles at most one of these        *)
(* messages; bRITchkbox is what the tuner's thread sees of the box.        *)

Step(from, to) == fpc = from /\ fpc' = to

OnTimer ==
  /\ fpc = "idle"
  /\ queue # <<>> \/ bRITchkbox # RITchkbox
  /\ bRITchkbox' = RITchkbox
  /\ IF queue = <<>> THEN UNCHANGED <<queue, fpc>>
     ELSE /\ queue' = Tail(queue)
          /\ fpc' = IF Head(queue) = "RX" THEN "rx" ELSE "tx"
  /\ UNCHANGED <<sdruno, handler, mode, CurrentTXfreq, tmp, LastTXfreq, told, RITchkbox, tuner,
                 observe>>

ReadRXfreqAlways ==
  /\ Step("rx", "rxSet")
  /\ tmp' = vfo[0]
  /\ UNCHANGED <<sdruno, handler, queue, mode, CurrentTXfreq, LastTXfreq, told, bRITchkbox,
                 RITchkbox, tuner, observe>>

(* SendRXfreq: VRX0's frequency, if the transmitter is to follow it.       *)
ReadRXfreq ==
  /\ IF TrackFreq THEN Step("rx", "rxSet") /\ tmp' = vfo[0]
                  ELSE Step("rx", "tx") /\ UNCHANGED tmp
  /\ UNCHANGED <<sdruno, handler, queue, mode, CurrentTXfreq, LastTXfreq, told, bRITchkbox,
                 RITchkbox, tuner, observe>>

SetRXfreq ==
  /\ Step("rxSet", "tx")
  /\ CurrentTXfreq' = tmp /\ tmp' = NoFreq
  /\ UNCHANGED <<sdruno, handler, queue, mode, LastTXfreq, told, bRITchkbox, RITchkbox, tuner,
                 observe>>

(* SendTXfreq: the frequency is written if it is not the last one ...      *)
SendTXfreq ==
  /\ \/ fpc = "tx" /\ fpc' = IF CurrentTXfreq = LastTXfreq THEN "idle" ELSE "vrx1"
     \/ Step("dataTx", "end0")
  /\ LastTXfreq' = CurrentTXfreq
  /\ told' = IF CurrentTXfreq = LastTXfreq THEN told ELSE CurrentTXfreq
  /\ UNCHANGED <<sdruno, handler, queue, mode, CurrentTXfreq, tmp, bRITchkbox, RITchkbox, tuner,
                 observe>>

(* ... and VRX1 is forced to it.                                           *)
ForceVrx1 ==
  /\ Step("vrx1", "idle")
  /\ IF vfo[1] # CurrentTXfreq /\ SplitMode # "FT8"
       THEN SetVfoFrequency(1, CurrentTXfreq) ELSE UNCHANGED sdruno
  /\ UNCHANGED <<handler, queue, mode, CurrentTXfreq, tmp, LastTXfreq, told, bRITchkbox,
                 RITchkbox, tuner, observe>>

(* SetRXFreq, on its own and in SetupDataMode; the second receiver of      *)
(* SwapTxRxFreq; and the end of SetupDataMode.                             *)
SetReceiver ==
  /\ \/ Step("rx0", "rx1") /\ SetVfoFrequency(0, CurrentTXfreq)
     \/ Step("rx1", "idle") /\ SetVfoFrequency(1, CurrentTXfreq)
     \/ Step("swap1", "idle") /\ SetVfoFrequency(1, tmp)
     \/ Step("data0", "data1") /\ SetVfoFrequency(0, CurrentTXfreq)
     \/ Step("data1", "dataTx") /\ SetVfoFrequency(1, CurrentTXfreq)
     \/ Step("end0", "end1") /\ SetVfoFrequency(0, CurrentTXfreq)
     \/ Step("end1", "idle") /\ SetVfoFrequency(1, CurrentTXfreq + TXDF)
  /\ tmp' = NoFreq
  /\ UNCHANGED <<handler, queue, mode, CurrentTXfreq, LastTXfreq, told, bRITchkbox, RITchkbox,
                 tuner, observe>>

Form == OnTimer \/ ReadRXfreq \/ SetRXfreq \/ SendTXfreq \/ ForceVrx1 \/ SetReceiver

-----------------------------------------------------------------------------
(* TunerServer: FreqIncr is EncoderSteps, with steps of one size.          *)

UseKnob ==
  /\ tpc = "idle" /\ EncoderSteps # 0
  /\ SplitMode # "FT8"
  /\ LET vrx == IF SplitMode = "None" \/ bRITchkbox THEN 0 ELSE 1 IN
       tune' = [vrx |-> vrx, freq |-> vfo[vrx] + EncoderSteps]
  /\ tpc' = "set"
  /\ EncoderSteps' = 0
  /\ UNCHANGED <<sdruno, handler, queue, mode, CurrentTXfreq, form, RITchkbox, observe>>

SetTuned ==
  /\ tpc = "set"
  /\ SetVfoFrequency(tune.vrx, tune.freq)
  /\ tune' = [vrx |-> 0, freq |-> NoFreq]
  /\ tpc' = "idle"
  /\ UNCHANGED <<handler, queue, mode, CurrentTXfreq, form, RITchkbox, EncoderSteps, observe>>

(* CTRL SHIFT F11 or F12 to WSJT-X, once the knob has gone round.          *)
SendKeys ==
  /\ tpc = "idle" /\ SplitMode = "FT8"
  /\ EncoderSteps > Revolution \/ EncoderSteps < - Revolution
  /\ EncoderSteps' = 0
  /\ UNCHANGED <<sdruno, handler, queue, mode, CurrentTXfreq, form, RITchkbox, tpc, tune, observe>>

Tuner == UseKnob \/ SetTuned \/ SendKeys

-----------------------------------------------------------------------------
(* Nothing is under way.                                                   *)
AtRest ==
  /\ events = 0 /\ \A h \in Handlers : thread[h] = Idle
  /\ queue = <<>> /\ fpc = "idle" /\ bRITchkbox = RITchkbox
  /\ tpc = "idle" /\ (EncoderSteps = 0 \/ SplitMode = "FT8")

(* What the end of SplitFT8 finds: steps of the knob that made no round,   *)
(* and VRX1 on WSJT-X's offset, where SendTXfreq leaves it if the          *)
(* transmitter has the frequency already.                                  *)
Leftovers(op) ==
  /\ SplitMode = "FT8"
  /\ \/ op \in {"Split", "TXup"} /\ EncoderSteps # 0
     \/ op = "Split" /\ vfo[1] # CurrentTXfreq

Happens(op) ==
  /\ op \in Ops
  /\ moves < MaxMoves /\ moves' = moves + 1
  /\ hurried' = (hurried \/ ~ AtRest \/ Leftovers(op))

(* The operator tunes a receiver in SDRuno.  In SplitFT8 any change takes  *)
(* VRX0 back to the transmitter's frequency.                               *)
TuneVRX0 ==
  /\ Happens("VRX0")
  /\ \E f \in Freqs \ {vfo[0]} :
       /\ vfo' = [vfo EXCEPT ![0] = f]
       /\ wanted' = CASE SplitMode = "None" -> [rx |-> f, tx |-> f]
                      [] SplitMode = "TxRx" -> [wanted EXCEPT !.rx = f]
                      [] SplitMode = "FT8"  -> [wanted EXCEPT !.rx = wanted.tx]
  /\ events' = events + 1
  /\ UNCHANGED <<handler, queue, mode, CurrentTXfreq, form, RITchkbox, tuner, forced>>

TuneVRX1 ==
  /\ Happens("VRX1")
  /\ \E f \in Freqs \ {vfo[1]} :
       /\ vfo' = [vfo EXCEPT ![1] = f]
       /\ wanted' = CASE SplitMode = "None" -> wanted
                      [] SplitMode = "TxRx" -> [wanted EXCEPT !.tx = f]
                      [] SplitMode = "FT8"  -> [wanted EXCEPT !.rx = wanted.tx]
  /\ events' = events + 1
  /\ UNCHANGED <<handler, queue, mode, CurrentTXfreq, form, RITchkbox, tuner, forced>>

TurnKnob ==
  /\ Happens("Knob")
  /\ tpc = "idle"
  /\ \E d \in {-1, 1} :
       /\ EncoderSteps' = EncoderSteps + d
       /\ wanted' = CASE SplitMode = "None" -> [rx |-> wanted.rx + d, tx |-> wanted.rx + d]
                      [] SplitMode = "TxRx" -> IF RITchkbox THEN [wanted EXCEPT !.rx = @ + d]
                                                            ELSE [wanted EXCEPT !.tx = @ + d]
                      [] SplitMode = "FT8"  -> wanted
  /\ UNCHANGED <<sdruno, handler, queue, mode, CurrentTXfreq, form, RITchkbox, tpc, tune, forced>>

(* Clicks and messages of WSJT-X and the transmitter, on the form's thread.*)
OnForm(op, to) == Happens(op) /\ Step("idle", to)

FixFreqBtnClicked ==
  /\ IF SplitMode # "None"
       THEN /\ OnForm("Split", "rx")
            /\ SplitMode' = "None" /\ TrackFreq' = TRUE
            /\ wanted' = [wanted EXCEPT !.tx = wanted.rx]
       ELSE /\ OnForm("Split", "idle")
            /\ SplitMode' = "TxRx" /\ TrackFreq' = FALSE
            /\ UNCHANGED wanted
  /\ UNCHANGED <<sdruno, handler, queue, CurrentTXfreq, tmp, LastTXfreq, told,
                 bRITchkbox, RITchkbox, tuner, forced>>

FixTXup ==
  /\ OnForm("TXup", "tx")
  /\ CurrentTXfreq' = CurrentTXfreq + TXupHz
  /\ TrackFreq' = FALSE
  /\ SplitMode' = IF TrackFreq THEN "TxRx" ELSE SplitMode
  /\ wanted' = [wanted EXCEPT !.tx = @ + TXupHz]
  /\ UNCHANGED <<sdruno, handler, queue, tmp, LastTXfreq, told, bRITchkbox,
                 RITchkbox, tuner, forced>>

ResetRXFreq ==
  /\ OnForm("RXtoTX", "rx0")
  /\ wanted' = [wanted EXCEPT !.rx = wanted.tx]
  /\ UNCHANGED <<sdruno, handler, queue, mode, CurrentTXfreq, tmp, LastTXfreq, told, bRITchkbox,
                 RITchkbox, tuner, forced>>

SwapTxRxFreq ==
  /\ OnForm("Swap", "swap1")
  /\ SplitMode = "TxRx"
  /\ tmp' = vfo[0]
  /\ SetVfoFrequency(0, vfo[1])
  /\ wanted' = [rx |-> wanted.tx, tx |-> wanted.rx]
  /\ UNCHANGED <<handler, queue, mode, CurrentTXfreq, LastTXfreq, told, bRITchkbox, RITchkbox,
                 tuner, forced>>

(* WSJT-X has changed frequency, or transmits.                             *)
SetupDataMode ==
  /\ \E f \in Freqs :
       /\ CurrentTXfreq' = f
       /\ OnForm("Data", IF CurrentTXfreq = f THEN "end0" ELSE "data0")
       /\ wanted' = [rx |-> f, tx |-> f]
  /\ SplitMode' = "FT8"
  /\ UNCHANGED <<sdruno, handler, queue, TrackFreq, tmp, LastTXfreq, told, bRITchkbox, RITchkbox,
                 tuner, forced>>

(* {~TX}: the frequency, and SendFreqCalToTX.                              *)
HearStart ==
  /\ OnForm("Restart", "rx")
  /\ told' = CurrentTXfreq
  /\ forced' = (forced \/ CurrentTXfreq # LastTXfreq)
  /\ UNCHANGED <<sdruno, handler, queue, mode, CurrentTXfreq, tmp, LastTXfreq, bRITchkbox,
                 RITchkbox, tuner, wanted>>

ClickRIT ==
  /\ Happens("RIT")
  /\ RITchkbox' = ~ RITchkbox
  /\ UNCHANGED <<sdruno, handler, queue, mode, CurrentTXfreq, form, tuner, wanted, forced>>

Outside ==
  \/ TuneVRX0 \/ TuneVRX1 \/ TurnKnob
  \/ FixFreqBtnClicked \/ FixTXup \/ ResetRXFreq \/ SwapTxRxFreq \/ ClickRIT
  \/ SetupDataMode \/ HearStart

(* Once nothing happens any more, everything comes to rest.                *)
Done == AtRest /\ moves = MaxMoves /\ UNCHANGED vars

Next == (\E h \in Handlers : HandleEvent(h)) \/ Form \/ Tuner \/ Outside \/ Done

Spec == Init /\ [][Next]_vars

(* SDRuno's threads, the form's and the tuner's go on; the rest need not.  *)
FairSpec ==
  /\ Spec
  /\ \A h \in Handlers : WF_vars(HandleEvent(h))
  /\ WF_vars(Form) /\ WF_vars(Tuner)

-----------------------------------------------------------------------------
TypeOK ==
  /\ vfo \in [{0, 1} -> Int] /\ lastF \in [{0, 1} -> Int] /\ events \in Nat
  /\ bBusy \in BOOLEAN
  /\ thread \in [Handlers -> [pc : {"idle", "enter", "freq1", "decide", "revert0", "revert1",
                                    "setTX", "queueRX", "leave"},
                              freq0 : Int, freq1 : Int, bF0changed : BOOLEAN,
                              bF1changed : BOOLEAN]]
  /\ queue \in Seq({"RX", "TX"})
  /\ SplitMode \in {"None", "TxRx", "FT8"} /\ TrackFreq \in BOOLEAN
  /\ CurrentTXfreq \in Int /\ LastTXfreq \in Int
  /\ fpc \in {"idle", "rx", "rxSet", "tx", "vrx1", "rx0", "rx1", "swap1", "data0", "data1",
              "dataTx", "end0", "end1"}
  /\ tmp \in Int /\ told \in Int
  /\ RITchkbox \in BOOLEAN /\ bRITchkbox \in BOOLEAN
  /\ EncoderSteps \in Int /\ tpc \in {"idle", "set"}
  /\ tune \in [vrx : {0, 1}, freq : Int]
  /\ moves \in 0 .. MaxMoves
  /\ wanted \in [rx : Int, tx : Int] /\ hurried \in BOOLEAN /\ dropped \in BOOLEAN
  /\ forced \in BOOLEAN

(* When everything has come to rest the receivers and the transmitter have *)
(* the frequencies the operator and WSJT-X want, if each of them waited    *)
(* for the last change to settle and the busy flag dropped no event.       *)
AsWanted ==
  AtRest /\ ~ hurried /\ ~ dropped =>
    /\ vfo[0] = wanted.rx
    /\ CurrentTXfreq = wanted.tx
    /\ SplitMode # "FT8" => vfo[1] = wanted.tx

(* However fast it is tuned and whatever events are dropped, the           *)
(* transmitter is told the form's frequency in the end; unless a restart   *)
(* was answered with one that LastTXfreq does not know of.                 *)
ToldAtRest == AtRest /\ ~ forced => told = CurrentTXfreq

(* The program's corrections of the receivers, which are changes again,    *)
(* come to an end, unless something happens on top of them or an event is  *)
(* dropped.                                                                *)
Settles == [](~ hurried /\ ~ dropped) => <>[]AtRest

-----------------------------------------------------------------------------
(* What comments in the code say, and the code does not do.                *)

(* "same RxTx, both vrx0 & vrx1 track same freq" (SplitNone).              *)
TracksVRX0 ==
  AtRest /\ SplitMode = "None" => vfo[1] = vfo[0] /\ CurrentTXfreq = vfo[0]

(* "force VRX0 back to it" (SplitFT8): but not if it is moved to the same  *)
(* frequency again before the first correction is reported.                *)
ForcedBack == AtRest /\ SplitMode = "FT8" => vfo[0] = CurrentTXfreq

(* "avoid iterative changes caused by RX/TX swaps etc": the lock that this *)
(* is said of is commented out, and HandleEvent and SendTXfreq may take    *)
(* turns for ever, each setting what the other then follows.               *)
NeverIterates == <>[]AtRest

=============================================================================
