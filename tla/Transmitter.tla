----------------------------- MODULE Transmitter ----------------------------
(***************************************************************************)
(* The Arduino transmitter, TXlink4_Nano.ino: one thread that runs loop()  *)
(* for ever, keys the relays and the DDS for a Morse key or for digital    *)
(* messages, measures SWR and temperature, and executes the commands that  *)
(* arrive on the serial port.                                              *)
(*                                                                         *)
(* Commands are executed in four places: at the bottom of loop(), during   *)
(* the delay before a digital transmission, during each FT4/FT8 tone and   *)
(* during each RTTY bit.  pc names the place.  The order of commands,      *)
(* measurements and the firmware's own steps is what this module is about; *)
(* frequencies, PWM values and the text of replies are left out.           *)
(*                                                                         *)
(* Time is counted in ticks, the time of one pass of a waiting loop.       *)
(***************************************************************************)
EXTENDS Integers

CONSTANTS
  FT8Messages, FT4Messages,  \* symbol lists of 79 and of 105 digits
  TuneMessages,              \* those that are all zeros
  FT8TxMsgErr,               \* "ERROR G4AHN", one of the FT8 lists
  NoSymbols,                 \* tx_buffer as the compiler leaves it: zeros
  DFs,                       \* audio offsets {Y} may ask for
  SymbolCount,               \* symbols per message, by mode
  ToneTicks,                 \* ticks per tone, by mode
  SyncTicks,                 \* FT4: part of the period it may not use
  KillTicks,                 \* too little time left to be decoded, by mode
  TruncTicks,                \* less than this: leave out the start, by mode
  BufferSize,                \* length of tx_buffer
  TxDelay,                   \* FT8txDelay in ticks, by mode
  TXholdTime,                \* ticks after key up before the relays drop
  EndTimes,                  \* what {W} may carry: ticks to the end of the period,
                             \* just below zero when it is as good as over
  Ops,                       \* commands the host uses
  MaxElapsed                 \* bound on the ticks counted within one message

Digital  == {"FT8", "FT4"}
Modes    == Digital \union {"RTTY"}
Messages == FT8Messages \union FT4Messages

ASSUME TransmitterAssumption ==
  /\ TuneMessages \subseteq Messages
  /\ FT8TxMsgErr \in FT8Messages \ TuneMessages
  /\ FT8Messages \intersect FT4Messages = {}
  /\ NoSymbols \notin Messages
  /\ 0 \in DFs
  /\ SymbolCount \in [Digital -> Nat \ {0}]
  /\ ToneTicks \in [Digital -> Nat \ {0}]
  /\ SyncTicks \in [Digital -> Nat]
  /\ KillTicks \in [Digital -> Nat]
  /\ TruncTicks \in [Digital -> Nat]
  /\ BufferSize \in Nat
  /\ \A m \in Digital : /\ SymbolCount[m] <= BufferSize
                         /\ SymbolCount[m] * ToneTicks[m] <= TruncTicks[m] + 1
  /\ TxDelay \in [Modes -> Nat]
  /\ TXholdTime \in Nat
  /\ EndTimes \subseteq Int
  /\ \A t \in EndTimes : t <= MaxElapsed
  /\ MaxElapsed \in Nat

VARIABLES
  pc,                \* place in the program
  \* pins and DDS
  keyOut,            \* KeyOut low: RF passes the level shaper
  txOut,             \* TXout high: antenna relay and local amplifier
  extPAout,          \* ExtPAout high: external amplifier keyed
  dds,               \* DDS powered up
  \* settings
  TXPowerOn, TXlevel, LocalPAactive, ExtPAon,
  \* keying
  KeyIn,             \* the Morse key, closed or not
  KeyDownActive,
  LastKeyUp,         \* ticks since key up, or NotHolding (LastKeyUpMillis = 0)
  \* digital modes
  DigiTxOn, FTxMillisToEnd,
  TxMode, tone_duration, FTxTxDF, FTxTxMsg, tx_buffer,
  Tune,              \* TuneChk = 0
  FTxTxLastDF, FTxTxMsgChanged,
  \* locals of DigitalTXmsg and of the delay loop
  i, n, elapsed, delayLeft,
  \* outside the transmitter
  rxMuted,           \* {M} was the last of {M} and {N} sent to the host
  \* observers, read by no action
  run,               \* what the message on the air started as
  locked             \* a lockout happened and no command was executed since

pins      == <<keyOut, txOut, extPAout>>
amplifier == <<TXlevel, LocalPAactive, ExtPAon>>
keying    == <<KeyDownActive, LastKeyUp>>
switch    == <<DigiTxOn, FTxMillisToEnd>>
request   == <<TxMode, tone_duration, FTxTxDF, FTxTxMsg, tx_buffer, Tune>>
change    == <<FTxTxLastDF, FTxTxMsgChanged>>
locals    == <<i, n, elapsed, delayLeft>>
observers == <<run, locked>>
vars == <<pc, pins, dds, TXPowerOn, amplifier, KeyIn, keying, switch, request,
          change, locals, rxMuted, observers>>

NotHolding == -1

Idle == [msg |-> NoSymbols, df |-> 0, fits |-> FALSE]

(* Start-up: FT8, and the error message for want of another, but not yet   *)
(* converted to symbols.                                                   *)
Init ==
  /\ pc = "loop"
  /\ keyOut = FALSE /\ txOut = FALSE /\ extPAout = FALSE /\ dds = FALSE
  /\ TXPowerOn = FALSE /\ TXlevel = 0 /\ LocalPAactive = FALSE /\ ExtPAon = FALSE
  /\ KeyIn = FALSE /\ KeyDownActive = FALSE /\ LastKeyUp = NotHolding
  /\ DigiTxOn = FALSE /\ FTxMillisToEnd = MaxElapsed
  /\ TxMode = "FT8" /\ tone_duration = ToneTicks["FT8"] /\ FTxTxDF = 0
  /\ FTxTxMsg = FT8TxMsgErr /\ tx_buffer = NoSymbols /\ Tune = TRUE
  /\ FTxTxLastDF = 0 /\ FTxTxMsgChanged = FALSE
  /\ i = 0 /\ n = 0 /\ elapsed = 0 /\ delayLeft = 0
  /\ rxMuted = FALSE
  /\ run = Idle /\ locked = FALSE

-----------------------------------------------------------------------------
(* DigitalTXmsg's arithmetic.                                              *)

MinOf(a, b) == IF a <= b THEN a ELSE b

(* symbol_count is -1 in RTTY mode.                                        *)
symbol_count(mode) == IF mode = "RTTY" THEN -1 ELSE SymbolCount[mode]

(* i < symbol_count, with i unsigned: -1 is the largest number there is.   *)
BeforeUnbounded(k, mode) == k >= 0

Before(k, mode) ==
  k >= 0 /\ (mode = "RTTY" \/ k < symbol_count(mode))

(* (millis() - tStart) > FTxMillisToEnd, an unsigned comparison; part of a *)
(* tick has always gone.                                                   *)
BeyondNotZero(t, left) == left > 0 /\ t >= left

Beyond(t, left) == left >= 0 /\ t >= left

(* Where in the symbol list to begin when left ticks remain.  RTTY uses    *)
(* the FT8 limits.                                                         *)
AdjustStartWhole(mode, tone, left) ==
  IF left - SyncTicks[IF mode = "FT4" THEN "FT4" ELSE "FT8"] < KillTicks["FT8"]
    THEN symbol_count(mode) ELSE 0

AdjustStartUnchecked(mode, tone, left) == symbol_count(mode) - left \div tone

AdjustStart(mode, tone, left) ==
  LET limits   == IF mode = "FT4" THEN "FT4" ELSE "FT8"
      TimeLeft == left - SyncTicks[limits]
      late     == symbol_count(mode) - TimeLeft \div tone
      clipped  == IF late < 0 THEN 0 ELSE late
  IN IF TimeLeft < KillTicks[limits] THEN symbol_count(mode)
     ELSE IF TimeLeft <= TruncTicks[limits] THEN MinOf(clipped, symbol_count(mode))
     ELSE 0

-----------------------------------------------------------------------------
(* The list has the length of the mode.                                    *)
Fits(msg, mode) ==
  msg \in IF mode = "FT8" THEN FT8Messages ELSE FT4Messages

(* What the message on the air starts as; it fits when the last {Z} could  *)
(* be taken as it is.                                                      *)
Run == [msg  |-> tx_buffer,
        df   |-> FTxTxDF,
        fits |-> tx_buffer = FTxTxMsg /\ Fits(tx_buffer, TxMode)]

(* {M} and {N}: sent only when TXPowerOn or TXlevel is set.                *)
Reports == TXPowerOn \/ TXlevel # 0

(* A pass of SWRmeasure and the time it stands for: nothing happens, or an *)
(* average is complete that CheckFanState finds too hot or badly matched   *)
(* and answers with the lockout.                                           *)
Measure(trip) ==
  /\ dds' = (dds /\ ~ trip)
  /\ TXPowerOn' = (TXPowerOn /\ ~ trip)
  /\ DigiTxOn' = (DigiTxOn /\ ~ trip)
  /\ FTxMillisToEnd' = IF trip THEN 0 ELSE FTxMillisToEnd
  /\ rxMuted' = (rxMuted /\ ~ (trip /\ Reports))
  /\ locked' = (locked \/ trip)
  /\ UNCHANGED <<pins, amplifier, KeyIn, KeyDownActive, request, change, run>>

-----------------------------------------------------------------------------
(* The key-up timer: LastKeyUpMillis is set when the key goes up, and back *)
(* to zero when it goes down or the relays have dropped.                   *)

StartHoldAgain == LastKeyUp' = IF KeyDownActive THEN 0 ELSE LastKeyUp

StartHold ==
  LastKeyUp' = IF LastKeyUp = NotHolding /\ KeyDownActive THEN 0 ELSE LastKeyUp

ResetHoldSkipped == UNCHANGED LastKeyUp

ResetHold == LastKeyUp' = NotHolding

-----------------------------------------------------------------------------
(* loop(): key the relays, then the RF; or let go of both.                 *)

WantsTx == (KeyIn \/ DigiTxOn) /\ TXPowerOn

(* The operator's key.  Only loop() looks at it.                           *)
MoveKey ==
  /\ "Key" \in Ops
  /\ pc = "loop"
  /\ KeyIn' = ~ KeyIn
  /\ UNCHANGED <<pc, pins, dds, TXPowerOn, amplifier, keying, switch, request,
                 change, locals, rxMuted, observers>>

(* DDS on, relays over, {M} to the host; a digital message is then held    *)
(* back by the TX delay, which is that of the mode there is now.           *)
SwitchToTx ==
  /\ pc = "loop"
  /\ WantsTx
  /\ ~ KeyDownActive
  /\ dds' = TRUE
  /\ KeyDownActive' = TRUE
  /\ txOut' = (txOut \/ LocalPAactive)
  /\ extPAout' = (extPAout \/ (LocalPAactive /\ ExtPAon))
  /\ rxMuted' = TRUE
  /\ IF DigiTxOn
       THEN pc' = "delay" /\ delayLeft' = TxDelay[TxMode]
       ELSE pc' = "key" /\ UNCHANGED delayLeft
  /\ UNCHANGED <<keyOut, TXPowerOn, amplifier, KeyIn, LastKeyUp, switch, request,
                 change, i, n, elapsed, observers>>

AlreadyTx ==
  /\ pc = "loop"
  /\ WantsTx
  /\ KeyDownActive
  /\ pc' = "key"
  /\ UNCHANGED <<pins, dds, TXPowerOn, amplifier, KeyIn, keying, switch, request,
                 change, locals, rxMuted, observers>>

(* One pass of the delay loop: measure, then the serial port.              *)
DelayTick(trip) ==
  /\ pc = "delay"
  /\ delayLeft > 0
  /\ delayLeft' = delayLeft - 1
  /\ Measure(trip)
  /\ pc' = "delaySerial"
  /\ UNCHANGED <<LastKeyUp, i, n, elapsed>>

DelayOver ==
  /\ pc = "delay"
  /\ delayLeft = 0
  /\ pc' = "key"
  /\ UNCHANGED <<pins, dds, TXPowerOn, amplifier, KeyIn, keying, switch, request,
                 change, locals, rxMuted, observers>>

(* Key down.  A Morse key needs no more.                                   *)
KeyDown ==
  /\ pc = "key"
  /\ ~ DigiTxOn
  /\ keyOut' = TRUE
  /\ ResetHold
  /\ pc' = "background"
  /\ UNCHANGED <<txOut, extPAout, dds, TXPowerOn, amplifier, KeyIn, KeyDownActive,
                 switch, request, change, locals, rxMuted, observers>>

KeyDownRtty ==
  /\ pc = "key"
  /\ DigiTxOn
  /\ TxMode = "RTTY"
  /\ keyOut' = TRUE
  /\ pc' = "rtty"
  /\ UNCHANGED <<txOut, extPAout, dds, TXPowerOn, amplifier, KeyIn, keying, switch,
                 request, change, locals, rxMuted, observers>>

(* A digital message is sent from here, by DigitalTXmsg.                   *)
KeyDownDigital ==
  /\ pc = "key"
  /\ DigiTxOn
  /\ TxMode # "RTTY"
  /\ keyOut' = TRUE
  /\ pc' = "tone"
  /\ FTxTxLastDF' = FTxTxDF
  /\ FTxTxMsgChanged' = FALSE
  /\ i' = AdjustStart(TxMode, tone_duration, FTxMillisToEnd)
  /\ n' = 0
  /\ elapsed' = 0
  /\ run' = Run
  /\ UNCHANGED <<txOut, extPAout, dds, TXPowerOn, amplifier, KeyIn, keying, switch,
                 request, delayLeft, rxMuted, locked>>

(* The else branch of loop(): RF off at once, the relays when the hold     *)
(* time is over.                                                           *)
KeyUp ==
  /\ pc = "loop"
  /\ ~ WantsTx
  /\ LastKeyUp < TXholdTime
  /\ keyOut' = FALSE
  /\ StartHold
  /\ pc' = "background"
  /\ UNCHANGED <<txOut, extPAout, dds, TXPowerOn, amplifier, KeyIn, KeyDownActive,
                 switch, request, change, locals, rxMuted, observers>>

SwitchToRx ==
  /\ pc = "loop"
  /\ ~ WantsTx
  /\ LastKeyUp >= TXholdTime
  /\ keyOut' = FALSE
  /\ KeyDownActive' = FALSE
  /\ rxMuted' = (rxMuted /\ ~ Reports)
  /\ extPAout' = FALSE
  /\ txOut' = FALSE
  /\ dds' = FALSE
  /\ ResetHold
  /\ pc' = "background"
  /\ UNCHANGED <<TXPowerOn, amplifier, KeyIn, switch, request, change, locals,
                 observers>>

(* The bottom of loop().                                                   *)
Background(trip) ==
  /\ pc = "background"
  /\ Measure(trip)
  /\ LastKeyUp' = IF LastKeyUp = NotHolding THEN NotHolding
                  ELSE MinOf(LastKeyUp + 1, TXholdTime + 1)
  /\ pc' = "loopSerial"
  /\ UNCHANGED locals

-----------------------------------------------------------------------------
(* DigitalTXmsg.                                                           *)

(* The end of the message: RF removed, key up; loop() clears the key-up    *)
(* timer.                                                                  *)
EndMessage ==
  /\ dds' = FALSE
  /\ DigiTxOn' = FALSE
  /\ ResetHold
  /\ i' = 0
  /\ n' = 0
  /\ elapsed' = 0
  /\ run' = Idle
  /\ pc' = "background"

(* The for loop's test and the next tone.                                  *)
StartTone ==
  /\ pc = "tone"
  /\ Before(i, TxMode)
  /\ dds' = TRUE
  /\ pc' = "wait"
  /\ UNCHANGED <<pins, TXPowerOn, amplifier, KeyIn, keying, switch, request, change,
                 locals, rxMuted, observers>>

NoMoreTones ==
  /\ pc = "tone"
  /\ ~ Before(i, TxMode)
  /\ EndMessage
  /\ UNCHANGED <<pins, TXPowerOn, amplifier, KeyIn, KeyDownActive, FTxMillisToEnd,
                 request, change, delayLeft, rxMuted, locked>>

(* millis() - tStart - n * tone_duration, negative when the tones sent are *)
(* longer than the time gone, which the unsigned test takes for very late. *)
InTone == elapsed - n * tone_duration

StillWaiting ==
  /\ InTone >= 0
  /\ InTone < tone_duration
  /\ FTxMillisToEnd > 0

ToneTick(trip) ==
  /\ pc = "wait"
  /\ StillWaiting
  /\ elapsed' = elapsed + 1
  /\ Measure(trip)
  /\ pc' = "toneSerial"
  /\ UNCHANGED <<LastKeyUp, i, n, delayLeft>>

(* After a tone: stay at the second symbol when tuning, and stop when      *)
(* switched off and the time is up.  k is the loop counter, t the time     *)
(* since tStart, c the tones sent before this one.  A Tune may last for    *)
(* ever: beyond MaxElapsed its counters grow no more.                      *)
NextTone(k, c, t) ==
  /\ pc' = "tone"
  /\ i' = MinOf((IF Tune THEN 1 ELSE k) + 1, BufferSize + 1)
  /\ IF t > MaxElapsed
       THEN elapsed' = t - tone_duration /\ n' = c
       ELSE elapsed' = t /\ n' = MinOf(c + 1, MaxElapsed + 1)
  /\ UNCHANGED <<dds, DigiTxOn, LastKeyUp>>

SwitchedOff(t, left) == ~ DigiTxOn /\ Beyond(t, left)

ToneOver ==
  /\ pc = "wait"
  /\ ~ StillWaiting
  /\ ~ SwitchedOff(elapsed, FTxMillisToEnd)
  /\ NextTone(i, n, elapsed)
  /\ UNCHANGED <<pins, TXPowerOn, amplifier, KeyIn, KeyDownActive, FTxMillisToEnd,
                 request, change, delayLeft, rxMuted, observers>>

TimeUp ==
  /\ pc = "wait"
  /\ ~ StillWaiting
  /\ SwitchedOff(elapsed, FTxMillisToEnd)
  /\ EndMessage
  /\ UNCHANGED <<pins, TXPowerOn, amplifier, KeyIn, KeyDownActive, FTxMillisToEnd,
                 request, change, delayLeft, rxMuted, locked>>

ChangedOffset == FTxTxDF # FTxTxLastDF

ChangedMessage == FTxTxMsgChanged

Changed == FTxTxMsgChanged \/ FTxTxDF # FTxTxLastDF

(* The serial port has been read during a tone, and brought a new message  *)
(* or offset: the message starts again, fitted into the time left.  The    *)
(* loop counter is set, and then counted on by the for loop.               *)
Restart ==
  LET left == FTxMillisToEnd - elapsed IN
  /\ pc = "toneSerial"
  /\ Changed
  /\ FTxMillisToEnd' = left
  /\ FTxTxMsgChanged' = FALSE
  /\ FTxTxLastDF' = FTxTxDF
  /\ \/ /\ SwitchedOff(0, left)
        /\ EndMessage
     \/ /\ ~ SwitchedOff(0, left)
        /\ NextTone(AdjustStart(TxMode, tone_duration, left), -1, 0)
        /\ run' = Run
  /\ UNCHANGED <<pins, TXPowerOn, amplifier, KeyIn, KeyDownActive, request, delayLeft,
                 rxMuted, locked>>

(* Back from the serial port, in each of the places that read it.          *)
SerialDone ==
  /\ \/ pc = "delaySerial" /\ pc' = "delay"
     \/ pc = "loopSerial"  /\ pc' = "loop"
     \/ pc = "rttySerial"  /\ pc' = "rtty"
     \/ pc = "toneSerial"  /\ ~ Changed /\ pc' = "wait"
  /\ UNCHANGED <<pins, dds, TXPowerOn, amplifier, KeyIn, keying, switch, request,
                 change, locals, rxMuted, observers>>

-----------------------------------------------------------------------------
(* transmitRttyString, as far as the keying is concerned: RttyQueue has    *)
(* the texts.  Each bit powers the DDS up and services the measurements    *)
(* and the serial port in turn.                                            *)

RttyBit ==
  /\ pc = "rtty"
  /\ dds' = TRUE
  /\ pc' = "rttyBit"
  /\ UNCHANGED <<pins, TXPowerOn, amplifier, KeyIn, keying, switch, request, change,
                 locals, rxMuted, observers>>

RttyService(trip) ==
  /\ pc = "rttyBit"
  /\ Measure(trip)
  /\ pc' = "rttySerial"
  /\ UNCHANGED <<LastKeyUp, locals>>

RttyEnd ==
  /\ pc = "rtty"
  /\ EndMessage
  /\ UNCHANGED <<pins, TXPowerOn, amplifier, KeyIn, KeyDownActive, FTxMillisToEnd,
                 request, change, delayLeft, rxMuted, locked>>

-----------------------------------------------------------------------------
(* ProcessSerialIn: one command.                                           *)

AtSerialPort == pc \in {"delaySerial", "toneSerial", "loopSerial", "rttySerial"}

Command(op) ==
  /\ op \in Ops
  /\ AtSerialPort
  /\ locked' = FALSE
  /\ UNCHANGED <<pc, pins, KeyIn, keying, locals, rxMuted>>

PowerDownCommand ==    \* {D}
  /\ Command("D")
  /\ dds' = FALSE
  /\ TXPowerOn' = FALSE
  /\ UNCHANGED <<amplifier, switch, request, change, run>>

PowerUpCommand ==      \* {U}
  /\ Command("U")
  /\ dds' = FALSE
  /\ TXPowerOn' = TRUE
  /\ UNCHANGED <<amplifier, switch, request, change, run>>

LevelCommand(level) == \* {L}
  /\ Command("L")
  /\ TXlevel' = level
  /\ LocalPAactive' = (level >= 0)
  /\ UNCHANGED <<dds, TXPowerOn, ExtPAon, switch, request, change, run>>

ExtPACommand(on) ==    \* {Q}
  /\ Command("Q")
  /\ ExtPAon' = on
  /\ UNCHANGED <<dds, TXPowerOn, TXlevel, LocalPAactive, switch, request, change, run>>

CalibrationCommand ==  \* {C}
  /\ Command("C")
  /\ dds' = TXPowerOn
  /\ UNCHANGED <<TXPowerOn, amplifier, switch, request, change, run>>

FrequencyCommand ==    \* {F}
  /\ Command("F")
  /\ dds' = FALSE
  /\ UNCHANGED <<TXPowerOn, amplifier, switch, request, change, run>>

(* {M}, and setDigDefaults: RTTY keeps the tone duration there was.        *)
ModeCommand(mode) ==
  /\ Command("M")
  /\ TxMode' = mode
  /\ tone_duration' = IF mode \in Digital \ {TxMode} THEN ToneTicks[mode]
                      ELSE tone_duration
  /\ run' = [run EXCEPT !.fits = @ /\ mode = TxMode]
  /\ UNCHANGED <<dds, TXPowerOn, amplifier, switch, FTxTxDF, FTxTxMsg, tx_buffer, Tune,
                 change>>

EndTimeCommand(t) ==   \* {W}
  /\ Command("W")
  /\ FTxMillisToEnd' = t
  /\ DigiTxOn' = (DigiTxOn /\ t # 0)
  /\ UNCHANGED <<dds, TXPowerOn, amplifier, request, change, run>>

DigiCommand(on) ==     \* {X}
  /\ Command("X")
  /\ DigiTxOn' = on
  /\ UNCHANGED <<dds, TXPowerOn, amplifier, FTxMillisToEnd, request, change, run>>

OffsetCommand(df) ==   \* {Y}
  /\ Command("Y")
  /\ FTxTxDF' = df
  /\ UNCHANGED <<dds, TXPowerOn, amplifier, switch, TxMode, tone_duration, FTxTxMsg,
                 tx_buffer, Tune, change, run>>

(* {Z} when the mode is not RTTY, and set_digital_tx_buffer: a list of the *)
(* wrong length becomes the error message, the FT8 one in FT4 mode too.    *)
MessageCommand(msg) ==
  /\ Command("Z")
  /\ TxMode # "RTTY"
  /\ FTxTxMsg' = msg
  /\ FTxTxMsgChanged' = (FTxTxMsgChanged \/ msg # FTxTxMsg)
  /\ tx_buffer' = IF Fits(msg, TxMode) THEN msg ELSE FT8TxMsgErr
  /\ Tune' = (tx_buffer' \in TuneMessages)
  /\ UNCHANGED <<dds, TXPowerOn, amplifier, switch, TxMode, tone_duration, FTxTxDF,
                 FTxTxLastDF, run>>

-----------------------------------------------------------------------------
Measurement ==
  \E trip \in {FALSE} \union (IF "Trip" \in Ops THEN {TRUE} ELSE {}) :
    DelayTick(trip) \/ Background(trip) \/ ToneTick(trip) \/ RttyService(trip)

Firmware ==
  \/ SwitchToTx \/ AlreadyTx \/ DelayOver
  \/ KeyDown \/ KeyDownRtty \/ KeyDownDigital \/ KeyUp \/ SwitchToRx
  \/ StartTone \/ NoMoreTones \/ ToneOver \/ TimeUp \/ Restart
  \/ RttyBit \/ RttyEnd
  \/ SerialDone
  \/ Measurement

(* The host never sends the error message: it is the firmware's own.       *)
SerialCommand ==
  \/ PowerDownCommand \/ PowerUpCommand \/ CalibrationCommand \/ FrequencyCommand
  \/ \E level \in {-1, 0, 1} : LevelCommand(level)
  \/ \E on \in BOOLEAN : ExtPACommand(on) \/ DigiCommand(on)
  \/ \E mode \in Modes : ModeCommand(mode)
  \/ \E t \in EndTimes : EndTimeCommand(t)
  \/ \E df \in DFs : OffsetCommand(df)
  \/ \E msg \in Messages \ {FT8TxMsgErr} : MessageCommand(msg)

Next == MoveKey \/ Firmware \/ SerialCommand

Spec == Init /\ [][Next]_vars

(* The processor runs: ProcessSerialIn returns when the bytes that came in *)
(* are used up, so commands cannot hold up the firmware for ever.  RTTY    *)
(* texts come to an end.                                                   *)
FairSpec == Spec /\ WF_vars(Firmware) /\ WF_vars(SerialDone) /\ SF_vars(RttyEnd)
-----------------------------------------------------------------------------
(* Properties.                                                             *)

InLoop    == {"loop", "background", "loopSerial"}
InDelay   == {"delay", "delaySerial"}
InMessage == {"tone", "wait", "toneSerial"}
InRtty    == {"rtty", "rttyBit", "rttySerial"}

Runs == [msg : Messages \union {NoSymbols}, df : DFs, fits : BOOLEAN]

PinsOK ==
  /\ keyOut \in BOOLEAN /\ txOut \in BOOLEAN /\ extPAout \in BOOLEAN
  /\ KeyIn \in BOOLEAN /\ KeyDownActive \in BOOLEAN /\ rxMuted \in BOOLEAN

SwitchesOK ==
  /\ dds \in BOOLEAN /\ TXPowerOn \in BOOLEAN /\ DigiTxOn \in BOOLEAN
  /\ LocalPAactive \in BOOLEAN /\ ExtPAon \in BOOLEAN

MarksOK ==
  /\ Tune \in BOOLEAN /\ FTxTxMsgChanged \in BOOLEAN
  /\ locked \in BOOLEAN

CountersOK ==
  /\ TXlevel \in {-1, 0, 1}
  /\ LastKeyUp \in NotHolding .. TXholdTime + 1
  /\ FTxMillisToEnd \in Int /\ tone_duration \in Nat \ {0}
  /\ i \in Nat /\ n \in Int /\ elapsed \in Int /\ delayLeft \in Nat

NamesOK ==
  /\ pc \in InLoop \union InDelay \union {"key"} \union InMessage \union InRtty
  /\ TxMode \in Modes /\ FTxTxDF \in DFs /\ FTxTxLastDF \in DFs
  /\ FTxTxMsg \in Messages /\ tx_buffer \in Messages \union {NoSymbols}
  /\ run \in Runs

TypeOK == PinsOK /\ SwitchesOK /\ MarksOK /\ CountersOK /\ NamesOK

(* RF passes only behind relays that are over, the external amplifier is   *)
(* keyed only along with the local one, and a hold time runs only with the *)
(* RF off: the order in which loop() moves its pins, whatever the key, the *)
(* messages, the lockout and the commands do in between.                   *)
PttSequence ==
  /\ keyOut => KeyDownActive
  /\ txOut => KeyDownActive
  /\ extPAout => txOut
  /\ pc \in InLoop /\ LastKeyUp # NotHolding => KeyDownActive /\ ~ keyOut

(* The relays never move, either way, while the level shaper passes RF.    *)
NoHotSwitching ==
  [][txOut' # txOut \/ extPAout' # extPAout => ~ keyOut]_vars

(* After the temperature and SWR lockout the DDS stays off until the host  *)
(* sends a command.  RTTY is left out, see LockoutIsFinal.                 *)
LockoutHolds ==
  [][locked /\ pc \notin InRtty => (dds' => dds)]_vars

(* Every tone on the air is one of the message, and at the offset, that    *)
(* the present run began with: a new message never continues an old one.   *)
(* It holds while the list is the one sent and for the mode, which is not  *)
(* so when the mode changes in the middle or without a new message.        *)
NoMixedMessage ==
  pc = "wait" /\ run.fits => tx_buffer = run.msg /\ FTxTxDF = run.df

(* AdjustStart leaves out enough tones for the rest to end with the time   *)
(* {W} gave, when a message starts and when it starts again.               *)
MessageFits ==
  [][/\ pc \in {"key", "toneSerial"}
     /\ pc' = "tone"
     /\ TxMode \in Digital
     /\ ~ Tune
     /\ i' < SymbolCount[TxMode]
     => (SymbolCount[TxMode] - i') * tone_duration + SyncTicks[TxMode]
          <= FTxMillisToEnd']_vars

(* With the key up and the digital switch off for good, the relays drop;   *)
(* but a Tune whose time is below zero never ends, see HaltHeard.          *)
RelaysDrop ==
  <>[](~ KeyIn /\ ~ DigiTxOn /\ (Tune => FTxMillisToEnd >= 0)) => <>[](~ KeyDownActive)

(* The serial port is read again and again, so that a command is heard     *)
(* whatever is on the air but a Tune, see HaltHeard.                       *)
PortServed == []<>(Tune \/ AtSerialPort)

-----------------------------------------------------------------------------
(* What comments in the code say, and the code does not do.                *)

(* "{D} Power Down (TX off)"; of the lockout, "requires user to power up   *)
(* (TX On) again from UI": powered down, the DDS is not powered up.        *)
OffMeansOff == [][~ TXPowerOn /\ ~ dds => ~ dds']_vars

(* "force immediate exit from Digital tx loop": a lockout is the last of   *)
(* the DDS, in RTTY too, if no command comes.                              *)
LockoutIsFinal == [][locked => (dds' => dds)]_vars

(* "check output tone duration and also for {W0} abort command": also when *)
(* tuning.                                                                 *)
HaltHeard == []<>AtSerialPort

(* "{N} Un-mute": the receiver is not left muted when TX is over.          *)
Unmutes == ~ KeyDownActive => ~ rxMuted

(* "check if msg (symbols) or TX freq has been changed by user and adjust  *)
(* msg to suit time left in period": with time for all of it, all of it is *)
(* sent.                                                                   *)
RestartsAtStart ==
  [][/\ pc = "toneSerial"
     /\ pc' = "tone"
     /\ TxMode \in Digital
     /\ ~ Tune
     /\ FTxMillisToEnd' - SyncTicks[TxMode] > TruncTicks[TxMode]
     => i' = 0]_vars

(* "MAIN LOOP to TX each FT4/FT4 tone required from symbol list": a tone   *)
(* comes from the list.                                                    *)
TonesFromList == pc = "wait" => i < BufferSize
=============================================================================
