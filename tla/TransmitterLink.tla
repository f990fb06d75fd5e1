--------------------------- MODULE TransmitterLink --------------------------
(***************************************************************************)
(* The serial line between SDRunoPlugin_TXLinkForm and the transmitter:    *)
(* settings one way, {~TX}, {M}, {N} and {D} the other.  Each side acts on *)
(* what it last heard while the other's messages are still on the way, the *)
(* transmitter resets on its own or because the port is opened, and the    *)
(* port may go away (SimpleSerial).                                        *)
(*                                                                         *)
(* The form's handlers are atomic: they and the operator's clicks share    *)
(* the form's thread.  The transmitter takes one command at a time, and    *)
(* its keying is that of module Transmitter with its details left out.     *)
(* {B} {C} {H} {P} {R} {T} {V}, the SWR readings and the labels are left   *)
(* out; SplitMode stays SplitNone, where the receiver sets the frequency.  *)
(***************************************************************************)
EXTENDS Naturals, Sequences, SequencesExt

CONSTANTS
  Freqs,        \* frequencies of VRX0
  Levels,       \* TX levels the operator may set; 0 is none
  Ops,          \* what happens: subset of AllOps
  MaxLine       \* bound: nobody sends more while this much is under way

AllOps == {"Tune", "Level", "QRO", "Standby", "Mode", "Mute", "Unload", "Lockout",
           "Reset", "Unplug", "Glitch", "Split", "Early"}

ASSUME LinkAssumption ==
  /\ Freqs \subseteq Nat \ {0}
  /\ Levels \subseteq Nat
  /\ Ops \subseteq AllOps
  /\ MaxLine \in Nat \ {0}

Receivers == {0, 1}           \* VRX0 and VRX1
Commands  == ({"F"} \X Freqs) \union ({"L"} \X Levels) \union ({"Q"} \X BOOLEAN)
               \union {<<"D">>, <<"U">>}
Messages  == {"~TX", "M", "N", "D"}

VARIABLES
  StandbyMode, TXlevel, PAchk, TTY, UnloadInProgress,   \* the form
  CurrentTXfreq, LastTXfreq, pending, vfo,              \* its frequencies; VRX0
  VRXmute, mute,        \* mutes to restore; SDRuno's mutes
  connected,            \* SimpleSerial's flag
  handle,               \* what became of the handle it opened last
  plugged,              \* the cable
  toTx, toForm,         \* under way
  tx,                   \* the transmitter; boot until it has sent {~TX}
  wanted,               \* observer: the mutes the operator last asked for
  upset                 \* observer: a reset, a lockout or a loss; {M} and {N} may not pair

settings == <<StandbyMode, TXlevel, PAchk, TTY, UnloadInProgress>>
tracking == <<CurrentTXfreq, LastTXfreq, pending, vfo>>
audio    == <<VRXmute, mute, wanted, upset>>
serial   == <<connected, handle, toTx>>
vars     == <<settings, tracking, audio, serial, plugged, toForm, tx>>

NoFreq == 0

Booting == [boot |-> TRUE, TXPowerOn |-> FALSE, TXlevel |-> 0, ExtPAon |-> FALSE,
            CurFreq |-> NoFreq, KeyDownActive |-> FALSE]

(* Setup: the port is opened if it is there, and what is written at once   *)
(* is lost in the transmitter's boot loader.                               *)
Init ==
  /\ StandbyMode = TRUE /\ TXlevel \in Levels /\ PAchk = FALSE /\ TTY = FALSE
  /\ UnloadInProgress = FALSE
  /\ CurrentTXfreq \in Freqs /\ LastTXfreq = CurrentTXfreq /\ pending = FALSE
  /\ vfo \in {NoFreq, CurrentTXfreq}
  /\ VRXmute = [v \in Receivers |-> v = 1]
  /\ mute \in IF "Mute" \in Ops THEN [Receivers -> BOOLEAN] ELSE {[v \in Receivers |-> FALSE]}
  /\ wanted = mute /\ upset = FALSE
  /\ plugged \in IF "Unplug" \in Ops THEN BOOLEAN ELSE {TRUE}
  /\ connected = plugged
  /\ handle = IF plugged THEN "live" ELSE "none"
  /\ toTx = <<>> /\ toForm = <<>>
  /\ tx = Booting

-----------------------------------------------------------------------------
(* SimpleSerial.  Io is its state and the line's; an operation returns the *)
(* states it may leave.  A handle is "live", "dead" when the device behind *)
(* it is gone, or "leaked" when the device is there and the handle is not  *)
(* in Serial_HANDLE any more.                                              *)

Io == [connected |-> connected, handle |-> handle, line |-> toTx, opened |-> FALSE]

(* Connected() and WriteSerialPort.                                        *)
WriteSerialPort(p, cmd) ==
  IF ~ p.connected THEN {p}
  ELSE IF p.handle # "live" THEN {[p EXCEPT !.connected = FALSE]}
  ELSE {[p EXCEPT !.line = Append(@, cmd)]}
         \union IF "Glitch" \in Ops THEN {p, [p EXCEPT !.connected = FALSE]} ELSE {}

(* The next command, from whatever state the ones before have left.        *)
Write(P, cmd) == UNION {WriteSerialPort(p, cmd) : p \in P}

Opened == [connected |-> TRUE, handle |-> "live", line |-> <<>>, opened |-> TRUE]

(* Close and open again.  Only a port that is connected is closed; the     *)
(* handle of another keeps the port, or while the device is gone its name  *)
(* perhaps.                                                                *)
ReOpenPort(p) ==
  LET left    == IF p.connected THEN "none" ELSE p.handle
      failed  == [p EXCEPT !.connected = FALSE,
                           !.handle = IF left = "live" THEN "leaked" ELSE left]
  IN (IF plugged /\ left \in {"none", "dead"} THEN {Opened} ELSE {})
       \union (IF plugged /\ left = "none" THEN {} ELSE {failed})

(* Opening the port resets the transmitter and purges what it sent.        *)
Leave(p, received) ==
  /\ connected' = p.connected
  /\ handle' = p.handle
  /\ toTx' = p.line
  /\ tx' = IF p.opened THEN Booting ELSE tx
  /\ toForm' = IF p.opened THEN <<>> ELSE received

SendTXfreqAlways(P, freq) == Write(P, <<"F", freq>>)

(* The frequency, unless it was the last one; a closed port is tried again.*)
SendTXfreq(P, freq) ==
  IF freq = LastTXfreq THEN P
  ELSE SendTXfreqAlways(UNION {IF p.connected THEN {p} ELSE ReOpenPort(p) : p \in P}, freq)

-----------------------------------------------------------------------------
(* The operator, and the form's timer.                                     *)

Room == Len(toTx) < MaxLine

Form(op) ==
  /\ op \in Ops
  /\ "Early" \in Ops \/ ~ tx.boot
  /\ Room
  /\ UNCHANGED plugged

(* VRX0 moves; HandleEvent queues $SendRXfreq$.                            *)
Tune ==
  /\ Form("Tune")
  /\ vfo' \in Freqs
  /\ pending' = TRUE
  /\ UNCHANGED <<settings, CurrentTXfreq, LastTXfreq, audio, serial, toForm, tx>>

(* VRX0's frequency, once it has one.                                      *)
RXfreqUnchecked == vfo
RXfreq == IF vfo > 0 THEN vfo ELSE CurrentTXfreq

(* SendRXfreq, from the queue or after the settings dialog.                *)
SendRXfreq ==
  /\ pending /\ ~ UnloadInProgress
  /\ pending' = FALSE
  /\ CurrentTXfreq' = RXfreq
  /\ LastTXfreq' = RXfreq
  /\ \E p \in SendTXfreq({Io}, RXfreq) : Leave(p, toForm)
  /\ UNCHANGED <<settings, vfo, audio, plugged>>

TurnOff(P) == Write(P, <<"D">>)
TurnOn(P)  == Write(Write(Write(P, <<"L", TXlevel>>), <<"Q", PAchk>>), <<"U">>)

SetStandbyMode(Mode) ==
  \E p \in IF Mode THEN TurnOff({Io}) ELSE TurnOn({Io}) : Leave(p, toForm)

StandbyClick ==
  /\ Form("Standby")
  /\ StandbyMode' = ~ StandbyMode
  /\ SetStandbyMode(~ StandbyMode)
  /\ UNCHANGED <<TXlevel, PAchk, TTY, UnloadInProgress, tracking, audio>>

LevelEdit ==
  /\ Form("Level")
  /\ TXlevel' \in Levels \ {TXlevel}
  /\ \E p \in WriteSerialPort(Io, <<"L", TXlevel'>>) : Leave(p, toForm)
  /\ UNCHANGED <<StandbyMode, PAchk, TTY, UnloadInProgress, tracking, audio>>

SendPAstateBefore(PAstate) == WriteSerialPort(Io, <<"Q", PAchk>>)
SendPAstate(PAstate)       == WriteSerialPort(Io, <<"Q", PAstate>>)

PAclick ==
  /\ Form("QRO")
  /\ PAchk' = ~ PAchk
  /\ \E p \in SendPAstate(~ PAchk) : Leave(p, toForm)
  /\ UNCHANGED <<StandbyMode, TXlevel, TTY, UnloadInProgress, tracking, audio>>

(* The port's number is edited, away and back.                             *)
PortEdit ==
  /\ Form("Unplug")
  /\ \E p \in ReOpenPort(Io) : Leave(p, toForm)
  /\ UNCHANGED <<settings, tracking, audio>>

(* An RTTY text, or WSJT-X, sets DigiTXmodeStr.                            *)
ModeChange ==
  /\ Form("Mode")
  /\ ~ UnloadInProgress
  /\ TTY' = ~ TTY
  /\ upset' = TRUE
  /\ UNCHANGED <<StandbyMode, TXlevel, PAchk, UnloadInProgress, tracking, VRXmute, mute,
                 wanted, serial, toForm, tx>>

(* The operator mutes a receiver, in SDRuno or with "Mute TX"; not during  *)
(* a transmission.                                                         *)
SetMute ==
  /\ "Mute" \in Ops
  /\ ~ tx.KeyDownActive /\ toForm = <<>>
  /\ \E v \in Receivers : mute' = [mute EXCEPT ![v] = ~ @]
  /\ wanted' = mute'
  /\ UNCHANGED <<settings, tracking, VRXmute, upset, serial, plugged, toForm, tx>>

(* FormPrepareUnloadRequest: standby, and the port is closed once all of   *)
(* it is out.                                                              *)
CloseCOMPort(p) ==
  [p EXCEPT !.connected = FALSE, !.handle = IF p.connected THEN "none" ELSE @]

CloseThenStandby == WriteSerialPort(CloseCOMPort(Io), <<"D">>)
StandbyThenClose == {CloseCOMPort(p) : p \in WriteSerialPort(Io, <<"D">>)}

Unload ==
  /\ Form("Unload")
  /\ ~ UnloadInProgress
  /\ UnloadInProgress' = TRUE
  /\ \E p \in StandbyThenClose : Leave(p, <<>>)
  /\ UNCHANGED <<StandbyMode, TXlevel, PAchk, TTY, tracking, audio>>

-----------------------------------------------------------------------------
(* ProcessIncomingSerial: the next message.                                *)

Hear(msg) ==
  /\ ~ UnloadInProgress
  /\ handle = "live"
  /\ toForm # <<>>
  /\ Head(toForm) = msg
  /\ UNCHANGED <<plugged, vfo, pending>>

AllSettings(P) == Write(Write(P, <<"L", TXlevel>>), <<"Q", FALSE>>)

(* The frequency, because it is long since it was sent; once more if the   *)
(* receiver has moved (SendFreqCalToTX); and the rest, but the external    *)
(* amplifier stays off.                                                    *)
AnswerUnforced(P)  == AllSettings(SendTXfreq(P, RXfreq))
AnswerFreqOnly(P)  == SendTXfreq(SendTXfreqAlways(P, CurrentTXfreq), RXfreq)
AnswerTurningOn(P) == Write(AllSettings(AnswerFreqOnly(P)), <<"U">>)
Answer(P) == AllSettings(AnswerFreqOnly(P))

(* The transmitter has started.                                            *)
HearStart ==
  /\ Hear("~TX")
  /\ \E p \in Answer({Io}) : Leave(p, Tail(toForm))
  /\ CurrentTXfreq' = RXfreq
  /\ LastTXfreq' = RXfreq
  /\ mute' = [mute EXCEPT ![1] = TRUE]
  /\ wanted' = [wanted EXCEPT ![1] = TRUE]
  /\ UNCHANGED <<settings, VRXmute, upset>>

HearOther(msg) ==
  /\ Hear(msg)
  /\ Leave(Io, Tail(toForm))
  /\ UNCHANGED <<TXlevel, PAchk, TTY, UnloadInProgress, CurrentTXfreq, LastTXfreq, wanted>>

AllMuted == [v \in Receivers |-> TRUE]

MuteThenSave == VRXmute' = AllMuted /\ mute' = AllMuted
SaveAndMute  == VRXmute' = mute /\ mute' = AllMuted

HearMute ==
  /\ HearOther("M")
  /\ IF TTY THEN UNCHANGED <<VRXmute, mute>> ELSE SaveAndMute
  /\ UNCHANGED <<StandbyMode, upset>>

HearUnmute ==
  /\ HearOther("N")
  /\ mute' = VRXmute
  /\ UNCHANGED <<StandbyMode, VRXmute, upset>>

HearLockout ==
  /\ HearOther("D")
  /\ StandbyMode' = TRUE
  /\ UNCHANGED <<VRXmute, mute, upset>>

(* The timer comes round before the last character: NewMsg is a local      *)
(* variable, and the first half is gone.                                   *)
HearHalf ==
  /\ "Split" \in Ops
  /\ \E msg \in Messages : HearOther(msg)
  /\ Len(toForm) = 1
  /\ upset' = TRUE
  /\ UNCHANGED <<StandbyMode, VRXmute, mute>>

ProcessIncomingSerial ==
  HearStart \/ HearMute \/ HearUnmute \/ HearLockout \/ HearHalf

-----------------------------------------------------------------------------
(* The transmitter.                                                        *)

Transmitter == UNCHANGED <<settings, tracking, VRXmute, mute, wanted, connected, handle,
                           plugged>>

Send(msgs) ==
  /\ Len(toForm) < MaxLine
  /\ toForm' = IF handle = "live" THEN toForm \o msgs ELSE toForm

(* Serial_println                                                          *)
Report(msgs) == Send(IF tx.TXPowerOn \/ tx.TXlevel # 0 THEN msgs ELSE <<>>)

Executed(cmd) ==
  CASE cmd[1] = "F" -> [tx EXCEPT !.CurFreq = cmd[2]]
    [] cmd[1] = "L" -> [tx EXCEPT !.TXlevel = cmd[2]]
    [] cmd[1] = "Q" -> [tx EXCEPT !.ExtPAon = cmd[2]]
    [] cmd[1] = "D" -> [tx EXCEPT !.TXPowerOn = FALSE]
    [] cmd[1] = "U" -> [tx EXCEPT !.TXPowerOn = TRUE]

(* ProcessSerialIn: one command.  The boot loader throws it away.          *)
ProcessSerialIn ==
  /\ toTx # <<>>
  /\ toTx' = Tail(toTx)
  /\ tx' = IF tx.boot THEN tx ELSE Executed(Head(toTx))
  /\ UNCHANGED <<toForm, upset>>
  /\ Transmitter

(* setup()                                                                 *)
Start ==
  /\ tx.boot
  /\ tx' = [tx EXCEPT !.boot = FALSE]
  /\ Send(<<"~TX">>)
  /\ UNCHANGED <<toTx, upset>>
  /\ Transmitter

KeyDown ==
  /\ ~ tx.boot
  /\ tx.TXPowerOn /\ ~ tx.KeyDownActive
  /\ tx' = [tx EXCEPT !.KeyDownActive = TRUE]
  /\ Report(<<"M">>)
  /\ UNCHANGED <<toTx, upset>>
  /\ Transmitter

(* The hold time is over.                                                  *)
KeyUp ==
  /\ tx.KeyDownActive
  /\ tx' = [tx EXCEPT !.KeyDownActive = FALSE]
  /\ Report(<<"N">>)
  /\ UNCHANGED <<toTx, upset>>
  /\ Transmitter

(* CheckFanState finds it too hot, or badly matched.                       *)
Lockout ==
  /\ "Lockout" \in Ops
  /\ ~ tx.boot
  /\ tx' = [tx EXCEPT !.TXPowerOn = FALSE]
  /\ Report(<<"D", "N">>)
  /\ UNCHANGED toTx
  /\ upset' = TRUE
  /\ Transmitter

(* The reset button or the supply.                                         *)
Reset ==
  /\ "Reset" \in Ops
  /\ ~ tx.boot
  /\ tx' = Booting
  /\ toTx' = <<>>
  /\ UNCHANGED toForm
  /\ upset' = TRUE
  /\ Transmitter

(* The USB cable; the transmitter has a supply of its own.                 *)
Unplug ==
  /\ "Unplug" \in Ops
  /\ plugged
  /\ plugged' = FALSE
  /\ handle' = IF handle = "none" THEN "none" ELSE "dead"
  /\ toTx' = <<>> /\ toForm' = <<>>
  /\ upset' = TRUE
  /\ UNCHANGED <<settings, tracking, VRXmute, mute, wanted, connected, tx>>

Plug ==
  /\ ~ plugged
  /\ plugged' = TRUE
  /\ UNCHANGED <<settings, tracking, audio, serial, toForm, tx>>

-----------------------------------------------------------------------------
Firmware == ProcessSerialIn \/ Start \/ KeyDown \/ KeyUp \/ Lockout

Next ==
  \/ Tune \/ SendRXfreq \/ StandbyClick \/ LevelEdit \/ PAclick \/ PortEdit \/ ModeChange \/ SetMute
  \/ Unload
  \/ ProcessIncomingSerial
  \/ Firmware
  \/ Reset \/ Unplug \/ Plug

Spec == Init /\ [][Next]_vars

(* The timer and the firmware go on.                                       *)
FairSpec ==
  /\ Spec
  /\ WF_vars(ProcessIncomingSerial) /\ WF_vars(SendRXfreq)
  /\ WF_vars(ProcessSerialIn) /\ WF_vars(Start) /\ WF_vars(KeyUp)

-----------------------------------------------------------------------------
TypeOK ==
  /\ StandbyMode \in BOOLEAN /\ TXlevel \in Levels /\ PAchk \in BOOLEAN /\ TTY \in BOOLEAN
  /\ UnloadInProgress \in BOOLEAN /\ pending \in BOOLEAN
  /\ CurrentTXfreq \in Freqs /\ LastTXfreq \in Freqs /\ vfo \in Freqs \union {NoFreq}
  /\ VRXmute \in [Receivers -> BOOLEAN]
  /\ mute \in [Receivers -> BOOLEAN] /\ wanted \in [Receivers -> BOOLEAN] /\ upset \in BOOLEAN
  /\ connected \in BOOLEAN /\ plugged \in BOOLEAN
  /\ handle \in {"none", "live", "dead", "leaked"}
  /\ toTx \in Seq(Commands) /\ toForm \in Seq(Messages)
  /\ tx \in [boot : BOOLEAN, TXPowerOn : BOOLEAN, TXlevel : Levels \union {0},
             ExtPAon : BOOLEAN, CurFreq : Freqs \union {NoFreq}, KeyDownActive : BOOLEAN]

(* Nothing is under way, and the transmitter is up and connected.          *)
Settled ==
  /\ toTx = <<>> /\ toForm = <<>> /\ ~ tx.boot
  /\ connected /\ handle = "live"
  /\ ~ pending /\ ~ UnloadInProgress

(* When nothing is under way the transmitter has the form's frequency and  *)
(* level, and its external amplifier is on only if the form's box is       *)
(* ticked: however resets, a port that comes and goes and the answer to    *)
(* {~TX} fall between the operator's changes.                              *)
SettingsTold ==
  Settled => /\ tx.CurFreq = CurrentTXfreq
             /\ tx.TXlevel = TXlevel
             /\ tx.ExtPAon => PAchk

(* The external amplifier is on and its box not ticked only until {Q0},    *)
(* which is on its way, arrives: losing messages of the transmitter or a   *)
(* lockout does not change that.                                           *)
AmplifierAsTicked ==
  connected /\ handle = "live" /\ tx.ExtPAon /\ ~ PAchk => Contains(toTx, <<"Q", FALSE>>)

(* When nothing is under way and the form shows standby, the transmitter   *)
(* is off.                                                                 *)
StandbyIsOff == Settled /\ StandbyMode => ~ tx.TXPowerOn

(* Unloading the plugin leaves the transmitter off, whatever is clicked    *)
(* before it ends; unless that opens the port again (module Lifecycle).    *)
UnloadedIsOff == UnloadInProgress /\ toTx = <<>> => ~ tx.TXPowerOn

(* Between transmissions the receivers are muted as the operator left them *)
(* after the last, whenever {M} and {N} arrive, standby is clicked and the *)
(* answer to {~TX} is sent; resets, lockouts, lost messages and RTTY       *)
(* excepted.                                                               *)
MutesRestored == Settled /\ ~ tx.KeyDownActive /\ ~ upset => mute = wanted

(* A transmitter that stays connected and is not reset any more has the    *)
(* receiver's frequency when that stays.                                   *)
FreqArrives ==
  \A f \in Freqs :
    <>[](connected /\ handle = "live" /\ ~ tx.boot /\ vfo = f /\ ~ UnloadInProgress)
      => <>[](tx.CurFreq = f)

-----------------------------------------------------------------------------
(* What comments in the code say, and the code does not do.                *)

(* "attempt to restart COM port": SendTXfreq, when the device is there.    *)
PortRestarts ==
  [][SendRXfreq /\ ~ connected /\ RXfreq # LastTXfreq /\ plugged /\ handle # "dead"
       => handle' = "live"]_vars
=============================================================================
