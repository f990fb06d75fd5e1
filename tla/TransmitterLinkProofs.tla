------------------------ MODULE TransmitterLinkProofs -----------------------
(***************************************************************************)
(* Proofs about TransmitterLink.  What is under way to the transmitter     *)
(* decides what it will be set to, so each invariant is about the last     *)
(* command of a kind on the line, and about the transmitter's own setting  *)
(* if there is none.                                                       *)
(***************************************************************************)
EXTENDS TransmitterLink, SequenceTheorems, TLAPS

Handles == {"none", "live", "dead", "leaked"}

IoType == [connected : BOOLEAN, handle : Handles, line : Seq(Commands), opened : BOOLEAN]

(* The port works.                                                         *)
Up == connected /\ handle = "live"

(* Io when this is on the line, of a port that has just been opened too;   *)
(* and of one that has failed.                                             *)
After(line)   == [Io EXCEPT !.line = line]
Renewed(line) == [Opened EXCEPT !.line = line]
Down(p)       == [p EXCEPT !.connected = FALSE]

-----------------------------------------------------------------------------
(* SimpleSerial.                                                           *)

(* Whatever a write meets leaves a state of the port.                      *)
LEMMA WriteTyped ==
  ASSUME NEW P \in SUBSET IoType, NEW cmd \in Commands
  PROVE  Write(P, cmd) \in SUBSET IoType
<1>1. SUFFICES ASSUME NEW p \in P, NEW q \in WriteSerialPort(p, cmd)
               PROVE  q \in IoType
  BY DEF Write
<1>2. /\ p.connected \in BOOLEAN /\ p.handle \in Handles /\ p.opened \in BOOLEAN
      /\ p.line \in Seq(Commands) /\ p \in IoType
  BY DEF IoType
<1>3. [p EXCEPT !.connected = FALSE] \in IoType
  BY <1>2 DEF IoType
<1>4. Append(p.line, cmd) \in Seq(Commands)
  BY <1>2, AppendProperties
<1>5. [p EXCEPT !.line = Append(@, cmd)] \in IoType
  BY <1>2, <1>4 DEF IoType
<1> QED  BY <1>2, <1>3, <1>5 DEF WriteSerialPort

(* So does opening the port again.                                         *)
LEMMA ReOpenTyped ==
  ASSUME NEW p \in IoType
  PROVE  ReOpenPort(p) \in SUBSET IoType
<1>1. /\ p.connected \in BOOLEAN /\ p.handle \in Handles /\ p.opened \in BOOLEAN
      /\ p.line \in Seq(Commands)
  BY DEF IoType
<1>2. Opened \in IoType
  BY EmptySeq DEF Opened, IoType, Handles
<1>3. ASSUME NEW left \in Handles
      PROVE  [p EXCEPT !.connected = FALSE,
                       !.handle = IF left = "live" THEN "leaked" ELSE left] \in IoType
  BY <1>1, <1>3 DEF IoType, Handles
<1>4. (IF p.connected THEN "none" ELSE p.handle) \in Handles
  BY <1>1 DEF Handles
<1> QED  BY <1>2, <1>3, <1>4 DEF ReOpenPort

(* And what is written and opened to send a frequency.                     *)
LEMMA SendTXfreqTyped ==
  ASSUME NEW P \in SUBSET IoType, NEW freq \in Freqs
  PROVE  SendTXfreq(P, freq) \in SUBSET IoType
<1>1. <<"F", freq>> \in Commands
  BY DEF Commands
<1>2. UNION {IF p.connected THEN {p} ELSE ReOpenPort(p) : p \in P} \in SUBSET IoType
  BY ReOpenTyped
<1> QED  BY <1>1, <1>2, WriteTyped DEF SendTXfreq, SendTXfreqAlways

-----------------------------------------------------------------------------
(* Types.                                                                  *)

TxType == [boot : BOOLEAN, TXPowerOn : BOOLEAN, TXlevel : Levels \union {0},
           ExtPAon : BOOLEAN, CurFreq : Freqs \union {NoFreq}, KeyDownActive : BOOLEAN]

LinkTypes ==
  /\ connected \in BOOLEAN /\ handle \in Handles
  /\ toTx \in Seq(Commands) /\ toForm \in Seq(Messages)
  /\ tx \in TxType

FormTypes ==
  /\ StandbyMode \in BOOLEAN /\ TXlevel \in Levels /\ PAchk \in BOOLEAN /\ TTY \in BOOLEAN
  /\ UnloadInProgress \in BOOLEAN /\ pending \in BOOLEAN
  /\ CurrentTXfreq \in Freqs /\ LastTXfreq \in Freqs /\ vfo \in Freqs \union {NoFreq}

AudioTypes ==
  /\ VRXmute \in [Receivers -> BOOLEAN]
  /\ mute \in [Receivers -> BOOLEAN] /\ wanted \in [Receivers -> BOOLEAN] /\ upset \in BOOLEAN
  /\ plugged \in BOOLEAN

(* The type invariant by who keeps what.                                   *)
LEMMA TypeParts == TypeOK <=> LinkTypes /\ FormTypes /\ AudioTypes
BY DEF TypeOK, LinkTypes, FormTypes, AudioTypes, TxType, Handles

(* A transmitter that starts.                                              *)
LEMMA BootingTyped == Booting \in TxType
BY DEF Booting, TxType

(* A handler leaves what its writes and openings have left.                *)
LEMMA LeaveTyped ==
  ASSUME LinkTypes, NEW p \in IoType, NEW received \in Seq(Messages), Leave(p, received)
  PROVE  LinkTypes'
<1>1. /\ p.connected \in BOOLEAN /\ p.handle \in Handles
      /\ p.line \in Seq(Commands) /\ p.opened \in BOOLEAN
  BY DEF IoType
<1>2. connected' \in BOOLEAN /\ handle' \in Handles /\ toTx' \in Seq(Commands)
  BY <1>1 DEF Leave
<1>3. toForm' \in Seq(Messages)
  BY EmptySeq DEF Leave
<1>4. tx' \in TxType
  BY BootingTyped DEF Leave, LinkTypes
<1> QED  BY <1>2, <1>3, <1>4 DEF LinkTypes

(* What is written is a command.                                           *)
LEMMA CommandsTyped ==
  ASSUME FormTypes
  PROVE  /\ <<"D">> \in Commands /\ <<"U">> \in Commands /\ <<"Q", FALSE>> \in Commands
         /\ <<"Q", PAchk>> \in Commands /\ <<"Q", ~ PAchk>> \in Commands
         /\ \A level \in Levels : <<"L", level>> \in Commands
         /\ \A freq \in Freqs : <<"F", freq>> \in Commands
BY DEF FormTypes, Commands

(* The form's handlers, by what they write.                                *)
LEMMA WritesTyped ==
  ASSUME LinkTypes, FormTypes
  PROVE  /\ Io \in IoType /\ {Io} \in SUBSET IoType
         /\ RXfreq \in Freqs
         /\ TurnOff({Io}) \in SUBSET IoType /\ TurnOn({Io}) \in SUBSET IoType
         /\ Answer({Io}) \in SUBSET IoType
         /\ CloseCOMPort(Io) \in IoType /\ StandbyThenClose \in SUBSET IoType
<1>1. Io \in IoType /\ {Io} \in SUBSET IoType
  BY DEF LinkTypes, Io, IoType
<1>2. RXfreq \in Freqs /\ CurrentTXfreq \in Freqs /\ TXlevel \in Levels
  BY LinkAssumption DEF FormTypes, RXfreq, NoFreq
<1>3. TurnOff({Io}) \in SUBSET IoType
  BY <1>1, CommandsTyped, WriteTyped DEF TurnOff
<1>4. TurnOn({Io}) \in SUBSET IoType
  <2>1. Write({Io}, <<"L", TXlevel>>) \in SUBSET IoType
    BY <1>1, <1>2, CommandsTyped, WriteTyped
  <2>2. Write(Write({Io}, <<"L", TXlevel>>), <<"Q", PAchk>>) \in SUBSET IoType
    BY <2>1, CommandsTyped, WriteTyped
  <2> QED  BY <2>2, CommandsTyped, WriteTyped DEF TurnOn
<1>5. ASSUME NEW P \in SUBSET IoType PROVE AllSettings(P) \in SUBSET IoType
  <2>1. Write(P, <<"L", TXlevel>>) \in SUBSET IoType
    BY <1>2, CommandsTyped, WriteTyped
  <2> QED  BY <2>1, CommandsTyped, WriteTyped DEF AllSettings
<1>6. Answer({Io}) \in SUBSET IoType
  <2>1. Write({Io}, <<"F", CurrentTXfreq>>) \in SUBSET IoType
    BY <1>1, <1>2, CommandsTyped, WriteTyped
  <2>2. AnswerFreqOnly({Io}) \in SUBSET IoType
    BY <1>2, <2>1, SendTXfreqTyped DEF AnswerFreqOnly, SendTXfreqAlways
  <2> QED  BY <1>5, <2>2 DEF Answer
<1>7. ASSUME NEW p \in IoType PROVE CloseCOMPort(p) \in IoType
  <2>1. p.connected \in BOOLEAN /\ p.handle \in Handles
    BY DEF IoType
  <2>2. CASE p.connected
    BY <2>1, <2>2 DEF CloseCOMPort, IoType, Handles
  <2>3. CASE ~ p.connected
    BY <2>1, <2>3 DEF CloseCOMPort, IoType
  <2> QED  BY <2>1, <2>2, <2>3
<1>8. WriteSerialPort(Io, <<"D">>) \in SUBSET IoType
  BY <1>3 DEF TurnOff, Write
<1>9. StandbyThenClose \in SUBSET IoType
  BY <1>7, <1>8 DEF StandbyThenClose
<1> QED  BY <1>1, <1>2, <1>3, <1>4, <1>6, <1>7, <1>9

(* The form's half of a step.                                              *)
LEMMA FormTypeStep == ASSUME TypeOK, [Next]_vars PROVE FormTypes'
<1> USE LinkAssumption, TypeParts DEF FormTypes
<1>0. RXfreq \in Freqs
  BY WritesTyped
<1>1. ASSUME Tune PROVE FormTypes'
  BY <1>1 DEF Tune, Form, settings
<1>2. ASSUME SendRXfreq PROVE FormTypes'
  BY <1>0, <1>2 DEF SendRXfreq, settings
<1>3. ASSUME StandbyClick PROVE FormTypes'
  BY <1>3 DEF StandbyClick, tracking
<1>4. ASSUME LevelEdit PROVE FormTypes'
  BY <1>4 DEF LevelEdit, tracking
<1>5. ASSUME PAclick PROVE FormTypes'
  BY <1>5 DEF PAclick, tracking
<1>6. ASSUME PortEdit PROVE FormTypes'
  BY <1>6 DEF PortEdit, settings, tracking
<1>7. ASSUME ModeChange PROVE FormTypes'
  BY <1>7 DEF ModeChange, tracking
<1>8. ASSUME SetMute PROVE FormTypes'
  BY <1>8 DEF SetMute, settings, tracking
<1>9. ASSUME Unload PROVE FormTypes'
  BY <1>9 DEF Unload, tracking
<1>10. ASSUME HearStart PROVE FormTypes'
  BY <1>0, <1>10 DEF HearStart, Hear, settings
<1>11. ASSUME HearMute \/ HearUnmute \/ HearLockout \/ HearHalf PROVE FormTypes'
  BY <1>11 DEF HearMute, HearUnmute, HearLockout, HearHalf, HearOther, Hear
<1>12. ASSUME Firmware \/ Reset PROVE FormTypes'
  BY <1>12 DEF Firmware, ProcessSerialIn, Start, KeyDown, KeyUp, Lockout, Reset, Transmitter,
               settings, tracking
<1>13. ASSUME Unplug \/ Plug PROVE FormTypes'
  BY <1>13 DEF Unplug, Plug, settings, tracking
<1>14. ASSUME UNCHANGED vars PROVE FormTypes'
  BY <1>14 DEF vars, settings, tracking
<1> QED  BY <1>1, <1>2, <1>3, <1>4, <1>5, <1>6, <1>7, <1>8, <1>9, <1>10, <1>11, <1>12, <1>13,
            <1>14 DEF Next, ProcessIncomingSerial

(* SDRuno's mutes, the cable and the observers.                            *)
LEMMA AudioTypeStep == ASSUME TypeOK, [Next]_vars PROVE AudioTypes'
<1> USE TypeParts DEF AudioTypes
<1>1. AllMuted \in [Receivers -> BOOLEAN]
  BY DEF AllMuted
<1>2. ASSUME \/ Tune \/ SendRXfreq \/ StandbyClick \/ LevelEdit \/ PAclick \/ PortEdit
             \/ ModeChange \/ Unload
      PROVE  AudioTypes'
  BY <1>2 DEF Tune, SendRXfreq, StandbyClick, LevelEdit, PAclick, PortEdit, ModeChange, Unload,
              Form, audio
<1>3. ASSUME SetMute PROVE AudioTypes'
  BY <1>3 DEF SetMute
<1>4. ASSUME HearStart PROVE AudioTypes'
  BY <1>4 DEF HearStart, Hear
<1>5. ASSUME HearMute PROVE AudioTypes'
  BY <1>1, <1>5 DEF HearMute, HearOther, Hear, SaveAndMute
<1>6. ASSUME HearUnmute \/ HearLockout \/ HearHalf PROVE AudioTypes'
  BY <1>6 DEF HearUnmute, HearLockout, HearHalf, HearOther, Hear
<1>7. ASSUME Firmware \/ Reset PROVE AudioTypes'
  BY <1>7 DEF Firmware, ProcessSerialIn, Start, KeyDown, KeyUp, Lockout, Reset, Transmitter
<1>8. ASSUME Unplug \/ Plug PROVE AudioTypes'
  BY <1>8 DEF Unplug, Plug, audio
<1>9. ASSUME UNCHANGED vars PROVE AudioTypes'
  BY <1>9 DEF vars, audio
<1> QED  BY <1>2, <1>3, <1>4, <1>5, <1>6, <1>7, <1>8, <1>9 DEF Next, ProcessIncomingSerial

(* The line, the port and the transmitter.                                 *)
LEMMA SendTyped ==
  ASSUME toForm \in Seq(Messages), NEW msgs \in Seq(Messages), Send(msgs)
  PROVE  toForm' \in Seq(Messages)
BY ConcatProperties DEF Send

(* What the transmitter sends, or suppresses.                              *)
LEMMA ReportTyped ==
  ASSUME toForm \in Seq(Messages), NEW msgs \in Seq(Messages), Report(msgs)
  PROVE  toForm' \in Seq(Messages)
<1>1. (IF tx.TXPowerOn \/ tx.TXlevel # 0 THEN msgs ELSE <<>>) \in Seq(Messages)
  BY EmptySeq
<1> QED  BY <1>1, SendTyped DEF Report

(* What it has to send.                                                    *)
LEMMA MessagesTyped ==
  /\ <<"~TX">> \in Seq(Messages) /\ <<"M">> \in Seq(Messages) /\ <<"N">> \in Seq(Messages)
  /\ <<"D", "N">> \in Seq(Messages)
BY DEF Messages

(* The port, the line and the transmitter.                                 *)
LEMMA LinkTypeStep == ASSUME TypeOK, [Next]_vars PROVE LinkTypes'
<1> USE TypeParts
<1>0. /\ FormTypes /\ LinkTypes
      /\ \A level \in Levels : <<"L", level>> \in Commands
      /\ toForm \in Seq(Messages)
      /\ (toForm # <<>> => Tail(toForm) \in Seq(Messages))
  BY CommandsTyped, HeadTailProperties DEF LinkTypes
<1>1. ASSUME Tune \/ ModeChange PROVE LinkTypes'
  BY <1>0, <1>1 DEF Tune, ModeChange, serial, LinkTypes
<1>2. ASSUME SendRXfreq PROVE LinkTypes'
  <2>1. SendTXfreq({Io}, RXfreq) \in SUBSET IoType
    BY <1>0, WritesTyped, SendTXfreqTyped
  <2> QED  BY <1>0, <1>2, <2>1, LeaveTyped DEF SendRXfreq
<1>3. ASSUME StandbyClick PROVE LinkTypes'
  BY <1>0, <1>3, WritesTyped, LeaveTyped DEF StandbyClick, SetStandbyMode
<1>4. ASSUME LevelEdit PROVE LinkTypes'
  <2>1. TXlevel' \in Levels
    BY <1>4 DEF LevelEdit
  <2>2. WriteSerialPort(Io, <<"L", TXlevel'>>) \in SUBSET IoType
    BY <1>0, <2>1, WritesTyped, WriteTyped DEF Write
  <2> QED  BY <1>0, <1>4, <2>2, LeaveTyped DEF LevelEdit
<1>5. ASSUME PAclick PROVE LinkTypes'
  <2>1. SendPAstate(~ PAchk) \in SUBSET IoType
    BY <1>0, CommandsTyped, WritesTyped, WriteTyped DEF Write, SendPAstate
  <2> QED  BY <1>0, <1>5, <2>1, LeaveTyped DEF PAclick
<1>6. ASSUME PortEdit PROVE LinkTypes'
  BY <1>0, <1>6, WritesTyped, ReOpenTyped, LeaveTyped DEF PortEdit
<1>7. ASSUME SetMute \/ Plug \/ UNCHANGED vars PROVE LinkTypes'
  BY <1>0, <1>7 DEF SetMute, Plug, vars, serial, LinkTypes
<1>8. ASSUME Unload PROVE LinkTypes'
  BY <1>0, <1>8, WritesTyped, LeaveTyped, EmptySeq DEF Unload
<1>9. ASSUME HearStart PROVE LinkTypes'
  BY <1>0, <1>9, WritesTyped, LeaveTyped DEF HearStart, Hear
<1>10. ASSUME HearMute \/ HearUnmute \/ HearLockout \/ HearHalf PROVE LinkTypes'
  BY <1>0, <1>10, WritesTyped, LeaveTyped
     DEF HearMute, HearUnmute, HearLockout, HearHalf, HearOther, Hear
<1>11. ASSUME ProcessSerialIn PROVE LinkTypes'
  <2>1. /\ Head(toTx) \in Commands /\ Tail(toTx) \in Seq(Commands)
    BY <1>0, <1>11, HeadTailProperties DEF ProcessSerialIn, LinkTypes
  <2>2. ASSUME NEW cmd \in Commands PROVE Executed(cmd) \in TxType
    <3>1. tx \in TxType
      BY <1>0 DEF LinkTypes
    <3>2. CASE cmd \in {"F"} \X Freqs
      BY <3>1, <3>2 DEF Executed, TxType
    <3>3. CASE cmd \in {"L"} \X Levels
      BY <3>1, <3>3 DEF Executed, TxType
    <3>4. CASE cmd \in {"Q"} \X BOOLEAN
      BY <3>1, <3>4 DEF Executed, TxType
    <3>5. CASE cmd = <<"D">>
      <4>1. cmd[1] = "D"
        BY <3>5
      <4> QED  BY <3>1, <4>1 DEF Executed, TxType
    <3>6. CASE cmd = <<"U">>
      <4>1. cmd[1] = "U"
        BY <3>6
      <4> QED  BY <3>1, <4>1 DEF Executed, TxType
    <3> QED  BY <3>2, <3>3, <3>4, <3>5, <3>6 DEF Commands
  <2> QED  BY <1>0, <1>11, <2>1, <2>2 DEF ProcessSerialIn, Transmitter, LinkTypes
<1>12. ASSUME Start PROVE LinkTypes'
  <2>1. toForm' \in Seq(Messages)
    BY <1>0, <1>12, SendTyped, MessagesTyped DEF Start
  <2> QED  BY <1>0, <1>12, <2>1 DEF Start, Transmitter, LinkTypes, TxType
<1>13. ASSUME KeyDown PROVE LinkTypes'
  <2>1. toForm' \in Seq(Messages)
    BY <1>0, <1>13, ReportTyped, MessagesTyped DEF KeyDown
  <2> QED  BY <1>0, <1>13, <2>1 DEF KeyDown, Transmitter, LinkTypes, TxType
<1>14. ASSUME KeyUp PROVE LinkTypes'
  <2>1. toForm' \in Seq(Messages)
    BY <1>0, <1>14, ReportTyped, MessagesTyped DEF KeyUp
  <2> QED  BY <1>0, <1>14, <2>1 DEF KeyUp, Transmitter, LinkTypes, TxType
<1>15. ASSUME Lockout PROVE LinkTypes'
  <2>1. toForm' \in Seq(Messages)
    BY <1>0, <1>15, ReportTyped, MessagesTyped DEF Lockout
  <2> QED  BY <1>0, <1>15, <2>1 DEF Lockout, Transmitter, LinkTypes, TxType
<1>16. ASSUME Reset PROVE LinkTypes'
  BY <1>0, <1>16, BootingTyped, EmptySeq DEF Reset, Transmitter, LinkTypes
<1>17. ASSUME Unplug PROVE LinkTypes'
  BY <1>0, <1>17, EmptySeq DEF Unplug, LinkTypes, Handles
<1> QED  BY <1>1, <1>2, <1>3, <1>4, <1>5, <1>6, <1>7, <1>8, <1>9, <1>10, <1>11, <1>12, <1>13,
            <1>14, <1>15, <1>16, <1>17 DEF Next, ProcessIncomingSerial, Firmware

(* Types at the start,                                                     *)
LEMMA InitTyped == Init => TypeOK
<1> SUFFICES ASSUME Init PROVE LinkTypes /\ FormTypes /\ AudioTypes
  BY TypeParts
<1>1. LinkTypes
  BY BootingTyped, EmptySeq DEF Init, LinkTypes, Handles
<1>2. FormTypes
  BY DEF Init, FormTypes
<1>3. AudioTypes
  BY DEF Init, AudioTypes
<1> QED  BY <1>1, <1>2, <1>3

(* and after each step.                                                    *)
LEMMA TypeStep == ASSUME TypeOK, [Next]_vars PROVE TypeOK'
<1>1. LinkTypes' /\ FormTypes' /\ AudioTypes'
  BY FormTypeStep, AudioTypeStep, LinkTypeStep
<1> QED  BY <1>1 DEF TypeOK, LinkTypes, FormTypes, AudioTypes, TxType, Handles

(* The states of form, port, line and transmitter have their types, with   *)
(* any of the things that may happen.                                      *)
THEOREM TypeCorrect == Spec => []TypeOK
<1>1. TypeOK /\ [Next]_vars => TypeOK'
  BY TypeStep
<1> QED  BY InitTyped, <1>1, PTL DEF Spec

-----------------------------------------------------------------------------
(* The last command on the line.                                           *)

(* Each `set' on the line is undone by a `reset' behind it, and so is what *)
(* is set now.                                                             *)
Ends(line, set, reset, now) ==
  /\ now => \E k \in 1 .. Len(line) : line[k] = reset
  /\ \A j \in 1 .. Len(line) :
       line[j] = set => \E k \in 1 .. Len(line) : k > j /\ line[k] = reset

(* Commands of that name end with that value, or there are none and the    *)
(* value is there.                                                         *)
Told(line, name, value, now) ==
  \/ \E k \in 1 .. Len(line) :
       /\ line[k] = <<name, value>>
       /\ \A j \in 1 .. Len(line) : j > k => line[j][1] # name
  \/ (\A j \in 1 .. Len(line) : line[j][1] # name) /\ now = value

(* Nothing under way and nothing set.                                      *)
LEMMA EndsEmpty == ASSUME NEW set, NEW reset PROVE Ends(<<>>, set, reset, FALSE)
BY DEF Ends

(* A reset at the end undoes all; another command changes nothing.         *)
LEMMA EndsAppend ==
  ASSUME NEW S, NEW line \in Seq(S), NEW set, NEW reset, NEW cmd \in S, NEW now \in BOOLEAN,
         cmd # set, cmd = reset \/ Ends(line, set, reset, now)
  PROVE  Ends(Append(line, cmd), set, reset, now)
<1> DEFINE longer == Append(line, cmd)
<1>1. /\ Len(longer) = Len(line) + 1 /\ Len(line) \in Nat
      /\ \A j \in 1 .. Len(line) : longer[j] = line[j]
      /\ longer[Len(line) + 1] = cmd
  BY AppendProperties
<1> HIDE DEF longer
<1>2. CASE cmd = reset
  BY <1>1, <1>2 DEF Ends
<1>3. CASE Ends(line, set, reset, now)
  BY <1>1, <1>3 DEF Ends
<1> QED  BY <1>2, <1>3 DEF longer

(* The first command is taken off and perhaps executed.                    *)
LEMMA EndsTail ==
  ASSUME NEW S, NEW line \in Seq(S), line # <<>>, NEW set, NEW reset, set # reset,
         NEW now \in BOOLEAN, NEW after \in BOOLEAN,
         Ends(line, set, reset, now),
         after => Head(line) = set \/ (now /\ Head(line) # reset)
  PROVE  Ends(Tail(line), set, reset, after)
<1> DEFINE rest == Tail(line)
<1>1. /\ Len(rest) = Len(line) - 1 /\ Len(line) \in Nat \ {0}
      /\ \A j \in 1 .. Len(rest) : rest[j] = line[j + 1]
      /\ Head(line) = line[1]
  BY HeadTailProperties
<1> HIDE DEF rest
<1>2. ASSUME NEW k \in 1 .. Len(line), k > 1 PROVE k - 1 \in 1 .. Len(rest) /\ rest[k - 1] = line[k]
  BY <1>1, <1>2
<1>3. ASSUME after PROVE \E k \in 1 .. Len(rest) : rest[k] = reset
  <2>1. CASE line[1] = set
    <3>1. PICK k \in 1 .. Len(line) : k > 1 /\ line[k] = reset
      BY <1>1, <2>1 DEF Ends
    <3> QED  BY <1>2, <3>1
  <2>2. CASE now /\ line[1] # reset
    <3>1. PICK k \in 1 .. Len(line) : line[k] = reset
      BY <2>2 DEF Ends
    <3>2. k > 1
      BY <2>2, <3>1
    <3> QED  BY <1>2, <3>1, <3>2
  <2> QED  BY <1>1, <1>3, <2>1, <2>2
<1>4. ASSUME NEW j \in 1 .. Len(rest), rest[j] = set
      PROVE  \E k \in 1 .. Len(rest) : k > j /\ rest[k] = reset
  <2>1. j + 1 \in 1 .. Len(line) /\ line[j + 1] = set
    BY <1>1, <1>4
  <2>2. PICK k \in 1 .. Len(line) : k > j + 1 /\ line[k] = reset
    BY <2>1 DEF Ends
  <2>3. k > 1 /\ k - 1 > j
    BY <2>2
  <2> QED  BY <1>2, <2>2, <2>3
<1> QED  BY <1>3, <1>4 DEF Ends, rest

(* What has ended needs nothing behind it any more.                        *)
LEMMA EndsNow ==
  ASSUME NEW line, NEW set, NEW reset, NEW now \in BOOLEAN, Ends(line, set, reset, now)
  PROVE  Ends(line, set, reset, FALSE)
BY DEF Ends

(* A command of the name at the end is what counts; others do not.         *)
LEMMA ToldAppend ==
  ASSUME NEW S, NEW line \in Seq(S), NEW name, NEW value, NEW now, NEW cmd \in S,
         cmd = <<name, value>> \/ (cmd[1] # name /\ Told(line, name, value, now))
  PROVE  Told(Append(line, cmd), name, value, now)
<1> DEFINE longer == Append(line, cmd)
<1>1. /\ Len(longer) = Len(line) + 1 /\ Len(line) \in Nat
      /\ \A j \in 1 .. Len(line) : longer[j] = line[j]
      /\ longer[Len(line) + 1] = cmd
  BY AppendProperties
<1> HIDE DEF longer
<1>2. CASE cmd = <<name, value>>
  <2>1. /\ Len(line) + 1 \in 1 .. Len(longer) /\ longer[Len(line) + 1] = <<name, value>>
        /\ \A j \in 1 .. Len(longer) : ~ (j > Len(line) + 1)
    BY <1>1, <1>2
  <2> QED  BY <2>1 DEF Told, longer
<1>3. CASE cmd[1] # name /\ Told(line, name, value, now)
  <2>1. ASSUME NEW j \in 1 .. Len(longer) PROVE j \in 1 .. Len(line) \/ longer[j][1] # name
    BY <1>1, <1>3
  <2>2. CASE \A j \in 1 .. Len(line) : line[j][1] # name
    <3>1. \A j \in 1 .. Len(longer) : longer[j][1] # name
      BY <1>1, <2>1, <2>2
    <3>2. now = value \/ \E k \in 1 .. Len(line) : line[k] = <<name, value>>
      BY <1>3 DEF Told
    <3>3. <<name, value>>[1] = name
      OBVIOUS
    <3> QED  BY <2>2, <3>1, <3>2, <3>3 DEF Told, longer
  <2>3. CASE \E j \in 1 .. Len(line) : line[j][1] = name
    <3>1. PICK k \in 1 .. Len(line) :
            /\ line[k] = <<name, value>>
            /\ \A j \in 1 .. Len(line) : j > k => line[j][1] # name
      BY <1>3, <2>3 DEF Told
    <3>2. k \in 1 .. Len(longer) /\ longer[k] = <<name, value>>
      BY <1>1, <3>1
    <3>3. \A j \in 1 .. Len(longer) : j > k => longer[j][1] # name
      BY <1>1, <2>1, <3>1
    <3> QED  BY <3>2, <3>3 DEF Told, longer
  <2> QED  BY <2>2, <2>3
<1> QED  BY <1>2, <1>3

(* The first command is taken off and executed.                            *)
LEMMA ToldTail ==
  ASSUME NEW S, NEW line \in Seq(S), line # <<>>, NEW name, NEW value, NEW now, NEW after,
         Told(line, name, value, now),
         after = IF Head(line)[1] = name THEN Head(line)[2] ELSE now
  PROVE  Told(Tail(line), name, value, after)
<1> DEFINE rest == Tail(line)
<1>1. /\ Len(rest) = Len(line) - 1 /\ Len(line) \in Nat \ {0}
      /\ \A j \in 1 .. Len(rest) : rest[j] = line[j + 1]
      /\ Head(line) = line[1]
  BY HeadTailProperties
<1> HIDE DEF rest
<1>2. \A j \in 1 .. Len(rest) : j + 1 \in 1 .. Len(line)
  BY <1>1
<1>3. CASE (\A j \in 1 .. Len(line) : line[j][1] # name) /\ now = value
  <2>1. \A j \in 1 .. Len(rest) : rest[j][1] # name
    BY <1>1, <1>2, <1>3
  <2>2. after = value
    BY <1>1, <1>3
  <2> QED  BY <2>1, <2>2 DEF Told, rest
<1>4. ASSUME NEW k \in 1 .. Len(line), line[k] = <<name, value>>,
             \A j \in 1 .. Len(line) : j > k => line[j][1] # name
      PROVE  Told(rest, name, value, after)
  <2>1. CASE k = 1
    <3>1. \A j \in 1 .. Len(rest) : rest[j][1] # name
      BY <1>1, <1>2, <1>4, <2>1
    <3>2. <<name, value>>[1] = name /\ <<name, value>>[2] = value
      OBVIOUS
    <3>3. after = value
      BY <1>1, <1>4, <2>1, <3>2
    <3> QED  BY <3>1, <3>3 DEF Told
  <2>2. CASE k # 1
    <3>1. k - 1 \in 1 .. Len(rest) /\ rest[k - 1] = <<name, value>>
      BY <1>1, <1>4, <2>2
    <3>2. \A j \in 1 .. Len(rest) : j > k - 1 => rest[j][1] # name
      BY <1>1, <1>2, <1>4
    <3> QED  BY <3>1, <3>2 DEF Told
  <2> QED  BY <2>1, <2>2
<1> QED  BY <1>3, <1>4 DEF Told, rest

-----------------------------------------------------------------------------
(* What the form's handlers write, when no write fails on a port that      *)
(* works ("Glitch").                                                       *)

(* The fields of these states of the port.                                 *)
LEMMA AfterIs ==
  ASSUME NEW line, NEW longer
  PROVE  /\ After(line).line = line /\ After(line).connected = connected
         /\ After(line).handle = handle /\ After(line).opened = FALSE
         /\ [After(line) EXCEPT !.line = longer] = After(longer)
         /\ Renewed(line).line = line /\ Renewed(line).connected /\ Renewed(line).handle = "live"
         /\ Renewed(line).opened
         /\ Opened.line = <<>> /\ Opened.connected /\ Opened.handle = "live"
<1>1. /\ Io.connected = connected /\ Io.handle = handle /\ Io.opened = FALSE
      /\ Opened.line = <<>> /\ Opened.connected /\ Opened.handle = "live" /\ Opened.opened
  BY DEF Io, Opened
<1>2. /\ After(line).line = line /\ After(line).connected = Io.connected
      /\ After(line).handle = Io.handle /\ After(line).opened = Io.opened
  BY DEF After, Io
<1>3. /\ Renewed(line).line = line /\ Renewed(line).connected = Opened.connected
      /\ Renewed(line).handle = Opened.handle /\ Renewed(line).opened = Opened.opened
  BY DEF Renewed, Opened
<1>4. [After(line) EXCEPT !.line = longer] = After(longer)
  BY DEF After
<1> QED  BY <1>1, <1>2, <1>3, <1>4

(* A port that works takes each command.                                   *)
LEMMA WriteUp ==
  ASSUME "Glitch" \notin Ops, Up, NEW line, NEW cmd
  PROVE  /\ WriteSerialPort(After(line), cmd) = {After(Append(line, cmd))}
         /\ Write({After(line)}, cmd) = {After(Append(line, cmd))}
<1>1. WriteSerialPort(After(line), cmd) = {After(Append(line, cmd))}
  <2>3. After(line).line = line
    BY AfterIs
  <2>0. [After(line) EXCEPT !.line = Append(line, cmd)] = After(Append(line, cmd))
    BY DEF After
  <2>1. [After(line) EXCEPT !.line = Append(@, cmd)] = After(Append(line, cmd))
    BY <2>0, <2>3
  <2>2. After(line).connected /\ After(line).handle = "live"
    BY AfterIs DEF Up
  <2> QED  BY <2>1, <2>2 DEF WriteSerialPort
<1> QED  BY <1>1 DEF Write

(* A port that does not work takes nothing.                                *)
LEMMA WriteDown ==
  ASSUME NEW p \in IoType, ~ (p.connected /\ p.handle = "live"), NEW cmd
  PROVE  /\ WriteSerialPort(p, cmd) = {Down(p)} /\ Write({p}, cmd) = {Down(p)}
         /\ Down(p) \in IoType /\ ~ Down(p).connected
         /\ Down(p).line = p.line /\ Down(p).opened = p.opened /\ Down(p).handle = p.handle
<1>1. p.connected \in BOOLEAN /\ (~ p.connected => Down(p) = p)
  BY DEF IoType, Down
<1>2. WriteSerialPort(p, cmd) = {Down(p)}
  BY <1>1 DEF WriteSerialPort, Down
<1>3. /\ Down(p) \in IoType /\ ~ Down(p).connected
      /\ Down(p).line = p.line /\ Down(p).opened = p.opened /\ Down(p).handle = p.handle
  BY DEF IoType, Down
<1> QED  BY <1>2, <1>3 DEF Write

(* A handler begins with what is on the line.                              *)
LEMMA IoUp == Io = After(toTx)
<1>1. Io.line = toTx
  BY DEF Io
<1> QED  BY <1>1 DEF Io, After

(* A handler that only writes: the port stays as it is, and the line gets  *)
(* what is written, or nothing if the port does not work.                  *)
Written(line) ==
  /\ UNCHANGED <<handle, tx>>
  /\ Up => Up' /\ toTx' = line
  /\ ~ Up => ~ connected' /\ toTx' = toTx

(* A handler that has written, on a port that works                        *)
LEMMA LeaveUp ==
  ASSUME LinkTypes, Up, NEW line, NEW received, Leave(After(line), received)
  PROVE  Written(line) /\ toForm' = received
BY AfterIs DEF Leave, Up, Written

(* and on one that does not.                                               *)
LEMMA LeaveDown ==
  ASSUME LinkTypes, ~ Up, NEW p, NEW line, NEW received, Leave(p, received),
         ~ p.connected, p.line = toTx, p.handle = handle, p.opened = FALSE
  PROVE  Written(line) /\ toForm' = received
BY DEF Leave, Up, Written, LinkTypes

(* A handler that writes one command.                                      *)
LEMMA OneWrite ==
  ASSUME "Glitch" \notin Ops, LinkTypes, NEW cmd, NEW received,
         NEW p \in WriteSerialPort(Io, cmd), Leave(p, received)
  PROVE  Written(Append(toTx, cmd)) /\ toForm' = received
<1>1. CASE Up
  <2>1. p = After(Append(toTx, cmd))
    BY <1>1, IoUp, WriteUp, ZenonT(30)
  <2> QED  BY <1>1, <2>1, LeaveUp
<1>2. CASE ~ Up
  <2>1. Io \in IoType /\ ~ (Io.connected /\ Io.handle = "live") /\ Io.opened = FALSE
        /\ Io.handle = handle /\ Io.line = toTx
    BY <1>2 DEF Io, IoType, LinkTypes, Up
  <2>2. p = Down(Io)
    BY <2>1, WriteDown
  <2> QED  BY <1>2, <2>1, <2>2, WriteDown, LeaveDown
<1> QED  BY <1>1, <1>2

(* What leaving standby puts on the line, and an answer to {~TX}.          *)
TurnOnLine == Append(Append(Append(toTx, <<"L", TXlevel>>), <<"Q", PAchk>>), <<"U">>)

(* Standby, and no standby: level, amplifier, power.                       *)
LEMMA StandbyWrites ==
  ASSUME "Glitch" \notin Ops, LinkTypes, NEW Mode \in BOOLEAN, SetStandbyMode(Mode)
  PROVE  /\ Written(IF Mode THEN Append(toTx, <<"D">>) ELSE TurnOnLine)
         /\ toForm' = toForm
<1>1. Io \in IoType /\ Io.opened = FALSE /\ Io.handle = handle /\ Io.line = toTx
  BY DEF Io, IoType, LinkTypes
<1>2. PICK p \in IF Mode THEN TurnOff({Io}) ELSE TurnOn({Io}) : Leave(p, toForm)
  BY DEF SetStandbyMode
<1>3. CASE Mode
  <2>1. p \in WriteSerialPort(Io, <<"D">>)
    BY <1>2, <1>3 DEF TurnOff, Write
  <2> QED  BY <1>2, <1>3, <2>1, OneWrite
<1>4. CASE ~ Mode /\ Up
  <2> DEFINE line1 == Append(toTx, <<"L", TXlevel>>)
             line2 == Append(line1, <<"Q", PAchk>>)
  <2>2. Write({Io}, <<"L", TXlevel>>) = {After(line1)}
    BY <1>4, IoUp, WriteUp
  <2>3. Write({After(line1)}, <<"Q", PAchk>>) = {After(line2)}
    BY <1>4, WriteUp
  <2>4. Write({After(line2)}, <<"U">>) = {After(TurnOnLine)}
    BY <1>4, WriteUp DEF TurnOnLine
  <2>1. TurnOn({Io}) = {After(TurnOnLine)}
    BY <2>2, <2>3, <2>4 DEF TurnOn
  <2> QED  BY <1>2, <1>4, <2>1, LeaveUp
<1>5. CASE ~ Mode /\ ~ Up
  <2>1. ~ (Io.connected /\ Io.handle = "live")
    BY <1>5 DEF Io, Up
  <2> DEFINE q == Down(Io)
  <2>2. /\ q \in IoType /\ ~ q.connected /\ Write({Io}, <<"L", TXlevel>>) = {q}
        /\ q.line = toTx /\ q.handle = handle /\ q.opened = FALSE
    BY <1>1, <2>1, WriteDown
  <2>3. Down(q) = q
    BY <2>2 DEF Down, IoType
  <2> HIDE DEF q
  <2>4. Write({q}, <<"Q", PAchk>>) = {q} /\ Write({q}, <<"U">>) = {q}
    BY <2>2, <2>3, WriteDown
  <2>5. TurnOn({Io}) = {q}
    BY <2>2, <2>4 DEF TurnOn
  <2> QED  BY <1>2, <1>5, <2>2, <2>5, LeaveDown
<1> QED  BY <1>3, <1>4, <1>5

(* A frequency on a port that works.                                       *)
LEMMA SendTXfreqUp ==
  ASSUME "Glitch" \notin Ops, Up, NEW line, NEW freq
  PROVE  SendTXfreq({After(line)}, freq) =
           {After(IF freq = LastTXfreq THEN line ELSE Append(line, <<"F", freq>>))}
<1>1. After(line).connected
  BY AfterIs DEF Up
<1>2. UNION {IF p.connected THEN {p} ELSE ReOpenPort(p) : p \in {After(line)}} = {After(line)}
  BY <1>1
<1>3. CASE freq = LastTXfreq
  BY <1>3 DEF SendTXfreq
<1>4. CASE freq # LastTXfreq
  BY <1>2, <1>4, WriteUp DEF SendTXfreq, SendTXfreqAlways
<1> QED  BY <1>3, <1>4

AnswerLine ==
  LET first == Append(toTx, <<"F", CurrentTXfreq>>)
      both  == IF RXfreq = LastTXfreq THEN first ELSE Append(first, <<"F", RXfreq>>)
  IN Append(Append(both, <<"L", TXlevel>>), <<"Q", FALSE>>)

(* The answer to {~TX}.                                                    *)
LEMMA AnswerUp ==
  ASSUME "Glitch" \notin Ops, LinkTypes, Up
  PROVE  Answer({Io}) = {After(AnswerLine)}
<1> DEFINE first == Append(toTx, <<"F", CurrentTXfreq>>)
           both  == IF RXfreq = LastTXfreq THEN first ELSE Append(first, <<"F", RXfreq>>)
<1>1. SendTXfreqAlways({Io}, CurrentTXfreq) = {After(first)}
  BY IoUp, WriteUp DEF SendTXfreqAlways
<1>2. AnswerFreqOnly({Io}) = {After(both)}
  BY <1>1, SendTXfreqUp DEF AnswerFreqOnly
<1>3. AllSettings({After(both)}) = {After(AnswerLine)}
  BY WriteUp DEF AllSettings, AnswerLine
<1> QED  BY <1>2, <1>3 DEF Answer

(* A port that is opened again resets the transmitter; else no handle is   *)
(* left that works.                                                        *)
LEMMA ReOpenLeaves ==
  ASSUME NEW p \in IoType, NEW q \in ReOpenPort(p)
  PROVE  q = Opened \/ q.handle # "live"
<1>1. ASSUME NEW left
      PROVE  [p EXCEPT !.connected = FALSE,
                       !.handle = IF left = "live" THEN "leaked" ELSE left].handle # "live"
  BY DEF IoType
<1> QED  BY <1>1 DEF ReOpenPort

(* A frequency on a port that does not work: it may be opened again for it.*)
LEMMA SendTXfreqDown ==
  ASSUME "Glitch" \notin Ops, LinkTypes, handle # "live", NEW freq,
         NEW q \in SendTXfreq({Io}, freq)
  PROVE  q = Renewed(<< <<"F", freq>> >>) \/ q.handle # "live"
<1>1. Io \in IoType /\ Io.handle # "live"
  BY DEF Io, IoType, LinkTypes
<1>2. CASE freq = LastTXfreq
  BY <1>1, <1>2 DEF SendTXfreq
<1>3. CASE freq # LastTXfreq
  <2>1. PICK p \in IF Io.connected THEN {Io} ELSE ReOpenPort(Io) :
          q \in WriteSerialPort(p, <<"F", freq>>)
    BY <1>3 DEF SendTXfreq, SendTXfreqAlways, Write
  <2>2. p \in IoType
    BY <1>1, <2>1, ReOpenTyped
  <2>3. p = Opened \/ p.handle # "live"
    BY <1>1, <2>1, ReOpenLeaves
  <2>4. CASE p = Opened
    <3>1. Append(<<>>, <<"F", freq>>) = << <<"F", freq>> >>
      OBVIOUS
    <3>2. [Opened EXCEPT !.line = Append(@, <<"F", freq>>)] = Renewed(<< <<"F", freq>> >>)
      BY <3>1, AfterIs DEF Renewed
    <3> QED  BY <2>1, <2>4, <3>2, AfterIs DEF WriteSerialPort
  <2>5. CASE p.handle # "live"
    BY <2>1, <2>2, <2>5, WriteDown
  <2> QED  BY <2>3, <2>4, <2>5
<1> QED  BY <1>2, <1>3

-----------------------------------------------------------------------------
(* What the actions do to the line and the transmitter.                    *)

(* The handle that works is the one the flag is about.                     *)
PortInv == handle = "live" => connected

(* Starting, the transmitter is off.                                       *)
BootInv == tx.boot => ~ tx.TXPowerOn /\ ~ tx.ExtPAon

(* The form notes what it has sent.                                        *)
FreqInv == CurrentTXfreq = LastTXfreq

Base == TypeOK /\ PortInv /\ BootInv /\ FreqInv

(* What follows of types and port.                                         *)
LEMMA BaseUp == ASSUME Base PROVE LinkTypes /\ FormTypes /\ (Up <=> handle = "live")
BY TypeParts DEF Base, PortInv, Up

(* Nothing is written, and no command executed.                            *)
LineKept == UNCHANGED <<connected, handle, toTx, tx>>

(* The port has been opened, or no handle works.                           *)
Renews(line) ==
  \/ connected' /\ handle' = "live" /\ tx' = Booting /\ toTx' = line /\ toForm' = <<>>
  \/ handle' # "live"

(* A frequency is the last one, or written, or opens the port.             *)
LEMMA SendRXfreqEffect ==
  ASSUME "Glitch" \notin Ops, Base, SendRXfreq
  PROVE  \/ Up /\ LineKept /\ toForm' = toForm /\ RXfreq = LastTXfreq
         \/ /\ Up /\ Written(Append(toTx, <<"F", RXfreq>>)) /\ toForm' = toForm
            /\ RXfreq # LastTXfreq
         \/ ~ Up /\ Renews(<< <<"F", RXfreq>> >>)
<1>1. PICK p \in SendTXfreq({Io}, RXfreq) : Leave(p, toForm)
  BY DEF SendRXfreq
<1>2. LinkTypes /\ (Up <=> handle = "live")
  BY BaseUp
<1>3. CASE Up /\ RXfreq = LastTXfreq
  <2>1. p = After(toTx)
    BY <1>1, <1>3, SendTXfreqUp, IoUp
  <2> QED  BY <1>1, <1>2, <1>3, <2>1, LeaveUp DEF Written, LineKept, Up
<1>4. CASE Up /\ RXfreq # LastTXfreq
  <2>1. p = After(Append(toTx, <<"F", RXfreq>>))
    BY <1>1, <1>4, SendTXfreqUp, IoUp
  <2> QED  BY <1>1, <1>2, <1>4, <2>1, LeaveUp
<1>5. CASE ~ Up
  <2>1. p = Renewed(<< <<"F", RXfreq>> >>) \/ p.handle # "live"
    BY <1>1, <1>2, <1>5, SendTXfreqDown
  <2> DEFINE line == << <<"F", RXfreq>> >>
  <2>2. /\ Renewed(line).line = line /\ Renewed(line).connected
        /\ Renewed(line).handle = "live" /\ Renewed(line).opened
    BY AfterIs
  <2> HIDE DEF line
  <2>3. Renews(line)
    BY <1>1, <2>1, <2>2 DEF Leave, Renews, line
  <2> QED  BY <1>5, <2>3 DEF line
<1> QED  BY <1>3, <1>4, <1>5

(* The port's number.                                                      *)
LEMMA PortEditEffect ==
  ASSUME LinkTypes, PortEdit
  PROVE  Renews(<<>>)
<1>1. PICK p \in ReOpenPort(Io) : Leave(p, toForm)
  BY DEF PortEdit
<1>2. Io \in IoType
  BY DEF LinkTypes, Io, IoType
<1>3. p = Opened \/ p.handle # "live"
  BY <1>1, <1>2, ReOpenLeaves
<1>4. Opened.connected /\ Opened.handle = "live" /\ Opened.line = <<>> /\ Opened.opened
  BY DEF Opened
<1> QED  BY <1>1, <1>3, <1>4 DEF Leave, Renews

(* The clicks write what they say.                                         *)
LEMMA ClickEffects ==
  ASSUME "Glitch" \notin Ops, Base
  PROVE  /\ StandbyClick => /\ Written(IF StandbyMode' THEN Append(toTx, <<"D">>) ELSE TurnOnLine)
                            /\ toForm' = toForm
         /\ LevelEdit => Written(Append(toTx, <<"L", TXlevel'>>)) /\ toForm' = toForm
         /\ PAclick => Written(Append(toTx, <<"Q", PAchk'>>)) /\ toForm' = toForm
<1>1. LinkTypes /\ FormTypes
  BY BaseUp
<1>2. ASSUME StandbyClick
      PROVE  /\ Written(IF StandbyMode' THEN Append(toTx, <<"D">>) ELSE TurnOnLine)
             /\ toForm' = toForm
  <2>1. (~ StandbyMode) \in BOOLEAN /\ StandbyMode' = ~ StandbyMode
    BY <1>2 DEF StandbyClick
  <2> QED  BY <1>1, <1>2, <2>1, StandbyWrites DEF StandbyClick
<1>3. ASSUME LevelEdit
      PROVE  Written(Append(toTx, <<"L", TXlevel'>>)) /\ toForm' = toForm
  BY <1>1, <1>3, OneWrite DEF LevelEdit
<1>4. ASSUME PAclick
      PROVE  Written(Append(toTx, <<"Q", PAchk'>>)) /\ toForm' = toForm
  BY <1>1, <1>4, OneWrite DEF PAclick, SendPAstate
<1> QED  BY <1>2, <1>3, <1>4

(* Unloading leaves no port that works.                                    *)
LEMMA UnloadEffect ==
  ASSUME "Glitch" \notin Ops, Base, Unload
  PROVE  /\ ~ connected' /\ handle' # "live" /\ tx' = tx
         /\ Up => handle' = "none" /\ toTx' = Append(toTx, <<"D">>)
         /\ ~ Up => toTx' = toTx
<1>1. LinkTypes /\ (Up <=> handle = "live")
  BY BaseUp
<1>2. PICK q \in WriteSerialPort(Io, <<"D">>) : Leave(CloseCOMPort(q), <<>>)
  BY DEF Unload, StandbyThenClose
<1>3. Io \in IoType /\ Io.handle = handle /\ Io.line = toTx /\ Io.opened = FALSE
      /\ Io.connected = connected
  BY <1>1 DEF LinkTypes, Io, IoType
<1>4. CASE Up
  <2>1. q = After(Append(toTx, <<"D">>))
    <3>1. WriteSerialPort(After(toTx), <<"D">>) = {After(Append(toTx, <<"D">>))}
      BY <1>4, WriteUp
    <3> QED  BY <1>2, <3>1, IoUp
  <2>2. q.connected /\ q.opened = FALSE /\ q.line = Append(toTx, <<"D">>)
    BY <1>4, <2>1, AfterIs DEF Up
  <2>3. /\ CloseCOMPort(q).connected = FALSE /\ CloseCOMPort(q).handle = "none"
        /\ CloseCOMPort(q).line = q.line /\ CloseCOMPort(q).opened = q.opened
    BY <2>1, <2>2 DEF CloseCOMPort, After, Io
  <2> QED  BY <1>2, <1>4, <2>2, <2>3 DEF Leave
<1>5. CASE ~ Up
  <2>1. q = Down(Io) /\ q \in IoType /\ ~ q.connected /\ q.line = toTx /\ q.opened = FALSE
        /\ q.handle # "live"
    BY <1>1, <1>2, <1>3, <1>5, WriteDown
  <2>2. /\ CloseCOMPort(q).connected = FALSE /\ CloseCOMPort(q).handle = q.handle
        /\ CloseCOMPort(q).line = q.line /\ CloseCOMPort(q).opened = q.opened
    BY <2>1 DEF CloseCOMPort, IoType
  <2> QED  BY <1>2, <1>5, <2>1, <2>2 DEF Leave
<1> QED  BY <1>4, <1>5

(* The answer to {~TX} is written; other messages write nothing.           *)
LEMMA HearEffects ==
  ASSUME "Glitch" \notin Ops, Base
  PROVE  /\ HearStart => /\ Up /\ Written(AnswerLine) /\ toForm' = Tail(toForm)
                         /\ toForm # <<>> /\ Head(toForm) = "~TX"
         /\ \A msg : HearOther(msg) => /\ Up /\ LineKept /\ toForm' = Tail(toForm)
                                       /\ toForm # <<>> /\ Head(toForm) = msg
<1>1. LinkTypes /\ (Up <=> handle = "live")
  BY BaseUp
<1>2. ASSUME HearStart
      PROVE  /\ Up /\ Written(AnswerLine) /\ toForm' = Tail(toForm)
             /\ toForm # <<>> /\ Head(toForm) = "~TX"
  <2>1. Up /\ toForm # <<>> /\ Head(toForm) = "~TX"
    BY <1>1, <1>2 DEF HearStart, Hear
  <2>2. Answer({Io}) = {After(AnswerLine)}
    BY <1>1, <2>1, AnswerUp
  <2>3. Leave(After(AnswerLine), Tail(toForm))
    BY <1>2, <2>2 DEF HearStart
  <2> QED  BY <1>1, <2>1, <2>3, LeaveUp
<1>3. ASSUME NEW msg, HearOther(msg)
      PROVE  /\ Up /\ LineKept /\ toForm' = Tail(toForm)
             /\ toForm # <<>> /\ Head(toForm) = msg
  <2>1. Up /\ toForm # <<>> /\ Head(toForm) = msg
    BY <1>1, <1>3 DEF HearOther, Hear
  <2>2. Leave(After(toTx), Tail(toForm))
    BY <1>3, IoUp DEF HearOther
  <2>3. Written(toTx) /\ toForm' = Tail(toForm)
    BY <1>1, <2>1, <2>2, LeaveUp
  <2> QED  BY <2>1, <2>3 DEF Written, LineKept, Up
<1> QED  BY <1>2, <1>3

(* The transmitter's own steps do not touch the port.                      *)
LEMMA FirmwareEffect ==
  ASSUME Firmware \/ Reset
  PROVE  UNCHANGED <<settings, tracking, connected, handle>>
BY DEF Firmware, ProcessSerialIn, Start, KeyDown, KeyUp, Lockout, Reset, Transmitter

(* Steps beside the line.                                                  *)
LEMMA OtherEffect ==
  ASSUME Tune \/ ModeChange \/ SetMute \/ Plug \/ UNCHANGED vars
  PROVE  LineKept /\ toForm' = toForm /\ UNCHANGED <<StandbyMode, TXlevel, PAchk, UnloadInProgress,
                                                     CurrentTXfreq, LastTXfreq>>
BY DEF Tune, ModeChange, SetMute, Plug, vars, LineKept, serial, settings, tracking

(* Without the cable no handle works.                                      *)
LEMMA UnplugEffect ==
  ASSUME Unplug
  PROVE  handle' # "live" /\ tx' = tx /\ UNCHANGED <<settings, tracking>>
BY DEF Unplug

(* Types, the port, the transmitter's start and the two frequencies.       *)
LEMMA BaseStep ==
  ASSUME "Glitch" \notin Ops, Base, [Next]_vars
  PROVE  Base'
<1>0. LinkTypes /\ FormTypes /\ (Up <=> handle = "live") /\ tx \in TxType
  BY BaseUp DEF LinkTypes
<1>1. TypeOK'
  BY TypeStep DEF Base
<1>2. ASSUME NEW line, Written(line) PROVE PortInv' /\ BootInv'
  BY <1>0, <1>2 DEF Written, Base, PortInv, BootInv, Up
<1>3. ASSUME LineKept PROVE PortInv' /\ BootInv'
  BY <1>3 DEF LineKept, Base, PortInv, BootInv
<1>4. ASSUME NEW line, Renews(line), BootInv' PROVE PortInv' /\ BootInv'
  BY <1>4 DEF Renews, PortInv
<1>5. ASSUME NEW p, NEW received, Leave(p, received) PROVE BootInv'
  <2>1. tx' = tx \/ tx' = Booting
    BY <1>5 DEF Leave
  <2> QED  BY <2>1 DEF BootInv, Base, Booting
<1>6. ASSUME SendRXfreq PROVE PortInv' /\ BootInv' /\ FreqInv'
  <2>1. BootInv' /\ FreqInv'
    BY <1>5, <1>6 DEF SendRXfreq, FreqInv
  <2> QED  BY <1>2, <1>3, <1>4, <1>6, <2>1, SendRXfreqEffect
<1>7. ASSUME StandbyClick \/ LevelEdit \/ PAclick PROVE PortInv' /\ BootInv' /\ FreqInv'
  <2>1. FreqInv'
    BY <1>7 DEF StandbyClick, LevelEdit, PAclick, tracking, Base, FreqInv
  <2> QED  BY <1>2, <1>7, <2>1, ClickEffects
<1>8. ASSUME PortEdit PROVE PortInv' /\ BootInv' /\ FreqInv'
  <2>1. BootInv' /\ FreqInv'
    BY <1>5, <1>8 DEF PortEdit, tracking, Base, FreqInv
  <2> QED  BY <1>0, <1>4, <1>8, <2>1, PortEditEffect
<1>9. ASSUME Unload PROVE PortInv' /\ BootInv' /\ FreqInv'
  <2>1. FreqInv'
    BY <1>9 DEF Unload, tracking, Base, FreqInv
  <2> QED  BY <1>9, <2>1, UnloadEffect DEF Base, PortInv, BootInv
<1>10. ASSUME HearStart PROVE PortInv' /\ BootInv' /\ FreqInv'
  <2>1. FreqInv'
    BY <1>10 DEF HearStart, FreqInv
  <2> QED  BY <1>2, <1>10, <2>1, HearEffects
<1>11. ASSUME NEW msg, HearOther(msg) PROVE PortInv' /\ BootInv' /\ FreqInv'
  <2>1. FreqInv'
    BY <1>11 DEF HearOther, Base, FreqInv
  <2> QED  BY <1>3, <1>11, <2>1, HearEffects
<1>12. ASSUME Firmware \/ Reset PROVE PortInv' /\ BootInv' /\ FreqInv'
  <2>1. PortInv' /\ FreqInv'
    BY <1>12, FirmwareEffect DEF tracking, Base, PortInv, FreqInv
  <2>2. ASSUME NEW cmd \in Commands, ~ tx.boot PROVE ~ Executed(cmd).boot
    BY <1>0, <2>2 DEF Executed, Commands, TxType
  <2>3. ASSUME ProcessSerialIn PROVE BootInv'
    <3>1. CASE tx.boot
      BY <2>3, <3>1 DEF ProcessSerialIn, Base, BootInv
    <3>2. CASE ~ tx.boot
      <4>1. Head(toTx) \in Commands
        BY <1>0, <2>3, HeadTailProperties DEF ProcessSerialIn, LinkTypes
      <4> QED  BY <2>2, <2>3, <3>2, <4>1 DEF ProcessSerialIn, BootInv
    <3> QED  BY <3>1, <3>2
  <2>4. ASSUME Start \/ KeyDown \/ KeyUp \/ Lockout PROVE BootInv'
    BY <1>0, <2>4 DEF Start, KeyDown, KeyUp, Lockout, Base, BootInv, TxType
  <2>5. ASSUME Reset PROVE BootInv'
    BY <2>5 DEF Reset, BootInv, Booting
  <2> QED  BY <1>12, <2>1, <2>3, <2>4, <2>5 DEF Firmware
<1>13. ASSUME Unplug PROVE PortInv' /\ BootInv' /\ FreqInv'
  BY <1>13, UnplugEffect DEF tracking, Base, PortInv, BootInv, FreqInv
<1>14. ASSUME Tune \/ ModeChange \/ SetMute \/ Plug \/ UNCHANGED vars
       PROVE  PortInv' /\ BootInv' /\ FreqInv'
  BY <1>3, <1>14, OtherEffect DEF Base, FreqInv
<1> QED
  BY <1>1, <1>6, <1>7, <1>8, <1>9, <1>10, <1>11, <1>12, <1>13, <1>14
     DEF Base, Next, ProcessIncomingSerial, HearMute, HearUnmute, HearLockout, HearHalf

(* And at the start.                                                       *)
LEMMA BaseInit == ASSUME Init PROVE Base
<1>1. TypeOK
  BY InitTyped
<1>2. BootInv /\ FreqInv
  BY DEF Init, BootInv, FreqInv, Booting
<1>3. handle = "live" => connected
  BY DEF Init
<1> QED  BY <1>1, <1>2, <1>3 DEF Base, PortInv

-----------------------------------------------------------------------------
(* The invariants.  Standby is D behind every U; the box that is not       *)
(* ticked is Q0 behind every Q1.                                           *)

(* Commands that are told apart.                                           *)
LEMMA Different ==
  /\ <<"D">> # <<"U">>
  /\ <<"Q", FALSE>> # <<"Q", TRUE>>
  /\ \A x : /\ <<"F", x>> # <<"U">> /\ <<"L", x>> # <<"U">> /\ <<"Q", x>> # <<"U">>
            /\ <<"F", x>> # <<"Q", TRUE>> /\ <<"L", x>> # <<"Q", TRUE>>
            /\ <<"D">> # <<"Q", TRUE>> /\ <<"U">> # <<"Q", TRUE>>
OBVIOUS

(* The types a proof about the line needs.                                  *)
LEMMA BaseTypes ==
  ASSUME Base
  PROVE  /\ toTx \in Seq(Commands) /\ toForm \in Seq(Messages) /\ tx \in TxType
         /\ RXfreq \in Freqs /\ CurrentTXfreq \in Freqs /\ TXlevel \in Levels
         /\ \A freq \in Freqs : <<"F", freq>> \in Commands
         /\ \A level \in Levels : <<"L", level>> \in Commands
         /\ \A on \in BOOLEAN : <<"Q", on>> \in Commands
         /\ <<"D">> \in Commands /\ <<"U">> \in Commands
<1>1. LinkTypes /\ FormTypes
  BY BaseUp
<1>2. /\ \A on \in BOOLEAN : <<"Q", on>> \in Commands
  BY DEF Commands
<1> QED  BY <1>1, <1>2, WritesTyped, CommandsTyped DEF LinkTypes, FormTypes

(* What a command does to the power.                                       *)
LEMMA PowerAfter ==
  ASSUME tx \in TxType, NEW cmd \in Commands
  PROVE  /\ Executed(cmd).TXPowerOn \in BOOLEAN
         /\ Executed(cmd).TXPowerOn => cmd = <<"U">> \/ (tx.TXPowerOn /\ cmd # <<"D">>)
<1>0. ASSUME NEW name \in {"F", "L", "Q"}, NEW x, cmd = <<name, x>>
      PROVE  Executed(cmd).TXPowerOn = tx.TXPowerOn /\ cmd # <<"D">>
  <2>1. cmd[1] = name /\ <<"D">>[1] = "D"
    BY <1>0
  <2>2. cmd # <<"D">>
    BY <2>1
  <2>3. Executed(cmd).TXPowerOn = tx.TXPowerOn
    BY <2>1 DEF Executed, TxType
  <2> QED  BY <2>2, <2>3
<1>2. CASE \E name \in {"F", "L", "Q"} : \E x : cmd = <<name, x>>
  <2>1. tx.TXPowerOn \in BOOLEAN
    BY DEF TxType
  <2> QED  BY <1>0, <1>2, <2>1
<1>3. cmd \in ({"F"} \X Freqs) \union ({"L"} \X Levels) \union ({"Q"} \X BOOLEAN)
        => \E name \in {"F", "L", "Q"} : \E x : cmd = <<name, x>>
  OBVIOUS
<1>4. CASE cmd = <<"D">>
  <2>1. cmd[1] = "D"
    BY <1>4
  <2> QED  BY <1>4, <2>1 DEF Executed, TxType
<1>5. CASE cmd = <<"U">>
  <2>1. cmd[1] = "U"
    BY <1>5
  <2> QED  BY <1>5, <2>1 DEF Executed, TxType
<1> QED  BY <1>2, <1>3, <1>4, <1>5 DEF Commands

(* Without a lockout nothing that arrives turns the form to standby.       *)
NoLockout == toForm \in Seq(Messages \ {"D"})

(* Each step sends only {~TX}, {M} and {N}.                                *)
LEMMA NoLockoutStep ==
  ASSUME "Lockout" \notin Ops, NoLockout, [Next]_vars
  PROVE  NoLockout'
<1> DEFINE Quiet == Messages \ {"D"}
<1>0. /\ toForm \in Seq(Quiet) /\ <<>> \in Seq(Quiet) /\ <<"~TX">> \in Seq(Quiet)
      /\ <<"M">> \in Seq(Quiet) /\ <<"N">> \in Seq(Quiet)
      /\ (toForm # <<>> => Tail(toForm) \in Seq(Quiet))
  BY EmptySeq, HeadTailProperties DEF NoLockout, Messages
<1> HIDE DEF Quiet
<1>1. ASSUME NEW p, NEW received \in Seq(Quiet), Leave(p, received) PROVE toForm' \in Seq(Quiet)
  BY <1>0, <1>1 DEF Leave
<1>2. ASSUME NEW msgs \in Seq(Quiet), Send(msgs) \/ Report(msgs) PROVE toForm' \in Seq(Quiet)
  <2>1. PICK sent \in Seq(Quiet) : Send(sent)
    BY <1>0, <1>2 DEF Report
  <2>2. toForm \o sent \in Seq(Quiet)
    BY <1>0, <2>1, ConcatProperties
  <2> QED  BY <1>0, <2>1, <2>2 DEF Send
<1>3. ASSUME SendRXfreq \/ StandbyClick \/ LevelEdit \/ PAclick \/ PortEdit \/ Unload
      PROVE  toForm' \in Seq(Quiet)
  BY <1>0, <1>1, <1>3
     DEF SendRXfreq, StandbyClick, SetStandbyMode, LevelEdit, PAclick, PortEdit, Unload
<1>4. ASSUME HearStart \/ HearMute \/ HearUnmute \/ HearLockout \/ HearHalf
      PROVE  toForm' \in Seq(Quiet)
  BY <1>0, <1>1, <1>4
     DEF HearStart, HearMute, HearUnmute, HearLockout, HearHalf, HearOther, Hear
<1>5. ASSUME Firmware \/ Reset PROVE toForm' \in Seq(Quiet)
  BY <1>0, <1>2, <1>5
     DEF Firmware, ProcessSerialIn, Start, KeyDown, KeyUp, Lockout, Reset
<1>6. ASSUME Tune \/ ModeChange \/ SetMute \/ Unplug \/ Plug \/ UNCHANGED vars
      PROVE  toForm' \in Seq(Quiet)
  BY <1>0, <1>6 DEF Tune, ModeChange, SetMute, Unplug, Plug, vars
<1> QED
  BY <1>3, <1>4, <1>5, <1>6 DEF Next, ProcessIncomingSerial, NoLockout, Quiet

(* So much for the next one, in the boot loader too.                       *)
LEMMA PowerTaken ==
  ASSUME Base, ProcessSerialIn
  PROVE  /\ tx'.TXPowerOn \in BOOLEAN
         /\ tx'.TXPowerOn
              => Head(toTx) = <<"U">> \/ (tx.TXPowerOn /\ Head(toTx) # <<"D">>)
<1>0. tx \in TxType /\ tx.TXPowerOn \in BOOLEAN /\ Head(toTx) \in Commands
  BY BaseTypes, HeadTailProperties DEF TxType, ProcessSerialIn
<1>1. CASE tx.boot
  <2>1. ~ tx.TXPowerOn /\ tx' = tx
    BY <1>1 DEF ProcessSerialIn, Base, BootInv
  <2>2. tx'.TXPowerOn = tx.TXPowerOn
    BY <2>1
  <2> QED  BY <1>0, <2>1, <2>2
<1>2. CASE ~ tx.boot
  <2>1. tx' = Executed(Head(toTx))
    BY <1>2 DEF ProcessSerialIn
  <2> QED  BY <1>0, <2>1, PowerAfter
<1> QED  BY <1>1, <1>2

(* The answer to {~TX} turns nothing on.                                   *)
LEMMA AnswerEnds ==
  ASSUME Base, NEW set, NEW reset, NEW now \in BOOLEAN, Ends(toTx, set, reset, now),
         \A x : <<"F", x>> # set /\ <<"L", x>> # set, <<"Q", FALSE>> # set
  PROVE  Ends(AnswerLine, set, reset, now)
<1> DEFINE first == Append(toTx, <<"F", CurrentTXfreq>>)
           both  == IF RXfreq = LastTXfreq THEN first ELSE Append(first, <<"F", RXfreq>>)
           third == Append(both, <<"L", TXlevel>>)
<1>0. /\ toTx \in Seq(Commands) /\ <<"Q", FALSE>> \in Commands
      /\ <<"F", CurrentTXfreq>> \in Commands /\ <<"F", RXfreq>> \in Commands
      /\ <<"L", TXlevel>> \in Commands
  BY BaseTypes
<1>1. first \in Seq(Commands) /\ Ends(first, set, reset, now)
  BY <1>0, AppendProperties, EndsAppend
<1>2. both \in Seq(Commands) /\ Ends(both, set, reset, now)
  <2> HIDE DEF first
  <2> QED  BY <1>0, <1>1, AppendProperties, EndsAppend
<1> HIDE DEF both
<1>3. third \in Seq(Commands) /\ Ends(third, set, reset, now)
  BY <1>0, <1>2, AppendProperties, EndsAppend
<1> HIDE DEF third
<1>4. Ends(Append(third, <<"Q", FALSE>>), set, reset, now)
  BY <1>0, <1>3, EndsAppend
<1> QED  BY <1>4 DEF AnswerLine, first, both, third

(* Standby: each {U} has {D} behind it.                                    *)
StandbyInv == Up /\ StandbyMode => Ends(toTx, <<"U">>, <<"D">>, tx.TXPowerOn)

(* Each step keeps {D} behind {U} while the form shows standby.            *)
LEMMA StandbyStep ==
  ASSUME "Lockout" \notin Ops, "Glitch" \notin Ops, Base, NoLockout, StandbyInv, [Next]_vars
  PROVE  StandbyInv'
<1> DEFINE OK == Ends(toTx, <<"U">>, <<"D">>, tx.TXPowerOn)
<1> SUFFICES ASSUME Up', StandbyMode' PROVE OK'
  BY DEF StandbyInv
<1>0. /\ toTx \in Seq(Commands) /\ tx \in TxType /\ tx.TXPowerOn \in BOOLEAN
      /\ <<"D">> \in Commands /\ RXfreq \in Freqs
      /\ \A freq \in Freqs : <<"F", freq>> \in Commands
      /\ \A level \in Levels : <<"L", level>> \in Commands
      /\ \A on \in BOOLEAN : <<"Q", on>> \in Commands
  BY BaseTypes DEF TxType
<1>1. ASSUME NEW cmd \in Commands, cmd # <<"U">>, Written(Append(toTx, cmd)),
             StandbyMode \/ cmd = <<"D">>
      PROVE  OK'
  <2>1. Up /\ toTx' = Append(toTx, cmd) /\ tx' = tx
    BY <1>1 DEF Written, Up
  <2>2. cmd = <<"D">> \/ OK
    BY <1>1, <2>1 DEF StandbyInv
  <2>3. Ends(Append(toTx, cmd), <<"U">>, <<"D">>, tx.TXPowerOn)
    BY <1>0, <1>1, <2>2, EndsAppend
  <2> QED  BY <2>1, <2>3
<1>2. ASSUME NEW line, Renews(line), line = <<>> \/ \E freq \in Freqs : line = << <<"F", freq>> >>
      PROVE  OK'
  <2>1. tx' = Booting /\ toTx' = line /\ Booting.TXPowerOn = FALSE
    BY <1>2 DEF Renews, Up, Booting
  <2>2. Ends(<<>>, <<"U">>, <<"D">>, FALSE) /\ <<>> \in Seq(Commands)
    BY EndsEmpty, EmptySeq
  <2>3. CASE line = <<>>
    BY <2>1, <2>2, <2>3
  <2>4. ASSUME NEW freq \in Freqs, line = << <<"F", freq>> >> PROVE OK'
    <3>1. line = Append(<<>>, <<"F", freq>>)
      BY <2>4
    <3>2. Ends(Append(<<>>, <<"F", freq>>), <<"U">>, <<"D">>, FALSE)
      BY <1>0, <2>2, EndsAppend, Different
    <3> QED  BY <2>1, <3>1, <3>2
  <2> QED  BY <1>2, <2>3, <2>4
<1>3. ASSUME LineKept, StandbyMode PROVE OK'
  BY <1>3 DEF LineKept, StandbyInv, Up
<1>4. CASE SendRXfreq
  <2>1. StandbyMode
    BY <1>4 DEF SendRXfreq, settings
  <2>2. <<"F", RXfreq>> \in Commands /\ <<"F", RXfreq>> # <<"U">>
    BY <1>0, Different
  <2> QED  BY <1>0, <1>1, <1>2, <1>3, <1>4, <2>1, <2>2, SendRXfreqEffect
<1>5. CASE StandbyClick
  <2>1. Written(Append(toTx, <<"D">>))
    BY <1>5, ClickEffects
  <2> QED  BY <1>0, <1>1, <2>1, Different
<1>6. CASE LevelEdit
  <2>1. Written(Append(toTx, <<"L", TXlevel'>>)) /\ TXlevel' \in Levels /\ StandbyMode
    BY <1>6, ClickEffects DEF LevelEdit
  <2> QED  BY <1>0, <1>1, <2>1, Different
<1>7. CASE PAclick
  <2>1. Written(Append(toTx, <<"Q", PAchk'>>)) /\ PAchk' \in BOOLEAN /\ StandbyMode
    BY <1>7, ClickEffects DEF PAclick
  <2> QED  BY <1>0, <1>1, <2>1, Different
<1>8. CASE PortEdit
  BY <1>2, <1>8, BaseUp, PortEditEffect
<1>9. CASE Unload
  BY <1>9, UnloadEffect DEF Up
<1>10. CASE HearStart
  <2>1. StandbyMode /\ Up /\ Written(AnswerLine)
    BY <1>10, HearEffects DEF HearStart, settings
  <2>2. Ends(AnswerLine, <<"U">>, <<"D">>, tx.TXPowerOn)
    BY <1>0, <2>1, AnswerEnds, Different DEF StandbyInv
  <2> QED  BY <2>1, <2>2 DEF Written
<1>11. CASE HearMute \/ HearUnmute \/ HearHalf
  <2>1. PICK msg : HearOther(msg)
    BY <1>11 DEF HearMute, HearUnmute, HearHalf
  <2> QED  BY <1>3, <1>11, <2>1, HearEffects DEF HearMute, HearUnmute, HearHalf
<1>12. CASE HearLockout
  <2>1. toForm # <<>> /\ Head(toForm) = "D"
    BY <1>12, HearEffects DEF HearLockout
  <2>2. Head(toForm) \in Messages \ {"D"}
    BY <2>1, HeadTailProperties DEF NoLockout
  <2> QED  BY <2>1, <2>2
<1>13. ASSUME Firmware \/ Reset, toTx' = toTx, tx'.TXPowerOn = tx.TXPowerOn PROVE OK'
  BY <1>13, FirmwareEffect DEF settings, Up, StandbyInv
<1>14. CASE ProcessSerialIn
  <2>1. OK /\ toTx # <<>> /\ toTx' = Tail(toTx) /\ Head(toTx) \in Commands
    BY <1>0, <1>14, FirmwareEffect, HeadTailProperties
       DEF Firmware, ProcessSerialIn, settings, Up, StandbyInv
  <2> DEFINE after == tx'.TXPowerOn
  <2>2. after \in BOOLEAN /\ (after => Head(toTx) = <<"U">> \/ (tx.TXPowerOn /\ Head(toTx) # <<"D">>))
    BY <1>14, PowerTaken
  <2> HIDE DEF after
  <2>3. Ends(Tail(toTx), <<"U">>, <<"D">>, after)
    BY <1>0, <2>1, <2>2, EndsTail, Different
  <2> QED  BY <2>1, <2>3 DEF after
<1>15. CASE Start \/ KeyDown \/ KeyUp
  <2>1. toTx' = toTx /\ tx'.TXPowerOn = tx.TXPowerOn
    BY <1>0, <1>15 DEF Start, KeyDown, KeyUp, TxType
  <2> QED  BY <1>13, <1>15, <2>1 DEF Firmware
<1>16. CASE Reset
  BY <1>16, EndsEmpty DEF Reset, Booting
<1>17. CASE Unplug
  BY <1>17, UnplugEffect DEF Up
<1>18. CASE Tune \/ ModeChange \/ SetMute \/ Plug \/ UNCHANGED vars
  BY <1>3, <1>18, OtherEffect
<1> QED
  BY <1>4, <1>5, <1>6, <1>7, <1>8, <1>9, <1>10, <1>11, <1>12, <1>14, <1>15, <1>16, <1>17, <1>18
     DEF Next, ProcessIncomingSerial, Firmware, Lockout

(* When nothing is under way and the form shows standby, the transmitter   *)
(* is off, if it never locks itself out and no write fails on a port that  *)
(* works.                                                                  *)
THEOREM StandbyIsOffHolds ==
  ASSUME "Lockout" \notin Ops, "Glitch" \notin Ops
  PROVE  Spec => []StandbyIsOff
<1> DEFINE Inv == Base /\ NoLockout /\ StandbyInv
<1>1. Init => Inv
  <2> SUFFICES ASSUME Init PROVE Inv
    OBVIOUS
  <2>1. NoLockout
    BY EmptySeq DEF Init, NoLockout
  <2>2. StandbyInv
    BY EndsEmpty DEF Init, StandbyInv, Booting
  <2> QED  BY <2>1, <2>2, BaseInit
<1>2. Inv /\ [Next]_vars => Inv'
  BY BaseStep, NoLockoutStep, StandbyStep
<1>3. Inv => StandbyIsOff
  BY DEF StandbyInv, StandbyIsOff, Settled, Up, Ends
<1> HIDE DEF Inv
<1> QED  BY <1>1, <1>2, <1>3, PTL DEF Spec

-----------------------------------------------------------------------------
(* The external amplifier.                                                 *)

(* What a command does to it.                                              *)
LEMMA AmplifierAfter ==
  ASSUME tx \in TxType, NEW cmd \in Commands
  PROVE  /\ Executed(cmd).ExtPAon \in BOOLEAN
         /\ Executed(cmd).ExtPAon
              => cmd = <<"Q", TRUE>> \/ (tx.ExtPAon /\ cmd # <<"Q", FALSE>>)
<1>0. tx.ExtPAon \in BOOLEAN
  BY DEF TxType
<1>1. ASSUME NEW name \in {"F", "L"}, NEW x, cmd = <<name, x>>
      PROVE  Executed(cmd).ExtPAon = tx.ExtPAon /\ cmd # <<"Q", FALSE>>
  <2>1. cmd[1] = name /\ <<"Q", FALSE>>[1] = "Q"
    BY <1>1
  <2>2. cmd # <<"Q", FALSE>>
    BY <2>1
  <2>3. Executed(cmd).ExtPAon = tx.ExtPAon
    BY <2>1 DEF Executed, TxType
  <2> QED  BY <2>2, <2>3
<1>2. ASSUME NEW name \in {"D", "U"}, cmd = <<name>>
      PROVE  Executed(cmd).ExtPAon = tx.ExtPAon /\ cmd # <<"Q", FALSE>>
  <2>1. cmd[1] = name /\ <<"Q", FALSE>>[1] = "Q"
    BY <1>2
  <2>2. cmd # <<"Q", FALSE>>
    BY <2>1
  <2>3. Executed(cmd).ExtPAon = tx.ExtPAon
    BY <2>1 DEF Executed, TxType
  <2> QED  BY <2>2, <2>3
<1>3. ASSUME NEW on \in BOOLEAN, cmd = <<"Q", on>>
      PROVE  Executed(cmd).ExtPAon = on
  <2>1. cmd[1] = "Q" /\ cmd[2] = on
    BY <1>3
  <2> QED  BY <2>1 DEF Executed, TxType
<1>4. \/ \E name \in {"F", "L"} : \E x : cmd = <<name, x>>
      \/ \E name \in {"D", "U"} : cmd = <<name>>
      \/ \E on \in BOOLEAN : cmd = <<"Q", on>>
  BY DEF Commands
<1>5. CASE \E on \in BOOLEAN : cmd = <<"Q", on>>
  <2>1. PICK on \in BOOLEAN : cmd = <<"Q", on>>
    BY <1>5
  <2>2. on = TRUE \/ on = FALSE
    OBVIOUS
  <2> QED  BY <1>3, <2>1, <2>2
<1> QED  BY <1>0, <1>1, <1>2, <1>4, <1>5

(* The box not ticked: each {Q1} has {Q0} behind it.                       *)
AmplifierInv == Up /\ ~ PAchk => Ends(toTx, <<"Q", TRUE>>, <<"Q", FALSE>>, tx.ExtPAon)

(* Each step keeps {Q0} behind {Q1} while the box is not ticked.           *)
LEMMA AmplifierStep ==
  ASSUME "Glitch" \notin Ops, Base, AmplifierInv, [Next]_vars
  PROVE  AmplifierInv'
<1> DEFINE OK == Ends(toTx, <<"Q", TRUE>>, <<"Q", FALSE>>, tx.ExtPAon)
<1> SUFFICES ASSUME Up', ~ PAchk' PROVE OK'
  BY DEF AmplifierInv
<1>0. /\ toTx \in Seq(Commands) /\ tx \in TxType /\ tx.ExtPAon \in BOOLEAN
      /\ <<"D">> \in Commands /\ <<"U">> \in Commands /\ <<"Q", FALSE>> \in Commands
      /\ RXfreq \in Freqs /\ TXlevel \in Levels
      /\ \A freq \in Freqs : <<"F", freq>> \in Commands
      /\ \A level \in Levels : <<"L", level>> \in Commands
  BY BaseTypes DEF TxType
<1>1. ASSUME NEW cmd \in Commands, cmd # <<"Q", TRUE>>, Written(Append(toTx, cmd)),
             ~ PAchk \/ cmd = <<"Q", FALSE>>
      PROVE  OK'
  <2>1. Up /\ toTx' = Append(toTx, cmd) /\ tx' = tx
    BY <1>1 DEF Written, Up
  <2>2. cmd = <<"Q", FALSE>> \/ OK
    BY <1>1, <2>1 DEF AmplifierInv
  <2>3. Ends(Append(toTx, cmd), <<"Q", TRUE>>, <<"Q", FALSE>>, tx.ExtPAon)
    BY <1>0, <1>1, <2>2, EndsAppend
  <2> QED  BY <2>1, <2>3
<1>2. ASSUME NEW line, Renews(line), line = <<>> \/ \E freq \in Freqs : line = << <<"F", freq>> >>
      PROVE  OK'
  <2>1. tx' = Booting /\ toTx' = line /\ Booting.ExtPAon = FALSE
    BY <1>2 DEF Renews, Up, Booting
  <2>2. Ends(<<>>, <<"Q", TRUE>>, <<"Q", FALSE>>, FALSE) /\ <<>> \in Seq(Commands)
    BY EndsEmpty, EmptySeq
  <2>3. CASE line = <<>>
    BY <2>1, <2>2, <2>3
  <2>4. ASSUME NEW freq \in Freqs, line = << <<"F", freq>> >> PROVE OK'
    <3>1. line = Append(<<>>, <<"F", freq>>)
      BY <2>4
    <3>2. Ends(Append(<<>>, <<"F", freq>>), <<"Q", TRUE>>, <<"Q", FALSE>>, FALSE)
      BY <1>0, <2>2, EndsAppend, Different
    <3> QED  BY <2>1, <3>1, <3>2
  <2> QED  BY <1>2, <2>3, <2>4
<1>3. ASSUME LineKept, ~ PAchk PROVE OK'
  BY <1>3 DEF LineKept, AmplifierInv, Up
<1>4. CASE SendRXfreq
  <2>1. ~ PAchk
    BY <1>4 DEF SendRXfreq, settings
  <2>2. <<"F", RXfreq>> \in Commands /\ <<"F", RXfreq>> # <<"Q", TRUE>>
    BY <1>0, Different
  <2> QED  BY <1>0, <1>1, <1>2, <1>3, <1>4, <2>1, <2>2, SendRXfreqEffect
<1>5. CASE StandbyClick
  <2>1. ~ PAchk /\ StandbyMode' \in BOOLEAN
        /\ Written(IF StandbyMode' THEN Append(toTx, <<"D">>) ELSE TurnOnLine)
    BY <1>5, ClickEffects DEF StandbyClick
  <2>2. CASE StandbyMode'
    BY <1>0, <1>1, <2>1, <2>2, Different
  <2>3. CASE ~ StandbyMode'
    <3> DEFINE first  == Append(toTx, <<"L", TXlevel>>)
               second == Append(first, <<"Q", FALSE>>)
               third  == Append(second, <<"U">>)
    <3>1. Up /\ toTx' = TurnOnLine /\ tx' = tx /\ PAchk = FALSE
      BY <2>1, <2>3, BaseUp DEF Written, Up, FormTypes
    <3>2. OK
      BY <2>1, <3>1 DEF AmplifierInv
    <3>3. first \in Seq(Commands) /\ Ends(first, <<"Q", TRUE>>, <<"Q", FALSE>>, tx.ExtPAon)
      BY <1>0, <3>2, AppendProperties, EndsAppend, Different
    <3> HIDE DEF first
    <3>7. <<"Q", FALSE>> \in Commands /\ <<"Q", FALSE>> # <<"Q", TRUE>>
      BY <1>0, Different
    <3>8. second \in Seq(Commands)
      BY <3>3, <3>7, AppendProperties
    <3>4. second \in Seq(Commands) /\ Ends(second, <<"Q", TRUE>>, <<"Q", FALSE>>, tx.ExtPAon)
      BY <1>0, <3>3, <3>7, <3>8, EndsAppend
    <3> HIDE DEF second
    <3>5. Ends(third, <<"Q", TRUE>>, <<"Q", FALSE>>, tx.ExtPAon)
      BY <1>0, <3>4, EndsAppend, Different
    <3>6. TurnOnLine = third
      BY <3>1 DEF TurnOnLine, first, second
    <3> QED  BY <3>1, <3>5, <3>6
  <2> QED  BY <2>1, <2>2, <2>3
<1>6. CASE LevelEdit
  <2>1. Written(Append(toTx, <<"L", TXlevel'>>)) /\ TXlevel' \in Levels /\ ~ PAchk
    BY <1>6, ClickEffects DEF LevelEdit
  <2> QED  BY <1>0, <1>1, <2>1, Different
<1>7. CASE PAclick
  <2>1. Written(Append(toTx, <<"Q", PAchk'>>)) /\ PAchk' = FALSE
    BY <1>7, ClickEffects, BaseUp DEF PAclick, FormTypes
  <2> QED  BY <1>0, <1>1, <2>1, Different
<1>8. CASE PortEdit
  BY <1>2, <1>8, BaseUp, PortEditEffect
<1>9. CASE Unload
  BY <1>9, UnloadEffect DEF Up
<1>10. CASE HearStart
  <2>1. ~ PAchk /\ Up /\ Written(AnswerLine)
    BY <1>10, HearEffects DEF HearStart, settings
  <2>2. Ends(AnswerLine, <<"Q", TRUE>>, <<"Q", FALSE>>, tx.ExtPAon)
    BY <1>0, <2>1, AnswerEnds, Different DEF AmplifierInv
  <2> QED  BY <2>1, <2>2 DEF Written
<1>11. CASE HearMute \/ HearUnmute \/ HearLockout \/ HearHalf
  <2>1. PICK msg : HearOther(msg)
    BY <1>11 DEF HearMute, HearUnmute, HearLockout, HearHalf
  <2> QED  BY <1>3, <2>1, HearEffects DEF HearOther
<1>13. ASSUME Firmware \/ Reset, toTx' = toTx, tx'.ExtPAon = tx.ExtPAon PROVE OK'
  BY <1>13, FirmwareEffect DEF settings, Up, AmplifierInv
<1>14. CASE ProcessSerialIn
  <2>1. OK /\ toTx # <<>> /\ toTx' = Tail(toTx) /\ Head(toTx) \in Commands
    BY <1>0, <1>14, FirmwareEffect, HeadTailProperties
       DEF Firmware, ProcessSerialIn, settings, Up, AmplifierInv
  <2> DEFINE after == tx'.ExtPAon
  <2>2. /\ after \in BOOLEAN
        /\ after => Head(toTx) = <<"Q", TRUE>> \/ (tx.ExtPAon /\ Head(toTx) # <<"Q", FALSE>>)
    <3>1. CASE tx.boot
      <4>1. ~ tx.ExtPAon /\ tx' = tx
        BY <1>14, <3>1 DEF ProcessSerialIn, Base, BootInv
      <4>2. after = tx.ExtPAon
        BY <4>1
      <4> QED  BY <1>0, <4>1, <4>2
    <3>2. CASE ~ tx.boot
      <4>1. tx' = Executed(Head(toTx))
        BY <1>14, <3>2 DEF ProcessSerialIn
      <4> QED  BY <1>0, <2>1, <4>1, AmplifierAfter
    <3> QED  BY <3>1, <3>2
  <2> HIDE DEF after
  <2>3. Ends(Tail(toTx), <<"Q", TRUE>>, <<"Q", FALSE>>, after)
    BY <1>0, <2>1, <2>2, EndsTail, Different
  <2> QED  BY <2>1, <2>3 DEF after
<1>15. CASE Start \/ KeyDown \/ KeyUp \/ Lockout
  <2>1. toTx' = toTx /\ tx'.ExtPAon = tx.ExtPAon
    BY <1>0, <1>15 DEF Start, KeyDown, KeyUp, Lockout, TxType
  <2> QED  BY <1>13, <1>15, <2>1 DEF Firmware
<1>16. CASE Reset
  BY <1>16, EndsEmpty DEF Reset, Booting
<1>17. CASE Unplug
  BY <1>17, UnplugEffect DEF Up
<1>18. CASE Tune \/ ModeChange \/ SetMute \/ Plug \/ UNCHANGED vars
  BY <1>3, <1>18, OtherEffect
<1> QED
  BY <1>4, <1>5, <1>6, <1>7, <1>8, <1>9, <1>10, <1>11, <1>14, <1>15, <1>16, <1>17, <1>18
     DEF Next, ProcessIncomingSerial, Firmware

(* An external amplifier that is on without its box ticked has {Q0} on the *)
(* way to it: through resets, lockouts, a port that comes and goes and     *)
(* messages that are lost, if no write fails on a port that works.         *)
THEOREM AmplifierAsTickedHolds ==
  ASSUME "Glitch" \notin Ops
  PROVE  Spec => []AmplifierAsTicked
<1> DEFINE Inv == Base /\ AmplifierInv
<1>1. Init => Inv
  <2> SUFFICES ASSUME Init PROVE Inv
    OBVIOUS
  <2>1. AmplifierInv
    BY EndsEmpty DEF Init, AmplifierInv, Booting
  <2> QED  BY <2>1, BaseInit
<1>2. Inv /\ [Next]_vars => Inv'
  BY BaseStep, AmplifierStep
<1>3. Inv => AmplifierAsTicked
  <2> SUFFICES ASSUME Base, AmplifierInv, Up, tx.ExtPAon, ~ PAchk
               PROVE  Contains(toTx, <<"Q", FALSE>>)
    BY DEF AmplifierAsTicked, Up
  <2>1. PICK k \in 1 .. Len(toTx) : toTx[k] = <<"Q", FALSE>>
    BY DEF AmplifierInv, Ends
  <2> QED  BY <2>1 DEF Contains
<1> HIDE DEF Inv
<1> QED  BY <1>1, <1>2, <1>3, PTL DEF Spec

-----------------------------------------------------------------------------
(* Unloading.                                                              *)

(* The port works until the plugin is unloaded, and {D} is behind every    *)
(* {U} after that.                                                         *)
UnloadInv ==
  /\ ~ UnloadInProgress => Up
  /\ UnloadInProgress => /\ ~ connected /\ handle = "none"
                         /\ Ends(toTx, <<"U">>, <<"D">>, tx.TXPowerOn)

(* Each step keeps the port working, or closes it behind {D}.              *)
LEMMA UnloadStep ==
  ASSUME "Glitch" \notin Ops, "Unplug" \notin Ops, Base, UnloadInv, [Next]_vars
  PROVE  UnloadInv'
<1> DEFINE OK == Ends(toTx, <<"U">>, <<"D">>, tx.TXPowerOn)
           Closed == ~ connected /\ handle = "none"
<1>0. /\ toTx \in Seq(Commands) /\ tx \in TxType /\ tx.TXPowerOn \in BOOLEAN
      /\ <<"D">> \in Commands /\ FormTypes
  BY BaseTypes, BaseUp DEF TxType
<1>1. ASSUME NEW line, Written(line), UnloadInProgress' = UnloadInProgress PROVE UnloadInv'
  <2>1. CASE Up
    <3>1. ~ UnloadInProgress /\ Up'
      BY <1>1, <2>1 DEF UnloadInv, Up, Written
    <3> QED  BY <1>1, <3>1 DEF UnloadInv
  <2>2. CASE ~ Up
    <3>1. UnloadInProgress /\ Closed /\ OK
      BY <1>0, <2>2 DEF UnloadInv, FormTypes
    <3>2. toTx' = toTx /\ tx' = tx /\ Closed'
      BY <1>1, <2>2, <3>1 DEF Written
    <3> QED  BY <1>1, <3>1, <3>2 DEF UnloadInv
  <2> QED  BY <2>1, <2>2
<1>2. ASSUME LineKept, UnloadInProgress' = UnloadInProgress PROVE UnloadInv'
  BY <1>2 DEF LineKept, UnloadInv, Up
<1>3. CASE SendRXfreq
  <2>1. UnloadInProgress' = UnloadInProgress /\ Up
    BY <1>3 DEF SendRXfreq, settings, UnloadInv
  <2> QED  BY <1>1, <1>2, <1>3, <2>1, SendRXfreqEffect
<1>4. CASE StandbyClick \/ LevelEdit \/ PAclick
  <2>1. UnloadInProgress' = UnloadInProgress
    BY <1>4 DEF StandbyClick, LevelEdit, PAclick
  <2> QED  BY <1>1, <1>4, <2>1, ClickEffects
<1>5. CASE PortEdit
  BY <1>5 DEF PortEdit, Form
<1>6. CASE Unload
  <2>1. Up /\ UnloadInProgress'
    BY <1>6 DEF Unload, UnloadInv
  <2>2. Closed' /\ toTx' = Append(toTx, <<"D">>) /\ tx' = tx
    BY <1>6, <2>1, UnloadEffect
  <2>3. Ends(Append(toTx, <<"D">>), <<"U">>, <<"D">>, tx.TXPowerOn)
    BY <1>0, EndsAppend, Different
  <2> QED  BY <2>1, <2>2, <2>3 DEF UnloadInv
<1>7. CASE HearStart
  <2>1. UnloadInProgress' = UnloadInProgress
    BY <1>7 DEF HearStart, settings
  <2> QED  BY <1>1, <1>7, <2>1, HearEffects
<1>8. CASE HearMute \/ HearUnmute \/ HearLockout \/ HearHalf
  <2>1. PICK msg : HearOther(msg)
    BY <1>8 DEF HearMute, HearUnmute, HearLockout, HearHalf
  <2> QED  BY <1>2, <2>1, HearEffects DEF HearOther
<1>9. ASSUME Firmware \/ Reset, OK => OK' PROVE UnloadInv'
  BY <1>9, FirmwareEffect DEF settings, UnloadInv, Up
<1>10. CASE ProcessSerialIn
  <2> SUFFICES ASSUME OK PROVE OK'
    BY <1>9, <1>10 DEF Firmware
  <2>1. toTx # <<>> /\ toTx' = Tail(toTx) /\ Head(toTx) \in Commands
    BY <1>0, <1>10, HeadTailProperties DEF ProcessSerialIn
  <2> DEFINE after == tx'.TXPowerOn
  <2>2. after \in BOOLEAN /\ (after => Head(toTx) = <<"U">> \/ (tx.TXPowerOn /\ Head(toTx) # <<"D">>))
    BY <1>10, PowerTaken
  <2> HIDE DEF after
  <2>3. Ends(Tail(toTx), <<"U">>, <<"D">>, after)
    BY <1>0, <2>1, <2>2, EndsTail, Different
  <2> QED  BY <2>1, <2>3 DEF after
<1>11. CASE Start \/ KeyDown \/ KeyUp
  <2>1. toTx' = toTx /\ tx'.TXPowerOn = tx.TXPowerOn
    BY <1>0, <1>11 DEF Start, KeyDown, KeyUp, TxType
  <2>2. OK => OK'
    BY <2>1
  <2> QED  BY <1>9, <1>11, <2>2 DEF Firmware
<1>12. CASE Lockout
  <2>1. toTx' = toTx /\ tx'.TXPowerOn = FALSE
    BY <1>0, <1>12 DEF Lockout, TxType
  <2>2. OK => Ends(toTx, <<"U">>, <<"D">>, FALSE)
    BY <1>0, EndsNow
  <2>3. OK => OK'
    BY <2>1, <2>2
  <2> QED  BY <1>9, <1>12, <2>3 DEF Firmware
<1>13. CASE Reset
  <2>1. toTx' = <<>> /\ tx'.TXPowerOn = FALSE
    BY <1>13 DEF Reset, Booting
  <2>2. OK'
    BY <2>1, EndsEmpty
  <2> QED  BY <1>9, <1>13, <2>2
<1>14. CASE Unplug
  BY <1>14 DEF Unplug
<1>15. CASE Tune \/ ModeChange \/ SetMute \/ Plug \/ UNCHANGED vars
  BY <1>2, <1>15, OtherEffect
<1> QED
  BY <1>3, <1>4, <1>5, <1>6, <1>7, <1>8, <1>10, <1>11, <1>12, <1>13, <1>14, <1>15
     DEF Next, ProcessIncomingSerial, Firmware

(* Unloading the plugin leaves the transmitter off, through resets and     *)
(* lockouts and whatever is clicked meanwhile, if the cable stays and no   *)
(* write fails.                                                            *)
THEOREM UnloadedIsOffHolds ==
  ASSUME "Glitch" \notin Ops, "Unplug" \notin Ops
  PROVE  Spec => []UnloadedIsOff
<1> DEFINE Inv == Base /\ UnloadInv
<1>1. Init => Inv
  <2> SUFFICES ASSUME Init PROVE Inv
    OBVIOUS
  <2>1. plugged = TRUE
    BY DEF Init
  <2>2. UnloadInv
    BY <2>1 DEF Init, UnloadInv, Up
  <2> QED  BY <2>2, BaseInit
<1>2. Inv /\ [Next]_vars => Inv'
  BY BaseStep, UnloadStep
<1>3. Inv => UnloadedIsOff
  BY DEF UnloadInv, UnloadedIsOff, Ends
<1> HIDE DEF Inv
<1> QED  BY <1>1, <1>2, <1>3, PTL DEF Spec

-----------------------------------------------------------------------------
(* Frequency and level.                                                    *)

(* The answer to {~TX} tells both.                                         *)
LEMMA AnswerTells ==
  ASSUME Base, NEW freq, NEW level
  PROVE  Told(AnswerLine, "F", RXfreq, freq) /\ Told(AnswerLine, "L", TXlevel, level)
<1> DEFINE first == Append(toTx, <<"F", CurrentTXfreq>>)
           both  == IF RXfreq = LastTXfreq THEN first ELSE Append(first, <<"F", RXfreq>>)
           third == Append(both, <<"L", TXlevel>>)
           last  == Append(third, <<"Q", FALSE>>)
<1>0. /\ toTx \in Seq(Commands) /\ <<"Q", FALSE>> \in Commands
      /\ <<"F", CurrentTXfreq>> \in Commands /\ <<"F", RXfreq>> \in Commands
      /\ <<"L", TXlevel>> \in Commands
      /\ <<"L", TXlevel>>[1] # "F" /\ <<"Q", FALSE>>[1] # "F" /\ <<"Q", FALSE>>[1] # "L"
  BY BaseTypes
<1>1. first \in Seq(Commands) /\ Told(first, "F", CurrentTXfreq, freq)
  BY <1>0, AppendProperties, ToldAppend
<1>2. both \in Seq(Commands) /\ Told(both, "F", RXfreq, freq)
  <2> HIDE DEF first
  <2>1. CASE RXfreq = LastTXfreq
    BY <1>1, <2>1 DEF Base, FreqInv
  <2>2. CASE RXfreq # LastTXfreq
    <3>1. Told(Append(first, <<"F", RXfreq>>), "F", RXfreq, freq)
      BY <1>0, <1>1, ToldAppend
    <3>2. Append(first, <<"F", RXfreq>>) \in Seq(Commands)
      BY <1>0, <1>1, AppendProperties
    <3> QED  BY <2>2, <3>1, <3>2
  <2> QED  BY <2>1, <2>2
<1> HIDE DEF both
<1>3. /\ third \in Seq(Commands) /\ Told(third, "F", RXfreq, freq)
      /\ Told(third, "L", TXlevel, level)
  BY <1>0, <1>2, AppendProperties, ToldAppend
<1> HIDE DEF third
<1>4. Told(last, "F", RXfreq, freq) /\ Told(last, "L", TXlevel, level)
  BY <1>0, <1>3, ToldAppend
<1> QED  BY <1>4 DEF AnswerLine, first, both, third, last

(* What a command does to them.                                            *)
LEMMA SettingsAfter ==
  ASSUME tx \in TxType, NEW cmd \in Commands
  PROVE  /\ Executed(cmd).CurFreq = IF cmd[1] = "F" THEN cmd[2] ELSE tx.CurFreq
         /\ Executed(cmd).TXlevel = IF cmd[1] = "L" THEN cmd[2] ELSE tx.TXlevel
         /\ Executed(cmd).boot = tx.boot
<1>1. cmd[1] \in {"F", "L", "Q", "D", "U"}
  BY DEF Commands
<1>2. CASE cmd[1] = "F"
  BY <1>2 DEF Executed, TxType
<1>3. CASE cmd[1] = "L"
  BY <1>3 DEF Executed, TxType
<1>4. CASE cmd[1] = "Q"
  BY <1>4 DEF Executed, TxType
<1>5. CASE cmd[1] = "D"
  BY <1>5 DEF Executed, TxType
<1>6. CASE cmd[1] = "U"
  BY <1>6 DEF Executed, TxType
<1> QED  BY <1>1, <1>2, <1>3, <1>4, <1>5, <1>6

(* {~TX} is on its way.                                                    *)
Greeted == \E j \in 1 .. Len(toForm) : toForm[j] = "~TX"

(* Messages behind it, or ahead of it, do not take it away.                *)
LEMMA GreetedLater ==
  ASSUME toForm \in Seq(Messages), Greeted
  PROVE  /\ \A msgs \in Seq(Messages) :
              \E j \in 1 .. Len(toForm \o msgs) : (toForm \o msgs)[j] = "~TX"
         /\ Head(toForm) # "~TX" => \E j \in 1 .. Len(Tail(toForm)) : Tail(toForm)[j] = "~TX"
<1>1. PICK j \in 1 .. Len(toForm) : toForm[j] = "~TX"
  BY DEF Greeted
<1>2. ASSUME NEW msgs \in Seq(Messages)
      PROVE  j \in 1 .. Len(toForm \o msgs) /\ (toForm \o msgs)[j] = "~TX"
  BY <1>1, ConcatProperties
<1>3. ASSUME Head(toForm) # "~TX"
      PROVE  \E k \in 1 .. Len(Tail(toForm)) : Tail(toForm)[k] = "~TX"
  <2>1. /\ toForm # <<>> /\ Len(toForm) \in Nat /\ Head(toForm) = toForm[1]
        /\ Len(Tail(toForm)) = Len(toForm) - 1
        /\ \A k \in 1 .. Len(Tail(toForm)) : Tail(toForm)[k] = toForm[k + 1]
    BY <1>1, HeadTailProperties
  <2>2. j # 1
    BY <1>1, <1>3, <2>1
  <2>3. j - 1 \in 1 .. Len(Tail(toForm)) /\ (j - 1) + 1 = j
    BY <1>1, <2>1, <2>2
  <2>4. Tail(toForm)[j - 1] = toForm[j]
    BY <2>1, <2>3
  <2> QED  BY <1>1, <2>3, <2>4
<1> QED  BY <1>2, <1>3

(* A transmitter that is connected has been told the form's frequency and  *)
(* level, or will be in answer to its {~TX}.                               *)
ToldBoth == /\ Told(toTx, "F", CurrentTXfreq, tx.CurFreq)
            /\ Told(toTx, "L", TXlevel, tx.TXlevel)

(* So it is told, unless the plugin is being unloaded.                     *)
SettingsInv == Up /\ ~ UnloadInProgress => tx.boot \/ Greeted \/ ToldBoth

(* Each step tells both, or leaves {~TX} to be answered.                   *)
LEMMA SettingsStep ==
  ASSUME "Glitch" \notin Ops, "Split" \notin Ops, Base, SettingsInv, [Next]_vars
  PROVE  SettingsInv'
<1> DEFINE Fine == tx.boot \/ Greeted \/ ToldBoth
<1> SUFFICES ASSUME Up', ~ UnloadInProgress' PROVE Fine'
  BY DEF SettingsInv
<1>0. /\ toTx \in Seq(Commands) /\ toForm \in Seq(Messages) /\ tx \in TxType
      /\ <<"D">> \in Commands /\ <<"U">> \in Commands
      /\ RXfreq \in Freqs /\ TXlevel \in Levels
      /\ \A freq \in Freqs : <<"F", freq>> \in Commands
      /\ \A level \in Levels : <<"L", level>> \in Commands
      /\ \A on \in BOOLEAN : <<"Q", on>> \in Commands
      /\ CurrentTXfreq = LastTXfreq
  BY BaseTypes DEF Base, FreqInv
<1>1. ASSUME NEW line, Written(line), toForm' = toForm, ~ UnloadInProgress,
             ToldBoth => /\ Told(line, "F", CurrentTXfreq', tx.CurFreq)
                         /\ Told(line, "L", TXlevel', tx.TXlevel)
      PROVE  Fine'
  <2>1. Up /\ toTx' = line /\ tx' = tx
    BY <1>1 DEF Written, Up
  <2>2. Fine /\ (Greeted => Greeted')
    BY <1>1, <2>1 DEF SettingsInv, Greeted
  <2> QED  BY <1>1, <2>1, <2>2 DEF ToldBoth
<1>2. ASSUME NEW line, Renews(line) PROVE Fine'
  BY <1>2 DEF Renews, Up, Booting
<1>3. ASSUME LineKept, ~ UnloadInProgress, Greeted => Greeted',
             UNCHANGED <<CurrentTXfreq, TXlevel>>
      PROVE  Fine'
  BY <1>3 DEF LineKept, SettingsInv, ToldBoth, Up
<1>5. CASE SendRXfreq
  <2>1. /\ ~ UnloadInProgress /\ CurrentTXfreq' = RXfreq /\ TXlevel' = TXlevel
    BY <1>5 DEF SendRXfreq, settings
  <2>2. CASE LineKept /\ toForm' = toForm /\ RXfreq = LastTXfreq
    BY <1>0, <1>3, <2>1, <2>2 DEF Greeted
  <2>3. CASE Written(Append(toTx, <<"F", RXfreq>>)) /\ toForm' = toForm
    <3>1. <<"F", RXfreq>> \in Commands /\ <<"F", RXfreq>>[1] # "L"
      BY <1>0
    <3>2. ToldBoth => /\ Told(Append(toTx, <<"F", RXfreq>>), "F", RXfreq, tx.CurFreq)
                      /\ Told(Append(toTx, <<"F", RXfreq>>), "L", TXlevel, tx.TXlevel)
      BY <1>0, <3>1, ToldAppend DEF ToldBoth
    <3> QED  BY <1>1, <2>1, <2>3, <3>2
  <2> QED  BY <1>2, <1>5, <2>2, <2>3, SendRXfreqEffect
<1>6. CASE StandbyClick
  <2>1. /\ ~ UnloadInProgress /\ UNCHANGED <<CurrentTXfreq, TXlevel>> /\ StandbyMode' \in BOOLEAN
        /\ Written(IF StandbyMode' THEN Append(toTx, <<"D">>) ELSE TurnOnLine) /\ toForm' = toForm
    BY <1>6, ClickEffects DEF StandbyClick, tracking
  <2>2. CASE StandbyMode'
    <3>1. <<"D">>[1] # "F" /\ <<"D">>[1] # "L"
      OBVIOUS
    <3>2. ToldBoth => /\ Told(Append(toTx, <<"D">>), "F", CurrentTXfreq, tx.CurFreq)
                      /\ Told(Append(toTx, <<"D">>), "L", TXlevel, tx.TXlevel)
      BY <1>0, <3>1, ToldAppend DEF ToldBoth
    <3> QED  BY <1>1, <2>1, <2>2, <3>2
  <2>3. CASE ~ StandbyMode'
    <3> DEFINE first  == Append(toTx, <<"L", TXlevel>>)
               second == Append(first, <<"Q", PAchk>>)
               third  == Append(second, <<"U">>)
    <3>0. /\ <<"L", TXlevel>> \in Commands /\ <<"Q", PAchk>> \in Commands
          /\ <<"L", TXlevel>>[1] # "F" /\ <<"Q", PAchk>>[1] # "F" /\ <<"Q", PAchk>>[1] # "L"
          /\ <<"U">>[1] # "F" /\ <<"U">>[1] # "L"
      BY <1>0, BaseUp, CommandsTyped
    <3>1. ASSUME ToldBoth
          PROVE  /\ Told(third, "F", CurrentTXfreq, tx.CurFreq)
                 /\ Told(third, "L", TXlevel, tx.TXlevel)
      <4>1. /\ first \in Seq(Commands) /\ Told(first, "F", CurrentTXfreq, tx.CurFreq)
            /\ Told(first, "L", TXlevel, tx.TXlevel)
        BY <1>0, <3>0, <3>1, AppendProperties, ToldAppend DEF ToldBoth
      <4> HIDE DEF first
      <4>2. /\ second \in Seq(Commands) /\ Told(second, "F", CurrentTXfreq, tx.CurFreq)
            /\ Told(second, "L", TXlevel, tx.TXlevel)
        BY <3>0, <4>1, AppendProperties, ToldAppend
      <4> HIDE DEF second
      <4> QED  BY <1>0, <3>0, <4>2, ToldAppend
    <3>2. TurnOnLine = third
      BY DEF TurnOnLine
    <3> HIDE DEF third
    <3> QED  BY <1>1, <2>1, <2>3, <3>1, <3>2
  <2> QED  BY <2>1, <2>2, <2>3
<1>7. CASE LevelEdit
  <2>1. /\ Written(Append(toTx, <<"L", TXlevel'>>)) /\ toForm' = toForm /\ TXlevel' \in Levels
        /\ ~ UnloadInProgress /\ CurrentTXfreq' = CurrentTXfreq
    BY <1>7, ClickEffects DEF LevelEdit, tracking
  <2>2. <<"L", TXlevel'>> \in Commands /\ <<"L", TXlevel'>>[1] # "F"
    BY <1>0, <2>1
  <2>3. ToldBoth => /\ Told(Append(toTx, <<"L", TXlevel'>>), "F", CurrentTXfreq, tx.CurFreq)
                    /\ Told(Append(toTx, <<"L", TXlevel'>>), "L", TXlevel', tx.TXlevel)
    BY <1>0, <2>2, ToldAppend DEF ToldBoth
  <2> QED  BY <1>1, <2>1, <2>3
<1>8. CASE PAclick
  <2>1. /\ Written(Append(toTx, <<"Q", PAchk'>>)) /\ toForm' = toForm
        /\ ~ UnloadInProgress /\ UNCHANGED <<CurrentTXfreq, TXlevel>>
    BY <1>8, ClickEffects DEF PAclick, tracking
  <2>2. /\ <<"Q", PAchk'>> \in Commands /\ <<"Q", PAchk'>>[1] # "F" /\ <<"Q", PAchk'>>[1] # "L"
    BY <1>0, <1>8, BaseUp DEF PAclick, FormTypes
  <2>3. ToldBoth => /\ Told(Append(toTx, <<"Q", PAchk'>>), "F", CurrentTXfreq, tx.CurFreq)
                    /\ Told(Append(toTx, <<"Q", PAchk'>>), "L", TXlevel, tx.TXlevel)
    BY <1>0, <2>2, ToldAppend DEF ToldBoth
  <2> QED  BY <1>1, <2>1, <2>3
<1>9. CASE PortEdit
  BY <1>2, <1>9, BaseUp, PortEditEffect
<1>10. CASE Unload
  BY <1>10 DEF Unload
<1>11. CASE HearStart
  <2>1. /\ Written(AnswerLine) /\ Up /\ CurrentTXfreq' = RXfreq /\ TXlevel' = TXlevel
    BY <1>11, HearEffects DEF HearStart, settings
  <2>2. toTx' = AnswerLine /\ tx' = tx
    BY <2>1 DEF Written
  <2>3. Told(AnswerLine, "F", RXfreq, tx.CurFreq) /\ Told(AnswerLine, "L", TXlevel, tx.TXlevel)
    BY AnswerTells
  <2> QED  BY <2>1, <2>2, <2>3 DEF ToldBoth
<1>12. CASE HearMute \/ HearUnmute \/ HearLockout
  <2>1. PICK msg \in {"M", "N", "D"} : HearOther(msg)
    BY <1>12 DEF HearMute, HearUnmute, HearLockout
  <2>2. LineKept /\ toForm' = Tail(toForm) /\ Head(toForm) # "~TX"
    BY <2>1, HearEffects
  <2>3. ~ UnloadInProgress /\ UNCHANGED <<CurrentTXfreq, TXlevel>>
    BY <2>1 DEF HearOther, Hear
  <2>4. Greeted => Greeted'
    BY <1>0, <2>2, GreetedLater DEF Greeted
  <2> QED  BY <1>3, <2>2, <2>3, <2>4
<1>13. CASE HearHalf
  BY <1>13 DEF HearHalf
<1>14. ASSUME Firmware \/ Reset
       PROVE  UNCHANGED <<CurrentTXfreq, TXlevel, handle>> /\ handle = "live" /\ Fine
  BY <1>14, FirmwareEffect DEF settings, tracking, Up, SettingsInv
<1>15. CASE ProcessSerialIn
  <2>1. /\ toTx # <<>> /\ toTx' = Tail(toTx) /\ Head(toTx) \in Commands /\ toForm' = toForm
        /\ Fine /\ UNCHANGED <<CurrentTXfreq, TXlevel>>
    BY <1>0, <1>14, <1>15, HeadTailProperties DEF Firmware, ProcessSerialIn
  <2>2. CASE tx.boot \/ Greeted
    BY <1>15, <2>1, <2>2 DEF ProcessSerialIn, Greeted
  <2>3. CASE ~ tx.boot /\ ToldBoth
    <3>1. tx' = Executed(Head(toTx))
      BY <1>15, <2>3 DEF ProcessSerialIn
    <3>2. /\ tx'.CurFreq = IF Head(toTx)[1] = "F" THEN Head(toTx)[2] ELSE tx.CurFreq
          /\ tx'.TXlevel = IF Head(toTx)[1] = "L" THEN Head(toTx)[2] ELSE tx.TXlevel
      BY <1>0, <2>1, <3>1, SettingsAfter
    <3>3. Told(Tail(toTx), "F", CurrentTXfreq, tx'.CurFreq)
      BY <1>0, <2>1, <2>3, <3>2, ToldTail DEF ToldBoth
    <3>4. Told(Tail(toTx), "L", TXlevel, tx'.TXlevel)
      BY <1>0, <2>1, <2>3, <3>2, ToldTail DEF ToldBoth
    <3> QED  BY <2>1, <3>3, <3>4 DEF ToldBoth
  <2> QED  BY <2>1, <2>2, <2>3
<1>16. CASE Start
  <2>1. toForm' = toForm \o <<"~TX">>
    BY <1>14, <1>16 DEF Firmware, Start, Send
  <2>2. /\ Len(toForm') = Len(toForm) + 1 /\ Len(toForm) \in Nat
        /\ toForm'[Len(toForm) + 1] = "~TX"
    BY <1>0, <2>1, MessagesTyped, ConcatProperties
  <2>3. Len(toForm) + 1 \in 1 .. Len(toForm')
    BY <2>2
  <2> QED  BY <2>2, <2>3 DEF Greeted
<1>17. CASE KeyDown \/ KeyUp \/ Lockout
  <2>1. /\ toTx' = toTx /\ tx'.CurFreq = tx.CurFreq /\ tx'.TXlevel = tx.TXlevel
        /\ tx'.boot = tx.boot
    BY <1>0, <1>17 DEF KeyDown, KeyUp, Lockout, TxType
  <2>2. PICK msgs \in Seq(Messages) : toForm' = toForm \o msgs
    <3>1. PICK msgs \in {<<"M">>, <<"N">>, <<"D", "N">>} : Report(msgs)
      BY <1>17 DEF KeyDown, KeyUp, Lockout
    <3>2. msgs \in Seq(Messages) /\ <<>> \in Seq(Messages)
      BY <3>1, MessagesTyped, EmptySeq
    <3> QED  BY <1>14, <1>17, <3>1, <3>2 DEF Report, Send, Firmware
  <2>3. Greeted => Greeted'
    BY <1>0, <2>2, GreetedLater DEF Greeted
  <2>4. Fine /\ UNCHANGED <<CurrentTXfreq, TXlevel>>
    BY <1>14, <1>17 DEF Firmware
  <2> QED  BY <2>1, <2>3, <2>4 DEF ToldBoth
<1>18. CASE Reset
  BY <1>18 DEF Reset, Booting
<1>19. CASE Unplug
  BY <1>19, UnplugEffect DEF Up
<1>20. CASE Tune \/ ModeChange \/ SetMute \/ Plug \/ UNCHANGED vars
  BY <1>3, <1>20, OtherEffect DEF Greeted
<1> QED
  BY <1>5, <1>6, <1>7, <1>8, <1>9, <1>10, <1>11, <1>12, <1>13, <1>15, <1>16, <1>17, <1>18, <1>19,
     <1>20 DEF Next, ProcessIncomingSerial, Firmware

(* When nothing is under way the transmitter has the form's frequency and  *)
(* level, and its amplifier is on only if its box is ticked, however       *)
(* resets, lockouts and a port that comes and goes fall between the        *)
(* changes; if no message is cut in two and no write fails.                *)
THEOREM SettingsToldHolds ==
  ASSUME "Glitch" \notin Ops, "Split" \notin Ops
  PROVE  Spec => []SettingsTold
<1> DEFINE Inv == Base /\ AmplifierInv /\ SettingsInv
<1>1. Init => Inv
  <2> SUFFICES ASSUME Init PROVE Inv
    OBVIOUS
  <2>1. AmplifierInv /\ SettingsInv
    BY EndsEmpty DEF Init, AmplifierInv, SettingsInv, Booting
  <2> QED  BY <2>1, BaseInit
<1>2. Inv /\ [Next]_vars => Inv'
  BY BaseStep, AmplifierStep, SettingsStep
<1>3. Inv => SettingsTold
  BY DEF AmplifierInv, SettingsInv, ToldBoth, Greeted, Told, Ends, SettingsTold, Settled, Up
<1> HIDE DEF Inv
<1> QED  BY <1>1, <1>2, <1>3, PTL DEF Spec

-----------------------------------------------------------------------------
(* The mutes.                                                              *)

(* A level is on the way ahead of each {U}, or is there.                   *)
Levelled(line, level) ==
  \A j \in 1 .. Len(line) :
    line[j] = <<"U">> => level # 0 \/ \E k \in 1 .. Len(line) : k < j /\ line[k][1] = "L"

(* A command at the end; {U} when a level is ahead of it.                  *)
LEMMA LevelledAppend ==
  ASSUME NEW line \in Seq(Commands), NEW level, NEW cmd \in Commands, Levelled(line, level),
         cmd # <<"U">> \/ \E k \in 1 .. Len(line) : line[k][1] = "L"
  PROVE  Levelled(Append(line, cmd), level)
<1> DEFINE longer == Append(line, cmd)
<1>1. /\ Len(longer) = Len(line) + 1 /\ Len(line) \in Nat
      /\ \A j \in 1 .. Len(line) : longer[j] = line[j]
      /\ longer[Len(line) + 1] = cmd
  BY AppendProperties
<1> HIDE DEF longer
<1>2. SUFFICES ASSUME NEW j \in 1 .. Len(longer), longer[j] = <<"U">>, level = 0
               PROVE  \E k \in 1 .. Len(longer) : k < j /\ longer[k][1] = "L"
  BY DEF Levelled, longer
<1>3. CASE j \in 1 .. Len(line)
  <2>1. PICK k \in 1 .. Len(line) : k < j /\ line[k][1] = "L"
    BY <1>1, <1>2, <1>3 DEF Levelled
  <2> QED  BY <1>1, <2>1
<1>4. CASE j = Len(line) + 1
  <2>1. PICK k \in 1 .. Len(line) : line[k][1] = "L"
    BY <1>1, <1>2, <1>4
  <2> QED  BY <1>1, <1>4, <2>1
<1> QED  BY <1>1, <1>3, <1>4

(* The first command is taken off and executed.                            *)
LEMMA LevelledTail ==
  ASSUME NEW line \in Seq(Commands), line # <<>>, NEW level, NEW after, Levelled(line, level),
         level # 0 \/ Head(line)[1] = "L" => after # 0
  PROVE  Levelled(Tail(line), after)
<1> DEFINE rest == Tail(line)
<1>1. /\ Len(rest) = Len(line) - 1 /\ Len(line) \in Nat \ {0}
      /\ \A j \in 1 .. Len(rest) : rest[j] = line[j + 1]
      /\ Head(line) = line[1]
  BY HeadTailProperties
<1> HIDE DEF rest
<1>2. SUFFICES ASSUME NEW j \in 1 .. Len(rest), rest[j] = <<"U">>, after = 0
               PROVE  \E k \in 1 .. Len(rest) : k < j /\ rest[k][1] = "L"
  BY DEF Levelled, rest
<1>3. j + 1 \in 1 .. Len(line) /\ line[j + 1] = <<"U">>
  BY <1>1, <1>2
<1>4. PICK k \in 1 .. Len(line) : k < j + 1 /\ line[k][1] = "L"
  BY <1>2, <1>3 DEF Levelled
<1>5. k # 1
  BY <1>1, <1>2, <1>4
<1>6. k - 1 \in 1 .. Len(rest) /\ k - 1 < j /\ (k - 1) + 1 = k
  BY <1>1, <1>4, <1>5
<1> QED  BY <1>1, <1>4, <1>6

(* {M} and {N} alternate behind {~TX}, and the last tells whether the key  *)
(* is down.                                                                *)
Paired(queue, down) ==
  /\ \A j \in 1 .. Len(queue) :
       /\ queue[j] \in {"~TX", "M", "N"}
       /\ j < Len(queue) => queue[j + 1] = IF queue[j] = "M" THEN "N" ELSE "M"
  /\ queue # <<>> => (queue[Len(queue)] = "M" <=> down)

(* The next to come is {N}.                                                *)
Ending(queue, down) == IF queue = <<>> THEN down ELSE queue[1] = "N"

(* The key goes down or up.                                                *)
LEMMA PairedAppend ==
  ASSUME NEW queue \in Seq(Messages), NEW down \in BOOLEAN, Paired(queue, down)
  PROVE  LET longer == queue \o <<IF down THEN "N" ELSE "M">>
         IN  Paired(longer, ~ down) /\ (Ending(longer, ~ down) <=> Ending(queue, down))
<1> DEFINE msg == IF down THEN "N" ELSE "M"
           longer == queue \o <<msg>>
<1>1. /\ Len(longer) = Len(queue) + 1 /\ Len(queue) \in Nat
      /\ \A j \in 1 .. Len(queue) : longer[j] = queue[j]
      /\ longer[Len(queue) + 1] = msg
  <2>1. <<msg>> \in Seq(Messages) /\ Len(<<msg>>) = 1 /\ <<msg>>[1] = msg
    BY DEF Messages
  <2> HIDE DEF msg
  <2> QED  BY <2>1, ConcatProperties
<1>2. queue = <<>> <=> Len(queue) = 0
  BY EmptySeq
<1> HIDE DEF longer
<1>3. longer # <<>> /\ (longer[Len(longer)] = "M" <=> ~ down)
  <2>1. longer # <<>>
    BY <1>1
  <2> QED  BY <1>1, <2>1
<1>4. ASSUME NEW j \in 1 .. Len(longer)
      PROVE  /\ longer[j] \in {"~TX", "M", "N"}
             /\ j < Len(longer) => longer[j + 1] = IF longer[j] = "M" THEN "N" ELSE "M"
  <2>1. CASE j < Len(queue)
    BY <1>1, <2>1 DEF Paired
  <2>2. CASE j = Len(queue)
    <3>1. queue # <<>> /\ j \in 1 .. Len(queue) /\ longer[j] = queue[j] /\ longer[j + 1] = msg
      BY <1>1, <1>2, <2>2
    <3>2. (queue[j] = "M" <=> down) /\ queue[j] \in {"~TX", "M", "N"}
      BY <2>2, <3>1 DEF Paired
    <3> QED  BY <3>1, <3>2
  <2>3. CASE j = Len(longer)
    BY <1>1, <2>3
  <2> QED  BY <1>1, <2>1, <2>2, <2>3
<1>5. Ending(longer, ~ down) <=> Ending(queue, down)
  <2>1. CASE queue = <<>>
    BY <1>1, <1>2, <1>3, <2>1 DEF Ending
  <2>2. CASE queue # <<>>
    <3>1. longer[1] = queue[1]
      BY <1>1, <1>2, <2>2
    <3> QED  BY <1>3, <2>2, <3>1 DEF Ending
  <2> QED  BY <2>1, <2>2
<1> QED  BY <1>3, <1>4, <1>5 DEF Paired, longer

(* The form takes the next message.                                        *)
LEMMA PairedTail ==
  ASSUME NEW queue \in Seq(Messages), queue # <<>>, NEW down \in BOOLEAN, Paired(queue, down)
  PROVE  /\ Paired(Tail(queue), down)
         /\ Ending(Tail(queue), down) <=> Head(queue) = "M"
         /\ Ending(queue, down) <=> Head(queue) = "N"
         /\ Head(queue) \in {"~TX", "M", "N"}
<1> DEFINE rest == Tail(queue)
<1>1. /\ Len(rest) = Len(queue) - 1 /\ Len(queue) \in Nat \ {0}
      /\ \A j \in 1 .. Len(rest) : rest[j] = queue[j + 1]
      /\ Head(queue) = queue[1] /\ rest \in Seq(Messages)
  BY HeadTailProperties
<1> HIDE DEF rest
<1>2. rest = <<>> <=> Len(rest) = 0
  BY <1>1, EmptySeq
<1>3. ASSUME NEW j \in 1 .. Len(rest)
      PROVE  /\ rest[j] \in {"~TX", "M", "N"}
             /\ j < Len(rest) => rest[j + 1] = IF rest[j] = "M" THEN "N" ELSE "M"
  BY <1>1 DEF Paired
<1>4. rest # <<>> => (rest[Len(rest)] = "M" <=> down)
  <2> SUFFICES ASSUME rest # <<>> PROVE rest[Len(rest)] = "M" <=> down
    OBVIOUS
  <2>1. rest[Len(rest)] = queue[Len(queue)]
    BY <1>1, <1>2
  <2> QED  BY <2>1 DEF Paired
<1>5. queue[1] \in {"~TX", "M", "N"}
  BY <1>1 DEF Paired
<1>6. Ending(rest, down) <=> queue[1] = "M"
  <2>1. CASE rest = <<>>
    <3>1. Len(queue) = 1
      BY <1>1, <1>2, <2>1
    <3> QED  BY <2>1, <3>1 DEF Ending, Paired
  <2>2. CASE rest # <<>>
    <3>1. rest[1] = queue[2] /\ 1 < Len(queue) /\ 1 \in 1 .. Len(queue)
      BY <1>1, <1>2, <2>2
    <3>2. rest[1] = IF queue[1] = "M" THEN "N" ELSE "M"
      BY <3>1 DEF Paired
    <3> QED  BY <2>2, <3>2 DEF Ending
  <2> QED  BY <2>1, <2>2
<1> QED  BY <1>1, <1>3, <1>4, <1>5, <1>6 DEF Paired, Ending, rest

(* Neither unloaded nor upset: the port works, and until {~TX} nothing     *)
(* turns the transmitter on; it has a level when it is on; and the mutes   *)
(* are what the operator asked for, or what {N} will restore is.           *)
Calm == ~ UnloadInProgress /\ ~ upset

PowerInv ==
  Calm => /\ tx.boot => \A j \in 1 .. Len(toTx) : toTx[j] # <<"U">>
          /\ tx.TXPowerOn \/ tx.KeyDownActive => tx.TXlevel # 0
          /\ Levelled(toTx, tx.TXlevel)

MutesInv ==
  Calm => /\ ~ TTY
          /\ tx.boot => toForm = <<>> /\ ~ tx.KeyDownActive
          /\ Paired(toForm, tx.KeyDownActive)
          /\ (IF Ending(toForm, tx.KeyDownActive) THEN VRXmute ELSE mute) = wanted

(* What the operator may do only to a transmitter that is up, and what     *)
(* upsets; a step that leaves it calm found it calm.                       *)
LEMMA CalmBefore ==
  ASSUME "Unplug" \notin Ops, "Early" \notin Ops, Base, UnloadInv, [Next]_vars, Calm'
  PROVE  /\ Calm /\ Up
         /\ ~ (Unload \/ ModeChange \/ HearHalf \/ Lockout \/ Reset \/ Unplug \/ PortEdit)
         /\ StandbyClick \/ LevelEdit \/ PAclick => ~ tx.boot
<1>1. FormTypes /\ AudioTypes
  BY TypeParts DEF Base
<1>2. ~ (Unload \/ ModeChange \/ HearHalf \/ Lockout \/ Reset \/ Unplug \/ PortEdit)
  BY DEF Calm, Unload, ModeChange, HearHalf, Lockout, Reset, Unplug, PortEdit, Form
<1>3. UnloadInProgress' = UnloadInProgress /\ upset' = upset
  <2>1. ASSUME Tune \/ SendRXfreq \/ StandbyClick \/ LevelEdit \/ PAclick \/ SetMute
        PROVE  UnloadInProgress' = UnloadInProgress /\ upset' = upset
    BY <2>1 DEF Tune, SendRXfreq, StandbyClick, LevelEdit, PAclick, SetMute, settings, audio
  <2>2. ASSUME HearStart \/ HearMute \/ HearUnmute \/ HearLockout
        PROVE  UnloadInProgress' = UnloadInProgress /\ upset' = upset
    BY <2>2 DEF HearStart, HearMute, HearUnmute, HearLockout, HearOther, settings
  <2>3. ASSUME ProcessSerialIn \/ Start \/ KeyDown \/ KeyUp \/ Plug \/ UNCHANGED vars
        PROVE  UnloadInProgress' = UnloadInProgress /\ upset' = upset
    BY <2>3 DEF ProcessSerialIn, Start, KeyDown, KeyUp, Plug, Transmitter, settings, audio, vars
  <2> QED  BY <1>2, <2>1, <2>2, <2>3 DEF Next, ProcessIncomingSerial, Firmware
<1>4. Calm
  BY <1>3 DEF Calm
<1>5. Up
  BY <1>4 DEF Calm, UnloadInv
<1>6. StandbyClick \/ LevelEdit \/ PAclick => ~ tx.boot
  BY DEF StandbyClick, LevelEdit, PAclick, Form
<1> QED  BY <1>2, <1>4, <1>5, <1>6

(* Commands that do not turn on, at the end of the line.                   *)
LEMMA PowerAppend ==
  ASSUME NEW line \in Seq(Commands), NEW level, NEW cmd \in Commands, cmd # <<"U">>,
         Levelled(line, level)
  PROVE  /\ Append(line, cmd) \in Seq(Commands) /\ Levelled(Append(line, cmd), level)
         /\ (\A j \in 1 .. Len(line) : line[j] # <<"U">>)
              => \A j \in 1 .. Len(Append(line, cmd)) : Append(line, cmd)[j] # <<"U">>
<1> DEFINE longer == Append(line, cmd)
<1>1. /\ Len(longer) = Len(line) + 1 /\ Len(line) \in Nat
      /\ \A j \in 1 .. Len(line) : longer[j] = line[j]
      /\ longer[Len(line) + 1] = cmd /\ longer \in Seq(Commands)
  BY AppendProperties
<1>2. Levelled(longer, level)
  BY LevelledAppend
<1> HIDE DEF longer
<1>3. ASSUME \A j \in 1 .. Len(line) : line[j] # <<"U">>, NEW k \in 1 .. Len(longer)
      PROVE  longer[k] # <<"U">>
  <2>1. k = Len(line) + 1 \/ k \in 1 .. Len(line)
    BY <1>1
  <2> QED  BY <1>1, <1>3, <2>1
<1> QED  BY <1>1, <1>2, <1>3 DEF longer

(* The transmitter is never on, or about to be, without a level.           *)
LEMMA PowerStep ==
  ASSUME "Glitch" \notin Ops, "Unplug" \notin Ops, "Early" \notin Ops, 0 \notin Levels,
         Base, UnloadInv, PowerInv, MutesInv, [Next]_vars
  PROVE  PowerInv'
<1> DEFINE Off == \A j \in 1 .. Len(toTx) : toTx[j] # <<"U">>
<1> SUFFICES ASSUME Calm'
             PROVE  /\ tx'.boot => Off'
                    /\ tx'.TXPowerOn \/ tx'.KeyDownActive => tx'.TXlevel # 0
                    /\ Levelled(toTx', tx'.TXlevel)
  BY DEF PowerInv
<1>0. /\ toTx \in Seq(Commands) /\ tx \in TxType
      /\ <<"D">> \in Commands /\ <<"U">> \in Commands
      /\ RXfreq \in Freqs /\ TXlevel \in Levels /\ PAchk \in BOOLEAN
      /\ \A freq \in Freqs : <<"F", freq>> \in Commands
      /\ \A level \in Levels : <<"L", level>> \in Commands
      /\ \A on \in BOOLEAN : <<"Q", on>> \in Commands
  BY BaseTypes, BaseUp DEF FormTypes
<1>1. /\ Calm /\ Up
      /\ ~ (Unload \/ ModeChange \/ HearHalf \/ Lockout \/ Reset \/ Unplug \/ PortEdit)
      /\ StandbyClick \/ LevelEdit \/ PAclick => ~ tx.boot
  BY CalmBefore
<1>2. /\ tx.boot => Off
      /\ tx.TXPowerOn \/ tx.KeyDownActive => tx.TXlevel # 0
      /\ Levelled(toTx, tx.TXlevel)
  BY <1>1 DEF PowerInv
<1>3. ASSUME NEW line, Written(line), Levelled(line, tx.TXlevel),
             tx.boot => \A j \in 1 .. Len(line) : line[j] # <<"U">>
      PROVE  /\ tx'.boot => Off'
             /\ tx'.TXPowerOn \/ tx'.KeyDownActive => tx'.TXlevel # 0
             /\ Levelled(toTx', tx'.TXlevel)
  <2>1. toTx' = line /\ tx' = tx
    BY <1>1, <1>3 DEF Written
  <2> QED  BY <1>2, <1>3, <2>1
<1>4. ASSUME NEW cmd \in Commands, cmd # <<"U">>, Written(Append(toTx, cmd))
      PROVE  /\ tx'.boot => Off'
             /\ tx'.TXPowerOn \/ tx'.KeyDownActive => tx'.TXlevel # 0
             /\ Levelled(toTx', tx'.TXlevel)
  BY <1>0, <1>2, <1>3, <1>4, PowerAppend
<1>5. ASSUME LineKept
      PROVE  /\ tx'.boot => Off'
             /\ tx'.TXPowerOn \/ tx'.KeyDownActive => tx'.TXlevel # 0
             /\ Levelled(toTx', tx'.TXlevel)
  BY <1>2, <1>5 DEF LineKept
<1>6. CASE SendRXfreq
  <2>1. <<"F", RXfreq>> \in Commands /\ <<"F", RXfreq>> # <<"U">>
    BY <1>0, Different
  <2> QED  BY <1>1, <1>4, <1>5, <1>6, <2>1, SendRXfreqEffect
<1>7. CASE StandbyClick
  <2>1. ~ tx.boot /\ Written(IF StandbyMode' THEN Append(toTx, <<"D">>) ELSE TurnOnLine)
        /\ StandbyMode' \in BOOLEAN
    BY <1>1, <1>7, ClickEffects DEF StandbyClick
  <2>2. CASE StandbyMode'
    BY <1>0, <1>4, <2>1, <2>2, Different
  <2>3. CASE ~ StandbyMode'
    <3> DEFINE first  == Append(toTx, <<"L", TXlevel>>)
               second == Append(first, <<"Q", PAchk>>)
    <3>1. /\ <<"L", TXlevel>> \in Commands /\ <<"L", TXlevel>> # <<"U">>
          /\ <<"Q", PAchk>> \in Commands /\ <<"Q", PAchk>> # <<"U">>
      BY <1>0, Different
    <3>2. /\ first \in Seq(Commands) /\ Levelled(first, tx.TXlevel)
          /\ \E k \in 1 .. Len(first) : first[k][1] = "L"
      <4>1. first \in Seq(Commands) /\ Levelled(first, tx.TXlevel)
        BY <1>0, <1>2, <3>1, PowerAppend
      <4>2. Len(first) = Len(toTx) + 1 /\ Len(toTx) \in Nat /\ first[Len(toTx) + 1] = <<"L", TXlevel>>
        BY <1>0, <3>1, AppendProperties
      <4>3. Len(toTx) + 1 \in 1 .. Len(first) /\ first[Len(toTx) + 1][1] = "L"
        BY <4>2
      <4> HIDE DEF first
      <4> QED  BY <4>1, <4>3
    <3> HIDE DEF first
    <3>3. /\ second \in Seq(Commands) /\ Levelled(second, tx.TXlevel)
          /\ \E k \in 1 .. Len(second) : second[k][1] = "L"
      <4>1. second \in Seq(Commands) /\ Levelled(second, tx.TXlevel)
        BY <3>1, <3>2, PowerAppend
      <4>2. /\ Len(second) = Len(first) + 1 /\ Len(first) \in Nat
            /\ \A j \in 1 .. Len(first) : second[j] = first[j]
        BY <3>1, <3>2, AppendProperties
      <4> HIDE DEF second
      <4>3. PICK k \in 1 .. Len(first) : first[k][1] = "L"
        BY <3>2
      <4>4. k \in 1 .. Len(second) /\ second[k][1] = "L"
        BY <4>2, <4>3
      <4> QED  BY <4>1, <4>4
    <3> HIDE DEF second
    <3>4. Levelled(Append(second, <<"U">>), tx.TXlevel)
      BY <1>0, <3>3, LevelledAppend
    <3>5. TurnOnLine = Append(second, <<"U">>)
      BY DEF TurnOnLine, first, second
    <3> QED  BY <1>3, <2>1, <2>3, <3>4, <3>5
  <2> QED  BY <2>1, <2>2, <2>3
<1>8. CASE LevelEdit
  <2>1. Written(Append(toTx, <<"L", TXlevel'>>)) /\ TXlevel' \in Levels
    BY <1>8, ClickEffects DEF LevelEdit
  <2> QED  BY <1>0, <1>4, <2>1, Different
<1>9. CASE PAclick
  <2>1. Written(Append(toTx, <<"Q", PAchk'>>)) /\ PAchk' \in BOOLEAN
    BY <1>0, <1>9, ClickEffects DEF PAclick
  <2> QED  BY <1>0, <1>4, <2>1, Different
<1>10. CASE HearStart
  <2> DEFINE first == Append(toTx, <<"F", CurrentTXfreq>>)
             both  == IF RXfreq = LastTXfreq THEN first ELSE Append(first, <<"F", RXfreq>>)
             third == Append(both, <<"L", TXlevel>>)
             last  == Append(third, <<"Q", FALSE>>)
  <2>1. Written(AnswerLine) /\ toForm # <<>>
    BY <1>10, HearEffects
  <2>2. ~ tx.boot
    BY <1>1, <2>1 DEF MutesInv
  <2>3. /\ <<"F", CurrentTXfreq>> \in Commands /\ <<"F", CurrentTXfreq>> # <<"U">>
        /\ <<"F", RXfreq>> \in Commands /\ <<"F", RXfreq>> # <<"U">>
        /\ <<"L", TXlevel>> \in Commands /\ <<"L", TXlevel>> # <<"U">>
        /\ <<"Q", FALSE>> \in Commands /\ <<"Q", FALSE>> # <<"U">>
    BY BaseTypes, Different
  <2>4. first \in Seq(Commands) /\ Levelled(first, tx.TXlevel)
    BY <1>0, <1>2, <2>3, PowerAppend
  <2>5. both \in Seq(Commands) /\ Levelled(both, tx.TXlevel)
    <3> HIDE DEF first
    <3> QED  BY <2>3, <2>4, PowerAppend
  <2> HIDE DEF both
  <2>6. third \in Seq(Commands) /\ Levelled(third, tx.TXlevel)
    BY <2>3, <2>5, PowerAppend
  <2> HIDE DEF third
  <2>7. Levelled(last, tx.TXlevel)
    BY <2>3, <2>6, PowerAppend
  <2>8. AnswerLine = last
    BY DEF AnswerLine, first, both, third
  <2> QED  BY <1>3, <2>1, <2>2, <2>7, <2>8
<1>11. CASE HearMute \/ HearUnmute \/ HearLockout
  <2>1. PICK msg : HearOther(msg)
    BY <1>11 DEF HearMute, HearUnmute, HearLockout
  <2> QED  BY <1>5, <2>1, HearEffects
<1>12. CASE ProcessSerialIn
  <2>1. /\ toTx # <<>> /\ toTx' = Tail(toTx) /\ Head(toTx) \in Commands /\ Head(toTx) = toTx[1]
        /\ Len(toTx) \in Nat \ {0} /\ Len(Tail(toTx)) = Len(toTx) - 1
        /\ \A j \in 1 .. Len(Tail(toTx)) : Tail(toTx)[j] = toTx[j + 1]
    BY <1>0, <1>12, HeadTailProperties DEF ProcessSerialIn
  <2>2. CASE tx.boot
    <3>1. tx' = tx
      BY <1>12, <2>2 DEF ProcessSerialIn
    <3>2. \A j \in 1 .. Len(Tail(toTx)) : Tail(toTx)[j] # <<"U">>
      BY <1>2, <2>1, <2>2
    <3>3. Levelled(Tail(toTx), tx.TXlevel)
      BY <3>2 DEF Levelled
    <3> QED  BY <1>2, <2>1, <3>1, <3>2, <3>3
  <2>3. CASE ~ tx.boot
    <3> DEFINE cmd == Head(toTx)
    <3>1. tx' = Executed(cmd)
      BY <1>12, <2>3 DEF ProcessSerialIn
    <3>2. /\ tx'.TXlevel = IF cmd[1] = "L" THEN cmd[2] ELSE tx.TXlevel
          /\ tx'.boot = tx.boot
      BY <1>0, <2>1, <3>1, SettingsAfter
    <3>3. tx'.TXPowerOn => cmd = <<"U">> \/ tx.TXPowerOn
      BY <1>12, PowerTaken
    <3>4. tx'.KeyDownActive => tx.KeyDownActive
      <4>1. cmd[1] \in {"F", "L", "Q", "D", "U"}
        BY <2>1 DEF Commands
      <4>2. tx'.KeyDownActive = tx.KeyDownActive
        BY <1>0, <3>1, <4>1 DEF Executed, TxType
      <4> QED  BY <4>2
    <3>5. cmd[1] = "L" => tx'.TXlevel # 0
      <4>1. cmd[1] = "L" => cmd[2] \in Levels
        BY <2>1 DEF Commands
      <4> QED  BY <3>2, <4>1
    <3>6. cmd = <<"U">> => tx.TXlevel # 0
      BY <1>2, <2>1 DEF Levelled
    <3>7. tx.TXlevel # 0 \/ cmd[1] = "L" => tx'.TXlevel # 0
      BY <3>2, <3>5
    <3>8. Levelled(Tail(toTx), tx'.TXlevel)
      <4> DEFINE after == tx'.TXlevel
      <4> HIDE DEF after
      <4>1. tx.TXlevel # 0 \/ Head(toTx)[1] = "L" => after # 0
        BY <3>7 DEF after
      <4>2. Levelled(Tail(toTx), after)
        BY <1>0, <1>2, <2>1, <4>1, LevelledTail
      <4> QED  BY <4>2 DEF after
    <3> HIDE DEF cmd
    <3> QED  BY <1>2, <2>1, <2>3, <3>2, <3>3, <3>4, <3>6, <3>7, <3>8
  <2> QED  BY <2>2, <2>3
<1>13. CASE Start \/ KeyDown \/ KeyUp
  <2>1. /\ toTx' = toTx /\ tx'.TXlevel = tx.TXlevel /\ tx'.TXPowerOn = tx.TXPowerOn
        /\ (tx'.boot => tx.boot) /\ (tx'.KeyDownActive => tx.KeyDownActive \/ tx.TXPowerOn)
    BY <1>0, <1>13 DEF Start, KeyDown, KeyUp, TxType
  <2> QED  BY <1>2, <2>1
<1>14. CASE Tune \/ SetMute \/ Plug \/ UNCHANGED vars
  BY <1>5, <1>14, OtherEffect
<1> QED
  BY <1>1, <1>6, <1>7, <1>8, <1>9, <1>10, <1>11, <1>12, <1>13, <1>14
     DEF Next, ProcessIncomingSerial, Firmware

(* The mutes, as {M} and {N} come.                                         *)
LEMMA MutesStep ==
  ASSUME "Glitch" \notin Ops, "Unplug" \notin Ops, "Early" \notin Ops,
         Base, UnloadInv, PowerInv, MutesInv, [Next]_vars
  PROVE  MutesInv'
<1> DEFINE down == tx.KeyDownActive
           Fine == /\ ~ TTY
                   /\ tx.boot => toForm = <<>> /\ ~ down
                   /\ Paired(toForm, down)
                   /\ (IF Ending(toForm, down) THEN VRXmute ELSE mute) = wanted
<1> SUFFICES ASSUME Calm' PROVE Fine'
  BY DEF MutesInv
<1>0. toForm \in Seq(Messages) /\ tx \in TxType /\ down \in BOOLEAN
  BY BaseTypes DEF TxType
<1>1. /\ Calm /\ Up
      /\ ~ (Unload \/ ModeChange \/ HearHalf \/ Lockout \/ Reset \/ Unplug \/ PortEdit)
  BY CalmBefore
<1>2. Fine
  BY <1>1 DEF MutesInv
<1>3. ASSUME UNCHANGED <<TTY, VRXmute, mute, wanted, toForm>>,
             tx'.boot = tx.boot, tx'.KeyDownActive = tx.KeyDownActive
      PROVE  Fine'
  BY <1>2, <1>3
<1>4. CASE SendRXfreq
  <2>1. toForm' = toForm /\ tx' = tx
    BY <1>1, <1>4, SendRXfreqEffect DEF Written, LineKept
  <2> QED  BY <1>3, <1>4, <2>1 DEF SendRXfreq, settings, audio
<1>5. CASE StandbyClick \/ LevelEdit \/ PAclick
  <2>1. toForm' = toForm /\ tx' = tx
    BY <1>5, ClickEffects DEF Written
  <2> QED  BY <1>3, <1>5, <2>1 DEF StandbyClick, LevelEdit, PAclick, audio
<1>6. ASSUME ProcessIncomingSerial
      PROVE  /\ toForm # <<>> /\ toForm' = Tail(toForm) /\ tx' = tx /\ TTY' = TTY /\ ~ tx.boot
             /\ Paired(Tail(toForm), down)
             /\ Ending(Tail(toForm), down) <=> Head(toForm) = "M"
             /\ Ending(toForm, down) <=> Head(toForm) = "N"
             /\ Head(toForm) \in {"~TX", "M", "N"}
  <2>1. toForm # <<>> /\ toForm' = Tail(toForm) /\ tx' = tx
    <3>1. CASE HearStart
      BY <3>1, HearEffects DEF Written
    <3>2. CASE ~ HearStart
      <4>1. PICK msg : HearOther(msg)
        BY <1>6, <3>2 DEF ProcessIncomingSerial, HearMute, HearUnmute, HearLockout, HearHalf
      <4> QED  BY <4>1, HearEffects DEF LineKept
    <3> QED  BY <3>1, <3>2
  <2>2. TTY' = TTY
    BY <1>6 DEF ProcessIncomingSerial, HearStart, HearMute, HearUnmute, HearLockout, HearHalf,
                HearOther, settings
  <2>3. ~ tx.boot
    BY <1>2, <2>1
  <2> HIDE DEF down
  <2>4. Paired(toForm, down)
    BY <1>2 DEF down
  <2> QED  BY <1>0, <2>1, <2>2, <2>3, <2>4, PairedTail
<1>7. ASSUME ProcessIncomingSerial,
             (IF Head(toForm) = "M" THEN VRXmute' ELSE mute') = wanted'
      PROVE  Fine'
  <2>1. /\ toForm' = Tail(toForm) /\ tx' = tx /\ ~ TTY' /\ ~ tx.boot
        /\ Paired(Tail(toForm), down)
        /\ Ending(Tail(toForm), down) <=> Head(toForm) = "M"
    BY <1>2, <1>6, <1>7
  <2>2. ~ tx'.boot /\ Paired(toForm', tx'.KeyDownActive)
    BY <2>1
  <2>3. Ending(toForm', tx'.KeyDownActive) <=> Head(toForm) = "M"
    BY <2>1
  <2>4. (IF Ending(toForm', tx'.KeyDownActive) THEN VRXmute' ELSE mute') = wanted'
    BY <1>7, <2>3
  <2> QED  BY <2>1, <2>2, <2>4
<1>8. CASE HearStart
  <2>1. Head(toForm) = "~TX"
    BY <1>8 DEF HearStart, Hear
  <2>2. mute = wanted
    BY <1>2, <1>6, <1>8, <2>1 DEF ProcessIncomingSerial
  <2>3. mute' = wanted'
    BY <1>8, <2>2 DEF HearStart
  <2> QED  BY <1>7, <1>8, <2>1, <2>3 DEF ProcessIncomingSerial
<1>9. CASE HearMute
  <2>1. Head(toForm) = "M"
    BY <1>9 DEF HearMute, HearOther, Hear
  <2>2. mute = wanted
    BY <1>2, <1>6, <1>9, <2>1 DEF ProcessIncomingSerial
  <2>3. VRXmute' = mute /\ wanted' = wanted
    BY <1>2, <1>9 DEF HearMute, HearOther, SaveAndMute
  <2> QED  BY <1>7, <1>9, <2>1, <2>2, <2>3 DEF ProcessIncomingSerial
<1>10. CASE HearUnmute
  <2>1. Head(toForm) = "N"
    BY <1>10 DEF HearUnmute, HearOther, Hear
  <2>2. VRXmute = wanted
    BY <1>2, <1>6, <1>10, <2>1 DEF ProcessIncomingSerial
  <2>3. mute' = VRXmute /\ wanted' = wanted
    BY <1>10 DEF HearUnmute, HearOther
  <2> QED  BY <1>7, <1>10, <2>1, <2>2, <2>3 DEF ProcessIncomingSerial
<1>11. CASE HearLockout
  <2>1. Head(toForm) = "D"
    BY <1>11 DEF HearLockout, HearOther, Hear
  <2> QED  BY <1>6, <1>11, <2>1 DEF ProcessIncomingSerial
<1>12. CASE SetMute
  <2>1. ~ down /\ toForm = <<>> /\ wanted' = mute'
    BY <1>12 DEF SetMute
  <2>2. toForm' = toForm /\ tx' = tx /\ TTY' = TTY
    BY <1>12 DEF SetMute, settings
  <2>3. ~ Ending(toForm, down)
    BY <2>1 DEF Ending
  <2> QED  BY <1>2, <2>1, <2>2, <2>3
<1>13. CASE ProcessSerialIn
  <2>1. UNCHANGED <<TTY, VRXmute, mute, wanted, toForm>>
    BY <1>13 DEF ProcessSerialIn, Transmitter, settings
  <2>2. tx'.boot = tx.boot /\ tx'.KeyDownActive = tx.KeyDownActive
    <3>1. Head(toTx) \in Commands
      BY <1>13, BaseTypes, HeadTailProperties DEF ProcessSerialIn
    <3>2. Head(toTx)[1] \in {"F", "L", "Q", "D", "U"}
      BY <3>1 DEF Commands
    <3>3. CASE tx.boot
      BY <1>13, <3>3 DEF ProcessSerialIn
    <3>4. CASE ~ tx.boot
      BY <1>0, <1>13, <3>2, <3>4 DEF ProcessSerialIn, Executed, TxType
    <3> QED  BY <3>3, <3>4
  <2> QED  BY <1>3, <2>1, <2>2
<1>14. CASE Start
  <2>1. UNCHANGED <<TTY, VRXmute, mute, wanted>>
    BY <1>14 DEF Start, Transmitter, settings
  <2>2. tx.boot /\ toForm = <<>> /\ ~ down
    BY <1>2, <1>14 DEF Start
  <2>3. toForm' = toForm \o <<"~TX">>
    BY <1>1, <1>14 DEF Start, Send, Up
  <2>4. toForm' = <<"~TX">>
    BY <2>2, <2>3
  <2>5. tx'.boot = FALSE /\ tx'.KeyDownActive = FALSE
    BY <1>0, <1>14, <2>2 DEF Start, TxType
  <2>6. Paired(<<"~TX">>, FALSE) /\ ~ Ending(<<"~TX">>, FALSE)
    BY DEF Paired, Ending
  <2>7. mute = wanted
    BY <1>2, <2>2 DEF Ending
  <2> QED  BY <1>2, <2>1, <2>4, <2>5, <2>6, <2>7
<1>15. CASE KeyDown \/ KeyUp
  <2>1. UNCHANGED <<TTY, VRXmute, mute, wanted>> /\ handle = "live" /\ ~ tx.boot
    BY <1>1, <1>2, <1>15 DEF KeyDown, KeyUp, Transmitter, settings, Up
  <2>2. tx.TXPowerOn \/ tx.TXlevel # 0
    BY <1>1, <1>15 DEF KeyDown, KeyUp, PowerInv
  <2>3. toForm' = toForm \o <<IF down THEN "N" ELSE "M">>
    BY <1>15, <2>1, <2>2 DEF KeyDown, KeyUp, Report, Send
  <2>4. tx'.boot = FALSE /\ (tx'.KeyDownActive <=> ~ down) /\ tx'.KeyDownActive \in BOOLEAN
    BY <1>0, <1>15, <2>1 DEF KeyDown, KeyUp, TxType
  <2> DEFINE longer == toForm \o <<IF down THEN "N" ELSE "M">>
  <2>5. Paired(longer, ~ down) /\ (Ending(longer, ~ down) <=> Ending(toForm, down))
    <3>1. Paired(toForm, down)
      BY <1>2
    <3> HIDE DEF down
    <3> QED  BY <1>0, <3>1, PairedAppend
  <2>6. tx'.KeyDownActive = ~ down
    BY <1>0, <2>4
  <2>7. Paired(toForm', tx'.KeyDownActive)
        /\ (Ending(toForm', tx'.KeyDownActive) <=> Ending(toForm, down))
    BY <2>3, <2>5, <2>6
  <2> QED  BY <1>2, <2>1, <2>4, <2>7
<1>16. CASE Tune \/ Plug \/ UNCHANGED vars
  <2>1. UNCHANGED <<TTY, VRXmute, mute, wanted, toForm, tx>>
    BY <1>16 DEF Tune, Plug, vars, settings, audio
  <2> QED  BY <1>3, <2>1
<1> QED
  BY <1>1, <1>4, <1>5, <1>8, <1>9, <1>10, <1>11, <1>12, <1>13, <1>14, <1>15, <1>16
     DEF Next, ProcessIncomingSerial, Firmware

(* Between transmissions the receivers are muted as the operator left them *)
(* after the last, until a reset, a lockout, a lost message or an RTTY     *)
(* text: if the operator waits for the transmitter to start and never sets *)
(* level 0, the cable stays and no write fails.                            *)
THEOREM MutesRestoredHolds ==
  ASSUME "Glitch" \notin Ops, "Unplug" \notin Ops, "Early" \notin Ops, 0 \notin Levels
  PROVE  Spec => []MutesRestored
<1> DEFINE Inv == Base /\ UnloadInv /\ PowerInv /\ MutesInv
<1>1. Init => Inv
  <2> SUFFICES ASSUME Init PROVE Inv
    OBVIOUS
  <2>1. plugged = TRUE
    BY DEF Init
  <2>2. UnloadInv
    BY <2>1 DEF Init, UnloadInv, Up
  <2>3. PowerInv
    BY DEF Init, PowerInv, Booting, Levelled
  <2>4. MutesInv
    BY DEF Init, MutesInv, Booting, Paired, Ending
  <2> QED  BY <2>2, <2>3, <2>4, BaseInit
<1>2. Inv /\ [Next]_vars => Inv'
  BY BaseStep, UnloadStep, PowerStep, MutesStep
<1>3. Inv => MutesRestored
  BY DEF MutesInv, Calm, MutesRestored, Settled, Ending
<1> HIDE DEF Inv
<1> QED  BY <1>1, <1>2, <1>3, PTL DEF Spec

=============================================================================
