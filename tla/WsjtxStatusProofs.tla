-------------------------- MODULE WsjtxStatusProofs -------------------------
(***************************************************************************)
(* Proofs about WsjtxStatus: its types, and that the transmitter is turned *)
(* on with the data of one status, for all statuses, any patience of the   *)
(* server and everything else the operator does.                           *)
(***************************************************************************)
EXTENDS WsjtxStatus, TLAPS

(* What may be encoded is a list of tones, of the text or of zeros.        *)
LEMMA EncodeMessageType ==
  ASSUME NEW mode, NEW s \in Statuses, NEW z \in EncodeMessage(mode, s.msg)
  PROVE  z \in Symbols /\ z.msg \in {s.msg, Zeros}
  BY SMTT(30) DEF EncodeMessage, Symbols, NoSymbols, Zeros, Texts

LEMMA StatusFields ==
  ASSUME NEW s \in Statuses
  PROVE  /\ s.freq \in Freqs /\ s.mode \in Modes /\ s.tx \in BOOLEAN
         /\ s.df \in {t.df : t \in Statuses} /\ s.msg \in {t.msg : t \in Statuses}
         /\ s.freq # NoFreq /\ s.msg # NoMsg
  BY StatusAssumption DEF Freqs, Modes, NoFreq

-----------------------------------------------------------------------------
LEMMA TypeInit == Init => TypeOK
<1> SUFFICES ASSUME Init PROVE TypeOK
  OBVIOUS
<1>1. NoSymbols \in Symbols
  BY DEF NoSymbols, Symbols
<1>2. ServerOK
  BY <1>1, StatusAssumption DEF Init, ServerOK
<1>3. SharedOK
  BY <1>1 DEF Init, SharedOK, Modes
<1>4. FormOK
  BY <1>1, StatusAssumption DEF Init, FormOK, Freqs, Modes, ToldTypes
<1> QED
  BY <1>2, <1>3, <1>4 DEF TypeOK

LEMMA ServerTyped == TypeOK /\ [Next]_vars => ServerOK'
<1> SUFFICES ASSUME TypeOK, [Next]_vars PROVE ServerOK'
  OBVIOUS
<1> USE DEF TypeOK, ServerOK
<1>1. CASE UNCHANGED server
  BY <1>1 DEF server
<1>2. CASE ProcessPacket
  <2>1. CASE Receive
    BY <2>1, StatusAssumption DEF Receive
  <2>2. CASE Sleep \/ StopWaiting
    BY <2>2, StatusAssumption DEF Sleep, StopWaiting
  <2>3. CASE PutFreq
    BY <2>3, StatusFields DEF PutFreq
  <2>4. CASE PutMode \/ PutHalt \/ PutFlag \/ PutOffset \/ PutSymbols
    BY <2>4 DEF PutMode, PutHalt, PutFlag, PutOffset, PutSymbols
  <2>5. CASE Encode
    BY <2>5, EncodeMessageType DEF Encode
  <2>6. CASE Publish
    BY <2>6, StatusFields DEF Publish
  <2> QED
    BY <1>2, <2>1, <2>2, <2>3, <2>4, <2>5, <2>6 DEF ProcessPacket
<1>3. CASE ProcessUDPEvent
  BY <1>1, <1>3 DEF ProcessUDPEvent, Notice, Skip, TakeFreq, ReadFlag, WriteMode,
                    WriteOffset, WriteSymbols, EnterData, CheckHalt, WriteSwitch,
                    ClearEvent
<1>4. CASE UnSplit \/ TuneSplit \/ TuneSet \/ SendPending \/ ProcessRTTYcommand
  BY <1>1, <1>4 DEF UnSplit, TuneSplit, TuneSet, SendPending, ProcessRTTYcommand
<1> QED
  BY <1>1, <1>2, <1>3, <1>4 DEF Next, vars

LEMMA SharedTyped == TypeOK /\ [Next]_vars => SharedOK'
<1> SUFFICES ASSUME TypeOK, [Next]_vars PROVE SharedOK'
  OBVIOUS
<1> USE DEF TypeOK, ServerOK, SharedOK
<1>1. CASE UNCHANGED shared
  BY <1>1 DEF shared, request
<1>2. CASE ProcessPacket
  <2>1. CASE Receive \/ Sleep \/ StopWaiting \/ Encode
    BY <1>1, <2>1 DEF Receive, Sleep, StopWaiting, Encode
  <2>2. CASE PutFreq
    BY <2>2, StatusFields DEF PutFreq, request
  <2>3. CASE PutMode \/ PutHalt \/ PutFlag
    BY <2>3, StatusFields DEF PutMode, PutHalt, PutFlag, request
  <2>4. CASE PutOffset \/ PutSymbols \/ Publish
    BY <2>4, StatusFields DEF PutOffset, PutSymbols, Publish, request
  <2> QED
    BY <1>2, <2>1, <2>2, <2>3, <2>4 DEF ProcessPacket
<1>3. CASE ProcessUDPEvent
  BY <1>1, <1>3 DEF ProcessUDPEvent, Notice, Skip, TakeFreq, ReadFlag, WriteMode,
                    WriteOffset, WriteSymbols, EnterData, CheckHalt, WriteSwitch,
                    ClearEvent, request
<1>4. CASE UnSplit \/ TuneSplit \/ TuneSet \/ SendPending \/ ProcessRTTYcommand
  BY <1>1, <1>4 DEF UnSplit, TuneSplit, TuneSet, SendPending, ProcessRTTYcommand
<1> QED
  BY <1>1, <1>2, <1>3, <1>4 DEF Next, vars

(* What the form's helpers leave in its variables.                         *)
LEMMA SendTXfreqTyped ==
  ASSUME NEW freq \in Freqs, NEW cmds \in ToldTypes, LastTXfreq \in Freqs,
         SendTXfreq(freq, cmds)
  PROVE  CurrentTXfreq' \in Freqs /\ LastTXfreq' \in Freqs /\ told' \in ToldTypes
  BY DEF SendTXfreq, ToldTypes

LEMMA SetupDataModeTyped ==
  ASSUME NEW freq \in Freqs, NEW cmds \in ToldTypes,
         CurrentTXfreq \in Freqs, LastTXfreq \in Freqs,
         SetupDataMode(freq, cmds)
  PROVE  /\ CurrentTXfreq' \in Freqs /\ LastTXfreq' \in Freqs /\ told' \in ToldTypes
         /\ SplitMode' = "FT8"
  BY SendTXfreqTyped DEF SetupDataMode

LEMMA FormTyped == TypeOK /\ [Next]_vars => FormOK'
<1> SUFFICES ASSUME TypeOK, [Next]_vars PROVE FormOK'
  OBVIOUS
<1> USE DEF TypeOK, FormOK
<1>1. CASE UNCHANGED form
  BY <1>1 DEF form, tuning
<1>2. CASE ProcessPacket
  BY <1>1, <1>2 DEF ProcessPacket, Receive, Sleep, StopWaiting, PutFreq, PutMode, PutHalt,
                    PutFlag, PutOffset, Encode, PutSymbols, Publish
<1>3. CASE ProcessUDPEvent
  <2>1. CASE Notice \/ Skip \/ ClearEvent
    BY <2>1 DEF Notice, Skip, ClearEvent, tuning
  <2>2. CASE TakeFreq
    <3>1. CASE newFrequency = NoFreq
      BY <2>2, <3>1 DEF TakeFreq, tuning
    <3>2. CASE newFrequency # NoFreq
      <4>1. newFrequency \in Freqs
        BY <3>2 DEF SharedOK
      <4>2. SetupDataMode(newFrequency, told) /\ CurrentWSJTXfreq' = newFrequency
        BY <2>2, <3>2 DEF TakeFreq
      <4> QED
        BY <2>2, <4>1, <4>2, SetupDataModeTyped DEF TakeFreq
    <3> QED
      BY <3>1, <3>2
  <2>3. CASE ReadFlag \/ CheckHalt
    BY <2>3 DEF ReadFlag, CheckHalt, tuning
  <2>4. CASE WriteMode
    BY <2>4 DEF WriteMode, tuning, ToldTypes
  <2>5. CASE WriteOffset
    BY <2>5 DEF WriteOffset, tuning, ToldTypes, SharedOK
  <2>6. CASE WriteSymbols
    <3>1. PICK z \in SymbolsRead : told' = [told EXCEPT !.Z = z]
      BY <2>6 DEF WriteSymbols
    <3>2. z \in Symbols \union {Garbled}
      BY DEF SymbolsRead, ServerOK, SharedOK
    <3>3. told' \in ToldTypes
      BY <3>1, <3>2 DEF ToldTypes
    <3> QED
      BY <2>6, <3>3 DEF WriteSymbols, tuning
  <2>7. CASE EnterData
    <3>1. SetupDataMode(CurrentWSJTXfreq, told) /\ DigiTXmodeStr' \in Modes
      BY <2>7 DEF EnterData, SharedOK
    <3> QED
      BY <2>7, <3>1, SetupDataModeTyped DEF EnterData
  <2>8. CASE WriteSwitch
    BY <2>8 DEF WriteSwitch, tuning, ToldTypes
  <2> QED
    BY <1>3, <2>1, <2>2, <2>3, <2>4, <2>5, <2>6, <2>7, <2>8 DEF ProcessUDPEvent
<1>4. CASE UnSplit
  <2>1. CASE SplitMode = "None"
    BY <1>4, <2>1 DEF UnSplit
  <2>2. CASE SplitMode # "None"
    BY <1>4, <2>2, SendTXfreqTyped DEF UnSplit
  <2> QED
    BY <2>1, <2>2
<1>5. CASE TuneSplit \/ TuneSet
  BY <1>5 DEF TuneSplit, TuneSet, tuning
<1>6. CASE SendPending
  BY <1>6, SendTXfreqTyped DEF SendPending
<1>7. CASE ProcessRTTYcommand
  <2>1. told' \in ToldTypes
    BY <1>7 DEF ProcessRTTYcommand, ToldTypes
  <2> QED
    BY <1>7, <2>1 DEF ProcessRTTYcommand, tuning
<1> QED
  BY <1>1, <1>2, <1>3, <1>4, <1>5, <1>6, <1>7 DEF Next, vars

(* Type correctness of the handover, for all statuses WSJT-X may report.   *)
THEOREM TypeCorrect == Spec => []TypeOK
<1>1. TypeOK /\ [Next]_vars => TypeOK'
  BY ServerTyped, SharedTyped, FormTyped DEF TypeOK
<1> QED
  BY <1>1, TypeInit, PTL DEF Spec

-----------------------------------------------------------------------------
(* TransmitsStatus.  The handshake: as long as the server waits for the    *)
(* form, it writes only while no event stands, and the form reads only     *)
(* while one does.                                                         *)

Waited == late # "now"

EventStands == fpc # "idle" => UDPevent

WritesAlone == Waited /\ upc \notin {"receive", "wait"} => ~ UDPevent

(* What the server has put so far is the packet's.                         *)
Filled ==
  /\ upc \in {"halt", "flag", "offset", "encode", "assign", "publish"}
       => WSJTX_TXmodeStr = pkt.mode
  /\ upc \in {"offset", "encode", "assign", "publish"} => TXflg = pkt.tx
  /\ upc \in {"encode", "assign", "publish"} => TXDF = pkt.df
  /\ upc = "assign" => encoded.msg \in {pkt.msg, Zeros}
  /\ upc = "publish" => TXsymbols.msg \in {pkt.msg, Zeros}

(* A text that is not encoded again is still there.                        *)
Remembered ==
  upc = "publish" \/ LastTXmsg = NoMsg \/ TXsymbols.msg \in {LastTXmsg, Zeros}

(* The event that stands is the published status.                          *)
Offered ==
  Waited /\ UDPevent =>
    /\ WSJTX_TXmodeStr = published.mode
    /\ TXflg = published.tx
    /\ TXDF = published.df
    /\ TXsymbols.msg \in {published.msg, Zeros}

(* What the form has passed on so far is the published status.             *)
ModeTold    == told.M = IF published.mode = "FT4" THEN "FT4" ELSE "FT8"
OffsetTold  == told.Y = published.df
SymbolsTold == told.Z.msg \in {published.msg, Zeros}

PassedOn ==
  Waited =>
    /\ fpc \in {"mode", "offset", "symbols", "enter"} => published.tx /\ str = "X1"
    /\ fpc \in {"offset", "symbols", "enter"} => ModeTold
    /\ fpc \in {"symbols", "enter"} => OffsetTold
    /\ fpc = "enter" => SymbolsTold
    /\ fpc \in {"halt", "write"} /\ str = "X1" =>
         /\ published.tx /\ ModeTold /\ OffsetTold /\ SymbolsTold
         /\ DigiTXmodeStr = published.mode

Handover ==
  EventStands /\ WritesAlone /\ Filled /\ Remembered /\ Offered /\ PassedOn

LEMMA HandoverInit == Init => Handover
  BY StatusAssumption DEF Init, Handover, EventStands, WritesAlone, Filled, Remembered,
                          Offered, PassedOn, NoSymbols

LEMMA EventStandsStep == TypeOK /\ EventStands /\ [Next]_vars => EventStands'
<1> SUFFICES ASSUME TypeOK, EventStands, [Next]_vars PROVE EventStands'
  OBVIOUS
<1> USE DEF EventStands
<1>1. CASE UNCHANGED vars
  BY <1>1 DEF vars, shared, form
<1>2. CASE ProcessPacket
  BY <1>2 DEF ProcessPacket, Receive, Sleep, StopWaiting, PutFreq, PutMode, PutHalt,
              PutFlag, PutOffset, Encode, PutSymbols, Publish, form, shared
<1>3. CASE ProcessUDPEvent
  BY <1>3 DEF ProcessUDPEvent, Notice, Skip, TakeFreq, ReadFlag, WriteMode,
              WriteOffset, WriteSymbols, EnterData, CheckHalt, WriteSwitch,
              ClearEvent, shared
<1>4. CASE UnSplit \/ TuneSplit \/ TuneSet \/ SendPending \/ ProcessRTTYcommand
  BY <1>4 DEF UnSplit, TuneSplit, TuneSet, SendPending, ProcessRTTYcommand, shared
<1> QED
  BY <1>1, <1>2, <1>3, <1>4 DEF Next

LEMMA WritesAloneStep == TypeOK /\ WritesAlone /\ [Next]_vars => WritesAlone'
<1> SUFFICES ASSUME TypeOK, WritesAlone, [Next]_vars PROVE WritesAlone'
  OBVIOUS
<1> USE DEF WritesAlone, Waited
<1>1. CASE UNCHANGED vars
  BY <1>1 DEF vars, shared, server
<1>2. CASE ProcessPacket
  BY <1>2 DEF ProcessPacket, Receive, Sleep, StopWaiting, PutFreq, PutMode, PutHalt,
              PutFlag, PutOffset, Encode, PutSymbols, Publish, shared
<1>3. CASE ProcessUDPEvent
  BY <1>3 DEF ProcessUDPEvent, Notice, Skip, TakeFreq, ReadFlag, WriteMode,
              WriteOffset, WriteSymbols, EnterData, CheckHalt, WriteSwitch,
              ClearEvent, shared, server
<1>4. CASE UnSplit \/ TuneSplit \/ TuneSet \/ SendPending \/ ProcessRTTYcommand
  BY <1>4 DEF UnSplit, TuneSplit, TuneSet, SendPending, ProcessRTTYcommand, shared, server
<1> QED
  BY <1>1, <1>2, <1>3, <1>4 DEF Next

(* Only the server writes what Filled and Remembered are about.            *)
LEMMA FormKeepsRequest ==
  ASSUME ProcessUDPEvent \/ UnSplit \/ TuneSplit \/ TuneSet \/ SendPending
         \/ ProcessRTTYcommand
  PROVE  UNCHANGED <<server, request>>
<1>1. CASE ProcessUDPEvent
  BY <1>1 DEF ProcessUDPEvent, Notice, Skip, TakeFreq, ReadFlag, WriteMode,
              WriteOffset, WriteSymbols, EnterData, CheckHalt, WriteSwitch,
              ClearEvent, shared
<1>2. CASE UnSplit \/ TuneSplit \/ TuneSet \/ SendPending \/ ProcessRTTYcommand
  BY <1>2 DEF UnSplit, TuneSplit, TuneSet, SendPending, ProcessRTTYcommand, shared
<1> QED
  BY <1>1, <1>2

LEMMA FilledStep ==
  TypeOK /\ Filled /\ Remembered /\ [Next]_vars => Filled' /\ Remembered'
<1> SUFFICES ASSUME TypeOK, Filled, Remembered, [Next]_vars
             PROVE  Filled' /\ Remembered'
  OBVIOUS
<1> USE DEF Filled, Remembered
<1>1. CASE UNCHANGED <<server, request>>
  BY <1>1 DEF server, request
<1>2. CASE ProcessPacket
  <2>1. CASE Receive \/ Sleep \/ StopWaiting
    BY <2>1 DEF Receive, Sleep, StopWaiting, shared, request
  <2>2. CASE PutFreq \/ PutMode
    BY <2>2 DEF PutFreq, PutMode, request
  <2>3. CASE PutHalt \/ PutFlag
    BY <2>3 DEF PutHalt, PutFlag, request
  <2>4. CASE PutOffset
    <3>1. pkt.msg # NoMsg
      BY StatusFields DEF TypeOK, ServerOK
    <3> QED
      BY <2>4, <3>1 DEF PutOffset
  <2>5. CASE Encode
    <3>1. encoded'.msg \in {pkt.msg, Zeros}
      BY <2>5, EncodeMessageType DEF Encode, TypeOK, ServerOK
    <3> QED
      BY <2>5, <3>1 DEF Encode, shared, request
  <2>6. CASE PutSymbols \/ Publish
    BY <2>6 DEF PutSymbols, Publish, request
  <2> QED
    BY <1>2, <2>1, <2>2, <2>3, <2>4, <2>5, <2>6 DEF ProcessPacket
<1> QED
  BY <1>1, <1>2, FormKeepsRequest DEF Next, vars, shared

LEMMA OfferedStep ==
  TypeOK /\ WritesAlone /\ Filled /\ Offered /\ [Next]_vars => Offered'
<1> SUFFICES ASSUME TypeOK, WritesAlone, Filled, Offered, [Next]_vars
             PROVE  Offered'
  OBVIOUS
<1> USE DEF Offered, Waited
<1>1. CASE UNCHANGED vars
  BY <1>1 DEF vars, server, shared, request
<1>2. CASE ProcessPacket
  <2>1. CASE Receive \/ Sleep \/ StopWaiting
    BY <2>1 DEF Receive, Sleep, StopWaiting, shared, request
  <2>2. CASE PutFreq \/ PutMode \/ PutHalt \/ PutFlag \/ PutOffset
    BY <2>2 DEF PutFreq, PutMode, PutHalt, PutFlag, PutOffset, WritesAlone
  <2>3. CASE Encode \/ PutSymbols
    BY <2>3 DEF Encode, PutSymbols, WritesAlone, shared
  <2>4. CASE Publish
    BY <2>4 DEF Publish, Filled, request
  <2> QED
    BY <1>2, <2>1, <2>2, <2>3, <2>4 DEF ProcessPacket
<1>3. CASE ProcessUDPEvent
  <2>1. UDPevent' => UDPevent
    BY <1>3 DEF ProcessUDPEvent, Notice, Skip, TakeFreq, ReadFlag, WriteMode,
                WriteOffset, WriteSymbols, EnterData, CheckHalt, WriteSwitch,
                ClearEvent, shared
  <2> QED
    BY <1>3, <2>1, FormKeepsRequest DEF server, request
<1>4. CASE UnSplit \/ TuneSplit \/ TuneSet \/ SendPending \/ ProcessRTTYcommand
  <2>1. UNCHANGED UDPevent
    BY <1>4 DEF UnSplit, TuneSplit, TuneSet, SendPending, ProcessRTTYcommand, shared
  <2> QED
    BY <1>4, <2>1, FormKeepsRequest DEF server, request
<1> QED
  BY <1>1, <1>2, <1>3, <1>4 DEF Next

LEMMA PassedOnStep ==
  TypeOK /\ Handover /\ [Next]_vars => PassedOn'
<1> SUFFICES ASSUME TypeOK, Handover, [Next]_vars, Waited'
             PROVE  PassedOn'
  BY DEF PassedOn
<1> USE DEF Handover, PassedOn, Waited, ModeTold, OffsetTold, SymbolsTold
<1>1. CASE UNCHANGED vars
  BY <1>1 DEF vars, server, form, tuning
<1>2. CASE ProcessPacket
  <2>1. CASE Receive \/ Sleep
    BY <2>1 DEF Receive, Sleep, form
  <2>2. CASE StopWaiting
    <3>1. fpc = "idle" /\ UNCHANGED fpc
      BY <2>2 DEF StopWaiting, EventStands, form
    <3> QED
      BY <3>1
  <2>3. CASE PutFreq \/ PutMode \/ PutHalt \/ PutFlag \/ PutOffset \/ Encode \/ PutSymbols
    BY <2>3 DEF PutFreq, PutMode, PutHalt, PutFlag, PutOffset, Encode, PutSymbols, form
  <2>4. CASE Publish
    <3>1. fpc = "idle" /\ UNCHANGED fpc
      BY <2>4 DEF Publish, EventStands, WritesAlone, form
    <3> QED
      BY <3>1
  <2> QED
    BY <1>2, <2>1, <2>2, <2>3, <2>4 DEF ProcessPacket
<1>3. CASE ProcessUDPEvent
  <2>1. UNCHANGED server
    BY <1>3, FormKeepsRequest
  <2>2. late # "now" /\ UNCHANGED published
    BY <2>1 DEF server
  <2>3. CASE Notice \/ Skip \/ TakeFreq \/ ClearEvent
    BY <2>3 DEF Notice, Skip, TakeFreq, ClearEvent
  <2>4. CASE ReadFlag
    BY <2>4, <2>2 DEF ReadFlag, EventStands, Offered
  <2>5. CASE WriteMode
    <3>1. told'.M = IF published.mode = "FT4" THEN "FT4" ELSE "FT8"
      BY <2>5, <2>2 DEF WriteMode, EventStands, Offered, TypeOK, FormOK, ToldTypes
    <3> QED
      BY <2>5, <2>2, <3>1 DEF WriteMode
  <2>6. CASE WriteOffset
    <3>1. told'.M = told.M /\ told'.Y = published.df
      BY <2>6, <2>2 DEF WriteOffset, EventStands, Offered, TypeOK, FormOK, ToldTypes
    <3> QED
      BY <2>6, <2>2, <3>1 DEF WriteOffset
  <2>7. CASE WriteSymbols
    <3>1. SymbolsRead = {TXsymbols}
      BY <2>7, <2>2 DEF WriteSymbols, SymbolsRead, EventStands, WritesAlone
    <3>2. told' = [told EXCEPT !.Z = TXsymbols]
      BY <2>7, <3>1 DEF WriteSymbols
    <3>3. told'.M = told.M /\ told'.Y = told.Y /\ told'.Z = TXsymbols
      BY <3>2 DEF TypeOK, FormOK, ToldTypes
    <3>4. TXsymbols.msg \in {published.msg, Zeros}
      BY <2>7, <2>2 DEF WriteSymbols, EventStands, Offered
    <3> QED
      BY <2>7, <2>2, <3>3, <3>4 DEF WriteSymbols
  <2>8. CASE EnterData
    <3>1. told'.M = told.M /\ told'.Y = told.Y /\ told'.Z = told.Z
      BY <2>8 DEF EnterData, SetupDataMode, SendTXfreq, TypeOK, FormOK, ToldTypes
    <3>2. DigiTXmodeStr' = published.mode
      BY <2>8, <2>2 DEF EnterData, EventStands, Offered
    <3> QED
      BY <2>8, <2>2, <3>1, <3>2 DEF EnterData
  <2>9. CASE CheckHalt
    <3>1. str' = "X1" => str = "X1"
      BY <2>9 DEF CheckHalt
    <3> QED
      BY <2>9, <2>2, <3>1 DEF CheckHalt
  <2>10. CASE WriteSwitch
    BY <2>10 DEF WriteSwitch
  <2> QED
    BY <1>3, <2>3, <2>4, <2>5, <2>6, <2>7, <2>8, <2>9, <2>10 DEF ProcessUDPEvent
<1>4. CASE UnSplit \/ SendPending \/ ProcessRTTYcommand
  BY <1>4 DEF UnSplit, SendPending, ProcessRTTYcommand
<1>5. CASE TuneSplit \/ TuneSet
  BY <1>5 DEF TuneSplit, TuneSet, server, tuning
<1> QED
  BY <1>1, <1>2, <1>3, <1>4, <1>5 DEF Next

(* While the server waits for the form, the transmitter is turned on only  *)
(* with the mode, offset and text of the last status, one in which WSJT-X  *)
(* transmits.                                                              *)
THEOREM TransmitsStatusHolds == Spec => []TransmitsStatus
<1> DEFINE Inv == TypeOK /\ Handover
<1>1. Init => Inv
  BY TypeInit, HandoverInit
<1>2. Inv /\ [Next]_vars => Inv'
  <2>1. TypeOK /\ [Next]_vars => TypeOK'
    BY ServerTyped, SharedTyped, FormTyped DEF TypeOK
  <2> QED
    BY <2>1, EventStandsStep, WritesAloneStep, FilledStep, OfferedStep, PassedOnStep
    DEF Handover
<1>3. Inv => TransmitsStatus
  BY DEF TransmitsStatus, SwitchingOn, MaySwitch, Handover, PassedOn, Waited, ModeTold,
         OffsetTold, SymbolsTold
<1> QED
  BY <1>1, <1>2, <1>3, PTL DEF Spec

-----------------------------------------------------------------------------
(* OnDial and DialHeld, when the form was closed in the data mode and the  *)
(* split button is left alone.                                             *)

StaysSplit == StartSplit = "FT8" /\ "UnSplit" \notin Ops

(* Nobody but ProcessUDPEvent moves the transmitter, which then has been   *)
(* told its frequency.                                                     *)
FormAlone ==
  /\ SplitMode = "FT8" /\ dial = NoFreq /\ ~ pending /\ fpc # "skip"
  /\ CurrentTXfreq = LastTXfreq
  /\ told.F = LastTXfreq

(* newFrequency is the server's last, until the form has taken it.         *)
Followed ==
  /\ newFrequency # NoFreq => newFrequency = curFrequency
  /\ newFrequency = NoFreq /\ curFrequency # NoFreq => CurrentWSJTXfreq = curFrequency

(* When the server has always waited, a change of frequency goes with its  *)
(* event: it is put, published and taken before the next.                  *)
Taken ==
  late = "never" =>
    /\ newFrequency # NoFreq =>
         \/ upc \notin {"receive", "wait", "freq"}
         \/ UDPevent /\ fpc \in {"idle", "freq"}
    /\ upc \notin {"receive", "wait", "freq"} => curFrequency = pkt.freq
    /\ UDPevent => curFrequency = published.freq
    /\ fpc \in {"halt", "write"} /\ str = "X1" => told.F = published.freq

(* A transmitter that is on, or about to be, is on WSJT-X's frequency.     *)
OnFreq ==
  \/ told.X = "X1"
  \/ fpc \in {"halt", "write"} /\ str = "X1"
  => told.F = CurrentWSJTXfreq

Dial == FormAlone /\ Followed /\ Taken

LEMMA DialInit == StaysSplit /\ Init => Dial /\ OnFreq
  BY StatusAssumption DEF Init, StaysSplit, Dial, FormAlone, Followed, Taken, OnFreq

(* The form's frequency, and what the transmitter is told.                 *)
LEMMA SetupDataModeMoves ==
  ASSUME NEW freq \in Freqs, TypeOK, FormAlone, SetupDataMode(freq, told)
  PROVE  /\ SplitMode' = "FT8"
         /\ CurrentTXfreq' = freq /\ LastTXfreq' = freq /\ told'.F = freq
         /\ told'.X = told.X
  BY DEF SetupDataMode, SendTXfreq, FormAlone, TypeOK, FormOK, ToldTypes

LEMMA FormAloneStep ==
  StaysSplit /\ TypeOK /\ FormAlone /\ [Next]_vars => FormAlone'
<1> SUFFICES ASSUME StaysSplit, TypeOK, FormAlone, [Next]_vars PROVE FormAlone'
  OBVIOUS
<1> USE DEF FormAlone
<1>1. CASE UNCHANGED form
  BY <1>1 DEF form, tuning
<1>2. CASE ProcessPacket
  BY <1>1, <1>2 DEF ProcessPacket, Receive, Sleep, StopWaiting, PutFreq, PutMode, PutHalt,
                    PutFlag, PutOffset, Encode, PutSymbols, Publish
<1>3. CASE ProcessUDPEvent
  <2>1. CASE Notice \/ Skip \/ ReadFlag \/ CheckHalt \/ ClearEvent
    BY <2>1 DEF Notice, Skip, ReadFlag, CheckHalt, ClearEvent, tuning
  <2>2. CASE WriteMode \/ WriteOffset \/ WriteSwitch
    BY <2>2 DEF WriteMode, WriteOffset, WriteSwitch, tuning, TypeOK, FormOK, ToldTypes
  <2>3. CASE WriteSymbols
    <3>1. told'.F = told.F
      BY <2>3 DEF WriteSymbols, TypeOK, FormOK, ToldTypes
    <3> QED
      BY <2>3, <3>1 DEF WriteSymbols, tuning
  <2>4. CASE TakeFreq
    <3>1. CASE newFrequency = NoFreq
      BY <2>4, <3>1 DEF TakeFreq, tuning
    <3>2. CASE newFrequency # NoFreq
      BY <2>4, <3>2, SetupDataModeMoves DEF TakeFreq, TypeOK, SharedOK
    <3> QED
      BY <3>1, <3>2
  <2>5. CASE EnterData
    BY <2>5, SetupDataModeMoves DEF EnterData, TypeOK, FormOK
  <2> QED
    BY <1>3, <2>1, <2>2, <2>3, <2>4, <2>5 DEF ProcessUDPEvent
<1>4. CASE UnSplit \/ TuneSplit \/ TuneSet \/ SendPending
  BY <1>4 DEF UnSplit, TuneSplit, TuneSet, SendPending, StaysSplit
<1>5. CASE ProcessRTTYcommand
  <2>1. told'.F = told.F
    BY <1>5 DEF ProcessRTTYcommand, TypeOK, FormOK, ToldTypes
  <2> QED
    BY <1>5, <2>1 DEF ProcessRTTYcommand, tuning
<1> QED
  BY <1>1, <1>2, <1>3, <1>4, <1>5 DEF Next, vars

LEMMA FollowedStep ==
  TypeOK /\ FormAlone /\ Followed /\ [Next]_vars => Followed'
<1> SUFFICES ASSUME TypeOK, FormAlone, Followed, [Next]_vars PROVE Followed'
  OBVIOUS
<1> USE DEF Followed
<1>1. CASE UNCHANGED <<newFrequency, curFrequency, CurrentWSJTXfreq>>
  BY <1>1
<1>2. CASE PutFreq
  <2>1. pkt.freq # NoFreq
    BY StatusFields DEF TypeOK, ServerOK
  <2> QED
    BY <1>2, <2>1 DEF PutFreq, form
<1>3. CASE ProcessPacket /\ ~ PutFreq
  BY <1>1, <1>3 DEF ProcessPacket, Receive, Sleep, StopWaiting, PutMode, PutHalt, PutFlag,
                    PutOffset, Encode, PutSymbols, Publish, form, shared
<1>4. CASE TakeFreq
  BY <1>4 DEF TakeFreq, server
<1>5. CASE Skip
  BY <1>5 DEF Skip, FormAlone
<1>6. CASE ProcessUDPEvent /\ ~ TakeFreq /\ ~ Skip
  BY <1>1, <1>6 DEF ProcessUDPEvent, Notice, ReadFlag, WriteMode, WriteOffset,
                    WriteSymbols, EnterData, CheckHalt, WriteSwitch, ClearEvent, shared,
                    server
<1>7. CASE UnSplit \/ TuneSplit \/ TuneSet \/ SendPending \/ ProcessRTTYcommand
  BY <1>1, <1>7 DEF UnSplit, TuneSplit, TuneSet, SendPending, ProcessRTTYcommand, shared,
                    server
<1>8. CASE UNCHANGED vars
  BY <1>1, <1>8 DEF vars, shared, server, form
<1> QED
  BY <1>2, <1>3, <1>4, <1>5, <1>6, <1>7, <1>8 DEF Next

LEMMA TakenStep ==
  TypeOK /\ Handover /\ FormAlone /\ Followed /\ Taken /\ [Next]_vars => Taken'
<1> SUFFICES ASSUME TypeOK, Handover, FormAlone, Followed, Taken, [Next]_vars,
                    late' = "never"
             PROVE  Taken'
  BY DEF Taken
<1> DEFINE Writing == upc \notin {"receive", "wait", "freq"}
<1>1. late = "never"
  <2>1. CASE StopWaiting
    BY <2>1 DEF StopWaiting
  <2>2. CASE ProcessPacket /\ ~ StopWaiting
    BY <2>2 DEF ProcessPacket, Receive, Sleep, PutFreq, PutMode, PutHalt, PutFlag,
                PutOffset, Encode, PutSymbols, Publish
  <2>3. CASE UNCHANGED server
    BY <2>3 DEF server
  <2> QED
    BY <2>1, <2>2, <2>3, FormKeepsRequest DEF Next, vars
<1>2. ~ UDPevent => fpc = "idle"
  BY DEF Handover, EventStands
<1>3. UDPevent => upc \in {"receive", "wait"}
  BY <1>1 DEF Handover, WritesAlone, Waited
<1> USE <1>1 DEF Taken
<1>4. CASE UNCHANGED vars
  BY <1>4 DEF vars, server, shared, form
<1>5. CASE ProcessPacket
  <2>1. CASE Receive \/ Sleep
    BY <2>1 DEF Receive, Sleep, form, shared
  <2>2. CASE StopWaiting
    BY <2>2, <1>2 DEF StopWaiting, form, shared
  <2>3. CASE PutFreq
    <3>1. ~ UDPevent /\ fpc = "idle" /\ newFrequency = NoFreq
      BY <2>3, <1>2, <1>3 DEF PutFreq
    <3>2. curFrequency' = pkt.freq
      BY <2>3, <3>1 DEF PutFreq
    <3> QED
      BY <2>3, <3>1, <3>2 DEF PutFreq, form
  <2>4. CASE PutMode \/ PutHalt \/ PutFlag \/ PutOffset
    BY <2>4 DEF PutMode, PutHalt, PutFlag, PutOffset, form
  <2>5. CASE Encode \/ PutSymbols
    BY <2>5 DEF Encode, PutSymbols, form, shared
  <2>6. CASE Publish
    <3>1. fpc = "idle" /\ curFrequency = pkt.freq
      BY <2>6, <1>2, <1>3 DEF Publish
    <3> QED
      BY <2>6, <3>1 DEF Publish, form
  <2> QED
    BY <1>5, <2>1, <2>2, <2>3, <2>4, <2>5, <2>6 DEF ProcessPacket
<1>6. CASE ProcessUDPEvent
  <2>1. UNCHANGED server
    BY <1>6, FormKeepsRequest
  <2>2. UNCHANGED <<upc, pkt, curFrequency, published>>
    BY <2>1 DEF server
  <2>3. CASE Notice
    BY <2>2, <2>3 DEF Notice, FormAlone, shared
  <2>4. CASE Skip
    BY <2>4 DEF Skip, FormAlone
  <2>5. CASE TakeFreq
    BY <2>2, <2>5 DEF TakeFreq
  <2>6. CASE ReadFlag
    BY <2>2, <2>6, <1>2, <1>3 DEF ReadFlag, shared
  <2>7. CASE WriteMode \/ WriteOffset \/ WriteSymbols
    BY <2>2, <2>7, <1>2, <1>3 DEF WriteMode, WriteOffset, WriteSymbols, shared
  <2>8. CASE EnterData
    <3>1. UDPevent /\ newFrequency = NoFreq
      BY <2>8, <1>2, <1>3 DEF EnterData
    <3>2. published.freq # NoFreq
      BY StatusFields DEF TypeOK, ServerOK
    <3>3. CurrentWSJTXfreq = published.freq
      BY <3>1, <3>2 DEF Followed
    <3>4. told'.F = published.freq
      BY <2>8, <3>3, SetupDataModeMoves DEF EnterData, TypeOK, FormOK
    <3> QED
      BY <2>2, <2>8, <3>1, <3>4 DEF EnterData, shared
  <2>9. CASE CheckHalt
    BY <2>2, <2>9, <1>2, <1>3 DEF CheckHalt
  <2>10. CASE WriteSwitch \/ ClearEvent
    BY <2>2, <2>10, <1>2, <1>3 DEF WriteSwitch, ClearEvent, shared
  <2> QED
    BY <1>6, <2>3, <2>4, <2>5, <2>6, <2>7, <2>8, <2>9, <2>10 DEF ProcessUDPEvent
<1>7. CASE UnSplit \/ SendPending \/ ProcessRTTYcommand
  BY <1>7 DEF UnSplit, SendPending, ProcessRTTYcommand, server, shared
<1>8. CASE TuneSplit \/ TuneSet
  BY <1>8 DEF TuneSplit, TuneSet, server, shared, tuning
<1> QED
  BY <1>4, <1>5, <1>6, <1>7, <1>8 DEF Next

(* The invariant of OnDial, over steps.                                    *)
LEMMA DialStep ==
  StaysSplit /\ TypeOK /\ Handover /\ Dial /\ [Next]_vars
    => TypeOK' /\ Handover' /\ Dial'
<1>1. TypeOK /\ [Next]_vars => TypeOK'
  BY ServerTyped, SharedTyped, FormTyped DEF TypeOK
<1>2. TypeOK /\ Handover /\ [Next]_vars => Handover'
  BY EventStandsStep, WritesAloneStep, FilledStep, OfferedStep, PassedOnStep
  DEF Handover
<1> QED
  BY <1>1, <1>2, FormAloneStep, FollowedStep, TakenStep DEF Dial

(* When the form was closed in the data mode, and split operation is not   *)
(* left, the transmitter is only ever turned on on the frequency of the    *)
(* status, as long as the server never gave up waiting for the form.       *)
THEOREM OnDialHolds == StaysSplit => (Spec => []OnDial)
<1> SUFFICES ASSUME StaysSplit PROVE Spec => []OnDial
  OBVIOUS
<1> DEFINE Inv == TypeOK /\ Handover /\ Dial
<1>1. Init => Inv
  BY TypeInit, HandoverInit, DialInit
<1>2. Inv /\ [Next]_vars => Inv'
  BY DialStep
<1>3. Inv => OnDial
  BY DEF OnDial, SwitchingOn, Dial, Taken
<1> QED
  BY <1>1, <1>2, <1>3, PTL DEF Spec

LEMMA OnFreqStep ==
  StaysSplit /\ "RTTY" \notin Ops /\ TypeOK /\ FormAlone /\ OnFreq /\ [Next]_vars => OnFreq'
<1> SUFFICES ASSUME StaysSplit, "RTTY" \notin Ops, TypeOK, FormAlone, OnFreq, [Next]_vars
             PROVE  OnFreq'
  OBVIOUS
<1> USE DEF OnFreq
<1>1. CASE UNCHANGED form
  BY <1>1 DEF form
<1>2. CASE ProcessPacket
  BY <1>1, <1>2 DEF ProcessPacket, Receive, Sleep, StopWaiting, PutFreq, PutMode, PutHalt,
                    PutFlag, PutOffset, Encode, PutSymbols, Publish
<1>3. CASE ProcessUDPEvent
  <2>1. CASE Notice \/ Skip \/ ReadFlag \/ ClearEvent
    BY <2>1 DEF Notice, Skip, ReadFlag, ClearEvent, tuning
  <2>2. CASE WriteMode \/ WriteOffset \/ WriteSymbols
    <3>1. told'.F = told.F /\ told'.X = told.X
      BY <2>2 DEF WriteMode, WriteOffset, WriteSymbols, TypeOK, FormOK, ToldTypes
    <3> QED
      BY <2>2, <3>1 DEF WriteMode, WriteOffset, WriteSymbols
  <2>3. CASE TakeFreq
    <3>1. CASE newFrequency = NoFreq
      BY <2>3, <3>1 DEF TakeFreq
    <3>2. CASE newFrequency # NoFreq
      <4>1. told'.F = CurrentWSJTXfreq'
        BY <2>3, <3>2, SetupDataModeMoves DEF TakeFreq, TypeOK, SharedOK
      <4> QED
        BY <4>1
    <3> QED
      BY <3>1, <3>2
  <2>4. CASE EnterData
    BY <2>4, SetupDataModeMoves DEF EnterData, TypeOK, FormOK
  <2>5. CASE CheckHalt
    BY <2>5 DEF CheckHalt
  <2>6. CASE WriteSwitch
    <3>1. told'.F = told.F
      BY <2>6 DEF WriteSwitch, TypeOK, FormOK, ToldTypes
    <3>2. told'.X = told.X \/ told'.X = str
      BY <2>6 DEF WriteSwitch, TypeOK, FormOK, ToldTypes
    <3> QED
      BY <2>6, <3>1, <3>2 DEF WriteSwitch
  <2> QED
    BY <1>3, <2>1, <2>2, <2>3, <2>4, <2>5, <2>6 DEF ProcessUDPEvent
<1>4. CASE TuneSplit \/ TuneSet \/ ProcessRTTYcommand
  BY <1>4 DEF TuneSplit, TuneSet, ProcessRTTYcommand, FormAlone
<1>5. CASE SendPending
  BY <1>5 DEF SendPending, FormAlone
<1>6. CASE UnSplit
  BY <1>6 DEF UnSplit, StaysSplit
<1> QED
  BY <1>1, <1>2, <1>3, <1>4, <1>5, <1>6 DEF Next, vars

(* A transmitter that is on stays on WSJT-X's frequency, when split        *)
(* operation is not left and no RTTY is sent, whether the server waits for *)
(* the form or not.                                                        *)
THEOREM DialHeldHolds == StaysSplit /\ "RTTY" \notin Ops => (Spec => []DialHeld)
<1> SUFFICES ASSUME StaysSplit, "RTTY" \notin Ops PROVE Spec => []DialHeld
  OBVIOUS
<1> DEFINE Inv == TypeOK /\ FormAlone /\ OnFreq
<1>1. Init => Inv
  BY TypeInit, DialInit DEF Dial
<1>2. Inv /\ [Next]_vars => Inv'
  <2>1. TypeOK /\ [Next]_vars => TypeOK'
    BY ServerTyped, SharedTyped, FormTyped DEF TypeOK
  <2> QED
    BY <2>1, FormAloneStep, OnFreqStep
<1>3. Inv => DialHeld
  BY DEF DialHeld, OnFreq
<1> QED
  BY <1>1, <1>2, <1>3, PTL DEF Spec

=============================================================================
