----------------------------- MODULE WsjtxStatus ----------------------------
(***************************************************************************)
(* From WSJT-X to the transmitter: the status datagrams, the thread of     *)
(* UDP_Server.cpp that receives them, the global variables it passes them  *)
(* on in, and the form's timer that turns them into serial commands        *)
(* (SDRunoPlugin_TXLinkForm.cpp, ProcessUDPEvent and SetupDataMode).       *)
(*                                                                         *)
(* No lock is held: UDPevent hands the variables from one thread to the    *)
(* other and back, and the server stops waiting for it after MaxSleeps     *)
(* sleeps.  A step of a thread is one access to a variable of the other.   *)
(*                                                                         *)
(* The serial port stays open, and TXlink4_Nano reads all it is sent.  {W}, *)
(* the receiver, the labels and the DX call are left out.                  *)
(***************************************************************************)
EXTENDS Naturals

CONSTANTS
  Statuses,       \* [freq, mode, tx, enabled, df, msg] WSJT-X may report
  MaxSleeps,      \* the server's patience, 50 sleeps of 10 ms
  StartFreq,      \* the form's frequency before WSJT-X gave one
  StartSplit,     \* SplitMode restored from the ini file
  NoMsg,          \* LastTXmsg at start-up
  Ops             \* what else happens: subset of AllOps

Freqs == {s.freq : s \in Statuses} \union {StartFreq}
Modes == {s.mode : s \in Statuses} \union {"FT8", "FT4"}
Texts == {s.msg : s \in Statuses} \ {"TUNE"}

NoFreq == 0       \* newFrequency = 0

(* The operator presses Split/UnSplit, or tunes VRX1; RTTY text is sent.   *)
AllOps == {"UnSplit", "Tune", "RTTY"}

ASSUME StatusAssumption ==
  /\ Statuses # {}
  /\ \A s \in Statuses : /\ DOMAIN s = {"freq", "mode", "tx", "enabled", "df", "msg"}
                         /\ s.freq \in Nat \ {0}
                         /\ s.tx \in BOOLEAN /\ s.enabled \in BOOLEAN
                         /\ s.mode \notin {"RTTY", "TTY"}
                         /\ s.msg # NoMsg
  /\ MaxSleeps \in Nat
  /\ StartFreq \in Nat \ {0}
  /\ StartSplit \in {"None", "TxRx", "FT8"}
  /\ Ops \subseteq AllOps

(* A list of tones is that of a text in a mode, or zeros of the mode's     *)
(* length, or neither: a string read while it is written.                  *)
Zeros   == "zeros"
Garbled == [mode |-> "none", msg |-> "none"]
Symbols == [mode : {"FT8", "FT4"}, msg : Texts \union {Zeros}]

VARIABLES
  \* the UDP thread
  upc, pkt, sleeps, curFrequency, LastTXmsg, encoded,
  \* global variables
  UDPevent, newFrequency, WSJTX_TXmodeStr, UDPHaltTXevent, TXflg, TXDF, TXsymbols,
  \* the form
  fpc, FirstTime, SplitMode, DigiTXmodeStr, CurrentWSJTXfreq, CurrentTXfreq,
  LastTXfreq, str, pending,
  \* SDRuno's thread
  dial,
  \* the transmitter: the last command of each kind that reached it
  told,
  \* observers, read by no action
  published,          \* the status of the last event
  late                \* the server "never" gave up waiting for the form, does so
                      \* "now", or did "before"

server  == <<upc, pkt, sleeps, curFrequency, LastTXmsg, encoded, published, late>>
request == <<WSJTX_TXmodeStr, TXflg, TXDF, TXsymbols>>
shared  == <<UDPevent, newFrequency, request, UDPHaltTXevent>>
tuning  == <<SplitMode, CurrentTXfreq, LastTXfreq>>
form    == <<fpc, FirstTime, DigiTXmodeStr, CurrentWSJTXfreq, str, pending, dial,
             tuning, told>>
vars    == <<server, shared, form>>

NoSymbols == [mode |-> "FT8", msg |-> Zeros]

Init ==
  /\ upc = "receive" /\ pkt \in Statuses /\ sleeps = 0
  /\ curFrequency = NoFreq /\ LastTXmsg = NoMsg /\ encoded = NoSymbols
  /\ UDPevent = FALSE /\ newFrequency = NoFreq /\ UDPHaltTXevent = FALSE
  /\ WSJTX_TXmodeStr = "FT8" /\ TXflg = FALSE /\ TXDF = 0 /\ TXsymbols = NoSymbols
  /\ fpc = "idle" /\ FirstTime = TRUE /\ SplitMode = StartSplit
  /\ DigiTXmodeStr = "FT8" /\ str = "X0" /\ pending = FALSE /\ dial = NoFreq
  /\ CurrentWSJTXfreq = StartFreq
  /\ CurrentTXfreq \in Freqs /\ LastTXfreq = CurrentTXfreq
  /\ told = [F |-> CurrentTXfreq, M |-> "FT8", Y |-> 0, Z |-> NoSymbols, X |-> "X0"]
  /\ published = pkt /\ late = "never"

-----------------------------------------------------------------------------
(* UDP_Server and the status branch of ProcessPacket.  Any status may be   *)
(* the next: datagrams are lost, and they say what WSJT-X did when they    *)
(* were sent.                                                              *)

Receive ==
  /\ upc = "receive"
  /\ pkt' \in Statuses
  /\ sleeps' = 0
  /\ upc' = "wait"
  /\ UNCHANGED <<curFrequency, LastTXmsg, encoded, published, late, shared, form>>

SleepLonger ==
  /\ upc = "wait"
  /\ UDPevent
  /\ sleeps <= MaxSleeps
  /\ sleeps' = sleeps + 1
  /\ UNCHANGED <<upc, pkt, curFrequency, LastTXmsg, encoded, published, late,
                 shared, form>>

Sleep ==
  /\ upc = "wait"
  /\ UDPevent
  /\ sleeps < MaxSleeps
  /\ sleeps' = sleeps + 1
  /\ UNCHANGED <<upc, pkt, curFrequency, LastTXmsg, encoded, published, late,
                 shared, form>>

(* late remembers whether the form was waited for.                         *)
StopWaiting ==
  /\ upc = "wait"
  /\ sleeps >= MaxSleeps \/ ~ UDPevent
  /\ late' = IF UDPevent THEN "now" ELSE IF late = "never" THEN late ELSE "before"
  /\ upc' = "freq"
  /\ UNCHANGED <<pkt, sleeps, curFrequency, LastTXmsg, encoded, published,
                 shared, form>>

PutFreqForgets ==
  /\ upc = "freq"
  /\ newFrequency' = IF pkt.freq # curFrequency /\ newFrequency = NoFreq
                       THEN pkt.freq ELSE newFrequency
  /\ curFrequency' = pkt.freq
  /\ upc' = "mode"
  /\ UNCHANGED <<pkt, sleeps, LastTXmsg, encoded, published, late, UDPevent,
                 request, UDPHaltTXevent, form>>

(* Only the server makes newFrequency non-zero, only the form zero.        *)
PutFreq ==
  /\ upc = "freq"
  /\ IF pkt.freq # curFrequency /\ newFrequency = NoFreq
       THEN newFrequency' = pkt.freq /\ curFrequency' = pkt.freq
       ELSE UNCHANGED <<newFrequency, curFrequency>>
  /\ upc' = "mode"
  /\ UNCHANGED <<pkt, sleeps, LastTXmsg, encoded, published, late, UDPevent,
                 request, UDPHaltTXevent, form>>

PutMode ==
  /\ upc = "mode"
  /\ WSJTX_TXmodeStr' = pkt.mode
  /\ upc' = "halt"
  /\ UNCHANGED <<pkt, sleeps, curFrequency, LastTXmsg, encoded, published, late,
                 UDPevent, newFrequency, TXflg, TXDF, TXsymbols, UDPHaltTXevent, form>>

(* WSJT-X has stopped, and is not going to transmit again by itself.       *)
PutHalt ==
  /\ upc = "halt"
  /\ UDPHaltTXevent' = (UDPHaltTXevent \/ (TXflg /\ ~ pkt.tx /\ ~ pkt.enabled))
  /\ upc' = "flag"
  /\ UNCHANGED <<pkt, sleeps, curFrequency, LastTXmsg, encoded, published, late,
                 UDPevent, newFrequency, request, form>>

PutFlag ==
  /\ upc = "flag"
  /\ TXflg' = pkt.tx
  /\ upc' = "offset"
  /\ UNCHANGED <<pkt, sleeps, curFrequency, LastTXmsg, encoded, published, late,
                 UDPevent, newFrequency, WSJTX_TXmodeStr, TXDF, TXsymbols,
                 UDPHaltTXevent, form>>

(* A text is encoded when it is another than before.                       *)
PutOffset ==
  /\ upc = "offset"
  /\ TXDF' = pkt.df
  /\ upc' = IF LastTXmsg = pkt.msg THEN "publish" ELSE "encode"
  /\ UNCHANGED <<pkt, sleeps, curFrequency, LastTXmsg, encoded, published, late,
                 UDPevent, newFrequency, WSJTX_TXmodeStr, TXflg, TXsymbols,
                 UDPHaltTXevent, form>>

(* What EncodeMessage may return: zeros for a Tune, and when ft8code or    *)
(* ft4code fails, of the mode's length or of FT8's.                        *)
EncodeMessage(mode, msg) ==
  IF mode \notin {"FT8", "FT4"} THEN {NoSymbols}
  ELSE IF msg = "TUNE" THEN {[mode |-> mode, msg |-> Zeros]}
  ELSE {[mode |-> mode, msg |-> m] : m \in {msg, Zeros}} \union {NoSymbols}

Encode ==
  /\ upc = "encode"
  /\ encoded' \in EncodeMessage(WSJTX_TXmodeStr, pkt.msg)
  /\ upc' = "assign"
  /\ UNCHANGED <<pkt, sleeps, curFrequency, LastTXmsg, published, late,
                 shared, form>>

PutSymbols ==
  /\ upc = "assign"
  /\ TXsymbols' = encoded
  /\ upc' = "publish"
  /\ UNCHANGED <<pkt, sleeps, curFrequency, LastTXmsg, encoded, published, late,
                 UDPevent, newFrequency, WSJTX_TXmodeStr, TXflg, TXDF,
                 UDPHaltTXevent, form>>

Publish ==
  /\ upc = "publish"
  /\ LastTXmsg' = pkt.msg
  /\ UDPevent' = TRUE
  /\ published' = pkt
  /\ upc' = "receive"
  /\ UNCHANGED <<pkt, sleeps, curFrequency, encoded, late, newFrequency,
                 request, UDPHaltTXevent, form>>

ProcessPacket ==
  \/ Receive \/ Sleep \/ StopWaiting
  \/ PutFreq \/ PutMode \/ PutHalt \/ PutFlag \/ PutOffset
  \/ Encode \/ PutSymbols \/ Publish

-----------------------------------------------------------------------------
(* The form's tick: ProcessUDPEvent.                                       *)

NoticeAndClear ==
  /\ fpc = "idle"
  /\ UDPevent
  /\ LET ignored == FirstTime /\ SplitMode # "FT8" IN
       /\ FirstTime' = ignored
       /\ fpc' = IF ignored THEN "skip" ELSE "freq"
  /\ UDPevent' = FALSE
  /\ UNCHANGED <<server, newFrequency, request, UDPHaltTXevent, DigiTXmodeStr, CurrentWSJTXfreq, str, pending, dial,
                 tuning, told>>

(* Until WSJT-X changes frequency its events are ignored, unless the form  *)
(* was closed in the data mode.                                            *)
Notice ==
  /\ fpc = "idle"
  /\ UDPevent
  /\ LET ignored == FirstTime /\ SplitMode # "FT8" IN
       /\ FirstTime' = ignored
       /\ fpc' = IF ignored THEN "skip" ELSE "freq"
  /\ UNCHANGED <<server, shared, DigiTXmodeStr, CurrentWSJTXfreq, str, pending, dial,
                 tuning, told>>

Skip ==
  /\ fpc = "skip"
  /\ newFrequency' = NoFreq
  /\ FirstTime' = (FirstTime /\ newFrequency = NoFreq)
  /\ fpc' = "clear"
  /\ UNCHANGED <<server, UDPevent, request, UDPHaltTXevent, DigiTXmodeStr,
                 CurrentWSJTXfreq, str, pending, dial, tuning, told>>

SendTXfreqStoredFirst(freq, cmds) ==
  /\ CurrentTXfreq' = freq
  /\ LastTXfreq' = freq
  /\ told' = IF freq = LastTXfreq' THEN cmds ELSE [cmds EXCEPT !.F = freq]

(* SendTXfreq with freq as the new CurrentTXfreq; cmds is what has been    *)
(* told before.                                                            *)
SendTXfreq(freq, cmds) ==
  /\ CurrentTXfreq' = freq
  /\ LastTXfreq' = freq
  /\ told' = IF freq = LastTXfreq THEN cmds ELSE [cmds EXCEPT !.F = freq]

SetupDataMode(freq, cmds) ==
  /\ SplitMode' = "FT8"
  /\ IF CurrentTXfreq # freq
       THEN SendTXfreq(freq, cmds)
       ELSE UNCHANGED <<CurrentTXfreq, LastTXfreq>> /\ told' = cmds

TakeFreqNoReset ==
  /\ fpc = "freq"
  /\ IF newFrequency # NoFreq
       THEN /\ CurrentWSJTXfreq' = newFrequency
            /\ UNCHANGED newFrequency
            /\ SetupDataMode(newFrequency, told)
       ELSE UNCHANGED <<CurrentWSJTXfreq, newFrequency, tuning, told>>
  /\ fpc' = "flag"
  /\ UNCHANGED <<server, UDPevent, request, UDPHaltTXevent, FirstTime, DigiTXmodeStr,
                 str, pending, dial>>

TakeFreq ==
  /\ fpc = "freq"
  /\ IF newFrequency # NoFreq
       THEN /\ CurrentWSJTXfreq' = newFrequency
            /\ newFrequency' = NoFreq
            /\ SetupDataMode(newFrequency, told)
       ELSE UNCHANGED <<CurrentWSJTXfreq, newFrequency, tuning, told>>
  /\ fpc' = "flag"
  /\ UNCHANGED <<server, UDPevent, request, UDPHaltTXevent, FirstTime, DigiTXmodeStr,
                 str, pending, dial>>

ReadFlag ==
  /\ fpc = "flag"
  /\ str' = IF TXflg THEN "X1" ELSE "X0"
  /\ fpc' = IF TXflg THEN "mode" ELSE "halt"
  /\ UNCHANGED <<server, shared, FirstTime, DigiTXmodeStr, CurrentWSJTXfreq, pending,
                 dial, tuning, told>>

WriteMode ==
  /\ fpc = "mode"
  /\ told' = [told EXCEPT !.M = IF WSJTX_TXmodeStr = "FT4" THEN "FT4" ELSE "FT8"]
  /\ fpc' = "offset"
  /\ UNCHANGED <<server, shared, FirstTime, DigiTXmodeStr, CurrentWSJTXfreq, str,
                 pending, dial, tuning>>

WriteOffset ==
  /\ fpc = "offset"
  /\ told' = [told EXCEPT !.Y = TXDF]
  /\ fpc' = "symbols"
  /\ UNCHANGED <<server, shared, FirstTime, DigiTXmodeStr, CurrentWSJTXfreq, str,
                 pending, dial, tuning>>

(* A string that is assigned meanwhile is read in part.                    *)
SymbolsRead == IF upc = "assign" THEN {TXsymbols, encoded, Garbled} ELSE {TXsymbols}

WriteSymbols ==
  /\ fpc = "symbols"
  /\ \E z \in SymbolsRead : told' = [told EXCEPT !.Z = z]
  /\ fpc' = "enter"
  /\ UNCHANGED <<server, shared, FirstTime, DigiTXmodeStr, CurrentWSJTXfreq, str,
                 pending, dial, tuning>>

EnterData ==
  /\ fpc = "enter"
  /\ DigiTXmodeStr' = WSJTX_TXmodeStr
  /\ SetupDataMode(CurrentWSJTXfreq, told)
  /\ fpc' = "halt"
  /\ UNCHANGED <<server, shared, FirstTime, CurrentWSJTXfreq, str, pending, dial>>

CheckHaltForgets ==
  /\ fpc = "halt"
  /\ UDPHaltTXevent' = FALSE
  /\ fpc' = "write"
  /\ UNCHANGED <<server, UDPevent, newFrequency, request, FirstTime, DigiTXmodeStr,
                 CurrentWSJTXfreq, str, pending, dial, tuning, told>>

CheckHalt ==
  /\ fpc = "halt"
  /\ str' = IF UDPHaltTXevent THEN "Halt" ELSE str
  /\ UDPHaltTXevent' = FALSE
  /\ fpc' = "write"
  /\ UNCHANGED <<server, UDPevent, newFrequency, request, FirstTime, DigiTXmodeStr,
                 CurrentWSJTXfreq, pending, dial, tuning, told>>

(* The last command turns the transmitter on or off.                       *)
MaySwitch == SplitMode = "FT8" /\ DigiTXmodeStr \in {"FT4", "FT8"}

WriteSwitch ==
  /\ fpc = "write"
  /\ told' = IF MaySwitch THEN [told EXCEPT !.X = str] ELSE told
  /\ fpc' = "clear"
  /\ UNCHANGED <<server, shared, FirstTime, DigiTXmodeStr, CurrentWSJTXfreq, str,
                 pending, dial, tuning>>

ClearEvent ==
  /\ fpc = "clear"
  /\ UDPevent' = FALSE
  /\ fpc' = "idle"
  /\ UNCHANGED <<server, newFrequency, request, UDPHaltTXevent, FirstTime,
                 DigiTXmodeStr, CurrentWSJTXfreq, str, pending, dial, tuning, told>>

ProcessUDPEvent ==
  \/ Notice \/ Skip \/ TakeFreq \/ ReadFlag
  \/ WriteMode \/ WriteOffset \/ WriteSymbols \/ EnterData
  \/ CheckHalt \/ WriteSwitch \/ ClearEvent

-----------------------------------------------------------------------------
(* What else the form and SDRuno do with the same variables.               *)

(* FixFreqBtnClicked.  SplitNone tracks the receiver, on any frequency.    *)
UnSplit ==
  /\ "UnSplit" \in Ops
  /\ fpc = "idle"
  /\ IF SplitMode = "None"
       THEN SplitMode' = "TxRx" /\ UNCHANGED <<CurrentTXfreq, LastTXfreq, told>>
       ELSE SplitMode' = "None" /\ \E f \in Freqs : SendTXfreq(f, told)
  /\ UNCHANGED <<server, shared, fpc, FirstTime, DigiTXmodeStr, CurrentWSJTXfreq, str,
                 pending, dial>>

(* FrequencyChanged, on SDRuno's thread: VRX1 has moved, and with split    *)
(* frequencies it is the transmitter's.                                    *)
TuneSplit ==
  /\ "Tune" \in Ops
  /\ dial = NoFreq
  /\ SplitMode = "TxRx"
  /\ dial' \in Freqs \ {CurrentTXfreq}
  /\ UNCHANGED <<server, shared, fpc, FirstTime, DigiTXmodeStr, CurrentWSJTXfreq, str,
                 pending, tuning, told>>

TuneSet ==
  /\ dial # NoFreq
  /\ CurrentTXfreq' = dial
  /\ pending' = TRUE
  /\ dial' = NoFreq
  /\ UNCHANGED <<server, shared, fpc, FirstTime, DigiTXmodeStr, CurrentWSJTXfreq, str,
                 SplitMode, LastTXfreq, told>>

(* ProcessMessageQueue: $SendTXfreq$.                                      *)
SendPending ==
  /\ fpc = "idle"
  /\ pending
  /\ pending' = FALSE
  /\ SendTXfreq(CurrentTXfreq, told)
  /\ UNCHANGED <<server, shared, fpc, FirstTime, DigiTXmodeStr, CurrentWSJTXfreq, str,
                 dial, SplitMode>>

(* ProcessMessageQueue: RTTY text, {M1}{Z}{X1}, or {X0}.                   *)
ProcessRTTYcommand ==
  /\ "RTTY" \in Ops
  /\ fpc = "idle"
  /\ DigiTXmodeStr' = "TTY"
  /\ \/ told' = [told EXCEPT !.M = "RTTY", !.X = "X1"]
     \/ told' = [told EXCEPT !.X = "X0"]
  /\ UNCHANGED <<server, shared, fpc, FirstTime, CurrentWSJTXfreq, str, pending, dial,
                 tuning>>

-----------------------------------------------------------------------------
Next ==
  \/ ProcessPacket
  \/ ProcessUDPEvent
  \/ UnSplit \/ TuneSplit \/ TuneSet \/ SendPending \/ ProcessRTTYcommand

Spec == Init /\ [][Next]_vars

(* WSJT-X reports its status again and again, so there is always another   *)
(* datagram; the server's loop and the form's timer run for ever.          *)
FairSpec ==
  /\ Spec
  /\ WF_vars(ProcessPacket)
  /\ WF_vars(ProcessUDPEvent)

-----------------------------------------------------------------------------
ToldTypes ==
  [F : Freqs, M : {"FT8", "FT4", "RTTY"}, Y : {s.df : s \in Statuses} \union {0},
   Z : Symbols \union {Garbled}, X : {"X0", "X1", "Halt"}]

ServerOK ==
  /\ pkt \in Statuses /\ published \in Statuses
  /\ upc \in {"receive", "wait", "freq", "mode", "halt", "flag", "offset", "encode",
              "assign", "publish"}
  /\ sleeps \in 0 .. MaxSleeps
  /\ curFrequency \in Freqs \union {NoFreq}
  /\ LastTXmsg \in {s.msg : s \in Statuses} \union {NoMsg}
  /\ encoded \in Symbols
  /\ late \in {"never", "now", "before"}

SharedOK ==
  /\ UDPevent \in BOOLEAN /\ UDPHaltTXevent \in BOOLEAN /\ TXflg \in BOOLEAN
  /\ newFrequency \in Freqs \union {NoFreq}
  /\ WSJTX_TXmodeStr \in Modes
  /\ TXDF \in {s.df : s \in Statuses} \union {0}
  /\ TXsymbols \in Symbols

FormOK ==
  /\ fpc \in {"idle", "skip", "freq", "flag", "mode", "offset", "symbols", "enter", "halt",
              "write", "clear"}
  /\ FirstTime \in BOOLEAN /\ pending \in BOOLEAN
  /\ SplitMode \in {"None", "TxRx", "FT8"}
  /\ DigiTXmodeStr \in Modes \union {"TTY"}
  /\ CurrentWSJTXfreq \in Freqs /\ CurrentTXfreq \in Freqs /\ LastTXfreq \in Freqs
  /\ dial \in Freqs \union {NoFreq}
  /\ str \in {"X0", "X1", "Halt"}
  /\ told \in ToldTypes

(* Type invariant.                                                         *)
TypeOK == ServerOK /\ SharedOK /\ FormOK

(* The form is about to turn the transmitter on.                           *)
SwitchingOn == fpc = "write" /\ str = "X1" /\ MaySwitch

(* As long as the server has waited for the form, the transmitter is       *)
(* turned on with the mode, the offset and the text of one status, and it  *)
(* is the last one, in which WSJT-X transmits: ProcessUDPEvent reads four  *)
(* variables one after the other.                                          *)
TransmitsStatus ==
  SwitchingOn /\ late # "now" =>
    /\ published.tx
    /\ told.M = published.mode
    /\ told.Y = published.df
    /\ told.Z.msg \in {published.msg, Zeros}

(* The comment of the server's wait, "wait for previous event to be        *)
(* processed": whatever the delays, the transmitter is never turned on     *)
(* with the data of two statuses.                                          *)
NeverTorn ==
  SwitchingOn =>
    \E s \in Statuses :
      told.M = s.mode /\ told.Y = s.df /\ told.Z.msg \in {s.msg, Zeros}

(* A text is sent as the tones of the mode it is sent in: ProcessUDPEvent  *)
(* is to "refresh TX data and enable TX as required".                      *)
SymbolsForMode ==
  SwitchingOn /\ late = "never" /\ told.Z.msg \in Texts => told.Z.mode = told.M

(* As long as the server has never given up waiting, the transmitter is    *)
(* turned on on the frequency of the status: ProcessUDPEvent passes a      *)
(* change of frequency on only once.                                       *)
OnDial == SwitchingOn /\ late = "never" => told.F = published.freq

(* In SplitFT8 a transmitter that is on has WSJT-X's frequency between two  *)
(* ticks, unless the next is going to correct it: "in SplitFT8 the tx freq *)
(* base is fixed", HandleEvent.                                            *)
DialHeld ==
  SplitMode = "FT8" /\ told.X = "X1" /\ fpc = "idle" /\ ~ pending =>
    told.F = CurrentWSJTXfreq

(* When WSJT-X stays on a frequency the form ends up there too, even if    *)
(* datagrams arrive while the form is busy: the handshake on newFrequency. *)
FollowsDial ==
  \A f \in Freqs : <>[](pkt.freq = f) => <>[](CurrentWSJTXfreq = f)

(* The operator halts WSJT-X: a transmitter that is on is told to stop,    *)
(* "force TX to stop".                                                     *)
HaltSent == UDPHaltTXevent /\ told.X = "X1" ~> told.X # "X1"

=============================================================================
