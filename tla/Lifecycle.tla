----------------------------- MODULE Lifecycle ------------------------------
(***************************************************************************)
(* The plugin's threads from StartTXLinkUi to the end of                   *)
(* ~SDRunoPlugin_TXLink: SDRuno's thread that destroys the plugin asks the *)
(* form's thread and the servers to end, waits for some of it only so      *)
(* long, and joins them; the form's timer answers when it comes round.     *)
(*                                                                         *)
(* Of the servers there is what ends them, or keeps them from ending: the  *)
(* UDP server in the hand-over to the form, the DX cluster client in a     *)
(* read that blocks, the tuner and the RTTY server between their messages  *)
(* (module PipeServer has the rest).  The annotator is left out.           *)
(***************************************************************************)
EXTENDS Naturals

CONSTANTS
  MaxSleeps,     \* of each bounded wait; 50 in the code
  MaxSpots       \* spots waiting for the cluster

ASSUME LifecycleAssumption == MaxSleeps \in Nat /\ MaxSpots \in Nat

VARIABLES
  dpc, sleeps,                                     \* SDRuno's thread
  ExitRequest,                                     \* the servers asked to end
  FormPrepareUnloadRequest, FormExitAllRequest,
  form, UnloadInProgress, connected, txOn,         \* the form's thread, the port, the transmitter
  udp, UDPevent, tuner, rtty,
  dx, DXsocket, bConnected, spots,                 \* the DX cluster client
  crashed                                          \* m_form was used before there was one

destructor == <<dpc, sleeps, ExitRequest>>
requests   == <<FormPrepareUnloadRequest, FormExitAllRequest>>
ui         == <<form, UnloadInProgress, connected, txOn>>
servers    == <<udp, UDPevent, tuner, rtty>>
cluster    == <<dx, DXsocket, bConnected, spots>>
vars       == <<destructor, requests, ui, servers, cluster, crashed>>

Servers == {"UDP", "Tuner", "RTTY", "DXspider"}

(* StartTXLinkUi has started the threads; RunForm is making the form in    *)
(* its own.                                                                *)
Init ==
  /\ dpc = "loaded" /\ sleeps = 0 /\ ExitRequest = {}
  /\ FormPrepareUnloadRequest = FALSE /\ FormExitAllRequest = FALSE
  /\ form = "starting" /\ UnloadInProgress = FALSE
  /\ connected = FALSE /\ txOn = FALSE
  /\ udp = "receive" /\ UDPevent = FALSE
  /\ tuner = "runs" /\ rtty = "runs"
  /\ dx = "loop" /\ DXsocket = FALSE /\ bConnected = FALSE /\ spots = 0
  /\ crashed = FALSE

-----------------------------------------------------------------------------
(* SDRuno's thread: a wait for a flag of the form, then one thread after   *)
(* the other, then m_Ui with the form's.                                   *)

SDRuno(from, to) ==
  /\ ~ crashed
  /\ dpc = from /\ dpc' = to
  /\ UNCHANGED <<ui, servers, crashed>>

(* StopTXLinkUi, on the event ClosingDown.                                 *)
ClosingDown ==
  /\ SDRuno("loaded", "loaded")
  /\ FormPrepareUnloadRequest' = TRUE
  /\ UNCHANGED <<sleeps, ExitRequest, FormExitAllRequest, cluster>>

Destroy ==
  /\ SDRuno("loaded", "prepare")
  /\ FormPrepareUnloadRequest' = TRUE
  /\ UNCHANGED <<sleeps, ExitRequest, FormExitAllRequest, cluster>>

TooLongWaiting == sleeps <= MaxSleeps

StillWaiting == sleeps < MaxSleeps

Sleep(at, flag) ==
  /\ SDRuno(at, at)
  /\ flag /\ StillWaiting
  /\ sleeps' = sleeps + 1
  /\ UNCHANGED <<ExitRequest, requests, cluster>>

SleepOver(flag) == ~ (flag /\ StillWaiting)

PreparedExitsAll ==
  /\ SDRuno("prepare", "joinUDP")
  /\ SleepOver(FormPrepareUnloadRequest)
  /\ sleeps' = 0
  /\ ExitRequest' = {"UDP"}
  /\ FormExitAllRequest' = TRUE
  /\ UNCHANGED <<FormPrepareUnloadRequest, cluster>>

Prepared ==
  /\ SDRuno("prepare", "joinUDP")
  /\ SleepOver(FormPrepareUnloadRequest)
  /\ sleeps' = 0
  /\ ExitRequest' = {"UDP"}
  /\ UNCHANGED <<requests, cluster>>

JoinUDP ==
  /\ SDRuno("joinUDP", "joinTuner")
  /\ udp = "ended"
  /\ ExitRequest' = ExitRequest \union {"Tuner"}
  /\ UNCHANGED <<sleeps, requests, cluster>>

JoinTuner ==
  /\ SDRuno("joinTuner", "joinRTTY")
  /\ tuner = "ended"
  /\ ExitRequest' = ExitRequest \union {"RTTY"}
  /\ UNCHANGED <<sleeps, requests, cluster>>

JoinRTTY ==
  /\ SDRuno("joinRTTY", "forceClose")
  /\ rtty = "ended"
  /\ UNCHANGED <<sleeps, ExitRequest, requests, cluster>>

DXspider_force_close ==
  /\ SDRuno("forceClose", "requestDX")
  /\ DXsocket' = FALSE
  /\ UNCHANGED <<sleeps, ExitRequest, requests, dx, bConnected, spots>>

RequestDXforgotten ==
  /\ SDRuno("requestDX", "joinDX")
  /\ UNCHANGED <<sleeps, ExitRequest, requests, cluster>>

RequestDX ==
  /\ SDRuno("requestDX", "joinDX")
  /\ ExitRequest' = ExitRequest \union {"DXspider"}
  /\ UNCHANGED <<sleeps, requests, cluster>>

(* The end of the destructor; m_Ui goes next: ShutdownFormThread.          *)
JoinDX ==
  /\ SDRuno("joinDX", "exitAll")
  /\ dx = "ended"
  /\ FormExitAllRequest' = TRUE
  /\ UNCHANGED <<sleeps, ExitRequest, FormPrepareUnloadRequest, cluster>>

ExitedAll ==
  /\ SDRuno("exitAll", "joinForm")
  /\ SleepOver(FormExitAllRequest)
  /\ UNCHANGED <<sleeps, ExitRequest, requests, cluster>>

JoinForm ==
  /\ SDRuno("joinForm", "gone")
  /\ form = "ended"
  /\ UNCHANGED <<sleeps, ExitRequest, requests, cluster>>

Destructor ==
  \/ Sleep("prepare", FormPrepareUnloadRequest) \/ Prepared
  \/ JoinUDP \/ JoinTuner \/ JoinRTTY
  \/ DXspider_force_close \/ RequestDX \/ JoinDX
  \/ Sleep("exitAll", FormExitAllRequest) \/ ExitedAll \/ JoinForm

-----------------------------------------------------------------------------
(* The form's thread.                                                      *)

Form(from, to) ==
  /\ ~ crashed
  /\ form = from /\ form' = to
  /\ UNCHANGED <<destructor, udp, tuner, rtty, dx, DXsocket, bConnected, crashed>>

(* The form's constructor opens the port, if it is there.                  *)
RunForm ==
  /\ Form("starting", "runs")
  /\ connected' \in BOOLEAN
  /\ UNCHANGED <<requests, UnloadInProgress, txOn, UDPevent, spots>>

(* SetStandbyMode: what the transmitter is told, while the port is open.   *)
Tell(on, open) == IF open THEN on ELSE txOn

CloseThenStandby ==
  /\ connected' = FALSE
  /\ txOn' = Tell(FALSE, connected')

(* OnTimer: InitiateFormUnload, then CloseCOMPort.                         *)
StandbyThenClose ==
  /\ txOn' = Tell(FALSE, connected)
  /\ connected' = FALSE

PrepareUnload ==
  /\ Form("runs", "runs")
  /\ FormPrepareUnloadRequest
  /\ UnloadInProgress' = TRUE
  /\ StandbyThenClose
  /\ FormPrepareUnloadRequest' = FALSE
  /\ UNCHANGED <<FormExitAllRequest, UDPevent, spots>>

(* exit_all ends the timer and nana::exec.                                 *)
ExitAll ==
  /\ Form("runs", "ended")
  /\ ~ FormPrepareUnloadRequest
  /\ UnloadInProgress /\ FormExitAllRequest
  /\ FormExitAllRequest' = FALSE
  /\ UNCHANGED <<FormPrepareUnloadRequest, UnloadInProgress, connected, txOn, UDPevent, spots>>

(* ProcessUDPEvent, in every tick but those of the unload.                 *)
ServeUDP ==
  /\ Form("runs", "runs")
  /\ ~ FormPrepareUnloadRequest /\ ~ UnloadInProgress
  /\ UDPevent /\ UDPevent' = FALSE
  /\ UNCHANGED <<requests, UnloadInProgress, connected, txOn, spots>>

OnTimer == PrepareUnload \/ ExitAll \/ ServeUDP

(* The buttons are not disabled during the unload.                         *)
StandbyClick ==
  /\ Form("runs", "runs")
  /\ txOn' = Tell(~ txOn, connected)
  /\ UNCHANGED <<requests, UnloadInProgress, connected, UDPevent, spots>>

(* FixTXup, SendTXfreq: a port that is closed is opened first.             *)
TXupClick ==
  /\ Form("runs", "runs")
  /\ ~ connected /\ connected' = TRUE
  /\ UNCHANGED <<requests, UnloadInProgress, txOn, UDPevent, spots>>

DXspotClick ==
  /\ Form("runs", "runs")
  /\ spots < MaxSpots /\ spots' = spots + 1
  /\ UNCHANGED <<requests, UnloadInProgress, connected, txOn, UDPevent>>

-----------------------------------------------------------------------------
(* The UDP server: a status is handed over when the form has taken the one *)
(* before, or in its place after MaxSleeps.                                *)

ServerThread == ~ crashed /\ UNCHANGED <<destructor, requests, ui, cluster>>

Status ==
  /\ ServerThread
  /\ udp = "receive" /\ "UDP" \notin ExitRequest
  /\ udp' = "handing"
  /\ UNCHANGED <<UDPevent, tuner, rtty, crashed>>

HandOver ==
  /\ ServerThread
  /\ udp = "handing" /\ udp' = "receive"
  /\ UDPevent' = TRUE
  /\ UNCHANGED <<tuner, rtty, crashed>>

GiveUpHanding ==
  /\ ServerThread
  /\ udp = "handing" /\ UDPevent /\ "UDP" \in ExitRequest
  /\ udp' = "receive"
  /\ UNCHANGED <<UDPevent, tuner, rtty, crashed>>

EndUDP ==
  /\ ServerThread
  /\ udp = "receive" /\ "UDP" \in ExitRequest
  /\ udp' = "ended"
  /\ UNCHANGED <<UDPevent, tuner, rtty, crashed>>

(* The tuner's knob is turned, or the RTTY controller sends: m_form, which *)
(* the form's thread may still have to make.                               *)
UseForm ==
  /\ ServerThread
  /\ tuner = "runs" \/ rtty = "runs"
  /\ form = "starting"
  /\ crashed' = TRUE
  /\ UNCHANGED servers

EndTuner ==
  /\ ServerThread
  /\ tuner = "runs" /\ "Tuner" \in ExitRequest
  /\ tuner' = "ended"
  /\ UNCHANGED <<udp, UDPevent, rtty, crashed>>

EndRTTY ==
  /\ ServerThread
  /\ rtty = "runs" /\ "RTTY" \in ExitRequest
  /\ rtty' = "ended"
  /\ UNCHANGED <<udp, UDPevent, tuner, crashed>>

-----------------------------------------------------------------------------
(* The DX cluster client.  A spot that cannot be sent is lost.  Its reads  *)
(* wait for the cluster, or for the end of the connection, however long    *)
(* that takes; is_socket_active waits too, for the socket blocks.          *)

DXexit == "DXspider" \in ExitRequest

DX(from, to) ==
  /\ ~ crashed
  /\ dx = from /\ dx' = to
  /\ UNCHANGED <<dpc, sleeps, requests, ui, servers, crashed>>

(* DXspiderLoop's sleep, which drops what the cluster has sent.            *)
FlushInput ==
  /\ DX("loop", "loop")
  /\ ~ DXexit /\ spots = 0
  /\ bConnected /\ ~ DXsocket
  /\ bConnected' = FALSE
  /\ UNCHANGED <<ExitRequest, DXsocket, spots>>

TakeSpot ==
  /\ DX("loop", "active")
  /\ ~ DXexit
  /\ spots > 0 /\ spots' = spots - 1
  /\ UNCHANGED <<ExitRequest, DXsocket, bConnected>>

(* DXspiderDisconnect.                                                     *)
EndDX ==
  /\ DX("loop", "ended")
  /\ DXexit
  /\ DXsocket' = (DXsocket /\ ~ bConnected)
  /\ bConnected' = FALSE
  /\ ExitRequest' = ExitRequest \ {"DXspider"}
  /\ UNCHANGED spots

(* The socket is open and has something to read.                           *)
Active ==
  /\ DXsocket
  /\ DX("active", IF bConnected THEN "write" ELSE "connect")
  /\ UNCHANGED <<ExitRequest, DXsocket, bConnected, spots>>

NotActive ==
  /\ DX("active", "connect")
  /\ ~ DXsocket
  /\ bConnected' = FALSE
  /\ UNCHANGED <<ExitRequest, DXsocket, spots>>

(* ConnectDXspider: connected, before or after the exit is asked for.      *)
Connect ==
  /\ DX("connect", IF DXexit THEN "loop" ELSE "login")
  /\ DXsocket' = TRUE
  /\ UNCHANGED <<ExitRequest, bConnected, spots>>

ConnectFails ==
  /\ DX("connect", "loop")
  /\ DXsocket' = FALSE
  /\ UNCHANGED <<ExitRequest, bConnected, spots>>

(* The name of the host does not resolve: the exception passes for a       *)
(* connection.                                                             *)
ResolveThrows ==
  /\ DX("connect", "write")
  /\ bConnected' = TRUE
  /\ UNCHANGED <<ExitRequest, DXsocket, spots>>

LoginAsked ==
  /\ DXsocket
  /\ DX("login", IF DXexit THEN "loop" ELSE "prompt")
  /\ UNCHANGED <<ExitRequest, DXsocket, bConnected, spots>>

Prompted ==
  /\ DXsocket
  /\ DX("prompt", "write")
  /\ bConnected' = TRUE
  /\ UNCHANGED <<ExitRequest, DXsocket, spots>>

WriteSpot ==
  /\ DX("write", IF DXsocket /\ ~ DXexit THEN "answer" ELSE "loop")
  /\ UNCHANGED <<ExitRequest, DXsocket, bConnected, spots>>

SpotAnswered ==
  /\ DXsocket
  /\ DX("answer", "loop")
  /\ UNCHANGED <<ExitRequest, DXsocket, bConnected, spots>>

ReadFails ==
  /\ ~ DXsocket
  /\ \E at \in {"login", "prompt", "answer"} : DX(at, "loop")
  /\ UNCHANGED <<ExitRequest, DXsocket, bConnected, spots>>

(* The cluster, or the network, ends the connection.                       *)
ConnectionLost ==
  /\ ~ crashed
  /\ DXsocket /\ DXsocket' = FALSE
  /\ UNCHANGED <<destructor, requests, ui, servers, dx, bConnected, spots, crashed>>

DXspiderLoop ==
  \/ FlushInput \/ TakeSpot \/ EndDX \/ NotActive \/ Connect \/ ConnectFails \/ ResolveThrows
  \/ WriteSpot \/ ReadFails

ClusterSpeaks == Active \/ LoginAsked \/ Prompted \/ SpotAnswered

-----------------------------------------------------------------------------
(* The process stays, or ends; the plugin can be loaded again.             *)
Over ==
  /\ crashed \/ dpc = "gone"
  /\ UNCHANGED vars

Next ==
  \/ ClosingDown \/ Destroy \/ Destructor
  \/ RunForm \/ OnTimer \/ StandbyClick \/ TXupClick \/ DXspotClick
  \/ Status \/ HandOver \/ GiveUpHanding \/ EndUDP
  \/ UseForm \/ EndTuner \/ EndRTTY
  \/ DXspiderLoop \/ ClusterSpeaks \/ ConnectionLost
  \/ Over

Spec == Init /\ [][Next]_vars

(* Every thread runs; nobody has to click, the cluster need not speak.     *)
FairSpec ==
  /\ Spec
  /\ WF_vars(Destructor)
  /\ WF_vars(RunForm) /\ WF_vars(OnTimer)
  /\ WF_vars(HandOver \/ GiveUpHanding \/ EndUDP)
  /\ WF_vars(EndTuner) /\ WF_vars(EndRTTY)
  /\ WF_vars(DXspiderLoop)

(* The cluster answers, or ends the connection.                            *)
LiveClusterSpec == FairSpec /\ WF_vars(ClusterSpeaks \/ ConnectionLost)

-----------------------------------------------------------------------------
TypeOK ==
  /\ dpc \in {"loaded", "prepare", "joinUDP", "joinTuner", "joinRTTY", "forceClose",
              "requestDX", "joinDX", "exitAll", "joinForm", "gone"}
  /\ sleeps \in 0..MaxSleeps
  /\ ExitRequest \subseteq Servers
  /\ FormPrepareUnloadRequest \in BOOLEAN /\ FormExitAllRequest \in BOOLEAN
  /\ form \in {"starting", "runs", "ended"}
  /\ UnloadInProgress \in BOOLEAN /\ connected \in BOOLEAN /\ txOn \in BOOLEAN
  /\ udp \in {"receive", "handing", "ended"} /\ UDPevent \in BOOLEAN
  /\ tuner \in {"runs", "ended"} /\ rtty \in {"runs", "ended"}
  /\ dx \in {"loop", "active", "connect", "login", "prompt", "write", "answer", "ended"}
  /\ DXsocket \in BOOLEAN /\ bConnected \in BOOLEAN /\ spots \in 0..MaxSpots
  /\ crashed \in BOOLEAN

(* The port is closed on a transmitter in standby only, and a form that    *)
(* has ended has prepared: however late its timer came, and whatever was   *)
(* clicked meanwhile (Form.cpp:630-661, 1982-1998).                        *)
StandbyFirst ==
  /\ txOn => connected
  /\ form = "ended" => UnloadInProgress

(* No server is left to use a form that has ended: the waits for the form  *)
(* may give up, the order of the joins does not (TXLink.cpp:51-104,        *)
(* Ui.cpp:53-87).                                                          *)
FormOutlivesServers ==
  form = "ended" => udp = "ended" /\ tuner = "ended" /\ rtty = "ended" /\ dx = "ended"

(* Unloading ends: every thread asked to end is joined, whatever it waits  *)
(* for, as long as the cluster answers or hangs up (TXLink.cpp:51-104).    *)
UnloadEnds == dpc = "prepare" ~> dpc = "gone" \/ crashed

(* DXspider_force_close is called on exit for a clean shutdown, "to cancel *)
(* any pending operations" (DXspiderClient.cpp:277-278).  It comes before  *)
(* the exit request: a connection made between the two is read from for as *)
(* long as the cluster keeps silent.                                       *)
CleanShutdown == dpc = "joinDX" ~> dx = "ended"

(* After the preparation the port is no longer needed (Form.cpp:636); the  *)
(* form's buttons open it again.                                           *)
PortNoLongerNeeded == form = "ended" => ~ connected

=============================================================================
