--------------------------- MODULE LifecycleProofs --------------------------
(***************************************************************************)
(* Proofs about Lifecycle, for every bound of the waits (the code has 50   *)
(* sleeps) and every number of spots.                                      *)
(***************************************************************************)
EXTENDS Lifecycle, TLAPS

(* TypeOK in three parts: numbers, places in programs, and Booleans.      *)
Counters == sleeps \in 0..MaxSleeps /\ spots \in 0..MaxSpots

Places ==
  /\ dpc \in {"loaded", "prepare", "joinUDP", "joinTuner", "joinRTTY", "forceClose",
              "requestDX", "joinDX", "exitAll", "joinForm", "gone"}
  /\ ExitRequest \subseteq Servers
  /\ form \in {"starting", "runs", "ended"}
  /\ udp \in {"receive", "handing", "ended"}
  /\ tuner \in {"runs", "ended"} /\ rtty \in {"runs", "ended"}
  /\ dx \in {"loop", "active", "connect", "login", "prompt", "write", "answer", "ended"}

Flags ==
  /\ FormPrepareUnloadRequest \in BOOLEAN /\ FormExitAllRequest \in BOOLEAN
  /\ UnloadInProgress \in BOOLEAN /\ connected \in BOOLEAN /\ txOn \in BOOLEAN
  /\ UDPevent \in BOOLEAN /\ DXsocket \in BOOLEAN /\ bConnected \in BOOLEAN
  /\ crashed \in BOOLEAN

(* Only SDRuno's thread sleeps, below the limit; a spot is queued only     *)
(* below the bound, and taken only if there is one.                        *)
LEMMA CountersStep == Counters /\ [Next]_vars => Counters'
<1> SUFFICES ASSUME Counters, [Next]_vars PROVE Counters'
  OBVIOUS
<1> USE LifecycleAssumption DEF Counters
<1>1. CASE UNCHANGED <<sleeps, spots>>
  BY <1>1
<1>2. CASE Sleep("prepare", FormPrepareUnloadRequest)
  BY <1>2 DEF Sleep, StillWaiting, cluster
<1>3. CASE Sleep("exitAll", FormExitAllRequest)
  BY <1>3 DEF Sleep, StillWaiting, cluster
<1>4. CASE Prepared
  BY <1>4 DEF Prepared, cluster
<1>5. CASE DXspotClick
  BY <1>5 DEF DXspotClick, Form, destructor
<1>6. CASE TakeSpot
  BY <1>6 DEF TakeSpot, DX
<1>7. ClosingDown \/ Destroy => UNCHANGED <<sleeps, spots>>
  BY DEF ClosingDown, Destroy, cluster
<1>8. Destructor => \/ Sleep("prepare", FormPrepareUnloadRequest)
                   \/ Sleep("exitAll", FormExitAllRequest)
                   \/ Prepared \/ UNCHANGED <<sleeps, spots>>
  BY DEF Destructor, JoinUDP, JoinTuner, JoinRTTY, DXspider_force_close, RequestDX, JoinDX,
         ExitedAll, JoinForm, cluster
<1>9. RunForm \/ OnTimer \/ StandbyClick \/ TXupClick => UNCHANGED <<sleeps, spots>>
  BY DEF RunForm, OnTimer, PrepareUnload, ExitAll, ServeUDP, StandbyClick, TXupClick, Form,
         destructor
<1>10. Status \/ HandOver \/ GiveUpHanding \/ EndUDP \/ UseForm \/ EndTuner \/ EndRTTY
         => UNCHANGED <<sleeps, spots>>
  BY DEF Status, HandOver, GiveUpHanding, EndUDP, UseForm, EndTuner, EndRTTY, ServerThread,
         destructor, cluster
<1>11. DXspiderLoop => TakeSpot \/ UNCHANGED <<sleeps, spots>>
  BY DEF DXspiderLoop, FlushInput, EndDX, NotActive, Connect, ConnectFails, ResolveThrows,
         WriteSpot, ReadFails, DX
<1>12. ClusterSpeaks \/ ConnectionLost => UNCHANGED <<sleeps, spots>>
  BY DEF ClusterSpeaks, Active, LoginAsked, Prompted, SpotAnswered, ConnectionLost, DX,
         destructor
<1>13. UNCHANGED vars => UNCHANGED <<sleeps, spots>>
  BY DEF vars, destructor, cluster
<1> QED
  BY <1>1, <1>2, <1>3, <1>4, <1>5, <1>6, <1>7, <1>8, <1>9, <1>10, <1>11, <1>12, <1>13
     DEF Next, Over

(* Every step leaves the threads in one of their places.                   *)
LEMMA PlacesStep == Places /\ [Next]_vars => Places'
<1> SUFFICES ASSUME Places, [Next]_vars PROVE Places'
  OBVIOUS
<1> USE DEF Places, Servers
<1>1. CASE ClosingDown \/ Destroy
  BY <1>1 DEF ClosingDown, Destroy, SDRuno, ui, servers, cluster
<1>2. CASE Destructor
  <2>1. CASE Sleep("prepare", FormPrepareUnloadRequest) \/ Sleep("exitAll", FormExitAllRequest)
    BY <2>1 DEF Sleep, SDRuno, ui, servers, requests, cluster
  <2>2. CASE Prepared \/ ExitedAll
    BY <2>2 DEF Prepared, ExitedAll, SDRuno, ui, servers, requests, cluster
  <2>3. CASE JoinUDP \/ JoinTuner \/ JoinRTTY
    BY <2>3 DEF JoinUDP, JoinTuner, JoinRTTY, SDRuno, ui, servers, requests, cluster
  <2>4. CASE JoinDX \/ JoinForm
    BY <2>4 DEF JoinDX, JoinForm, SDRuno, ui, servers, requests, cluster
  <2>5. CASE DXspider_force_close \/ RequestDX
    BY <2>5 DEF DXspider_force_close, RequestDX, SDRuno, ui, servers, requests, cluster
  <2> QED
    BY <1>2, <2>1, <2>2, <2>3, <2>4, <2>5 DEF Destructor
<1>3. CASE RunForm \/ StandbyClick \/ TXupClick \/ DXspotClick
  BY <1>3 DEF RunForm, StandbyClick, TXupClick, DXspotClick, Tell, Form, destructor, requests
<1>4. CASE OnTimer
  BY <1>4 DEF OnTimer, PrepareUnload, StandbyThenClose, Tell, ExitAll, ServeUDP, Form,
              destructor, requests
<1>5. CASE Status \/ HandOver \/ GiveUpHanding \/ EndUDP \/ UseForm \/ EndTuner \/ EndRTTY
  <2>1. CASE Status \/ HandOver
    BY <2>1 DEF Status, HandOver, ServerThread, destructor, requests, ui, cluster, servers
  <2>2. CASE GiveUpHanding \/ EndUDP
    BY <2>2 DEF GiveUpHanding, EndUDP, ServerThread, destructor, requests, ui, cluster, servers
  <2>3. CASE UseForm
    BY <2>3 DEF UseForm, ServerThread, destructor, requests, ui, cluster, servers
  <2>4. CASE EndTuner \/ EndRTTY
    BY <2>4 DEF EndTuner, EndRTTY, ServerThread, destructor, requests, ui, cluster, servers
  <2> QED
    BY <1>5, <2>1, <2>2, <2>3, <2>4
<1>6. CASE DXspiderLoop
  BY <1>6 DEF DXspiderLoop, FlushInput, TakeSpot, EndDX, NotActive, Connect, ConnectFails,
              ResolveThrows, WriteSpot, ReadFails, DX, requests, ui, servers
<1>7. CASE ClusterSpeaks \/ ConnectionLost
  BY <1>7 DEF ClusterSpeaks, Active, LoginAsked, Prompted, SpotAnswered, ConnectionLost, DX,
              destructor, requests, ui, servers
<1>8. CASE UNCHANGED vars
  BY <1>8 DEF vars, destructor, requests, ui, servers, cluster
<1> QED
  BY <1>1, <1>2, <1>3, <1>4, <1>5, <1>6, <1>7, <1>8 DEF Next, Over

(* Every step leaves the flags Boolean.                                    *)
LEMMA FlagsStep == Flags /\ [Next]_vars => Flags'
<1> SUFFICES ASSUME Flags, [Next]_vars PROVE Flags'
  OBVIOUS
<1> USE DEF Flags
<1>1. CASE ClosingDown \/ Destroy
  BY <1>1 DEF ClosingDown, Destroy, SDRuno, ui, servers, cluster
<1>2. CASE Destructor
  <2>1. CASE Sleep("prepare", FormPrepareUnloadRequest) \/ Sleep("exitAll", FormExitAllRequest)
    BY <2>1 DEF Sleep, SDRuno, ui, servers, requests, cluster
  <2>2. CASE Prepared \/ ExitedAll
    BY <2>2 DEF Prepared, ExitedAll, SDRuno, ui, servers, requests, cluster
  <2>3. CASE JoinUDP \/ JoinTuner \/ JoinRTTY
    BY <2>3 DEF JoinUDP, JoinTuner, JoinRTTY, SDRuno, ui, servers, requests, cluster
  <2>4. CASE JoinDX \/ JoinForm
    BY <2>4 DEF JoinDX, JoinForm, SDRuno, ui, servers, requests, cluster
  <2>5. CASE DXspider_force_close \/ RequestDX
    BY <2>5 DEF DXspider_force_close, RequestDX, SDRuno, ui, servers, requests, cluster
  <2> QED
    BY <1>2, <2>1, <2>2, <2>3, <2>4, <2>5 DEF Destructor
<1>3. CASE RunForm \/ StandbyClick \/ TXupClick \/ DXspotClick
  BY <1>3 DEF RunForm, StandbyClick, TXupClick, DXspotClick, Tell, Form, destructor, requests
<1>4. CASE OnTimer
  BY <1>4 DEF OnTimer, PrepareUnload, StandbyThenClose, Tell, ExitAll, ServeUDP, Form,
              destructor, requests
<1>5. CASE Status \/ HandOver \/ GiveUpHanding \/ EndUDP \/ UseForm \/ EndTuner \/ EndRTTY
  BY <1>5 DEF Status, HandOver, GiveUpHanding, EndUDP, UseForm, EndTuner, EndRTTY,
              ServerThread, destructor, requests, ui, cluster, servers
<1>6. CASE DXspiderLoop
  BY <1>6 DEF DXspiderLoop, FlushInput, TakeSpot, EndDX, NotActive, Connect, ConnectFails,
              ResolveThrows, WriteSpot, ReadFails, DX, requests, ui, servers
<1>7. CASE ClusterSpeaks \/ ConnectionLost
  BY <1>7 DEF ClusterSpeaks, Active, LoginAsked, Prompted, SpotAnswered, ConnectionLost, DX,
              destructor, requests, ui, servers
<1>8. CASE UNCHANGED vars
  BY <1>8 DEF vars, destructor, requests, ui, servers, cluster
<1> QED
  BY <1>1, <1>2, <1>3, <1>4, <1>5, <1>6, <1>7, <1>8 DEF Next, Over

(* Every state of the plugin's threads has its types.                      *)
THEOREM TypeCorrect == Spec => []TypeOK
<1>1. Init => Counters
  BY LifecycleAssumption DEF Init, Counters
<1>2. Init => Places
  BY DEF Init, Places, Servers
<1>3. Init => Flags
  BY DEF Init, Flags
<1>4. Counters /\ Places /\ Flags => TypeOK
  BY DEF Counters, Places, Flags, TypeOK
<1> QED
  BY <1>1, <1>2, <1>3, <1>4, CountersStep, PlacesStep, FlagsStep, PTL DEF Spec

-----------------------------------------------------------------------------
(* Before there is a form nobody has turned the transmitter on: the port   *)
(* may then be found closed.                                               *)
StandbyInv == StandbyFirst /\ (form = "starting" => ~ txOn)

(* The port is closed on a transmitter in standby only, and the form ends  *)
(* only when it has prepared: only the form's thread touches the port      *)
(* (Form.cpp:630-661, 1982-1998).                                          *)
THEOREM StandbyFirstHolds == Spec => []StandbyFirst
<1>1. Init => StandbyInv
  BY DEF Init, StandbyInv, StandbyFirst
<1>2. StandbyInv /\ [Next]_vars => StandbyInv'
  <2> SUFFICES ASSUME StandbyInv, [Next]_vars PROVE StandbyInv'
    OBVIOUS
  <2> USE DEF StandbyInv, StandbyFirst
  <2>1. CASE RunForm
    BY <2>1 DEF RunForm, Form
  <2>2. CASE StandbyClick
    BY <2>2 DEF StandbyClick, Form, Tell
  <2>3. CASE TXupClick \/ DXspotClick
    BY <2>3 DEF TXupClick, DXspotClick, Form
  <2>4. CASE PrepareUnload
    BY <2>4 DEF PrepareUnload, StandbyThenClose, Form, Tell
  <2>5. CASE ExitAll \/ ServeUDP
    BY <2>5 DEF ExitAll, ServeUDP, Form
  <2>6. CASE UNCHANGED ui
    BY <2>6 DEF ui
  <2>7. ClosingDown \/ Destroy \/ Destructor => UNCHANGED ui
    BY DEF ClosingDown, Destroy, Destructor, Sleep, Prepared, ExitedAll, JoinUDP, JoinTuner,
           JoinRTTY, JoinDX, JoinForm, DXspider_force_close, RequestDX, SDRuno
  <2>8. Status \/ HandOver \/ GiveUpHanding \/ EndUDP \/ UseForm \/ EndTuner \/ EndRTTY
          => UNCHANGED ui
    BY DEF Status, HandOver, GiveUpHanding, EndUDP, UseForm, EndTuner, EndRTTY, ServerThread
  <2>9. DXspiderLoop \/ ClusterSpeaks \/ ConnectionLost => UNCHANGED ui
    BY DEF DXspiderLoop, FlushInput, TakeSpot, EndDX, NotActive, Connect, ConnectFails,
           ResolveThrows, WriteSpot, ReadFails, DX, ClusterSpeaks, Active, LoginAsked,
           Prompted, SpotAnswered, ConnectionLost
  <2>10. UNCHANGED vars => UNCHANGED ui
    BY DEF vars
  <2> QED
    BY <2>1, <2>2, <2>3, <2>4, <2>5, <2>6, <2>7, <2>8, <2>9, <2>10 DEF Next, OnTimer, Over
<1>3. StandbyInv => StandbyFirst
  BY DEF StandbyInv
<1> QED
  BY <1>1, <1>2, <1>3, PTL DEF Spec

-----------------------------------------------------------------------------
(* The places of SDRuno's thread behind each join.                         *)
PastUDP   == {"joinTuner", "joinRTTY", "forceClose", "requestDX", "joinDX", "exitAll", "joinForm",
              "gone"}
PastTuner == PastUDP \ {"joinTuner"}
PastRTTY  == PastTuner \ {"joinRTTY"}
PastDX    == {"exitAll", "joinForm", "gone"}

(* A server that has been joined has ended, and the form is asked to end   *)
(* only behind the last join.                                              *)
Joined ==
  /\ dpc \in PastUDP => udp = "ended"
  /\ dpc \in PastTuner => tuner = "ended"
  /\ dpc \in PastRTTY => rtty = "ended"
  /\ dpc \in PastDX => dx = "ended"
  /\ FormExitAllRequest \/ form = "ended" => dpc \in PastDX

(* However short the waits for the form are, it ends only after all that   *)
(* use it (TXLink.cpp:51-104, Ui.cpp:53-87).                               *)
THEOREM FormOutlivesServersHolds == Spec => []FormOutlivesServers
<1> USE DEF PastUDP, PastTuner, PastRTTY, PastDX
<1>1. Init => Joined
  BY DEF Init, Joined
<1>2. Joined /\ [Next]_vars => Joined'
  <2> SUFFICES ASSUME Joined, [Next]_vars PROVE Joined'
    OBVIOUS
  <2> USE DEF Joined
  <2>1. CASE ClosingDown \/ Destroy
    BY <2>1 DEF ClosingDown, Destroy, SDRuno, ui, servers, cluster
  <2>2. CASE Destructor
    <3>1. CASE Sleep("prepare", FormPrepareUnloadRequest) \/ Sleep("exitAll", FormExitAllRequest)
      BY <3>1 DEF Sleep, SDRuno, ui, servers, requests, cluster
    <3>2. CASE Prepared \/ ExitedAll
      BY <3>2 DEF Prepared, ExitedAll, SDRuno, ui, servers, requests, cluster
    <3>3. CASE JoinUDP \/ JoinTuner \/ JoinRTTY
      BY <3>3 DEF JoinUDP, JoinTuner, JoinRTTY, SDRuno, ui, servers, requests, cluster
    <3>4. CASE JoinDX \/ JoinForm
      BY <3>4 DEF JoinDX, JoinForm, SDRuno, ui, servers, requests, cluster
    <3>5. CASE DXspider_force_close \/ RequestDX
      BY <3>5 DEF DXspider_force_close, RequestDX, SDRuno, ui, servers, requests, cluster
    <3> QED
      BY <2>2, <3>1, <3>2, <3>3, <3>4, <3>5 DEF Destructor
  <2>3. CASE RunForm \/ OnTimer \/ StandbyClick \/ TXupClick \/ DXspotClick
    BY <2>3 DEF RunForm, OnTimer, PrepareUnload, ExitAll, ServeUDP, StandbyClick, TXupClick,
                DXspotClick, Form, destructor, requests
  <2>4. CASE Status \/ HandOver \/ GiveUpHanding \/ EndUDP \/ UseForm \/ EndTuner \/ EndRTTY
    BY <2>4 DEF Status, HandOver, GiveUpHanding, EndUDP, UseForm, EndTuner, EndRTTY,
                ServerThread, destructor, requests, ui, cluster, servers
  <2>5. CASE DXspiderLoop
    BY <2>5 DEF DXspiderLoop, FlushInput, TakeSpot, EndDX, NotActive, Connect, ConnectFails,
                ResolveThrows, WriteSpot, ReadFails, DX, requests, ui, servers
  <2>6. CASE ClusterSpeaks \/ ConnectionLost
    BY <2>6 DEF ClusterSpeaks, Active, LoginAsked, Prompted, SpotAnswered, ConnectionLost, DX,
                destructor, requests, ui, servers
  <2>7. CASE UNCHANGED vars
    BY <2>7 DEF vars, destructor, requests, ui, servers, cluster
  <2> QED
    BY <2>1, <2>2, <2>3, <2>4, <2>5, <2>6, <2>7 DEF Next, Over
<1>3. Joined => FormOutlivesServers
  BY DEF Joined, FormOutlivesServers
<1> QED
  BY <1>1, <1>2, <1>3, PTL DEF Spec
=============================================================================
