----------------------------- MODULE PipeServer -----------------------------
(***************************************************************************)
(* The thread of RTTY_Server_Loop and its NamedPipeServer, with the client *)
(* (the RTTY controller, another program) that opens the pipe, closes it   *)
(* or stops answering at any time, and the form's thread, which queues     *)
(* messages for the client in RTTYmsgOutQ.                                 *)
(*                                                                         *)
(* Messages of a direction are numbered; their text is left out, but not   *)
(* that some are longer than the buffer.  What the client writes are RTTY  *)
(* commands; GET_STATUS and unknown texts are dropped as Rest is.  Windows *)
(* is modelled by what its calls do with one instance of the pipe: the     *)
(* failure of CreateNamedPipe and of the events is left out.               *)
(***************************************************************************)
EXTENDS Naturals, Sequences

CONSTANTS
  MaxIn, MaxOut,   \* bounds: messages of the client and of the form
  Long,            \* the client's messages that exceed BUFSIZE
  PipeSize,        \* messages of one direction the pipe holds
  MaxLeaked        \* bound: handles counted

ASSUME PipeAssumption ==
  /\ MaxIn \in Nat /\ MaxOut \in Nat /\ Long \subseteq 1..MaxIn
  /\ PipeSize \in Nat \ {0} /\ MaxLeaked \in Nat

Rest == 0          \* what a read of a message that is too long leaves

VARIABLES
  pc,              \* the server's thread
  hPipe,           \* whether the handle is one
  connected_,
  leaked,          \* handles of the pipe that nothing refers to any more
  RTTYExitRequest,
  RTTYmsgOutQ,
  hand,            \* the message taken from it
  client,          \* of this instance: none yet, open, or gone again
  toServer, toClient,   \* in the pipe
  written, pushed, \* numbers of the last messages
  heard, got       \* what has arrived at the form, at the client

server == <<pc, hPipe, connected_, leaked, RTTYmsgOutQ, hand, heard>>
pipe   == <<client, toServer, toClient>>
vars   == <<server, RTTYExitRequest, pipe, written, pushed, got>>

Init ==
  /\ pc = "top" /\ hPipe = FALSE /\ connected_ = FALSE /\ leaked = 0
  /\ RTTYExitRequest = FALSE /\ RTTYmsgOutQ = <<>> /\ hand = Rest
  /\ client = "none" /\ toServer = <<>> /\ toClient = <<>>
  /\ written = 0 /\ pushed = 0 /\ heard = <<>> /\ got = <<>>

-----------------------------------------------------------------------------
Server(from) == pc = from /\ UNCHANGED <<RTTYExitRequest, written, pushed, got>>

Go(to) == pc' = to

(* CloseHandle: the instance is gone with what is in it.                   *)
NoInstance == client' = "none" /\ toServer' = <<>> /\ toClient' = <<>>

(* The conditions of the nested loops.                                     *)
PhaseWhileConnected ==
  IF connected_ THEN "read" ELSE IF RTTYExitRequest THEN "close" ELSE "create"
Phase ==
  IF RTTYExitRequest THEN "close" ELSE IF connected_ THEN "read" ELSE "create"

Loops ==
  /\ Server("top")
  /\ Go(Phase)
  /\ UNCHANGED <<hPipe, connected_, leaked, RTTYmsgOutQ, hand, heard, pipe>>

(* createAndListen: hPipe_ is overwritten.                                 *)
CreateNamedPipe ==
  /\ Server("create")
  /\ Go("connect")
  /\ hPipe' = TRUE
  /\ leaked' = IF hPipe /\ leaked < MaxLeaked THEN leaked + 1 ELSE leaked
  /\ NoInstance
  /\ UNCHANGED <<connected_, RTTYmsgOutQ, hand, heard>>

(* A client that was faster is ERROR_PIPE_CONNECTED, or ERROR_NO_DATA if   *)
(* it has gone again.                                                      *)
ConnectNamedPipe ==
  /\ Server("connect")
  /\ Go(IF client = "none" THEN "wait" ELSE "fail")
  /\ UNCHANGED <<hPipe, connected_, leaked, RTTYmsgOutQ, hand, heard, pipe>>

ClientConnected ==
  /\ Server("wait")
  /\ client # "none"
  /\ connected_' = TRUE
  /\ Go("top")
  /\ UNCHANGED <<hPipe, leaked, RTTYmsgOutQ, hand, heard, pipe>>

(* PipeTimeout.  A client may still come before the handle is closed.      *)
ConnectTimeout ==
  /\ Server("wait")
  /\ client = "none"
  /\ Go("fail")
  /\ UNCHANGED <<hPipe, connected_, leaked, RTTYmsgOutQ, hand, heard, pipe>>

ConnectFailed ==
  /\ Server("fail")
  /\ hPipe' = FALSE /\ connected_' = FALSE
  /\ NoInstance
  /\ Go("top")
  /\ UNCHANGED <<leaked, RTTYmsgOutQ, hand, heard>>

-----------------------------------------------------------------------------
(* readMessage, and what the loop does with the message.                   *)

TakeTwice(msg) == heard' = Append(heard, msg) /\ UNCHANGED toServer
TakeAny(msg)   == heard' = Append(heard, msg) /\ toServer' = Tail(toServer)
Take(msg) ==
  /\ toServer' = Tail(toServer)
  /\ heard' = IF msg = Rest THEN heard ELSE Append(heard, msg)     \* SendSerialMsg

(* A message that is too long is an error, and leaves connected_ alone;    *)
(* its rest is the next message.                                           *)
Received ==
  /\ pc \in {"read", "pending"} /\ Server(pc)
  /\ toServer # <<>>
  /\ IF Head(toServer) \in Long
     THEN /\ toServer' = <<Rest>> \o Tail(toServer)
          /\ Go("top")
          /\ UNCHANGED heard
     ELSE /\ Take(Head(toServer))
          /\ Go("pump")
  /\ UNCHANGED <<hPipe, connected_, leaked, RTTYmsgOutQ, hand, client, toClient>>

(* ERROR_BROKEN_PIPE                                                       *)
StaysConnected == UNCHANGED connected_
Disconnected   == connected_' = FALSE

BrokenPipe ==
  /\ pc \in {"read", "pending"} /\ Server(pc)
  /\ toServer = <<>> /\ client = "gone"
  /\ Disconnected
  /\ Go("top")
  /\ UNCHANGED <<hPipe, leaked, RTTYmsgOutQ, hand, heard, pipe>>

ReadPending ==
  /\ Server("read")
  /\ toServer = <<>> /\ client = "open"
  /\ Go("pending")
  /\ UNCHANGED <<hPipe, connected_, leaked, RTTYmsgOutQ, hand, heard, pipe>>

ReadTimedOut ==
  /\ Server("pending")
  /\ toServer = <<>>
  /\ Go("cancel")
  /\ UNCHANGED <<hPipe, connected_, leaked, RTTYmsgOutQ, hand, heard, pipe>>

(* CancelIo: a message written since the timeout has gone into the buffer  *)
(* of the read, and is forgotten; of a long one, what fitted into it.      *)
AfterTimeoutTop == "top"
AfterTimeout    == "pump"

CancelRead ==
  /\ Server("cancel")
  /\ toServer' = IF toServer = <<>> THEN <<>>
                 ELSE IF Head(toServer) \in Long THEN <<Rest>> \o Tail(toServer)
                 ELSE Tail(toServer)
  /\ Go(AfterTimeout)
  /\ UNCHANGED <<hPipe, connected_, leaked, RTTYmsgOutQ, hand, heard, client, toClient>>

-----------------------------------------------------------------------------
(* RTTYmsgOutQ to the client.  This thread is the only one that takes from *)
(* it: waitAndPop after empty() does not wait.                             *)
PopMessage ==
  /\ Server("pump")
  /\ IF RTTYmsgOutQ = <<>>
     THEN Go("top") /\ UNCHANGED <<RTTYmsgOutQ, hand>>
     ELSE /\ hand' = Head(RTTYmsgOutQ)
          /\ RTTYmsgOutQ' = Tail(RTTYmsgOutQ)
          /\ Go("write")
  /\ UNCHANGED <<hPipe, connected_, leaked, heard, pipe>>

(* writeMessage waits for room in the pipe.                                *)
WriteMessage ==
  /\ Server("write")
  /\ client = "open"
  /\ Len(toClient) < PipeSize
  /\ toClient' = Append(toClient, hand)
  /\ hand' = Rest
  /\ Go("pump")
  /\ UNCHANGED <<hPipe, connected_, leaked, RTTYmsgOutQ, heard, client, toServer>>

(* The message is lost, and connected_ left to the next read.              *)
KeepUnsent == RTTYmsgOutQ' = Append(RTTYmsgOutQ, hand)
DropUnsent == UNCHANGED RTTYmsgOutQ

WriteFailed ==
  /\ Server("write")
  /\ client = "gone"
  /\ hand' = Rest
  /\ DropUnsent
  /\ Go("top")
  /\ UNCHANGED <<hPipe, connected_, leaked, heard, pipe>>

-----------------------------------------------------------------------------
(* close(): a pipe that is connected is flushed, which waits for the       *)
(* client to read.                                                         *)
CloseIfConnected == hPipe /\ connected_
CloseIfHandle    == hPipe

Flushed == connected_ => toClient = <<>> \/ client = "gone"

Close ==
  /\ Server("close")
  /\ CloseIfHandle => Flushed
  /\ IF CloseIfHandle
     THEN hPipe' = FALSE /\ connected_' = FALSE /\ NoInstance
     ELSE UNCHANGED <<hPipe, connected_, pipe>>
  /\ Go("exit")
  /\ UNCHANGED <<leaked, RTTYmsgOutQ, hand, heard>>

ThreadExit ==
  /\ pc = "exit"
  /\ RTTYExitRequest' = FALSE
  /\ Go("done")
  /\ UNCHANGED <<hPipe, connected_, leaked, RTTYmsgOutQ, hand, heard, pipe, written, pushed,
                 got>>

RTTY_Server_Loop ==
  \/ Loops \/ CreateNamedPipe \/ ConnectNamedPipe \/ ClientConnected \/ ConnectTimeout
  \/ ConnectFailed
  \/ Received \/ BrokenPipe \/ ReadPending \/ ReadTimedOut \/ CancelRead
  \/ PopMessage \/ WriteMessage \/ WriteFailed
  \/ Close \/ ThreadExit

-----------------------------------------------------------------------------
(* The others.                                                             *)

(* ~SDRunoPlugin_TXLink, which then joins the thread.                      *)
RequestExit ==
  /\ pc \notin {"exit", "done"} /\ ~ RTTYExitRequest
  /\ RTTYExitRequest' = TRUE
  /\ UNCHANGED <<server, pipe, written, pushed, got>>

(* SendTXfreq, and the answer to {~TX}.                                    *)
Push ==
  /\ pushed < MaxOut
  /\ pushed' = pushed + 1
  /\ RTTYmsgOutQ' = Append(RTTYmsgOutQ, pushed')
  /\ UNCHANGED <<pc, hPipe, connected_, leaked, hand, heard, RTTYExitRequest, pipe, written,
                 got>>

(* The client opens an instance that is there and free.                    *)
ClientOpen ==
  /\ hPipe /\ client = "none"
  /\ client' = "open"
  /\ UNCHANGED <<server, RTTYExitRequest, toServer, toClient, written, pushed, got>>

ClientWrite ==
  /\ client = "open"
  /\ written < MaxIn /\ Len(toServer) < PipeSize
  /\ written' = written + 1
  /\ toServer' = Append(toServer, written')
  /\ UNCHANGED <<server, RTTYExitRequest, client, toClient, pushed, got>>

ClientRead ==
  /\ client = "open"
  /\ toClient # <<>>
  /\ got' = Append(got, Head(toClient))
  /\ toClient' = Tail(toClient)
  /\ UNCHANGED <<server, RTTYExitRequest, client, toServer, written, pushed>>

(* It closes the pipe, or ends.  What it wrote can still be read.          *)
ClientClose ==
  /\ client = "open"
  /\ client' = "gone"
  /\ toClient' = <<>>
  /\ UNCHANGED <<server, RTTYExitRequest, toServer, written, pushed, got>>

Finished == pc = "done" /\ UNCHANGED vars

Next ==
  \/ RTTY_Server_Loop
  \/ RequestExit \/ Push
  \/ ClientOpen \/ ClientWrite \/ ClientRead \/ ClientClose
  \/ Finished

Spec == Init /\ [][Next]_vars

(* The server goes on as far as Windows lets it, and the client reads what *)
(* it is sent.  A client that wants to connect does so while the server    *)
(* waits, five seconds of six.                                             *)
FairSpec ==
  /\ Spec
  /\ WF_vars(RTTY_Server_Loop)
  /\ WF_vars(ClientRead)
  /\ SF_vars(pc = "wait" /\ ClientOpen)

-----------------------------------------------------------------------------
TypeOK ==
  /\ pc \in {"top", "create", "connect", "wait", "fail", "read", "pending", "cancel", "pump",
             "write", "close", "exit", "done"}
  /\ hPipe \in BOOLEAN /\ connected_ \in BOOLEAN /\ RTTYExitRequest \in BOOLEAN
  /\ leaked \in 0..MaxLeaked
  /\ written \in 0..MaxIn /\ pushed \in 0..MaxOut
  /\ RTTYmsgOutQ \in Seq(1..MaxOut) /\ hand \in 0..MaxOut
  /\ client \in {"none", "open", "gone"}
  /\ toServer \in Seq(0..MaxIn) /\ toClient \in Seq(1..MaxOut)
  /\ heard \in Seq(1..MaxIn) /\ got \in Seq(1..MaxOut)

(* A thread that has ended leaves neither a handle it knows of nor a       *)
(* client that believes to be connected.                                   *)
ClosedAtExit == pc \in {"exit", "done"} => ~ hPipe /\ ~ connected_ /\ client # "open"

(* Texts of the client reach the form in order and never twice, over all   *)
(* its connections, whatever is cut, cancelled or broken off.              *)
InPipe == IF toServer # <<>> /\ Head(toServer) = Rest THEN Tail(toServer) ELSE toServer

Commands == INSTANCE PipeChannel WITH
  MaxSent <- MaxIn, sent <- written, arrived <- heard, chan <- InPipe
CommandsInOrder == Commands!Spec

(* The same of the frequencies, from RTTYmsgOutQ to the client.            *)
OutPipe == toClient \o (IF hand = Rest THEN <<>> ELSE <<hand>>) \o RTTYmsgOutQ

Frequencies == INSTANCE PipeChannel WITH
  MaxSent <- MaxOut, sent <- pushed, arrived <- got, chan <- OutPipe
FrequenciesInOrder == Frequencies!Spec

(* The thread ends when it is told to, as long as the client reads.        *)
ExitEnds == RTTYExitRequest ~> pc = "done"

(* However often a client has closed the pipe, one that then wants to be   *)
(* connected is, until the end: unless it always hits the moment before    *)
(* ConnectNamedPipe.                                                       *)
Reconnects ==
  <>[][~ ClientClose]_vars /\ <>[](pc = "connect" => client = "none")
    => []<>(client = "open" /\ connected_) \/ <>RTTYExitRequest

(* A client that stays connected has every frequency in the end.           *)
FrequenciesArrive ==
  <>[](client = "open" /\ connected_ /\ ~ RTTYExitRequest)
    => []<>(RTTYmsgOutQ = <<>> /\ hand = Rest /\ toClient = <<>>)

-----------------------------------------------------------------------------
(* What comments in the code say, and the code does not do.                *)

(* "Destructor ensures the pipe is closed."                                *)
AllClosed == pc = "done" => leaked = 0
=============================================================================
