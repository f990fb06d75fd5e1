-------------------------- MODULE PipeServerProofs --------------------------
(***************************************************************************)
(* Proofs about PipeServer, for any number of messages, of any length, and *)
(* a pipe of any size.                                                     *)
(***************************************************************************)
EXTENDS PipeServer, SequenceTheorems, TLAPS

(* TypeOK in four parts: the server, the numbers, the two directions.  A   *)
(* message in hand is one only while it is being written.                  *)
ServerOK ==
  /\ pc \in {"top", "create", "connect", "wait", "fail", "read", "pending", "cancel", "pump",
             "write", "close", "exit", "done"}
  /\ client \in {"none", "open", "gone"}
  /\ leaked \in 0..MaxLeaked

Flags == hPipe \in BOOLEAN /\ connected_ \in BOOLEAN /\ RTTYExitRequest \in BOOLEAN

InwardOK ==
  /\ written \in 0..MaxIn
  /\ toServer \in Seq(0..MaxIn) /\ heard \in Seq(1..MaxIn)

OutwardOK ==
  /\ pushed \in 0..MaxOut
  /\ hand \in 0..MaxOut /\ (pc = "write" => hand # Rest)
  /\ RTTYmsgOutQ \in Seq(1..MaxOut) /\ toClient \in Seq(1..MaxOut) /\ got \in Seq(1..MaxOut)

(* Every step leaves the server and the client in one of their places.     *)
LEMMA ServerStep == ServerOK /\ [Next]_vars => ServerOK'
<1> SUFFICES ASSUME ServerOK, [Next]_vars PROVE ServerOK'
  OBVIOUS
<1> USE PipeAssumption DEF ServerOK, Rest
<1>1. CASE RTTY_Server_Loop
  <2>1. CASE Loops \/ ConnectNamedPipe \/ ClientConnected \/ ConnectTimeout
    BY <2>1 DEF Loops, Phase, ConnectNamedPipe, ClientConnected, ConnectTimeout, Server, Go, pipe
  <2>2. CASE CreateNamedPipe \/ ConnectFailed
    BY <2>2 DEF CreateNamedPipe, ConnectFailed, Server, Go, NoInstance
  <2>3. CASE Received
    BY <2>3 DEF Received, Take, Server, Go
  <2>4. CASE BrokenPipe \/ ReadPending \/ ReadTimedOut
    BY <2>4 DEF BrokenPipe, Disconnected, ReadPending, ReadTimedOut, Server, Go, pipe
  <2>5. CASE CancelRead
    BY <2>5 DEF CancelRead, AfterTimeout, Server, Go
  <2>6. CASE PopMessage
    BY <2>6 DEF PopMessage, Server, Go, pipe
  <2>7. CASE WriteMessage
    BY <2>7 DEF WriteMessage, Server, Go
  <2>8. CASE WriteFailed
    BY <2>8 DEF WriteFailed, DropUnsent, Server, Go, pipe
  <2>9. CASE Close
    BY <2>9 DEF Close, CloseIfHandle, Server, Go, NoInstance, pipe
  <2>10. CASE ThreadExit
    BY <2>10 DEF ThreadExit, Go, pipe
  <2> QED
    BY <1>1, <2>1, <2>2, <2>3, <2>4, <2>5, <2>6, <2>7, <2>8, <2>9, <2>10 DEF RTTY_Server_Loop
<1>2. CASE RequestExit \/ Push
  BY <1>2 DEF RequestExit, Push, server, pipe
<1>3. CASE ClientOpen \/ ClientWrite \/ ClientRead \/ ClientClose
  BY <1>3 DEF ClientOpen, ClientWrite, ClientRead, ClientClose, server
<1>4. CASE UNCHANGED vars
  BY <1>4 DEF vars, server, pipe
<1> QED
  BY <1>1, <1>2, <1>3, <1>4 DEF Next, Finished

(* Every step leaves the flags Boolean.                                    *)
LEMMA FlagsStep == Flags /\ [Next]_vars => Flags'
<1> SUFFICES ASSUME Flags, [Next]_vars PROVE Flags'
  OBVIOUS
<1> USE PipeAssumption DEF Flags, Rest
<1>1. CASE RTTY_Server_Loop
  <2>1. CASE Loops \/ ConnectNamedPipe \/ ClientConnected \/ ConnectTimeout
    BY <2>1 DEF Loops, Phase, ConnectNamedPipe, ClientConnected, ConnectTimeout, Server, Go, pipe
  <2>2. CASE CreateNamedPipe \/ ConnectFailed
    BY <2>2 DEF CreateNamedPipe, ConnectFailed, Server, Go, NoInstance
  <2>3. CASE Received
    BY <2>3 DEF Received, Take, Server, Go
  <2>4. CASE BrokenPipe \/ ReadPending \/ ReadTimedOut
    BY <2>4 DEF BrokenPipe, Disconnected, ReadPending, ReadTimedOut, Server, Go, pipe
  <2>5. CASE CancelRead
    BY <2>5 DEF CancelRead, AfterTimeout, Server, Go
  <2>6. CASE PopMessage
    BY <2>6 DEF PopMessage, Server, Go, pipe
  <2>7. CASE WriteMessage
    BY <2>7 DEF WriteMessage, Server, Go
  <2>8. CASE WriteFailed
    BY <2>8 DEF WriteFailed, DropUnsent, Server, Go, pipe
  <2>9. CASE Close
    BY <2>9 DEF Close, CloseIfHandle, Server, Go, NoInstance, pipe
  <2>10. CASE ThreadExit
    BY <2>10 DEF ThreadExit, Go, pipe
  <2> QED
    BY <1>1, <2>1, <2>2, <2>3, <2>4, <2>5, <2>6, <2>7, <2>8, <2>9, <2>10 DEF RTTY_Server_Loop
<1>2. CASE RequestExit \/ Push
  BY <1>2 DEF RequestExit, Push, server, pipe
<1>3. CASE ClientOpen \/ ClientWrite \/ ClientRead \/ ClientClose
  BY <1>3 DEF ClientOpen, ClientWrite, ClientRead, ClientClose, server
<1>4. CASE UNCHANGED vars
  BY <1>4 DEF vars, server, pipe
<1> QED
  BY <1>1, <1>2, <1>3, <1>4 DEF Next, Finished

(* What a read of a long message leaves is one message of the pipe.        *)
LEMMA RestIn ==
  ASSUME NEW s \in Seq(0..MaxIn)
  PROVE  <<Rest>> \o s \in Seq(0..MaxIn)
<1>1. <<Rest>> \in Seq(0..MaxIn)
  BY PipeAssumption DEF Rest
<1> QED
  BY <1>1, ConcatProperties

(* Taking the first of a queue leaves a queue of the same.                 *)
LEMMA HeadTail ==
  ASSUME NEW S, NEW s \in Seq(S), s # <<>>
  PROVE  Head(s) \in S /\ Tail(s) \in Seq(S)
OBVIOUS

(* The client's messages: they move in three actions, or go with the       *)
(* instance.                                                               *)
LEMMA InwardStep == InwardOK /\ [Next]_vars => InwardOK'
<1> SUFFICES ASSUME InwardOK, [Next]_vars PROVE InwardOK'
  OBVIOUS
<1> USE PipeAssumption DEF InwardOK, Rest
<1> DEFINE Left == toServer' \in {toServer, <<>>} /\ UNCHANGED <<written, heard>>
<1>1. CASE Left
  BY <1>1, EmptySeq
<1>2. CASE Received
  <2>1. UNCHANGED written /\ toServer # <<>>
    BY <1>2 DEF Received, Server
  <2>2. Head(toServer) \in 0..MaxIn /\ Tail(toServer) \in Seq(0..MaxIn)
    BY <2>1, HeadTail
  <2>3. \/ toServer' = <<Rest>> \o Tail(toServer) /\ UNCHANGED heard
        \/ Take(Head(toServer))
    BY <1>2 DEF Received
  <2>4. CASE toServer' = <<Rest>> \o Tail(toServer) /\ UNCHANGED heard
    BY <2>1, <2>2, <2>4, RestIn
  <2>5. CASE Take(Head(toServer)) /\ Head(toServer) = Rest
    BY <2>1, <2>2, <2>5 DEF Take
  <2>6. CASE Take(Head(toServer)) /\ Head(toServer) # Rest
    <3>1. Head(toServer) \in 1..MaxIn
      BY <2>2, <2>6
    <3> QED
      BY <2>1, <2>2, <2>6, <3>1 DEF Take
  <2> QED
    BY <2>3, <2>4, <2>5, <2>6
<1>3. CASE CancelRead
  <2>1. UNCHANGED <<written, heard>>
    BY <1>3 DEF CancelRead, Server
  <2>2. CASE toServer = <<>>
    BY <1>3, <2>1, <2>2 DEF CancelRead
  <2>3. CASE toServer # <<>>
    <3>1. toServer' \in {<<Rest>> \o Tail(toServer), Tail(toServer)}
      BY <1>3, <2>3 DEF CancelRead
    <3>2. Tail(toServer) \in Seq(0..MaxIn)
      BY <2>3, HeadTail
    <3> QED
      BY <2>1, <3>1, <3>2, RestIn
  <2> QED
    BY <2>2, <2>3
<1>4. CASE ClientWrite
  <2>1. written < MaxIn /\ written' = written + 1 /\ toServer' = Append(toServer, written')
          /\ heard' = heard
    BY <1>4 DEF ClientWrite, server
  <2> QED
    BY <2>1
<1>5. RTTY_Server_Loop => Received \/ CancelRead \/ Left
  BY DEF RTTY_Server_Loop, Loops, CreateNamedPipe, ConnectNamedPipe, ClientConnected,
         ConnectTimeout, ConnectFailed, BrokenPipe, ReadPending, ReadTimedOut, PopMessage,
         WriteMessage, WriteFailed, Close, ThreadExit, Server, NoInstance, pipe
<1>6. RequestExit \/ Push \/ ClientOpen \/ ClientRead \/ ClientClose \/ Finished
        \/ UNCHANGED vars => Left
  BY DEF RequestExit, Push, ClientOpen, ClientRead, ClientClose, Finished, vars, server, pipe
<1> QED
  BY <1>1, <1>2, <1>3, <1>4, <1>5, <1>6 DEF Next

(* The form's messages: queue, hand, pipe, client.                         *)
LEMMA OutwardStep == OutwardOK /\ [Next]_vars => OutwardOK'
<1> SUFFICES ASSUME OutwardOK, [Next]_vars PROVE OutwardOK'
  OBVIOUS
<1> USE PipeAssumption DEF OutwardOK, Rest
<1> DEFINE Kept == UNCHANGED <<pushed, hand, RTTYmsgOutQ, got>>
           Left == Kept /\ toClient' \in {toClient, <<>>} /\ (pc' = "write" => pc = "write")
<1>1. CASE Left
  BY <1>1, EmptySeq
<1>2. CASE PopMessage
  <2>1. UNCHANGED <<pushed, got, toClient>>
    BY <1>2 DEF PopMessage, Server, pipe
  <2>2. CASE RTTYmsgOutQ = <<>>
    <3>1. UNCHANGED <<RTTYmsgOutQ, hand>> /\ pc' = "top"
      BY <1>2, <2>2 DEF PopMessage, Go
    <3> QED
      BY <2>1, <3>1
  <2>3. CASE RTTYmsgOutQ # <<>>
    <3>1. hand' = Head(RTTYmsgOutQ) /\ RTTYmsgOutQ' = Tail(RTTYmsgOutQ)
      BY <1>2, <2>3 DEF PopMessage
    <3>2. hand' \in 1..MaxOut /\ RTTYmsgOutQ' \in Seq(1..MaxOut)
      BY <2>3, <3>1, HeadTail
    <3> QED
      BY <2>1, <3>2
  <2> QED
    BY <2>2, <2>3
<1>3. CASE WriteMessage
  <2>1. /\ UNCHANGED <<pushed, RTTYmsgOutQ, got>>
        /\ toClient' = Append(toClient, hand) /\ hand' = Rest
        /\ pc = "write" /\ pc' = "pump"
    BY <1>3 DEF WriteMessage, Server, Go
  <2> QED
    BY <2>1
<1>4. CASE WriteFailed
  <2>1. UNCHANGED <<pushed, RTTYmsgOutQ, got, toClient>> /\ hand' = Rest /\ pc' = "top"
    BY <1>4 DEF WriteFailed, DropUnsent, Server, Go, pipe
  <2> QED
    BY <2>1
<1>5. CASE Push
  <2>1. /\ UNCHANGED <<pc, hand, got, toClient>>
        /\ pushed < MaxOut /\ pushed' = pushed + 1
        /\ RTTYmsgOutQ' = Append(RTTYmsgOutQ, pushed')
    BY <1>5 DEF Push, pipe
  <2> QED
    BY <2>1
<1>6. CASE ClientRead
  <2>1. /\ UNCHANGED <<pc, pushed, hand, RTTYmsgOutQ>>
        /\ toClient # <<>>
        /\ got' = Append(got, Head(toClient)) /\ toClient' = Tail(toClient)
    BY <1>6 DEF ClientRead, server
  <2>2. Head(toClient) \in 1..MaxOut /\ Tail(toClient) \in Seq(1..MaxOut)
    BY <2>1, HeadTail
  <2> QED
    BY <2>1, <2>2
<1>7. RTTY_Server_Loop => PopMessage \/ WriteMessage \/ WriteFailed \/ Left
  <2> SUFFICES ASSUME RTTY_Server_Loop, ~ PopMessage, ~ WriteMessage, ~ WriteFailed PROVE Left
    OBVIOUS
  <2>1. Kept
    BY DEF RTTY_Server_Loop, Loops, CreateNamedPipe, ConnectNamedPipe, ClientConnected,
           ConnectTimeout, ConnectFailed, Received, BrokenPipe, ReadPending, ReadTimedOut,
           CancelRead, Close, ThreadExit, Server
  <2>2. toClient' \in {toClient, <<>>}
    BY DEF RTTY_Server_Loop, Loops, CreateNamedPipe, ConnectNamedPipe, ClientConnected,
           ConnectTimeout, ConnectFailed, Received, BrokenPipe, ReadPending, ReadTimedOut,
           CancelRead, Close, ThreadExit, NoInstance, pipe
  <2>3. pc' # "write"
    BY DEF RTTY_Server_Loop, Loops, CreateNamedPipe, ConnectNamedPipe, ClientConnected,
           ConnectTimeout, ConnectFailed, Received, BrokenPipe, ReadPending, ReadTimedOut,
           CancelRead, Close, ThreadExit, Go, Phase, AfterTimeout
  <2> QED
    BY <2>1, <2>2, <2>3
<1>8. RequestExit \/ ClientOpen \/ ClientWrite \/ ClientClose \/ Finished \/ UNCHANGED vars
        => Left
  BY DEF RequestExit, ClientOpen, ClientWrite, ClientClose, Finished, vars, server, pipe
<1> QED
  BY <1>1, <1>2, <1>3, <1>4, <1>5, <1>6, <1>7, <1>8 DEF Next

(* Every state of server, pipe and client has its types.                   *)
THEOREM TypeCorrect == Spec => []TypeOK
<1>1. Init => ServerOK
  BY PipeAssumption DEF Init, ServerOK
<1>2. Init => Flags
  BY DEF Init, Flags
<1>3. Init => InwardOK
  BY PipeAssumption DEF Init, InwardOK
<1>4. Init => OutwardOK
  BY PipeAssumption DEF Init, OutwardOK, Rest
<1>5. ServerOK /\ Flags /\ InwardOK /\ OutwardOK => TypeOK
  BY DEF ServerOK, Flags, InwardOK, OutwardOK, TypeOK
<1> QED
  BY <1>1, <1>2, <1>3, <1>4, <1>5, ServerStep, FlagsStep, InwardStep, OutwardStep, PTL DEF Spec

-----------------------------------------------------------------------------
(* Who is connected, is so by a handle the server knows of; and the thread *)
(* has it from CreateNamedPipe until it knows how the connecting went.     *)
Held ==
  /\ connected_ => hPipe
  /\ client = "open" => hPipe
  /\ pc \in {"connect", "wait"} => hPipe
  /\ pc \in {"exit", "done"} => ~ hPipe

(* At the start there is no handle and nobody connected.                   *)
LEMMA HeldInit == Init => Held
BY DEF Init, Held

(* No step of server or client connects anybody without a handle.          *)
LEMMA HeldStep == Held /\ [Next]_vars => Held'
<1> SUFFICES ASSUME Held, [Next]_vars PROVE Held'
  OBVIOUS
<1> USE DEF Held
<1>1. CASE RTTY_Server_Loop
  <2>1. CASE Loops
    BY <2>1 DEF Loops, Server, Go, Phase, pipe
  <2>2. CASE CreateNamedPipe
    BY <2>2 DEF CreateNamedPipe, Server, Go, NoInstance
  <2>3. CASE ConnectNamedPipe
    BY <2>3 DEF ConnectNamedPipe, Server, Go, pipe
  <2>4. CASE ClientConnected
    BY <2>4 DEF ClientConnected, Server, Go, pipe
  <2>5. CASE ConnectTimeout
    BY <2>5 DEF ConnectTimeout, Server, Go, pipe
  <2>6. CASE ConnectFailed
    BY <2>6 DEF ConnectFailed, Server, Go, NoInstance
  <2>7. CASE Received
    BY <2>7 DEF Received, Server, Go
  <2>8. CASE BrokenPipe
    BY <2>8 DEF BrokenPipe, Disconnected, Server, Go, pipe
  <2>9. CASE ReadPending \/ ReadTimedOut
    BY <2>9 DEF ReadPending, ReadTimedOut, Server, Go, pipe
  <2>10. CASE CancelRead
    BY <2>10 DEF CancelRead, AfterTimeout, Server, Go
  <2>11. CASE PopMessage
    BY <2>11 DEF PopMessage, Server, Go, pipe
  <2>12. CASE WriteMessage
    BY <2>12 DEF WriteMessage, Server, Go
  <2>13. CASE WriteFailed
    BY <2>13 DEF WriteFailed, Server, Go, pipe
  <2>14. CASE Close
    BY <2>14 DEF Close, CloseIfHandle, Server, Go, NoInstance, pipe
  <2>15. CASE ThreadExit
    BY <2>15 DEF ThreadExit, Go, pipe
  <2> QED
    BY <1>1, <2>1, <2>2, <2>3, <2>4, <2>5, <2>6, <2>7, <2>8, <2>9, <2>10, <2>11, <2>12,
       <2>13, <2>14, <2>15 DEF RTTY_Server_Loop
<1>2. CASE RequestExit \/ Push
  BY <1>2 DEF RequestExit, Push, server, pipe
<1>3. CASE ClientOpen
  BY <1>3 DEF ClientOpen, server
<1>4. CASE ClientWrite \/ ClientRead \/ ClientClose
  BY <1>4 DEF ClientWrite, ClientRead, ClientClose, server
<1>5. CASE UNCHANGED vars
  BY <1>5 DEF vars, server, pipe
<1> QED
  BY <1>1, <1>2, <1>3, <1>4, <1>5 DEF Next, Finished

(* A thread that has ended has closed the pipe it knew of, whatever the    *)
(* client was doing, and no client is left believing to be connected       *)
(* (NamedPipeServer.cpp:329-368, RTTY_Server.cpp:100).                     *)
THEOREM ClosedAtExitHolds == Spec => []ClosedAtExit
<1>1. Held => ClosedAtExit
  BY DEF Held, ClosedAtExit
<1> QED
  BY <1>1, HeldInit, HeldStep, PTL DEF Spec

-----------------------------------------------------------------------------
(* The two directions as channels (module PipeChannel).                    *)

(* Losing what is in front leaves what is behind.                          *)
LEMMA LoseFront ==
  ASSUME NEW S, NEW s \in Seq(S), NEW t \in Seq(S), s # <<>>
  PROVE  \E lost \in 1..Len(s \o t) : t = SubSeq(s \o t, lost + 1, Len(s \o t))
<1>1. s \o t \in Seq(S) /\ Len(s \o t) = Len(s) + Len(t)
  BY ConcatProperties
<1>2. Len(s) \in Nat \ {0} /\ Len(t) \in Nat
  BY LenProperties, EmptySeq
<1>3. t = SubSeq(s \o t, Len(s) + 1, Len(s) + Len(t))
  <2>1. CASE Len(t) = 0
    <3>1. t = <<>>
      BY <2>1, EmptySeq
    <3> QED
      BY <1>2, <2>1, <3>1, SubSeqEmpty
  <2>2. CASE Len(t) # 0
    <3>1. Len(s) + 1 \in Len(s) + 1 .. Len(s) + Len(t)
            /\ Len(s) + Len(t) \in Len(s) + 1 .. Len(s) + Len(t)
      BY <1>2, <2>2
    <3>2. SubSeq(s \o t, Len(s) + 1, Len(s) + Len(t))
            = SubSeq(t, Len(s) + 1 - Len(s), Len(s) + Len(t) - Len(s))
      BY <3>1, SubSeqOfConcat2
    <3>3. Len(s) + 1 - Len(s) = 1 /\ Len(s) + Len(t) - Len(s) = Len(t)
      BY <1>2
    <3> QED
      BY <3>2, <3>3, SubSeqFull
  <2> QED
    BY <2>1, <2>2
<1> QED
  BY <1>1, <1>2, <1>3

(* Behind a first message comes the rest.                                  *)
LEMMA FirstAway ==
  ASSUME NEW S, NEW s \in Seq(S), NEW e
  PROVE  <<e>> \o s # <<>> /\ Head(<<e>> \o s) = e /\ Tail(<<e>> \o s) = s
<1> DEFINE T == S \cup {e}
<1>1. s \in Seq(T) /\ <<e>> \in Seq(T)
  BY SeqMonotonic
<1>2. /\ <<e>> \o s \in Seq(T)
      /\ Len(<<e>> \o s) = 1 + Len(s)
      /\ \A i \in 1 .. 1 + Len(s) : (<<e>> \o s)[i] = IF i <= 1 THEN e ELSE s[i - 1]
  BY <1>1, ConcatProperties
<1>3. Len(s) \in Nat
  BY LenProperties
<1>4. <<e>> \o s # <<>> /\ Head(<<e>> \o s) = e
  BY <1>2, <1>3
<1>5. /\ Tail(<<e>> \o s) \in Seq(T) /\ Len(Tail(<<e>> \o s)) = Len(s)
      /\ \A i \in 1 .. Len(s) : Tail(<<e>> \o s)[i] = (<<e>> \o s)[i + 1]
  BY <1>2, <1>3, <1>4, HeadTailProperties
<1>6. \A i \in 1 .. Len(s) : Tail(<<e>> \o s)[i] = s[i]
  BY <1>2, <1>3, <1>5
<1>7. Tail(<<e>> \o s) = s
  BY <1>1, <1>5, <1>6, SeqEqual
<1> QED
  BY <1>4, <1>7

(* Losing everything, and losing the first.                                *)
LEMMA LoseAll ==
  ASSUME NEW S, NEW s \in Seq(S), s # <<>>
  PROVE  \E lost \in 1..Len(s) : <<>> = SubSeq(s, lost + 1, Len(s))
<1>1. s \o <<>> = s
  BY ConcatEmptySeq
<1> QED
  BY <1>1, LoseFront, EmptySeq

LEMMA LoseFirst ==
  ASSUME NEW S, NEW s \in Seq(S), s # <<>>
  PROVE  \E lost \in 1..Len(s) : Tail(s) = SubSeq(s, lost + 1, Len(s))
<1>1. Tail(s) = SubSeq(s, 2, Len(s)) /\ Len(s) \in Nat \ {0}
  BY TailIsSubSeq, LenProperties, EmptySeq
<1> QED
  BY <1>1

(* What a long message leaves in the pipe comes first, if it is there.     *)
RestFirst == toServer # <<>> => Tail(toServer) \in Seq(1..MaxIn)

(* Pipe and hand are empty while there is nobody to read, or nothing is    *)
(* being written.                                                          *)
Emptied ==
  /\ client # "open" => toClient = <<>>
  /\ pc # "write" => hand = Rest

(* A long message is cut at the front only.                                *)
LEMMA RestFirstStep == InwardOK /\ RestFirst /\ [Next]_vars => RestFirst'
<1> SUFFICES ASSUME InwardOK, RestFirst, [Next]_vars PROVE RestFirst'
  OBVIOUS
<1> USE PipeAssumption DEF InwardOK, RestFirst, Rest
<1>1. CASE toServer' \in {toServer, <<>>}
  BY <1>1
<1>2. CASE toServer # <<>> /\ toServer' \in {<<Rest>> \o Tail(toServer), Tail(toServer)}
  <2>1. Tail(toServer) \in Seq(1..MaxIn)
    BY <1>2
  <2>2. CASE toServer' = <<Rest>> \o Tail(toServer)
    <3>1. Tail(<<0>> \o Tail(toServer)) = Tail(toServer)
      BY <2>1, FirstAway
    <3> QED
      BY <2>1, <2>2, <3>1
  <2>3. CASE toServer' = Tail(toServer)
    BY <2>1, <2>3, HeadTail
  <2> QED
    BY <1>2, <2>2, <2>3
<1>3. CASE ClientWrite
  <2>1. written < MaxIn /\ written' = written + 1 /\ toServer' = Append(toServer, written')
    BY <1>3 DEF ClientWrite
  <2>2. written' \in 1..MaxIn
    BY <2>1
  <2>3. Tail(toServer') = IF toServer = <<>> THEN <<>> ELSE Append(Tail(toServer), written')
    BY <2>1, HeadTailAppend
  <2>4. CASE toServer = <<>>
    BY <2>3, <2>4, EmptySeq
  <2>5. CASE toServer # <<>>
    <3>1. Append(Tail(toServer), written') \in Seq(1..MaxIn)
      BY <2>2, <2>5
    <3> QED
      BY <2>3, <2>5, <3>1
  <2> QED
    BY <2>4, <2>5
<1>4. CASE Received
  <2>1. toServer # <<>> /\ toServer' \in {<<Rest>> \o Tail(toServer), Tail(toServer)}
    BY <1>4 DEF Received, Take
  <2> QED
    BY <1>2, <2>1
<1>5. CASE CancelRead
  <2>1. CASE toServer = <<>>
    BY <1>1, <1>5, <2>1 DEF CancelRead
  <2>2. CASE toServer # <<>>
    <3>1. toServer' \in {<<Rest>> \o Tail(toServer), Tail(toServer)}
      BY <1>5, <2>2 DEF CancelRead
    <3> QED
      BY <1>2, <2>2, <3>1
  <2> QED
    BY <2>1, <2>2
<1>6. RTTY_Server_Loop => Received \/ CancelRead \/ toServer' \in {toServer, <<>>}
  BY DEF RTTY_Server_Loop, Loops, CreateNamedPipe, ConnectNamedPipe, ClientConnected,
         ConnectTimeout, ConnectFailed, BrokenPipe, ReadPending, ReadTimedOut, PopMessage,
         WriteMessage, WriteFailed, Close, ThreadExit, NoInstance, pipe
<1>7. RequestExit \/ Push \/ ClientOpen \/ ClientRead \/ ClientClose \/ Finished
        \/ UNCHANGED vars => UNCHANGED toServer
  BY DEF RequestExit, Push, ClientOpen, ClientRead, ClientClose, Finished, vars, pipe
<1> QED
  BY <1>1, <1>3, <1>4, <1>5, <1>6, <1>7 DEF Next

(* What goes into the pipe goes to a client that is there, and a message   *)
(* that has been written or dropped is no more in hand.                    *)
LEMMA EmptiedStep == Emptied /\ [Next]_vars => Emptied'
<1> SUFFICES ASSUME Emptied, [Next]_vars PROVE Emptied'
  OBVIOUS
<1> USE DEF Emptied
<1>1. CASE PopMessage
  BY <1>1 DEF PopMessage, Server, Go, pipe
<1>2. CASE WriteMessage
  BY <1>2 DEF WriteMessage, Server, Go
<1>3. CASE WriteFailed
  BY <1>3 DEF WriteFailed, Server, Go, pipe
<1>4. CASE CreateNamedPipe \/ ConnectFailed
  BY <1>4 DEF CreateNamedPipe, ConnectFailed, Server, Go, NoInstance
<1>5. CASE Close
  BY <1>5 DEF Close, CloseIfHandle, Server, Go, NoInstance, pipe
<1>6. CASE Loops \/ ConnectNamedPipe \/ ClientConnected \/ ConnectTimeout \/ ThreadExit
  BY <1>6 DEF Loops, Phase, ConnectNamedPipe, ClientConnected, ConnectTimeout, ThreadExit,
              Server, Go, pipe
<1>7. CASE Received \/ BrokenPipe \/ ReadPending \/ ReadTimedOut \/ CancelRead
  BY <1>7 DEF Received, BrokenPipe, ReadPending, ReadTimedOut, CancelRead, AfterTimeout, Server,
              Go, pipe
<1>8. CASE RequestExit \/ Push \/ ClientOpen \/ ClientWrite \/ ClientRead \/ ClientClose
             \/ Finished \/ UNCHANGED vars
  BY <1>8 DEF RequestExit, Push, ClientOpen, ClientWrite, ClientRead, ClientClose, Finished,
              vars, server, pipe
<1> QED
  BY <1>1, <1>2, <1>3, <1>4, <1>5, <1>6, <1>7, <1>8 DEF Next, RTTY_Server_Loop

(* The texts under way: the rest of a long one is none.                    *)
LEMMA InPipeType == InwardOK /\ RestFirst => InPipe \in Seq(1..MaxIn)
<1> SUFFICES ASSUME InwardOK, RestFirst PROVE InPipe \in Seq(1..MaxIn)
  OBVIOUS
<1> USE PipeAssumption DEF InwardOK, RestFirst, Rest
<1>1. CASE toServer = <<>>
  BY <1>1, EmptySeq DEF InPipe
<1>2. CASE toServer # <<>> /\ Head(toServer) = Rest
  BY <1>2 DEF InPipe
<1>3. CASE toServer # <<>> /\ Head(toServer) # Rest
  <2>1. Head(toServer) \in 1..MaxIn
    BY <1>3, HeadTail
  <2>2. \A i \in 1..Len(toServer) : toServer[i] \in 1..MaxIn
    <3>1. /\ Len(Tail(toServer)) = Len(toServer) - 1
          /\ \A i \in 1 .. Len(Tail(toServer)) : Tail(toServer)[i] = toServer[i + 1]
      BY <1>3, HeadTailProperties
    <3>2. \A i \in 1 .. Len(Tail(toServer)) : Tail(toServer)[i] \in 1..MaxIn
      BY <1>3, ElementOfSeq
    <3>3. toServer[1] \in 1..MaxIn
      BY <1>3, <2>1
    <3>4. Len(toServer) \in Nat
      BY LenProperties
    <3> QED
      <4> TAKE i \in 1..Len(toServer)
      <4>1. CASE i = 1
        BY <3>3, <4>1
      <4>2. CASE i # 1
        <5>1. i - 1 \in 1 .. Len(Tail(toServer)) /\ (i - 1) + 1 = i
          BY <3>1, <3>4, <4>2
        <5> QED
          BY <3>1, <3>2, <5>1
      <4> QED
        BY <4>1, <4>2
  <2>3. toServer \in Seq(1..MaxIn)
    BY <2>2, LenProperties, IsASeq
  <2> QED
    BY <1>3, <2>3 DEF InPipe
<1> QED
  BY <1>1, <1>2, <1>3

(* Losing what waits in the client's direction.                            *)
LEMMA CommandsLose ==
  ASSUME InwardOK, RestFirst, UNCHANGED <<written, heard>>,
         \/ InPipe' = InPipe
         \/ InPipe' = <<>>
         \/ InPipe # <<>> /\ InPipe' = Tail(InPipe)
  PROVE  [Commands!Next]_(Commands!vars)
<1>1. InPipe \in Seq(1..MaxIn)
  BY InPipeType
<1>2. CASE InPipe' = InPipe
  BY <1>2 DEF Commands!vars
<1>3. CASE InPipe # <<>> /\ InPipe' \in {<<>>, Tail(InPipe)}
  <2>1. \E lost \in 1..Len(InPipe) : InPipe' = SubSeq(InPipe, lost + 1, Len(InPipe))
    BY <1>1, <1>3, LoseAll, LoseFirst
  <2> QED
    BY <2>1 DEF Commands!Lose, Commands!Next
<1> QED
  BY <1>2, <1>3

(* Each step of the program is one of the channel for commands, or none.   *)
LEMMA CommandsStep ==
  ASSUME InwardOK, RestFirst, [Next]_vars
  PROVE  [Commands!Next]_(Commands!vars)
<1> USE PipeAssumption DEF Rest
<1>0. InPipe \in Seq(1..MaxIn) /\ toServer \in Seq(0..MaxIn) /\ written \in Nat
  <2>1. InPipe \in Seq(1..MaxIn)
    BY ONLY InwardOK, RestFirst, InPipeType
  <2>2. toServer \in Seq(0..MaxIn) /\ written \in Nat
    BY DEF InwardOK
  <2> QED
    BY ONLY <2>1, <2>2
<1> DEFINE Kept == UNCHANGED <<written, heard>>
<1>1. CASE Kept /\ toServer' \in {toServer, <<>>}
  BY <1>1, CommandsLose DEF InPipe
<1>2. ASSUME toServer # <<>>
      PROVE  /\ Head(toServer) = Rest => InPipe = Tail(toServer)
             /\ Head(toServer) # Rest => InPipe = toServer
             /\ toServer' = <<Rest>> \o Tail(toServer) => InPipe' = Tail(toServer)
             /\ toServer' = Tail(toServer) => InPipe' = Tail(toServer)
  <2>1. Tail(toServer) \in Seq(1..MaxIn)
    BY <1>2 DEF RestFirst
  <2>2. toServer' = <<Rest>> \o Tail(toServer) => InPipe' = Tail(toServer)
    BY <2>1, FirstAway DEF InPipe
  <2>3. toServer' = Tail(toServer) => InPipe' = Tail(toServer)
    <3>1. Tail(toServer) # <<>> => Head(Tail(toServer)) # 0
      BY <2>1, HeadTail
    <3> QED
      BY <3>1 DEF InPipe
  <2> QED
    BY <1>2, <2>2, <2>3 DEF InPipe
<1>3. CASE Received
  <2>1. toServer # <<>> /\ UNCHANGED written
    BY <1>3 DEF Received, Server
  <2>2. CASE Head(toServer) \in Long
    <3>1. Head(toServer) # Rest /\ toServer' = <<Rest>> \o Tail(toServer) /\ UNCHANGED heard
      BY <1>3, <2>2 DEF Received
    <3>2. InPipe = toServer /\ InPipe' = Tail(toServer)
      BY <1>2, <2>1, <3>1
    <3> QED
      BY <2>1, <3>1, <3>2, CommandsLose
  <2>3. CASE Head(toServer) \notin Long /\ Head(toServer) = Rest
    <3>1. toServer' = Tail(toServer) /\ UNCHANGED heard
      BY <1>3, <2>3 DEF Received, Take
    <3>2. InPipe = Tail(toServer) /\ InPipe' = Tail(toServer)
      BY <1>2, <2>1, <2>3, <3>1
    <3> QED
      BY <2>1, <3>1, <3>2, CommandsLose
  <2>4. CASE Head(toServer) \notin Long /\ Head(toServer) # Rest
    <3>1. toServer' = Tail(toServer) /\ heard' = Append(heard, Head(toServer))
      BY <1>3, <2>4 DEF Received, Take
    <3>2. InPipe = toServer /\ InPipe' = Tail(toServer)
      BY <1>2, <2>1, <2>4, <3>1
    <3> QED
      BY <2>1, <3>1, <3>2 DEF Commands!Arrive, Commands!Next
  <2> QED
    BY <2>2, <2>3, <2>4
<1>4. CASE CancelRead
  <2>1. Kept
    BY <1>4 DEF CancelRead, Server
  <2>2. CASE toServer = <<>>
    BY <1>1, <1>4, <2>1, <2>2 DEF CancelRead
  <2>3. CASE toServer # <<>>
    <3>1. toServer' \in {<<Rest>> \o Tail(toServer), Tail(toServer)}
      BY <1>4, <2>3 DEF CancelRead
    <3>2. InPipe \in {toServer, Tail(toServer)} /\ InPipe' = Tail(toServer)
      BY <1>2, <2>3, <3>1
    <3> QED
      BY <2>1, <2>3, <3>2, CommandsLose
  <2> QED
    BY <2>2, <2>3
<1>5. CASE ClientWrite
  <2>1. /\ written < MaxIn /\ written' = written + 1 /\ UNCHANGED heard
        /\ toServer' = Append(toServer, written + 1)
    BY <1>5 DEF ClientWrite, server
  <2>2. written + 1 \in 1..MaxIn /\ written + 1 \in 0..MaxIn
    BY <1>0, <2>1
  <2>3. /\ toServer' # <<>>
        /\ Head(toServer') = IF toServer = <<>> THEN written + 1 ELSE Head(toServer)
        /\ Tail(toServer') = IF toServer = <<>> THEN <<>> ELSE Append(Tail(toServer), written + 1)
    <3>1. toServer \in Seq(0..MaxIn) /\ written + 1 \in 0..MaxIn
      BY <1>0, <2>2
    <3>2. Append(toServer, written + 1) # <<>>
      BY ONLY <3>1, AppendProperties
    <3>3. /\ Head(Append(toServer, written + 1))
               = IF toServer = <<>> THEN written + 1 ELSE Head(toServer)
          /\ Tail(Append(toServer, written + 1))
               = IF toServer = <<>> THEN <<>> ELSE Append(Tail(toServer), written + 1)
      BY ONLY <3>1, HeadTailAppend
    <3> QED
      BY ONLY <2>1, <3>2, <3>3
  <2>4. InPipe' = Append(InPipe, written + 1)
    <3>1. CASE toServer = <<>>
      BY <1>0, <2>1, <2>2, <2>3, <3>1 DEF InPipe
    <3>2. CASE toServer # <<>>
      BY <2>1, <2>3, <3>2 DEF InPipe
    <3> QED
      BY <3>1, <3>2
  <2> QED
    BY <2>1, <2>4 DEF Commands!Send, Commands!Next
<1>6. RTTY_Server_Loop => Received \/ CancelRead \/ (Kept /\ toServer' \in {toServer, <<>>})
  BY DEF RTTY_Server_Loop, Loops, CreateNamedPipe, ConnectNamedPipe, ClientConnected,
         ConnectTimeout, ConnectFailed, BrokenPipe, ReadPending, ReadTimedOut, PopMessage,
         WriteMessage, WriteFailed, Close, ThreadExit, Server, NoInstance, pipe
<1>7. RequestExit \/ Push \/ ClientOpen \/ ClientRead \/ ClientClose \/ Finished
        \/ UNCHANGED vars => Kept /\ UNCHANGED toServer
  BY DEF RequestExit, Push, ClientOpen, ClientRead, ClientClose, Finished, vars, server, pipe
<1> QED
  BY <1>1, <1>3, <1>4, <1>5, <1>6, <1>7 DEF Next

(* The form hears the client's texts in the order in which they were       *)
(* written and none twice: what is lost, to a new connection, to a timeout *)
(* or to the length of a message, is the oldest on the way                 *)
(* (NamedPipeServer.cpp:176-276, RTTY_Server.cpp:39-98).                   *)
THEOREM CommandsInOrderHolds == Spec => CommandsInOrder
<1> DEFINE Inv == InwardOK /\ RestFirst
<1>1. Init => Inv /\ Commands!Init
  BY PipeAssumption DEF Init, InwardOK, RestFirst, InPipe, Commands!Init
<1>2. Inv /\ [Next]_vars => Inv'
  BY InwardStep, RestFirstStep
<1>3. Inv /\ [Next]_vars => [Commands!Next]_(Commands!vars)
  BY CommandsStep
<1> HIDE DEF Inv
<1> QED
  BY <1>1, <1>2, <1>3, PTL DEF Spec, CommandsInOrder, Commands!Spec

(* The frequencies under way: in the pipe, in hand, in the queue.          *)
InHand == IF hand = Rest THEN <<>> ELSE <<hand>>

LEMMA OutPipeType ==
  OutwardOK => InHand \in Seq(1..MaxOut) /\ OutPipe = (toClient \o InHand) \o RTTYmsgOutQ
                 /\ OutPipe \in Seq(1..MaxOut)
<1> SUFFICES ASSUME OutwardOK
             PROVE  InHand \in Seq(1..MaxOut) /\ OutPipe = (toClient \o InHand) \o RTTYmsgOutQ
                      /\ OutPipe \in Seq(1..MaxOut)
  OBVIOUS
<1>1. InHand \in Seq(1..MaxOut)
  <2>1. CASE hand = Rest
    BY <2>1, EmptySeq DEF InHand
  <2>2. CASE hand # Rest
    <3>1. hand \in 1..MaxOut
      BY <2>2, PipeAssumption DEF OutwardOK, Rest
    <3>2. <<hand>> \in Seq(1..MaxOut)
      BY <3>1
    <3> QED
      BY <2>2, <3>2 DEF InHand
  <2> QED
    BY <2>1, <2>2
<1>2. OutPipe = (toClient \o InHand) \o RTTYmsgOutQ
  BY DEF OutPipe, InHand
<1>3. toClient \o InHand \in Seq(1..MaxOut)
  BY <1>1, ConcatProperties DEF OutwardOK
<1>4. (toClient \o InHand) \o RTTYmsgOutQ \in Seq(1..MaxOut)
  BY <1>3, ConcatProperties DEF OutwardOK
<1> QED
  BY <1>1, <1>2, <1>4

(* The message that is taken from the queue is the first one in hand.      *)
LEMMA HeadAndTail ==
  ASSUME NEW S, NEW s \in Seq(S), s # <<>>
  PROVE  <<Head(s)>> \o Tail(s) = s
<1>1. Len(s) \in Nat \ {0}
  BY LenProperties, EmptySeq
<1>2. SubSeq(s, 1, Len(s)) = <<s[1]>> \o SubSeq(s, 2, Len(s))
  BY <1>1, SubSeqRecursiveFirst
<1>3. Tail(s) = SubSeq(s, 2, Len(s)) /\ Head(s) = s[1] /\ SubSeq(s, 1, Len(s)) = s
  BY TailIsSubSeq, SubSeqFull
<1> QED
  BY <1>2, <1>3

(* Taking the first of three queues in a row is taking the first of all.   *)
LEMMA FirstOfThree ==
  ASSUME NEW S, NEW s \in Seq(S), NEW t \in Seq(S), NEW u \in Seq(S), s # <<>>
  PROVE  (s \o t) \o u = <<Head(s)>> \o ((Tail(s) \o t) \o u)
<1>1. Tail(s) \in Seq(S) /\ Head(s) \in S
  BY HeadTail
<1>2. Tail(s) \o t \in Seq(S) /\ <<Head(s)>> \in Seq(S)
  BY <1>1, ConcatProperties
<1>3. s = <<Head(s)>> \o Tail(s)
  BY HeadAndTail
<1>4. (<<Head(s)>> \o Tail(s)) \o t = <<Head(s)>> \o (Tail(s) \o t)
  BY <1>1, <1>2, ConcatAssociative
<1>5. (<<Head(s)>> \o (Tail(s) \o t)) \o u = <<Head(s)>> \o ((Tail(s) \o t) \o u)
  BY <1>2, ConcatAssociative
<1> QED
  BY <1>3, <1>4, <1>5

(* Losing the client's end of the pipe.                                    *)
LEMMA FrequenciesLose ==
  ASSUME OutwardOK, OutwardOK', UNCHANGED <<pushed, hand, RTTYmsgOutQ, got>>, toClient' = <<>>
  PROVE  [Frequencies!Next]_(Frequencies!vars)
<1>1. /\ toClient \in Seq(1..MaxOut) /\ InHand \in Seq(1..MaxOut)
      /\ RTTYmsgOutQ \in Seq(1..MaxOut)
  <2>1. toClient \in Seq(1..MaxOut) /\ RTTYmsgOutQ \in Seq(1..MaxOut)
    BY DEF OutwardOK
  <2>2. InHand \in Seq(1..MaxOut)
    BY ONLY OutwardOK, OutPipeType
  <2> QED
    BY ONLY <2>1, <2>2
<1>2. InHand' = InHand
  BY DEF InHand
<1>3. OutPipe' = InHand \o RTTYmsgOutQ
  BY <1>1, <1>2, ConcatEmptySeq DEF OutPipe, InHand
<1>4. OutPipe = toClient \o (InHand \o RTTYmsgOutQ)
  <2>1. OutPipe = (toClient \o InHand) \o RTTYmsgOutQ
    BY OutPipeType
  <2>2. (toClient \o InHand) \o RTTYmsgOutQ = toClient \o (InHand \o RTTYmsgOutQ)
    BY <1>1, ConcatAssociative
  <2> QED
    BY <2>1, <2>2
<1>5. InHand \o RTTYmsgOutQ \in Seq(1..MaxOut)
  BY <1>1, ConcatProperties
<1>6. CASE toClient = <<>>
  BY <1>3, <1>4, <1>5, <1>6, ConcatEmptySeq DEF Frequencies!vars
<1>7. CASE toClient # <<>>
  BY <1>1, <1>3, <1>4, <1>5, <1>7, LoseFront DEF Frequencies!Lose, Frequencies!Next
<1> QED
  BY <1>6, <1>7

(* Each step of the program is one of the channel for frequencies, or none.*)
LEMMA FrequenciesStep ==
  ASSUME OutwardOK, OutwardOK', Emptied, [Next]_vars
  PROVE  [Frequencies!Next]_(Frequencies!vars)
<1> USE PipeAssumption DEF Rest
<1>0. /\ toClient \in Seq(1..MaxOut) /\ InHand \in Seq(1..MaxOut)
      /\ RTTYmsgOutQ \in Seq(1..MaxOut) /\ hand \in 0..MaxOut /\ pushed \in Nat
      /\ OutPipe = (toClient \o InHand) \o RTTYmsgOutQ /\ OutPipe \in Seq(1..MaxOut)
  <2>1. /\ toClient \in Seq(1..MaxOut) /\ RTTYmsgOutQ \in Seq(1..MaxOut)
        /\ hand \in 0..MaxOut
    BY DEF OutwardOK
  <2>2. pushed \in Nat
    BY DEF OutwardOK
  <2>3. /\ InHand \in Seq(1..MaxOut) /\ OutPipe \in Seq(1..MaxOut)
        /\ OutPipe = (toClient \o InHand) \o RTTYmsgOutQ
    BY ONLY OutwardOK, OutPipeType
  <2> QED
    BY ONLY <2>1, <2>2, <2>3
<1>a. OutPipe' = (toClient' \o InHand') \o RTTYmsgOutQ'
  BY DEF OutPipe, InHand
<1> DEFINE Kept == UNCHANGED <<pushed, hand, RTTYmsgOutQ, got>>
<1>1. CASE Kept /\ toClient' = toClient
  BY <1>1 DEF OutPipe, Frequencies!vars
<1>2. CASE Kept /\ toClient' = <<>>
  BY <1>2, FrequenciesLose
<1>3. CASE PopMessage
  <2>1. UNCHANGED <<pushed, got, toClient>> /\ hand = 0
    BY <1>3 DEF PopMessage, Server, pipe, Emptied
  <2>2. CASE RTTYmsgOutQ = <<>>
    BY <1>1, <1>3, <2>1, <2>2 DEF PopMessage
  <2>3. CASE RTTYmsgOutQ # <<>>
    <3>1. hand' = Head(RTTYmsgOutQ) /\ RTTYmsgOutQ' = Tail(RTTYmsgOutQ)
      BY <1>3, <2>3 DEF PopMessage
    <3>2. hand' \in 1..MaxOut /\ RTTYmsgOutQ' \in Seq(1..MaxOut)
      BY <1>0, <2>3, <3>1, HeadTail
    <3>3. InHand = <<>> /\ InHand' = <<hand'>>
      BY <2>1, <3>2 DEF InHand
    <3>4. OutPipe = toClient \o RTTYmsgOutQ
      BY <1>0, <3>3, ConcatEmptySeq
    <3>5. OutPipe' = toClient \o (<<hand'>> \o RTTYmsgOutQ')
      <4>1. <<hand'>> \in Seq(1..MaxOut)
        BY <3>2
      <4> QED
        BY <1>0, <1>a, <2>1, <3>2, <3>3, <4>1, ConcatAssociative
    <3>6. <<hand'>> \o RTTYmsgOutQ' = RTTYmsgOutQ
      BY <1>0, <2>3, <3>1, HeadAndTail
    <3> QED
      BY <2>1, <3>4, <3>5, <3>6 DEF Frequencies!vars
  <2> QED
    BY <2>2, <2>3
<1>4. CASE WriteMessage
  <2>1. /\ UNCHANGED <<pushed, RTTYmsgOutQ, got>>
        /\ toClient' = Append(toClient, hand) /\ hand' = Rest /\ hand # 0
    BY <1>4 DEF WriteMessage, Server, OutwardOK
  <2>2. InHand = <<hand>> /\ InHand' = <<>> /\ hand \in 1..MaxOut
    BY <1>0, <2>1 DEF InHand
  <2>3. toClient' = toClient \o InHand /\ toClient' \o <<>> = toClient'
    <3>1. toClient' \in Seq(1..MaxOut)
      BY DEF OutwardOK
    <3> QED
      BY <1>0, <2>1, <2>2, <3>1, AppendIsConcat, ConcatEmptySeq
  <2> QED
    BY <1>0, <1>a, <2>1, <2>2, <2>3 DEF Frequencies!vars
<1>5. CASE WriteFailed
  <2>1. /\ UNCHANGED <<pushed, RTTYmsgOutQ, got, toClient>> /\ hand' = Rest
        /\ toClient = <<>> /\ hand # 0
    BY <1>5 DEF WriteFailed, DropUnsent, Server, pipe, Emptied, OutwardOK
  <2>2. InHand = <<hand>> /\ InHand' = <<>> /\ InHand # <<>>
    BY <2>1 DEF InHand
  <2>3. OutPipe = InHand \o RTTYmsgOutQ
    BY <1>0, <2>1, ConcatEmptySeq
  <2>4. OutPipe' = RTTYmsgOutQ
    BY <1>0, <1>a, <2>1, <2>2, ConcatEmptySeq, EmptySeq, SMTT(30)
  <2>5. \E lost \in 1..Len(OutPipe) : OutPipe' = SubSeq(OutPipe, lost + 1, Len(OutPipe))
    <3>1. \E lost \in 1..Len(InHand \o RTTYmsgOutQ) :
            RTTYmsgOutQ = SubSeq(InHand \o RTTYmsgOutQ, lost + 1, Len(InHand \o RTTYmsgOutQ))
      <4>1. /\ InHand \in Seq(1..MaxOut) /\ InHand # <<>>
            /\ RTTYmsgOutQ \in Seq(1..MaxOut)
        BY ONLY <1>0, <2>2
      <4> QED
        BY ONLY <4>1, LoseFront
    <3> QED
      BY <2>3, <2>4, <3>1
  <2> QED
    BY <2>1, <2>5 DEF Frequencies!Lose, Frequencies!Next
<1>6. CASE Push
  <2>1. /\ UNCHANGED <<hand, got, toClient>>
        /\ pushed < MaxOut /\ pushed' = pushed + 1
        /\ RTTYmsgOutQ' = Append(RTTYmsgOutQ, pushed + 1)
    BY <1>6 DEF Push, pipe
  <2>2. pushed + 1 \in 1..MaxOut
    BY <1>0, <2>1
  <2>3. OutPipe' = (toClient \o InHand) \o (RTTYmsgOutQ \o <<pushed + 1>>)
    BY <1>0, <1>a, <2>1, <2>2, AppendIsConcat DEF InHand
  <2>4. OutPipe' = OutPipe \o <<pushed + 1>>
    <3>1. <<pushed + 1>> \in Seq(1..MaxOut) /\ toClient \o InHand \in Seq(1..MaxOut)
      BY <1>0, <2>2, ConcatProperties
    <3> QED
      BY <1>0, <2>3, <3>1, ConcatAssociative
  <2>5. OutPipe' = Append(OutPipe, pushed + 1)
    BY <1>0, <2>2, <2>4, AppendIsConcat
  <2> QED
    BY <2>1, <2>5 DEF Frequencies!Send, Frequencies!Next
<1>7. CASE ClientRead
  <2>1. /\ UNCHANGED <<pushed, hand, RTTYmsgOutQ>> /\ toClient # <<>>
        /\ got' = Append(got, Head(toClient)) /\ toClient' = Tail(toClient)
    BY <1>7 DEF ClientRead, server
  <2>2. InHand' = InHand
    BY <2>1 DEF InHand
  <2>3. OutPipe' = (Tail(toClient) \o InHand) \o RTTYmsgOutQ
    BY <1>a, <2>1, <2>2
  <2>4. OutPipe # <<>> /\ Head(OutPipe) = Head(toClient) /\ OutPipe' = Tail(OutPipe)
    <3>1. OutPipe = <<Head(toClient)>> \o OutPipe'
      BY <1>0, <2>1, <2>3, FirstOfThree, SMTT(30)
    <3>2. OutPipe' \in Seq(1..MaxOut)
      <4>1. Tail(toClient) \in Seq(1..MaxOut)
        BY <1>0, <2>1, HeadTail
      <4>2. Tail(toClient) \o InHand \in Seq(1..MaxOut)
        BY <1>0, <4>1, ConcatProperties
      <4> QED
        BY <1>0, <2>3, <4>2, ConcatProperties
    <3> QED
      BY <3>1, <3>2, FirstAway
  <2> QED
    BY <2>1, <2>4 DEF Frequencies!Arrive, Frequencies!Next
<1>8. RTTY_Server_Loop => PopMessage \/ WriteMessage \/ WriteFailed
                            \/ (Kept /\ toClient' \in {toClient, <<>>})
  BY DEF RTTY_Server_Loop, Loops, CreateNamedPipe, ConnectNamedPipe, ClientConnected,
         ConnectTimeout, ConnectFailed, Received, BrokenPipe, ReadPending, ReadTimedOut,
         CancelRead, Close, ThreadExit, Server, NoInstance, pipe
<1>9. RequestExit \/ ClientOpen \/ ClientWrite \/ ClientClose \/ Finished \/ UNCHANGED vars
        => Kept /\ toClient' \in {toClient, <<>>}
  BY DEF RequestExit, ClientOpen, ClientWrite, ClientClose, Finished, vars, server, pipe
<1> QED
  BY <1>1, <1>2, <1>3, <1>4, <1>5, <1>6, <1>7, <1>8, <1>9 DEF Next

(* The client gets the form's frequencies in the order in which they were  *)
(* queued and none twice, over all its connections: a write that fails     *)
(* drops the oldest (RTTY_Server.cpp:83-93), a pipe that is closed what    *)
(* was in it.                                                              *)
THEOREM FrequenciesInOrderHolds == Spec => FrequenciesInOrder
<1> DEFINE Inv == OutwardOK /\ Emptied
<1>1. Init => Inv /\ Frequencies!Init
  <2> SUFFICES ASSUME Init PROVE Inv /\ Frequencies!Init
    OBVIOUS
  <2>1. Inv
    BY PipeAssumption DEF Init, OutwardOK, Emptied, Rest
  <2>2. OutPipe = <<>>
    BY ConcatEmptySeq, EmptySeq DEF Init, OutPipe, Rest
  <2> QED
    BY <2>1, <2>2 DEF Init, Frequencies!Init
<1>2. Inv /\ [Next]_vars => Inv'
  BY OutwardStep, EmptiedStep
<1>3. Inv /\ Inv' /\ [Next]_vars => [Frequencies!Next]_(Frequencies!vars)
  BY FrequenciesStep
<1> HIDE DEF Inv
<1> QED
  BY <1>1, <1>2, <1>3, PTL DEF Spec, FrequenciesInOrder, Frequencies!Spec

-----------------------------------------------------------------------------
(* What the channel's steps come to: numbers that only ever go up.         *)

Ascending(s) == \A i, j \in 1..Len(s) : i < j => s[i] < s[j]

(* What has arrived was sent before what is on the way, and that before    *)
(* what will be sent.                                                      *)
Ordered(sent, chan, arrived) ==
  /\ Ascending(arrived) /\ Ascending(chan)
  /\ \A i \in 1..Len(arrived), j \in 1..Len(chan) : arrived[i] < chan[j]
  /\ \A i \in 1..Len(arrived) : arrived[i] <= sent
  /\ \A j \in 1..Len(chan) : chan[j] <= sent

(* A number that is sent is greater than all before it.                    *)
LEMMA OrderedSend ==
  ASSUME NEW n \in Nat, NEW c \in Seq(Nat), NEW a \in Seq(Nat), Ordered(n, c, a)
  PROVE  Ordered(n + 1, Append(c, n + 1), a)
<1> DEFINE d == Append(c, n + 1)
<1>1. /\ Len(d) = Len(c) + 1 /\ d[Len(c) + 1] = n + 1
      /\ \A i \in 1..Len(c) : d[i] = c[i]
      /\ Len(c) \in Nat
  BY AppendProperties, LenProperties
<1>2. /\ \A i \in 1..Len(c) : c[i] \in Nat /\ c[i] <= n
      /\ \A i \in 1..Len(a) : a[i] \in Nat /\ a[i] <= n
      /\ \A i, j \in 1..Len(c) : i < j => c[i] < c[j]
      /\ \A i \in 1..Len(a), j \in 1..Len(c) : a[i] < c[j]
      /\ Ascending(a)
  BY ElementOfSeq DEF Ordered, Ascending
<1> HIDE DEF d
<1>3. \A i \in 1..Len(d) : i = Len(c) + 1 \/ i \in 1..Len(c)
  BY <1>1
<1>4. \A i \in 1..Len(d) : d[i] <= n + 1
  BY <1>1, <1>2, <1>3, SMTT(30)
<1>5. \A i, j \in 1..Len(d) : i < j => d[i] < d[j]
  <2> SUFFICES ASSUME NEW i \in 1..Len(d), NEW j \in 1..Len(d), i < j PROVE d[i] < d[j]
    OBVIOUS
  <2>1. i \in 1..Len(c) /\ d[i] = c[i]
    BY <1>1, <1>3
  <2> QED
    BY <1>1, <1>2, <1>3, <2>1, SMTT(30)
<1>6. \A i \in 1..Len(a), j \in 1..Len(d) : a[i] < d[j]
  <2> SUFFICES ASSUME NEW i \in 1..Len(a), NEW j \in 1..Len(d) PROVE a[i] < d[j]
    OBVIOUS
  <2>1. CASE j \in 1..Len(c)
    BY <1>1, <1>2, <2>1
  <2>2. CASE j = Len(c) + 1
    <3>1. a[i] \in Nat /\ a[i] <= n
      BY <1>2
    <3>2. d[j] = n + 1
      BY <1>1, <2>2
    <3> QED
      BY <3>1, <3>2
  <2> QED
    BY <1>3, <2>1, <2>2
<1>7. \A i \in 1..Len(a) : a[i] <= n + 1
  BY <1>2
<1> QED
  BY <1>2, <1>4, <1>5, <1>6, <1>7 DEF Ordered, Ascending, d

(* What arrives is less than what stays behind it.                         *)
LEMMA OrderedArrive ==
  ASSUME NEW n \in Nat, NEW c \in Seq(Nat), NEW a \in Seq(Nat), Ordered(n, c, a), c # <<>>
  PROVE  Ordered(n, Tail(c), Append(a, Head(c)))
<1> DEFINE d == Tail(c)
           b == Append(a, Head(c))
<1>1. /\ Len(d) = Len(c) - 1 /\ Len(c) \in Nat /\ Len(c) >= 1
      /\ \A i \in 1..Len(d) : d[i] = c[i + 1]
  BY HeadTailProperties, LenProperties, EmptySeq
<1>2. Head(c) \in Nat /\ Head(c) = c[1]
  BY HeadTailProperties
<1>3. /\ Len(b) = Len(a) + 1 /\ b[Len(a) + 1] = c[1] /\ Len(a) \in Nat
      /\ \A i \in 1..Len(a) : b[i] = a[i]
  BY <1>2, AppendProperties, LenProperties
<1>4. /\ \A i \in 1..Len(c) : c[i] \in Nat /\ c[i] <= n
      /\ \A i \in 1..Len(a) : a[i] \in Nat /\ a[i] <= n
      /\ \A i, j \in 1..Len(c) : i < j => c[i] < c[j]
      /\ \A i, j \in 1..Len(a) : i < j => a[i] < a[j]
      /\ \A i \in 1..Len(a), j \in 1..Len(c) : a[i] < c[j]
  BY ElementOfSeq DEF Ordered, Ascending
<1> HIDE DEF d, b
<1>5. \A i \in 1..Len(b) : i = Len(a) + 1 \/ i \in 1..Len(a)
  BY <1>3
<1>6. \A i \in 1..Len(d) : i + 1 \in 1..Len(c) /\ 1 < i + 1
  BY <1>1
<1>7. 1 \in 1..Len(c)
  BY <1>1
<1>8. \A i \in 1..Len(b) : b[i] <= n
  BY <1>3, <1>4, <1>5, <1>7
<1>9. \A i \in 1..Len(d) : d[i] <= n
  BY <1>1, <1>4, <1>6
<1>10. \A i, j \in 1..Len(b) : i < j => b[i] < b[j]
  <2> SUFFICES ASSUME NEW i \in 1..Len(b), NEW j \in 1..Len(b), i < j PROVE b[i] < b[j]
    OBVIOUS
  <2>1. i \in 1..Len(a) /\ b[i] = a[i]
    BY <1>3, <1>5
  <2> QED
    BY <1>3, <1>4, <1>5, <1>7, <2>1
<1>11. \A i, j \in 1..Len(d) : i < j => d[i] < d[j]
  <2> SUFFICES ASSUME NEW i \in 1..Len(d), NEW j \in 1..Len(d), i < j PROVE d[i] < d[j]
    OBVIOUS
  <2>1. i + 1 < j + 1
    BY <1>1
  <2> QED
    BY <1>1, <1>4, <1>6, <2>1
<1>12. \A i \in 1..Len(b), j \in 1..Len(d) : b[i] < d[j]
  <2> SUFFICES ASSUME NEW i \in 1..Len(b), NEW j \in 1..Len(d) PROVE b[i] < d[j]
    OBVIOUS
  <2>1. d[j] = c[j + 1] /\ j + 1 \in 1..Len(c) /\ 1 < j + 1
    BY <1>1, <1>6
  <2> QED
    BY <1>3, <1>4, <1>5, <1>7, <2>1
<1> QED
  BY <1>8, <1>9, <1>10, <1>11, <1>12 DEF Ordered, Ascending, d, b

(* Losing what is in front leaves the order of the rest.                   *)
LEMMA OrderedLose ==
  ASSUME NEW n \in Nat, NEW c \in Seq(Nat), NEW a \in Seq(Nat), Ordered(n, c, a),
         NEW lost \in 1..Len(c)
  PROVE  Ordered(n, SubSeq(c, lost + 1, Len(c)), a)
<1> DEFINE d == SubSeq(c, lost + 1, Len(c))
<1>1. Len(c) \in Nat /\ lost \in Nat /\ lost <= Len(c)
  BY LenProperties
<1>2. /\ \A i \in 1..Len(c) : c[i] \in Nat /\ c[i] <= n
      /\ \A i, j \in 1..Len(c) : i < j => c[i] < c[j]
      /\ \A i \in 1..Len(a), j \in 1..Len(c) : a[i] < c[j]
      /\ \A i \in 1..Len(a) : a[i] <= n
      /\ Ascending(a)
  BY ElementOfSeq DEF Ordered, Ascending
<1>3. \A i \in lost + 1 .. Len(c) : c[i] \in Nat
  BY <1>1, <1>2
<1>4. /\ Len(d) = IF lost + 1 <= Len(c) THEN Len(c) - (lost + 1) + 1 ELSE 0
      /\ \A i \in 1 .. Len(c) - (lost + 1) + 1 : d[i] = c[(lost + 1) + i - 1]
  BY <1>1, <1>3, SubSeqProperties
<1> HIDE DEF d
<1>5. Len(d) = Len(c) - lost
  BY <1>1, <1>4
<1>6. \A i \in 1..Len(d) : d[i] = c[i + lost] /\ i + lost \in 1..Len(c)
  <2> SUFFICES ASSUME NEW i \in 1..Len(d) PROVE d[i] = c[i + lost] /\ i + lost \in 1..Len(c)
    OBVIOUS
  <2>1. i \in 1 .. Len(c) - (lost + 1) + 1 /\ (lost + 1) + i - 1 = i + lost
    BY <1>1, <1>5
  <2>2. i + lost \in 1..Len(c)
    BY <1>1, <1>5
  <2> QED
    BY <1>4, <2>1, <2>2
<1>7. \A i, j \in 1..Len(d) : i < j => d[i] < d[j]
  <2> SUFFICES ASSUME NEW i \in 1..Len(d), NEW j \in 1..Len(d), i < j PROVE d[i] < d[j]
    OBVIOUS
  <2>1. i + lost < j + lost
    BY <1>1
  <2> QED
    BY <1>2, <1>6, <2>1
<1>8. /\ \A i \in 1..Len(a), j \in 1..Len(d) : a[i] < d[j]
      /\ \A j \in 1..Len(d) : d[j] <= n
  BY <1>2, <1>6
<1> QED
  BY <1>2, <1>7, <1>8 DEF Ordered, Ascending, d

(* Every step of a channel keeps the order.                                *)
LEMMA OrderedStep ==
  ASSUME NEW n \in Nat, NEW c \in Seq(Nat), NEW a \in Seq(Nat), Ordered(n, c, a),
         NEW m, NEW d, NEW b,
         \/ m = n + 1 /\ d = Append(c, n + 1) /\ b = a
         \/ m = n /\ c # <<>> /\ d = Tail(c) /\ b = Append(a, Head(c))
         \/ m = n /\ b = a /\ \E lost \in 1..Len(c) : d = SubSeq(c, lost + 1, Len(c))
         \/ m = n /\ d = c /\ b = a
  PROVE  Ordered(m, d, b)
BY OrderedSend, OrderedArrive, OrderedLose

(* Whatever happens on the pipe, the numbers of the commands that the form *)
(* has heard and of the frequencies that the client has got go up: none is *)
(* overtaken and none comes twice, over all connections.                   *)
THEOREM NumbersGoUp == Spec => [](Ascending(heard) /\ Ascending(got))
<1> DEFINE Types == InwardOK /\ RestFirst /\ OutwardOK /\ Emptied
           Order == Ordered(written, InPipe, heard) /\ Ordered(pushed, OutPipe, got)
<1>1. Init => Types /\ Order
  <2> SUFFICES ASSUME Init PROVE Types /\ Order
    OBVIOUS
  <2>1. Types
    BY PipeAssumption DEF Init, InwardOK, RestFirst, OutwardOK, Emptied, Rest
  <2>2. InPipe = <<>> /\ heard = <<>> /\ OutPipe = <<>> /\ got = <<>>
    BY ConcatEmptySeq, EmptySeq DEF Init, InPipe, OutPipe, Rest
  <2> QED
    BY <2>1, <2>2 DEF Ordered, Ascending
<1>2. Types /\ [Next]_vars => Types'
  BY InwardStep, RestFirstStep, OutwardStep, EmptiedStep
<1>3. Types /\ Types' /\ Order /\ [Next]_vars => Order'
  <2> SUFFICES ASSUME Types, Types', Order, [Next]_vars PROVE Order'
    OBVIOUS
  <2>1. /\ written \in Nat /\ InPipe \in Seq(Nat) /\ heard \in Seq(Nat)
        /\ pushed \in Nat /\ OutPipe \in Seq(Nat) /\ got \in Seq(Nat)
    <3>1. 1..MaxIn \subseteq Nat /\ 1..MaxOut \subseteq Nat
      BY PipeAssumption
    <3>2. Seq(1..MaxIn) \subseteq Seq(Nat) /\ Seq(1..MaxOut) \subseteq Seq(Nat)
      BY <3>1, SeqMonotonic
    <3>3. InPipe \in Seq(1..MaxIn) /\ OutPipe \in Seq(1..MaxOut)
      BY InPipeType, OutPipeType
    <3> QED
      BY <3>2, <3>3, PipeAssumption DEF InwardOK, OutwardOK
  <2>2. Ordered(written', InPipe', heard')
    <3>1. [Commands!Next]_(Commands!vars)
      BY CommandsStep
    <3>2. \/ written' = written + 1 /\ InPipe' = Append(InPipe, written + 1) /\ heard' = heard
          \/ /\ written' = written /\ InPipe # <<>> /\ InPipe' = Tail(InPipe)
             /\ heard' = Append(heard, Head(InPipe))
          \/ /\ written' = written /\ heard' = heard
             /\ \E lost \in 1..Len(InPipe) : InPipe' = SubSeq(InPipe, lost + 1, Len(InPipe))
          \/ written' = written /\ InPipe' = InPipe /\ heard' = heard
      BY <3>1 DEF Commands!Next, Commands!Send, Commands!Arrive, Commands!Lose, Commands!vars
    <3> QED
      BY <2>1, <3>2, OrderedStep
  <2>3. Ordered(pushed', OutPipe', got')
    <3>1. [Frequencies!Next]_(Frequencies!vars)
      BY FrequenciesStep
    <3>2. \/ pushed' = pushed + 1 /\ OutPipe' = Append(OutPipe, pushed + 1) /\ got' = got
          \/ /\ pushed' = pushed /\ OutPipe # <<>> /\ OutPipe' = Tail(OutPipe)
             /\ got' = Append(got, Head(OutPipe))
          \/ /\ pushed' = pushed /\ got' = got
             /\ \E lost \in 1..Len(OutPipe) : OutPipe' = SubSeq(OutPipe, lost + 1, Len(OutPipe))
          \/ pushed' = pushed /\ OutPipe' = OutPipe /\ got' = got
      BY <3>1 DEF Frequencies!Next, Frequencies!Send, Frequencies!Arrive, Frequencies!Lose,
                  Frequencies!vars
    <3> QED
      BY <2>1, <3>2, OrderedStep
  <2> QED
    BY <2>2, <2>3
<1>4. Order => Ascending(heard) /\ Ascending(got)
  BY DEF Ordered
<1> HIDE DEF Types, Order
<1> QED
  BY <1>1, <1>2, <1>3, <1>4, PTL DEF Spec
=============================================================================
