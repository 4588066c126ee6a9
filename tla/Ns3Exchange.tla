---------------------------- MODULE Ns3Exchange ----------------------------
(***************************************************************************)
(* One run of Experiment::WeakNetwork: the exchange of models inside the   *)
(* network simulator (wifi_exp/fl-server.cc, fl-client-application.cc).    *)
(* The simulated server sends ModelSize packets to every client of the     *)
(* round; a client that has them all computes and sends as many back; the  *)
(* run ends when the server has everybody's, or after 300 simulated        *)
(* seconds.  Synchronous training only: in asynchronous training the       *)
(* simulator is never asked to run.                                        *)
(*                                                                         *)
(* A packet that reaches its receiver is acknowledged in the same step:    *)
(* ns-3's TCP frees its place in the sender's buffer and calls the         *)
(* sender's send callback, if one is set, once per acknowledgement.        *)
(***************************************************************************)
EXTENDS Naturals, Sequences, FiniteSets

CONSTANTS
  Clients,
  ModelSize,   \* packets of a model
  SendBuffer   \* packets that a socket holds until they are acknowledged

ASSUME SizesAssumption == ModelSize \in Nat \ {0} /\ SendBuffer \in Nat \ {0}
ASSUME ClientsAssumption == IsFiniteSet(Clients)

VARIABLES
  phase,       \* "idle", "running", "finished" (Simulator::Stop), "expired"
  inRound,     \* the clients that take part
  conn,        \* "none", "client" (connected there), "open" (accepted)
  toSend,      \* m_bytesModelToSend of the server's session with a client
  toReceive,   \* m_bytesModelToReceive of that session
  buffer,      \* the server's unacknowledged packets to a client
  ready,       \* the accepted socket has a send callback
  events,      \* scheduled calls of SendModel: all have the same delay, so
               \* they run in this order; m_sendEvent is the last one
  firstDone,   \* m_nInRoundFirstCycleDone
  cToReceive, cToSend,  \* the client's counters
  cBuffer,              \* its unacknowledged packets
  cTask                 \* what it has scheduled or waits for

serverVars == <<conn, toSend, toReceive, buffer, ready, events, firstDone>>
clientVars == <<cToReceive, cToSend, cBuffer, cTask>>
exchangeVars == <<phase, inRound, serverVars, clientVars>>

Zero == [c \in Clients |-> 0]

-----------------------------------------------------------------------------
(* Deviations: plausible slips in the definitions of this module, each of     *)
(* which breaks a property.  They are no part of the specification.          *)

\* a full buffer ends SendModel without a callback
SendModelNoCallback(c, left, buf, pending) ==
  \/ /\ buf[c] = SendBuffer \/ left[c] = 0
     /\ toSend' = left /\ buffer' = buf /\ events' = pending
     /\ UNCHANGED ready
  \/ /\ buf[c] < SendBuffer /\ left[c] > 0
     /\ toSend' = [left EXCEPT ![c] = @ - 1]
     /\ buffer' = [buf EXCEPT ![c] = @ + 1]
     /\ events' = IF left[c] > 1 THEN Append(pending, c) ELSE pending
     /\ UNCHANGED ready

\* the compute delay starts with the first packet
HandleReadEarly(c) ==
  /\ cToReceive' = [cToReceive EXCEPT ![c] = @ - 1]
  /\ cTask' = IF cToReceive[c] = ModelSize THEN [cTask EXCEPT ![c] = "compute"]
                                           ELSE cTask
  /\ UNCHANGED <<cToSend, cBuffer>>

\* the run stops when one client has finished
CycleDoneFirst ==
  /\ firstDone' = firstDone + 1
  /\ phase' = "finished"

\* sent packets are not subtracted
ClientSendUncounted(c, left, buf) ==
  \/ /\ left[c] > 0 /\ buf[c] = SendBuffer
     /\ cTask' = [cTask EXCEPT ![c] = "callback"]
     /\ cToSend' = left /\ cBuffer' = buf
     /\ UNCHANGED cToReceive
  \/ /\ left[c] > 0 /\ buf[c] < SendBuffer
     /\ cToSend' = left
     /\ cBuffer' = [buf EXCEPT ![c] = @ + 1]
     /\ cTask' = [cTask EXCEPT ![c] = "event"]
     /\ UNCHANGED cToReceive

-----------------------------------------------------------------------------
(* Server::SendModel, with the counters, buffers and pending events it finds *)

SendModel(c, left, buf, pending) ==
  \/ /\ buf[c] = SendBuffer
     /\ ready' = [ready EXCEPT ![c] = TRUE]
     /\ toSend' = left /\ buffer' = buf /\ events' = pending
  \/ /\ buf[c] < SendBuffer /\ left[c] = 0
     /\ toSend' = left /\ buffer' = buf /\ events' = pending
     /\ UNCHANGED ready
  \/ /\ buf[c] < SendBuffer /\ left[c] > 0
     /\ toSend' = [left EXCEPT ![c] = @ - 1]
     /\ buffer' = [buf EXCEPT ![c] = @ + 1]
     /\ events' = IF left[c] > 1 THEN Append(pending, c) ELSE pending
     /\ UNCHANGED ready

\* ClientApplication::Send, likewise.  The last packet arms the client for
\* another download, which only asynchronous training has.
ClientSend(c, left, buf) ==
  \/ /\ left[c] > 0 /\ buf[c] = SendBuffer
     /\ cTask' = [cTask EXCEPT ![c] = "callback"]
     /\ cToSend' = left /\ cBuffer' = buf
     /\ UNCHANGED cToReceive
  \/ /\ left[c] > 0 /\ buf[c] < SendBuffer
     /\ cToSend' = [left EXCEPT ![c] = @ - 1]
     /\ cBuffer' = [buf EXCEPT ![c] = @ + 1]
     /\ cTask' = [cTask EXCEPT ![c] = IF left[c] > 1 THEN "event" ELSE "none"]
     /\ cToReceive' = IF left[c] > 1 THEN cToReceive
                                     ELSE [cToReceive EXCEPT ![c] = ModelSize]

-----------------------------------------------------------------------------
(* The run: set up by WeakNetwork, evaluated and destroyed by it              *)

\* The applications are started; nothing is connected yet.
StartExperiment(S) ==
  /\ phase = "idle"
  /\ phase' = "running"
  /\ inRound' = S
  /\ UNCHANGED <<serverVars, clientVars>>

\* Simulator::Stop(Seconds(simStopS))
TimeLimit ==
  /\ phase = "running"
  /\ phase' = "expired"
  /\ UNCHANGED <<inRound, serverVars, clientVars>>

\* Statistics are made of whatever there is for each client of the round;
\* sockets, applications and pending events go.
CollectStats ==
  /\ phase \in {"finished", "expired"}
  /\ phase' = "idle"
  /\ conn' = [c \in Clients |-> "none"]
  /\ toSend' = Zero /\ toReceive' = Zero /\ buffer' = Zero
  /\ ready' = [c \in Clients |-> FALSE]
  /\ events' = <<>>
  /\ firstDone' = 0
  /\ cToReceive' = Zero /\ cToSend' = Zero /\ cBuffer' = Zero
  /\ cTask' = [c \in Clients |-> "none"]
  /\ UNCHANGED inRound

-----------------------------------------------------------------------------
(* The events of the simulation                                            *)

ConnectionSucceeded(c) ==
  /\ phase = "running" /\ c \in inRound /\ conn[c] = "none"
  /\ conn' = [conn EXCEPT ![c] = "client"]
  /\ cToReceive' = [cToReceive EXCEPT ![c] = ModelSize]
  /\ cToSend' = [cToSend EXCEPT ![c] = 0]
  /\ UNCHANGED <<phase, inRound, toSend, toReceive, buffer, ready, events,
                 firstDone, cBuffer, cTask>>

\* NewConnectionCreatedCallback and StartSendingModel
Accept(c) ==
  /\ phase = "running" /\ conn[c] = "client"
  /\ conn' = [conn EXCEPT ![c] = "open"]
  /\ toReceive' = [toReceive EXCEPT ![c] = ModelSize]
  /\ SendModel(c, [toSend EXCEPT ![c] = ModelSize], buffer, events)
  /\ UNCHANGED <<phase, inRound, firstDone, clientVars>>

\* The next scheduled call of SendModel.
SendEvent ==
  /\ phase = "running" /\ events # <<>>
  /\ SendModel(Head(events), toSend, buffer, Tail(events))
  /\ UNCHANGED <<phase, inRound, conn, toReceive, firstDone, clientVars>>

\* ServerHandleSend: it takes the callback from the listening socket, which has
\* none, and goes on sending only if no call of SendModel is scheduled, for
\* whichever client.
ServerHandleSend(c, buf) ==
  IF ready[c] /\ events = <<>>
  THEN SendModel(c, toSend, buf, events)
  ELSE buffer' = buf /\ UNCHANGED <<toSend, ready, events>>

\* ClientApplication::HandleRead
HandleRead(c) ==
  /\ cToReceive' = [cToReceive EXCEPT ![c] = @ - 1]
  /\ cTask' = IF cToReceive[c] = 1 THEN [cTask EXCEPT ![c] = "compute"] ELSE cTask
  /\ UNCHANGED <<cToSend, cBuffer>>

Download(c) ==
  /\ phase = "running" /\ buffer[c] > 0
  /\ HandleRead(c)
  /\ ServerHandleSend(c, [buffer EXCEPT ![c] = @ - 1])
  /\ UNCHANGED <<phase, inRound, conn, toReceive, firstDone>>

\* ComputeDelayS after the last packet.
StartWriting(c) ==
  /\ phase = "running" /\ cTask[c] = "compute"
  /\ ClientSend(c, [cToSend EXCEPT ![c] = ModelSize], cBuffer)
  /\ UNCHANGED <<phase, inRound, serverVars>>

ClientSendEvent(c) ==
  /\ phase = "running" /\ cTask[c] = "event"
  /\ ClientSend(c, cToSend, cBuffer)
  /\ UNCHANGED <<phase, inRound, serverVars>>

\* IncrementCycleCountFromServer, and Simulator::Stop once all have finished.
CycleDone ==
  /\ firstDone' = firstDone + 1
  /\ phase' = IF firstDone' = Cardinality(inRound) THEN "finished" ELSE phase

\* ReceivedDataCallback at the server, HandleReadyToSend at the client.
Upload(c) ==
  /\ phase = "running" /\ cBuffer[c] > 0
  /\ toReceive' = [toReceive EXCEPT ![c] = @ - 1]
  /\ IF toReceive[c] = 1 THEN CycleDone ELSE UNCHANGED <<phase, firstDone>>
  /\ LET acked == [cBuffer EXCEPT ![c] = @ - 1]
     IN IF cTask[c] = "callback"
        THEN ClientSend(c, cToSend, acked)
        ELSE cBuffer' = acked /\ UNCHANGED <<cToReceive, cToSend, cTask>>
  /\ UNCHANGED <<inRound, conn, toSend, buffer, ready, events>>

-----------------------------------------------------------------------------
ExchangeInit ==
  /\ phase = "idle"
  /\ inRound = {}
  /\ conn = [c \in Clients |-> "none"]
  /\ toSend = Zero /\ toReceive = Zero /\ buffer = Zero
  /\ ready = [c \in Clients |-> FALSE]
  /\ events = <<>>
  /\ firstDone = 0
  /\ cToReceive = Zero /\ cToSend = Zero /\ cBuffer = Zero
  /\ cTask = [c \in Clients |-> "none"]

Simulation ==
  \/ SendEvent
  \/ TimeLimit
  \/ \E c \in Clients : \/ ConnectionSucceeded(c) \/ Accept(c) \/ Download(c)
                        \/ StartWriting(c) \/ ClientSendEvent(c) \/ Upload(c)

ExchangeNext ==
  \/ Simulation
  \/ CollectStats
  \/ \E S \in SUBSET Clients : StartExperiment(S)

ExchangeSpec == ExchangeInit /\ [][ExchangeNext]_exchangeVars

-----------------------------------------------------------------------------
(* Properties                                                              *)

\* The counters of bytes are unsigned in the code: none ever falls below zero,
\* and no client has two calls of SendModel scheduled at a time.
ExchangeTypeOK ==
  /\ phase \in {"idle", "running", "finished", "expired"}
  /\ inRound \subseteq Clients
  /\ conn \in [Clients -> {"none", "client", "open"}]
  /\ toSend \in [Clients -> 0..ModelSize] /\ toReceive \in [Clients -> 0..ModelSize]
  /\ buffer \in [Clients -> 0..SendBuffer]
  /\ ready \in [Clients -> BOOLEAN]
  /\ events \in Seq(Clients)
  /\ \A i, j \in DOMAIN events : events[i] = events[j] => i = j
  /\ firstDone \in Nat
  /\ cToReceive \in [Clients -> 0..ModelSize] /\ cToSend \in [Clients -> 0..ModelSize]
  /\ cBuffer \in [Clients -> 0..SendBuffer]
  /\ cTask \in [Clients -> {"none", "compute", "event", "callback"}]

\* A client sends nothing back before it has the whole model: whatever the
\* server holds for it, or has yet to send, is gone (HandleRead, StartWriting).
UploadFollowsDownload ==
  \A c \in Clients :
    conn[c] = "open" /\ (cBuffer[c] > 0 \/ toReceive[c] < ModelSize)
      => toSend[c] = 0 /\ buffer[c] = 0

\* A run that ends before its time limit has seen the whole model of every
\* client of the round come back: the count of finished clients counts nobody
\* twice and nobody early (ReceivedDataCallback, HasAllClientsFinishedFirstCycle).
FinishedMeansUploaded ==
  phase = "finished" =>
    \A c \in inRound : conn[c] = "open" /\ toReceive[c] = 0

\* The server will go on sending to c: a call of SendModel is scheduled, or one
\* is due when a packet is acknowledged.
GoesOn(c) ==
  \/ \E i \in DOMAIN events : events[i] = c
  \/ ready[c] /\ buffer[c] > 0

\* With a single client in the round the server never stops half-way, though
\* its callback is never taken back and m_sendEvent tells nothing about sockets.
LoneSenderNeverStalls ==
  \A c \in Clients :
    phase = "running" /\ inRound = {c} /\ conn[c] = "open" /\ toSend[c] > 0
      => GoesOn(c)

\* "If not, wait for data ready callback" (SendModel): whoever waits for a
\* callback gets one, however many clients there are.
NoStalledSender ==
  \A c \in Clients :
    phase = "running" /\ conn[c] = "open" /\ toSend[c] > 0 => GoesOn(c)
=============================================================================
