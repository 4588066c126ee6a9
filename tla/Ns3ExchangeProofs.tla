------------------------- MODULE Ns3ExchangeProofs -------------------------
(***************************************************************************)
(* Theorems about Ns3Exchange, for any clients, any size of the model and  *)
(* any send buffer.                                                        *)
(***************************************************************************)
EXTENDS Ns3Exchange, SequenceTheorems, FiniteSetTheorems, TLAPS

-----------------------------------------------------------------------------
(* The inductive invariant                                                 *)

\* What the server's side says of c is all sent and acknowledged.
Drained(c) == toSend[c] = 0 /\ buffer[c] = 0

\* How far client c is, and what the counters of the two ends then have in common.
Absent(c) ==
  /\ conn[c] = "none" /\ Drained(c) /\ toReceive[c] = 0
  /\ cToReceive[c] = 0 /\ cToSend[c] = 0 /\ cBuffer[c] = 0 /\ cTask[c] = "none"
Connected(c) ==
  /\ conn[c] = "client" /\ Drained(c) /\ toReceive[c] = 0
  /\ cToReceive[c] = ModelSize /\ cToSend[c] = 0 /\ cBuffer[c] = 0 /\ cTask[c] = "none"
Downloading(c) ==
  /\ conn[c] = "open" /\ toReceive[c] = ModelSize
  /\ cToReceive[c] > 0 /\ toSend[c] + buffer[c] = cToReceive[c]
  /\ cToSend[c] = 0 /\ cBuffer[c] = 0 /\ cTask[c] = "none"
Computing(c) ==
  /\ conn[c] = "open" /\ Drained(c) /\ toReceive[c] = ModelSize
  /\ cToReceive[c] = 0 /\ cToSend[c] = 0 /\ cBuffer[c] = 0 /\ cTask[c] = "compute"
Uploading(c) ==
  /\ conn[c] = "open" /\ Drained(c)
  /\ cToReceive[c] = 0 /\ cToSend[c] > 0 /\ toReceive[c] = cToSend[c] + cBuffer[c]
  /\ cTask[c] \in {"event", "callback"}
Rearmed(c) ==
  /\ conn[c] = "open" /\ Drained(c)
  /\ cToReceive[c] = ModelSize /\ cToSend[c] = 0 /\ toReceive[c] = cBuffer[c]
  /\ cTask[c] = "none"

Stage(c) ==
  Absent(c) \/ Connected(c) \/ Downloading(c) \/ Computing(c) \/ Uploading(c) \/ Rearmed(c)

\* Who has connected takes part, and calls are scheduled for open sockets only.
Taking ==
  /\ \A c \in Clients : conn[c] # "none" => c \in inRound
  /\ phase = "idle" => \A c \in Clients : conn[c] = "none"
  /\ \A i \in DOMAIN events : conn[events[i]] = "open"

\* The clients whose whole model has come back.
Done == {c \in Clients : conn[c] = "open" /\ toReceive[c] = 0}

Counted ==
  /\ phase \in {"idle", "running"} => firstDone = Cardinality(Done)
  /\ phase = "finished" => inRound \subseteq Done

\* A server that sends to a single client goes on.
Lone ==
  \A c \in Clients : inRound = {c} /\ conn[c] = "open" /\ toSend[c] > 0 => GoesOn(c)

ExchangeInv ==
  ExchangeTypeOK /\ (\A c \in Clients : Stage(c)) /\ Taking /\ Counted /\ Lone

-----------------------------------------------------------------------------
(* The two ways of sending                                                 *)

\* SendModel moves a packet into the buffer, or none, and concerns nobody else.
\* What is left to be sent will be.
LEMMA SendModelProperties ==
  ASSUME NEW c \in Clients,
         NEW left \in [Clients -> 0..ModelSize],
         NEW buf \in [Clients -> 0..SendBuffer],
         NEW pending \in Seq(Clients),
         ready \in [Clients -> BOOLEAN],
         \A i, j \in DOMAIN pending : pending[i] = pending[j] => i = j,
         \A i \in DOMAIN pending : pending[i] # c,
         SendModel(c, left, buf, pending)
  PROVE  /\ toSend' \in [Clients -> 0..ModelSize] /\ buffer' \in [Clients -> 0..SendBuffer]
         /\ ready' \in [Clients -> BOOLEAN] /\ events' \in Seq(Clients)
         /\ \A i, j \in DOMAIN events' : events'[i] = events'[j] => i = j
         /\ \A i \in DOMAIN events' : events'[i] = c \/ \E j \in DOMAIN pending : events'[i] = pending[j]
         /\ toSend'[c] + buffer'[c] = left[c] + buf[c]
         /\ \A d \in Clients : d # c => toSend'[d] = left[d] /\ buffer'[d] = buf[d]
         /\ toSend'[c] > 0 => (\E i \in DOMAIN events' : events'[i] = c) \/ (ready'[c] /\ buffer'[c] > 0)
<1> USE SizesAssumption
<1>1. /\ left[c] \in 0..ModelSize /\ buf[c] \in 0..SendBuffer /\ SendBuffer \in Nat \ {0}
      /\ ModelSize \in Nat /\ Len(pending) \in Nat /\ DOMAIN pending = 1..Len(pending)
  BY LenProperties
<1>2. CASE buf[c] = SendBuffer \/ left[c] = 0
  <2>1. /\ toSend' = left /\ buffer' = buf /\ events' = pending
        /\ ready' \in [Clients -> BOOLEAN]
        /\ left[c] > 0 => ready'[c]
    <3>1. /\ toSend' = left /\ buffer' = buf /\ events' = pending
          /\ \/ ready' = [ready EXCEPT ![c] = TRUE]
             \/ left[c] = 0 /\ ready' = ready
      BY <1>1, <1>2 DEF SendModel
    <3>2. CASE ready' = [ready EXCEPT ![c] = TRUE]
      BY <3>1, <3>2
    <3>3. CASE left[c] = 0 /\ ready' = ready
      BY <1>1, <3>1, <3>3
    <3> QED BY <3>1, <3>2, <3>3
  <2>2. left[c] > 0 => buf[c] > 0
    BY <1>1, <1>2
  <2> QED BY <2>1, <2>2
<1>3. CASE buf[c] < SendBuffer /\ left[c] > 0
  <2>1. /\ toSend' = [left EXCEPT ![c] = left[c] - 1]
        /\ buffer' = [buf EXCEPT ![c] = buf[c] + 1]
        /\ events' = IF left[c] > 1 THEN Append(pending, c) ELSE pending
        /\ ready' = ready
    BY <1>1, <1>3 DEF SendModel
  <2>2. left[c] - 1 \in 0..ModelSize /\ buf[c] + 1 \in 0..SendBuffer
    BY <1>1, <1>3
  <2>3. /\ toSend' \in [Clients -> 0..ModelSize] /\ buffer' \in [Clients -> 0..SendBuffer]
        /\ \A d \in Clients : d # c => toSend'[d] = left[d] /\ buffer'[d] = buf[d]
        /\ toSend'[c] = left[c] - 1 /\ buffer'[c] = buf[c] + 1
    BY <2>1, <2>2
  <2>4. CASE left[c] > 1
    <3>1. /\ events' \in Seq(Clients) /\ DOMAIN events' = 1..(Len(pending) + 1)
          /\ \A i \in 1..Len(pending) : events'[i] = pending[i]
          /\ events'[Len(pending) + 1] = c
      BY <1>1, <2>1, <2>4, AppendProperties, LenProperties
    <3>2. \A i \in DOMAIN events' : i \in 1..Len(pending) \/ i = Len(pending) + 1
      BY <1>1, <3>1
    <3>3. Len(pending) + 1 \in DOMAIN events'
      BY <1>1, <3>1
    <3>4. \A i, j \in DOMAIN events' : events'[i] = events'[j] => i = j
      BY <1>1, <3>1, <3>2
    <3>5. \A i \in DOMAIN events' : events'[i] = c \/ \E j \in DOMAIN pending : events'[i] = pending[j]
      BY <1>1, <3>1, <3>2
    <3>6. toSend'[c] + buffer'[c] = left[c] + buf[c]
      BY <1>1, <2>3
    <3> QED BY <2>1, <2>3, <3>1, <3>3, <3>4, <3>5, <3>6
  <2>5. CASE ~(left[c] > 1)
    <3>1. events' = pending /\ ~(toSend'[c] > 0) /\ toSend'[c] + buffer'[c] = left[c] + buf[c]
      BY <1>1, <2>1, <2>3, <2>5
    <3> QED BY <2>1, <2>3, <3>1
  <2> QED BY <2>4, <2>5
<1>4. buf[c] = SendBuffer \/ left[c] = 0 \/ (buf[c] < SendBuffer /\ left[c] > 0)
  BY <1>1
<1> QED BY <1>2, <1>3, <1>4

\* So does ClientSend; the last packet arms the client again.
LEMMA ClientSendProperties ==
  ASSUME NEW c \in Clients,
         NEW left \in [Clients -> 0..ModelSize],
         NEW buf \in [Clients -> 0..SendBuffer],
         cTask \in [Clients -> {"none", "compute", "event", "callback"}],
         cToReceive \in [Clients -> 0..ModelSize],
         ClientSend(c, left, buf)
  PROVE  /\ cToSend' \in [Clients -> 0..ModelSize] /\ cBuffer' \in [Clients -> 0..SendBuffer]
         /\ cTask' \in [Clients -> {"none", "compute", "event", "callback"}]
         /\ cToReceive' \in [Clients -> 0..ModelSize]
         /\ cToSend'[c] + cBuffer'[c] = left[c] + buf[c]
         /\ \A d \in Clients : d # c => /\ cToSend'[d] = left[d] /\ cBuffer'[d] = buf[d]
                                        /\ cTask'[d] = cTask[d] /\ cToReceive'[d] = cToReceive[d]
         /\ \/ cToSend'[c] > 0 /\ cTask'[c] \in {"event", "callback"} /\ cToReceive'[c] = cToReceive[c]
            \/ cToSend'[c] = 0 /\ cTask'[c] = "none" /\ cToReceive'[c] = ModelSize
<1> USE SizesAssumption
<1>1. /\ left[c] \in 0..ModelSize /\ buf[c] \in 0..SendBuffer /\ SendBuffer \in Nat
      /\ ModelSize \in Nat /\ ModelSize \in 0..ModelSize
  OBVIOUS
<1>2. CASE buf[c] = SendBuffer
  BY <1>1, <1>2 DEF ClientSend
<1>3. CASE buf[c] # SendBuffer
  <2>1. /\ left[c] > 0 /\ buf[c] < SendBuffer
        /\ cToSend' = [left EXCEPT ![c] = left[c] - 1]
        /\ cBuffer' = [buf EXCEPT ![c] = buf[c] + 1]
        /\ cTask' = [cTask EXCEPT ![c] = IF left[c] > 1 THEN "event" ELSE "none"]
        /\ cToReceive' = IF left[c] > 1 THEN cToReceive
                                        ELSE [cToReceive EXCEPT ![c] = ModelSize]
    BY <1>3 DEF ClientSend
  <2>2. left[c] - 1 \in 0..ModelSize /\ buf[c] + 1 \in 0..SendBuffer
        /\ (left[c] - 1) + (buf[c] + 1) = left[c] + buf[c]
    BY <1>1, <2>1
  <2>3. /\ cToSend' \in [Clients -> 0..ModelSize] /\ cBuffer' \in [Clients -> 0..SendBuffer]
        /\ cToSend'[c] = left[c] - 1 /\ cBuffer'[c] = buf[c] + 1
        /\ \A d \in Clients : d # c => cToSend'[d] = left[d] /\ cBuffer'[d] = buf[d]
    BY <2>1, <2>2
  <2>4. CASE left[c] > 1
    BY <1>1, <2>1, <2>2, <2>3, <2>4
  <2>5. CASE ~(left[c] > 1)
    <3>1. left[c] - 1 = 0
      BY <1>1, <2>1, <2>5
    <3> QED BY <1>1, <2>1, <2>2, <2>3, <2>5, <3>1
  <2> QED BY <2>4, <2>5
<1> QED BY <1>2, <1>3

-----------------------------------------------------------------------------
(* The invariant                                                           *)

\* Nobody has come to an end who has not begun.
LEMMA ExchangeInvInit == ExchangeInit => ExchangeInv
<1> SUFFICES ASSUME ExchangeInit PROVE ExchangeInv
  OBVIOUS
<1> USE SizesAssumption DEF ExchangeInit, Zero
<1>1. ExchangeTypeOK
  BY EmptySeq DEF ExchangeTypeOK
<1>2. \A c \in Clients : Stage(c)
  BY DEF Stage, Absent, Drained
<1>3. Taking /\ Lone
  BY DEF Taking, Lone
<1>4. Done = {}
  BY DEF Done
<1>5. Counted
  BY <1>4, FS_EmptySet DEF Counted
<1> QED BY <1>1, <1>2, <1>3, <1>5 DEF ExchangeInv

\* A client is as far as it was if nothing of its has changed.
LEMMA StageFrame ==
  ASSUME NEW d \in Clients, Stage(d),
         conn'[d] = conn[d], toSend'[d] = toSend[d], buffer'[d] = buffer[d],
         toReceive'[d] = toReceive[d], cToReceive'[d] = cToReceive[d],
         cToSend'[d] = cToSend[d], cBuffer'[d] = cBuffer[d], cTask'[d] = cTask[d]
  PROVE  Stage(d)'
BY DEF Stage, Absent, Connected, Downloading, Computing, Uploading, Rearmed, Drained

\* Of a client's stages only downloading has packets of the server's under way, and
\* only the last two have any of the client's.
LEMMA StageBounds ==
  ASSUME ExchangeTypeOK, NEW c \in Clients, Stage(c)
  PROVE  /\ toSend[c] + buffer[c] > 0 => Downloading(c)
         /\ cBuffer[c] > 0 => (Uploading(c) \/ Rearmed(c)) /\ toReceive[c] > 0
<1>1. /\ toSend[c] \in Nat /\ buffer[c] \in Nat /\ cBuffer[c] \in Nat
      /\ cToSend[c] \in Nat /\ toReceive[c] \in Nat
  BY SizesAssumption DEF ExchangeTypeOK
<1> QED BY <1>1 DEF Stage, Absent, Connected, Downloading, Computing, Uploading, Rearmed, Drained

\* Beginning and end of a run.
LEMMA RunStep ==
  ASSUME ExchangeInv,
         TimeLimit \/ CollectStats \/ \E S \in SUBSET Clients : StartExperiment(S)
  PROVE  ExchangeInv'
<1> USE SizesAssumption DEF serverVars, clientVars
<1>1. CASE TimeLimit \/ \E S \in SUBSET Clients : StartExperiment(S)
  <2>1. /\ UNCHANGED <<serverVars, clientVars>>
        /\ \/ phase = "running" /\ phase' = "expired" /\ inRound' = inRound
           \/ phase = "idle" /\ phase' = "running" /\ inRound' \subseteq Clients
    BY <1>1 DEF TimeLimit, StartExperiment
  <2>2. ExchangeTypeOK'
    BY <2>1 DEF ExchangeInv, ExchangeTypeOK
  <2>3. \A c \in Clients : Stage(c)'
    BY <2>1, StageFrame DEF ExchangeInv
  <2>4. Taking' /\ Lone'
    BY <2>1 DEF ExchangeInv, Taking, Lone, GoesOn
  <2>5. Counted'
    BY <2>1 DEF ExchangeInv, Counted, Done
  <2> QED BY <2>2, <2>3, <2>4, <2>5 DEF ExchangeInv
<1>2. CASE CollectStats
  <2>1. ExchangeTypeOK'
    BY <1>2, EmptySeq DEF ExchangeInv, ExchangeTypeOK, CollectStats, Zero
  <2>2. \A c \in Clients : Stage(c)'
    BY <1>2 DEF CollectStats, Zero, Stage, Absent, Drained
  <2>3. Taking' /\ Lone'
    BY <1>2 DEF CollectStats, Taking, Lone
  <2>4. Done' = {}
    BY <1>2 DEF CollectStats, Done
  <2>5. Counted'
    BY <1>2, <2>4, FS_EmptySet DEF CollectStats, Counted
  <2> QED BY <2>1, <2>2, <2>3, <2>5 DEF ExchangeInv
<1> QED BY <1>1, <1>2

LEMMA ConnectStep ==
  ASSUME ExchangeInv, NEW c \in Clients, ConnectionSucceeded(c)
  PROVE  ExchangeInv'
<1> USE SizesAssumption
<1>1. /\ UNCHANGED <<phase, inRound, toSend, toReceive, buffer, ready, events, firstDone,
                     cBuffer, cTask>>
      /\ conn' = [conn EXCEPT ![c] = "client"]
      /\ cToReceive' = [cToReceive EXCEPT ![c] = ModelSize]
      /\ cToSend' = [cToSend EXCEPT ![c] = 0]
      /\ phase = "running" /\ c \in inRound /\ conn[c] = "none"
  BY DEF ConnectionSucceeded
<1>2. ExchangeTypeOK'
  BY <1>1 DEF ExchangeInv, ExchangeTypeOK
<1>3. Absent(c)
  BY <1>1 DEF ExchangeInv, Stage, Connected, Downloading, Computing, Uploading, Rearmed
<1>4. Stage(c)'
  BY <1>1, <1>3 DEF ExchangeInv, ExchangeTypeOK, Stage, Absent, Connected, Drained
<1>5. ASSUME NEW d \in Clients, d # c PROVE Stage(d)'
  BY <1>1, <1>5, StageFrame DEF ExchangeInv, ExchangeTypeOK
<1>6. Taking'
  <2>1. ASSUME NEW i \in DOMAIN events PROVE conn'[events[i]] = "open"
    <3>1. events[i] \in Clients /\ conn[events[i]] = "open"
      BY ElementOfSeq, LenProperties DEF ExchangeInv, ExchangeTypeOK, Taking
    <3> QED BY <1>1, <3>1 DEF ExchangeInv, ExchangeTypeOK
  <2>2. \A d \in Clients : conn'[d] # "none" => d \in inRound
    BY <1>1 DEF ExchangeInv, ExchangeTypeOK, Taking
  <2> QED BY <1>1, <2>1, <2>2 DEF Taking
<1>7. Done' = Done
  BY <1>1 DEF ExchangeInv, ExchangeTypeOK, Done
<1>8. Counted'
  BY <1>1, <1>7 DEF ExchangeInv, Counted
<1>9. Lone'
  BY <1>1, <1>3 DEF ExchangeInv, ExchangeTypeOK, Lone, GoesOn, Absent, Drained
<1> QED BY <1>2, <1>4, <1>5, <1>6, <1>8, <1>9 DEF ExchangeInv

\* The server sends to c, by whichever way it comes to do so: the counters of c have
\* the same sum as before.
LEMMA SendStep ==
  ASSUME ExchangeInv, NEW c \in Clients,
         UNCHANGED <<phase, inRound, firstDone>>,
         c \in inRound, phase # "idle",
         toSend' \in [Clients -> 0..ModelSize], buffer' \in [Clients -> 0..SendBuffer],
         ready' \in [Clients -> BOOLEAN], events' \in Seq(Clients),
         \A i, j \in DOMAIN events' : events'[i] = events'[j] => i = j,
         \A i \in DOMAIN events' : events'[i] = c \/ \E j \in DOMAIN events : events'[i] = events[j],
         \A d \in Clients : d # c => toSend'[d] = toSend[d] /\ buffer'[d] = buffer[d],
         conn' = [conn EXCEPT ![c] = "open"],
         toReceive' \in [Clients -> 0..ModelSize],
         \A d \in Clients : d # c => toReceive'[d] = toReceive[d],
         cToReceive' \in [Clients -> 0..ModelSize],
         cTask' \in [Clients -> {"none", "compute", "event", "callback"}],
         \A d \in Clients : d # c => cToReceive'[d] = cToReceive[d] /\ cTask'[d] = cTask[d],
         UNCHANGED <<cToSend, cBuffer>>,
         Stage(c)',
         toReceive'[c] = 0 <=> toReceive[c] = 0 /\ conn[c] = "open",
         inRound = {c} /\ toSend'[c] > 0 => GoesOn(c)'
  PROVE  ExchangeInv'
<1> USE SizesAssumption
<1>1. ExchangeTypeOK'
  BY DEF ExchangeInv, ExchangeTypeOK
<1>2. ASSUME NEW d \in Clients, d # c PROVE Stage(d)'
  BY <1>2, StageFrame DEF ExchangeInv, ExchangeTypeOK
<1>3. Taking'
  <2>1. ASSUME NEW i \in DOMAIN events' PROVE conn'[events'[i]] = "open"
    <3>1. CASE events'[i] = c
      BY <3>1 DEF ExchangeInv, ExchangeTypeOK
    <3>2. CASE \E j \in DOMAIN events : events'[i] = events[j]
      <4>1. PICK j \in DOMAIN events : events'[i] = events[j]
        BY <3>2
      <4>2. events[j] \in Clients /\ conn[events[j]] = "open"
        BY ElementOfSeq, LenProperties DEF ExchangeInv, ExchangeTypeOK, Taking
      <4> QED BY <4>1, <4>2 DEF ExchangeInv, ExchangeTypeOK
    <3> QED BY <3>1, <3>2
  <2>2. \A d \in Clients : conn'[d] # "none" => d \in inRound
    BY DEF ExchangeInv, ExchangeTypeOK, Taking
  <2> QED BY <2>1, <2>2 DEF Taking
<1>4. Done' = Done
  BY DEF ExchangeInv, ExchangeTypeOK, Done
<1>5. Counted'
  BY <1>4 DEF ExchangeInv, Counted
<1>6. Lone'
  BY DEF ExchangeInv, Lone
<1> QED BY <1>1, <1>2, <1>3, <1>5, <1>6 DEF ExchangeInv

LEMMA AcceptStep ==
  ASSUME ExchangeInv, NEW c \in Clients, Accept(c)
  PROVE  ExchangeInv'
<1> USE SizesAssumption DEF clientVars
<1> DEFINE left == [toSend EXCEPT ![c] = ModelSize]
<1>1. /\ ExchangeTypeOK /\ Taking /\ phase = "running" /\ conn[c] = "client"
      /\ conn' = [conn EXCEPT ![c] = "open"]
      /\ toReceive' = [toReceive EXCEPT ![c] = ModelSize]
      /\ SendModel(c, left, buffer, events)
      /\ UNCHANGED <<phase, inRound, firstDone, clientVars>>
  BY DEF Accept, ExchangeInv
<1>2. Connected(c) /\ c \in inRound
  BY <1>1 DEF ExchangeInv, Taking, Stage, Absent, Downloading, Computing, Uploading, Rearmed
<1>3. left \in [Clients -> 0..ModelSize] /\ left[c] = ModelSize
      /\ \A d \in Clients : d # c => left[d] = toSend[d]
  BY <1>1 DEF ExchangeTypeOK
<1>4. \A i \in DOMAIN events : events[i] # c
  BY <1>1 DEF Taking
<1> HIDE DEF left
<1>5. /\ toSend' \in [Clients -> 0..ModelSize] /\ buffer' \in [Clients -> 0..SendBuffer]
      /\ ready' \in [Clients -> BOOLEAN] /\ events' \in Seq(Clients)
      /\ \A i, j \in DOMAIN events' : events'[i] = events'[j] => i = j
      /\ \A i \in DOMAIN events' : events'[i] = c \/ \E j \in DOMAIN events : events'[i] = events[j]
      /\ toSend'[c] + buffer'[c] = left[c] + buffer[c]
      /\ \A d \in Clients : d # c => toSend'[d] = left[d] /\ buffer'[d] = buffer[d]
      /\ toSend'[c] > 0 => (\E i \in DOMAIN events' : events'[i] = c) \/ (ready'[c] /\ buffer'[c] > 0)
  BY <1>1, <1>3, <1>4, SendModelProperties DEF ExchangeTypeOK
<1>6. Stage(c)'
  <2>1. toSend'[c] + buffer'[c] = ModelSize /\ conn'[c] = "open" /\ toReceive'[c] = ModelSize
    BY <1>1, <1>2, <1>3, <1>5 DEF Connected, Drained, ExchangeTypeOK
  <2> QED BY <1>1, <1>2, <2>1 DEF Stage, Downloading, Connected
<1>7. toReceive'[c] # 0 /\ toReceive' \in [Clients -> 0..ModelSize]
      /\ \A d \in Clients : d # c => toReceive'[d] = toReceive[d]
  BY <1>1 DEF ExchangeTypeOK
<1>8. \A d \in Clients : d # c => toSend'[d] = toSend[d] /\ buffer'[d] = buffer[d]
  BY <1>3, <1>5
<1>9. inRound = {c} /\ toSend'[c] > 0 => GoesOn(c)'
  BY <1>5 DEF GoesOn
<1> QED BY <1>1, <1>2, <1>5, <1>6, <1>7, <1>8, <1>9, SendStep DEF ExchangeTypeOK

LEMMA SendEventStep ==
  ASSUME ExchangeInv, SendEvent
  PROVE  ExchangeInv'
<1> USE SizesAssumption DEF clientVars
<1>0. PICK c \in Clients : c = Head(events)
  BY HeadTailProperties DEF SendEvent, ExchangeInv, ExchangeTypeOK
<1>1. /\ ExchangeTypeOK /\ Taking /\ phase = "running" /\ events # <<>>
      /\ SendModel(c, toSend, buffer, Tail(events))
      /\ UNCHANGED <<phase, inRound, conn, toReceive, firstDone, clientVars>>
  BY <1>0 DEF SendEvent, ExchangeInv
<1>2. /\ c \in Clients /\ c = events[1] /\ 1 \in DOMAIN events
      /\ Tail(events) \in Seq(Clients) /\ DOMAIN Tail(events) = 1..(Len(events) - 1)
      /\ \A i \in 1..(Len(events) - 1) : Tail(events)[i] = events[i + 1]
      /\ Len(events) \in Nat /\ DOMAIN events = 1..Len(events)
  BY <1>1, <1>0, HeadTailProperties, LenProperties, EmptySeq, ElementOfSeq DEF ExchangeTypeOK
<1>3. conn[c] = "open" /\ c \in inRound
  BY <1>1, <1>2 DEF Taking
<1>4. \A i \in DOMAIN Tail(events) : i + 1 \in DOMAIN events /\ Tail(events)[i] = events[i + 1]
  BY <1>2
<1>5. /\ \A i, j \in DOMAIN Tail(events) : Tail(events)[i] = Tail(events)[j] => i = j
      /\ \A i \in DOMAIN Tail(events) : Tail(events)[i] # c
  <2>1. \A i, j \in DOMAIN events : events[i] = events[j] => i = j
    BY <1>1 DEF ExchangeTypeOK
  <2>2. \A i \in DOMAIN Tail(events) : i \in Nat /\ i > 0
    BY <1>2
  <2> QED BY <1>2, <1>4, <2>1, <2>2
<1>6. /\ toSend' \in [Clients -> 0..ModelSize] /\ buffer' \in [Clients -> 0..SendBuffer]
      /\ ready' \in [Clients -> BOOLEAN] /\ events' \in Seq(Clients)
      /\ \A i, j \in DOMAIN events' : events'[i] = events'[j] => i = j
      /\ \A i \in DOMAIN events' :
           events'[i] = c \/ \E j \in DOMAIN Tail(events) : events'[i] = Tail(events)[j]
      /\ toSend'[c] + buffer'[c] = toSend[c] + buffer[c]
      /\ \A d \in Clients : d # c => toSend'[d] = toSend[d] /\ buffer'[d] = buffer[d]
      /\ toSend'[c] > 0 => (\E i \in DOMAIN events' : events'[i] = c) \/ (ready'[c] /\ buffer'[c] > 0)
  BY <1>1, <1>2, <1>5, SendModelProperties DEF ExchangeTypeOK
<1>7. \A i \in DOMAIN events' : events'[i] = c \/ \E j \in DOMAIN events : events'[i] = events[j]
  BY <1>4, <1>6
<1>8. Stage(c)'
  <2>1. Stage(c)
    BY <1>2 DEF ExchangeInv
  <2>2. /\ toSend[c] \in Nat /\ buffer[c] \in Nat /\ toSend'[c] \in Nat /\ buffer'[c] \in Nat
    BY <1>1, <1>2, <1>6 DEF ExchangeTypeOK
  <2>3. Drained(c) => Drained(c)'
    BY <1>6, <2>2 DEF Drained
  <2> QED BY <1>1, <1>3, <1>6, <2>1, <2>3
          DEF Stage, Absent, Connected, Downloading, Computing, Uploading, Rearmed
<1>9. conn' = [conn EXCEPT ![c] = "open"]
  BY <1>1, <1>2, <1>3 DEF ExchangeTypeOK
<1>10. inRound = {c} /\ toSend'[c] > 0 => GoesOn(c)'
  BY <1>6 DEF GoesOn
<1> QED BY <1>1, <1>2, <1>3, <1>6, <1>7, <1>8, <1>9, <1>10, SendStep DEF ExchangeTypeOK

LEMMA DownloadStep ==
  ASSUME ExchangeInv, NEW c \in Clients, Download(c)
  PROVE  ExchangeInv'
<1> USE SizesAssumption
<1> DEFINE buf == [buffer EXCEPT ![c] = buffer[c] - 1]
<1>1. /\ ExchangeTypeOK /\ Taking /\ Lone /\ phase = "running" /\ buffer[c] > 0
      /\ cToReceive' = [cToReceive EXCEPT ![c] = cToReceive[c] - 1]
      /\ cTask' = IF cToReceive[c] = 1 THEN [cTask EXCEPT ![c] = "compute"] ELSE cTask
      /\ ServerHandleSend(c, buf)
      /\ UNCHANGED <<phase, inRound, conn, toReceive, firstDone, cToSend, cBuffer>>
  BY DEF Download, HandleRead, ExchangeInv
<1>2. Downloading(c) /\ c \in inRound
  <2>1. toSend[c] \in Nat /\ buffer[c] \in Nat /\ toSend[c] + buffer[c] > 0
    BY <1>1 DEF ExchangeTypeOK
  <2> QED BY <1>1, <2>1, StageBounds DEF ExchangeInv, Taking, Downloading
<1>3. /\ buf \in [Clients -> 0..SendBuffer] /\ buf[c] = buffer[c] - 1
      /\ \A d \in Clients : d # c => buf[d] = buffer[d]
      /\ buffer[c] \in Nat /\ toSend[c] \in Nat /\ cToReceive[c] \in 0..ModelSize
  BY <1>1 DEF ExchangeTypeOK
<1> HIDE DEF buf
<1>4. /\ toSend' \in [Clients -> 0..ModelSize] /\ buffer' \in [Clients -> 0..SendBuffer]
      /\ ready' \in [Clients -> BOOLEAN] /\ events' \in Seq(Clients)
      /\ \A i, j \in DOMAIN events' : events'[i] = events'[j] => i = j
      /\ \A i \in DOMAIN events' : events'[i] = c \/ \E j \in DOMAIN events : events'[i] = events[j]
      /\ toSend'[c] + buffer'[c] = toSend[c] + buf[c]
      /\ \A d \in Clients : d # c => toSend'[d] = toSend[d] /\ buffer'[d] = buf[d]
      /\ inRound = {c} /\ toSend'[c] > 0 => GoesOn(c)'
  <2>1. CASE ready[c] /\ events = <<>>
    <3>1. SendModel(c, toSend, buf, events)
      BY <1>1, <2>1 DEF ServerHandleSend
    <3>2. \A i \in DOMAIN events : FALSE
      BY <2>1
    <3>3. /\ ready \in [Clients -> BOOLEAN] /\ events \in Seq(Clients)
          /\ toSend \in [Clients -> 0..ModelSize]
      BY <1>1 DEF ExchangeTypeOK
    <3>4. \A i, j \in DOMAIN events : events[i] = events[j] => i = j
      BY <3>2
    <3>5. /\ toSend' \in [Clients -> 0..ModelSize] /\ buffer' \in [Clients -> 0..SendBuffer]
          /\ ready' \in [Clients -> BOOLEAN] /\ events' \in Seq(Clients)
          /\ \A i, j \in DOMAIN events' : events'[i] = events'[j] => i = j
          /\ \A i \in DOMAIN events' :
               events'[i] = c \/ \E j \in DOMAIN events : events'[i] = events[j]
          /\ toSend'[c] + buffer'[c] = toSend[c] + buf[c]
          /\ \A d \in Clients : d # c => toSend'[d] = toSend[d] /\ buffer'[d] = buf[d]
          /\ toSend'[c] > 0 => (\E i \in DOMAIN events' : events'[i] = c) \/ (ready'[c] /\ buffer'[c] > 0)
      BY <1>3, <3>1, <3>2, <3>3, <3>4, SendModelProperties
    <3>6. inRound = {c} /\ toSend'[c] > 0 => GoesOn(c)'
      BY <3>5 DEF GoesOn
    <3> QED BY <3>5, <3>6
  <2>2. CASE ~(ready[c] /\ events = <<>>)
    <3>1. buffer' = buf /\ UNCHANGED <<toSend, ready, events>>
      BY <1>1, <2>2 DEF ServerHandleSend
    <3>2. ASSUME inRound = {c}, toSend[c] > 0 PROVE \E i \in DOMAIN events : events[i] = c
      <4>1. CASE events # <<>>
        <5>1. 1 \in DOMAIN events /\ events[1] \in Clients
          BY <1>1, <4>1, LenProperties, EmptySeq, ElementOfSeq DEF ExchangeTypeOK
        <5>2. events[1] = c
          BY <1>1, <3>2, <5>1 DEF Taking
        <5> QED BY <5>1, <5>2
      <4>2. CASE ~ready[c]
        BY <1>1, <1>2, <3>2, <4>2 DEF Lone, GoesOn, Downloading
      <4> QED BY <2>2, <4>1, <4>2
    <3>3. inRound = {c} /\ toSend'[c] > 0 => GoesOn(c)'
      BY <3>1, <3>2 DEF GoesOn
    <3> QED BY <1>1, <1>3, <3>1, <3>3 DEF ExchangeTypeOK
  <2> QED BY <2>1, <2>2
<1>5. cToReceive[c] - 1 \in 0..ModelSize /\ cToReceive[c] \in Nat
  BY <1>2, <1>3 DEF Downloading
<1>6. /\ cToReceive' \in [Clients -> 0..ModelSize] /\ cToReceive'[c] = cToReceive[c] - 1
      /\ cTask' \in [Clients -> {"none", "compute", "event", "callback"}]
      /\ cTask'[c] = IF cToReceive[c] = 1 THEN "compute" ELSE cTask[c]
      /\ \A d \in Clients : d # c => cToReceive'[d] = cToReceive[d] /\ cTask'[d] = cTask[d]
  BY <1>1, <1>5 DEF ExchangeTypeOK
<1>7. Stage(c)'
  <2>1. /\ toSend'[c] \in Nat /\ buffer'[c] \in Nat
        /\ toSend'[c] + buffer'[c] = cToReceive'[c]
    <3>1. toSend[c] + buffer[c] = cToReceive[c]
      BY <1>2 DEF Downloading
    <3>2. toSend'[c] \in Nat /\ buffer'[c] \in Nat
      BY <1>4
    <3>3. toSend'[c] + buffer'[c] = toSend[c] + buf[c]
      BY <1>4
    <3>4. /\ buf[c] = buffer[c] - 1 /\ cToReceive'[c] = cToReceive[c] - 1
          /\ buffer[c] \in Nat /\ toSend[c] \in Nat
      BY <1>3, <1>6
    <3> QED BY <3>1, <3>2, <3>3, <3>4
  <2>2. CASE cToReceive[c] = 1
    <3>1. cToReceive'[c] = 0 /\ toSend'[c] = 0 /\ buffer'[c] = 0
      BY <1>6, <2>1, <2>2
    <3> QED BY <1>1, <1>2, <1>6, <2>2, <3>1 DEF Stage, Downloading, Computing, Drained
  <2>3. CASE cToReceive[c] # 1
    <3>1. cToReceive'[c] > 0
      BY <1>2, <1>5, <1>6, <2>3 DEF Downloading
    <3> QED BY <1>1, <1>2, <1>6, <2>1, <2>3, <3>1 DEF Stage, Downloading
  <2> QED BY <2>2, <2>3
<1>8. conn' = [conn EXCEPT ![c] = "open"]
  BY <1>1, <1>2 DEF ExchangeTypeOK, Downloading
<1>9. toReceive'[c] = 0 <=> toReceive[c] = 0 /\ conn[c] = "open"
  BY <1>1, <1>2 DEF Downloading
<1>10. \A d \in Clients : d # c => toSend'[d] = toSend[d] /\ buffer'[d] = buffer[d]
  BY <1>3, <1>4
<1> QED BY <1>1, <1>2, <1>4, <1>6, <1>7, <1>8, <1>9, <1>10, SendStep DEF ExchangeTypeOK

\* The client sends, by whichever way it comes to do so, and no packet arrives.
LEMMA ClientSendStep ==
  ASSUME ExchangeInv, NEW c \in Clients, NEW left \in [Clients -> 0..ModelSize],
         ClientSend(c, left, cBuffer), phase = "running",
         UNCHANGED <<phase, inRound, serverVars>>,
         \/ Computing(c) /\ left[c] = ModelSize
         \/ Uploading(c) /\ left[c] = cToSend[c],
         \A d \in Clients : d # c => left[d] = cToSend[d]
  PROVE  ExchangeInv'
<1> USE SizesAssumption DEF serverVars
<1>1. /\ cToSend' \in [Clients -> 0..ModelSize] /\ cBuffer' \in [Clients -> 0..SendBuffer]
      /\ cTask' \in [Clients -> {"none", "compute", "event", "callback"}]
      /\ cToReceive' \in [Clients -> 0..ModelSize]
      /\ cToSend'[c] + cBuffer'[c] = left[c] + cBuffer[c]
      /\ \A d \in Clients : d # c => /\ cToSend'[d] = left[d] /\ cBuffer'[d] = cBuffer[d]
                                     /\ cTask'[d] = cTask[d] /\ cToReceive'[d] = cToReceive[d]
      /\ \/ cToSend'[c] > 0 /\ cTask'[c] \in {"event", "callback"} /\ cToReceive'[c] = cToReceive[c]
         \/ cToSend'[c] = 0 /\ cTask'[c] = "none" /\ cToReceive'[c] = ModelSize
  BY ClientSendProperties DEF ExchangeInv, ExchangeTypeOK
<1>2. ExchangeTypeOK'
  BY <1>1 DEF ExchangeInv, ExchangeTypeOK
<1>3. Stage(c)'
  <2>1. /\ conn'[c] = "open" /\ Drained(c)' /\ toReceive'[c] = left[c] + cBuffer[c]
        /\ cToReceive[c] = 0
    BY DEF Computing, Uploading, Drained, ExchangeInv, ExchangeTypeOK
  <2>2. cToSend'[c] \in Nat /\ cBuffer'[c] \in Nat /\ toReceive'[c] = cToSend'[c] + cBuffer'[c]
    BY <1>1, <2>1
  <2>3. cToSend'[c] = 0 => toReceive'[c] = cBuffer'[c]
    BY <2>2
  <2> QED BY <1>1, <2>1, <2>2, <2>3 DEF Stage, Uploading, Rearmed
<1>4. ASSUME NEW d \in Clients, d # c PROVE Stage(d)'
  BY <1>1, <1>4, StageFrame DEF ExchangeInv
<1>5. Taking' /\ Lone'
  BY DEF ExchangeInv, Taking, Lone, GoesOn
<1>6. Counted'
  BY DEF ExchangeInv, Counted, Done
<1> QED BY <1>2, <1>3, <1>4, <1>5, <1>6 DEF ExchangeInv

LEMMA UploadStep ==
  ASSUME ExchangeInv, NEW c \in Clients, Upload(c)
  PROVE  ExchangeInv'
<1> USE SizesAssumption
<1> DEFINE acked == [cBuffer EXCEPT ![c] = cBuffer[c] - 1]
<1>1. /\ ExchangeTypeOK /\ phase = "running" /\ cBuffer[c] > 0
      /\ toReceive' = [toReceive EXCEPT ![c] = toReceive[c] - 1]
      /\ IF toReceive[c] = 1 THEN CycleDone ELSE UNCHANGED <<phase, firstDone>>
      /\ IF cTask[c] = "callback"
         THEN ClientSend(c, cToSend, acked)
         ELSE cBuffer' = acked /\ UNCHANGED <<cToReceive, cToSend, cTask>>
      /\ UNCHANGED <<inRound, conn, toSend, buffer, ready, events>>
  BY DEF Upload, ExchangeInv
<1>2. (Uploading(c) \/ Rearmed(c)) /\ toReceive[c] > 0
  BY <1>1, StageBounds DEF ExchangeInv
<1>3. /\ acked \in [Clients -> 0..SendBuffer] /\ acked[c] = cBuffer[c] - 1
      /\ \A d \in Clients : d # c => acked[d] = cBuffer[d]
      /\ cBuffer[c] \in Nat /\ cToSend[c] \in Nat /\ toReceive[c] \in 0..ModelSize
      /\ toReceive[c] - 1 \in 0..ModelSize
  BY <1>1, <1>2 DEF ExchangeTypeOK
<1>4. /\ toReceive' \in [Clients -> 0..ModelSize] /\ toReceive'[c] = toReceive[c] - 1
      /\ \A d \in Clients : d # c => toReceive'[d] = toReceive[d]
  BY <1>1, <1>3 DEF ExchangeTypeOK
<1> HIDE DEF acked
<1>5. /\ cToSend' \in [Clients -> 0..ModelSize] /\ cBuffer' \in [Clients -> 0..SendBuffer]
      /\ cTask' \in [Clients -> {"none", "compute", "event", "callback"}]
      /\ cToReceive' \in [Clients -> 0..ModelSize]
      /\ cToSend'[c] + cBuffer'[c] = cToSend[c] + acked[c]
      /\ \A d \in Clients : d # c => /\ cToSend'[d] = cToSend[d] /\ cBuffer'[d] = acked[d]
                                     /\ cTask'[d] = cTask[d] /\ cToReceive'[d] = cToReceive[d]
      /\ \/ UNCHANGED <<cToReceive, cToSend, cTask>>
         \/ /\ Uploading(c)
            /\ \/ cToSend'[c] > 0 /\ cTask'[c] \in {"event", "callback"} /\ cToReceive'[c] = cToReceive[c]
               \/ cToSend'[c] = 0 /\ cTask'[c] = "none" /\ cToReceive'[c] = ModelSize
  <2>1. CASE cTask[c] = "callback"
    <3>1. Uploading(c)
      BY <1>2, <2>1 DEF Rearmed
    <3>2. /\ cToSend \in [Clients -> 0..ModelSize] /\ cToReceive \in [Clients -> 0..ModelSize]
          /\ cTask \in [Clients -> {"none", "compute", "event", "callback"}]
          /\ ClientSend(c, cToSend, acked)
      BY <1>1, <2>1 DEF ExchangeTypeOK
    <3>3. /\ cToSend' \in [Clients -> 0..ModelSize] /\ cBuffer' \in [Clients -> 0..SendBuffer]
          /\ cTask' \in [Clients -> {"none", "compute", "event", "callback"}]
          /\ cToReceive' \in [Clients -> 0..ModelSize]
          /\ cToSend'[c] + cBuffer'[c] = cToSend[c] + acked[c]
          /\ \A d \in Clients : d # c => /\ cToSend'[d] = cToSend[d] /\ cBuffer'[d] = acked[d]
                                         /\ cTask'[d] = cTask[d] /\ cToReceive'[d] = cToReceive[d]
          /\ \/ /\ cToSend'[c] > 0 /\ cTask'[c] \in {"event", "callback"}
                /\ cToReceive'[c] = cToReceive[c]
             \/ cToSend'[c] = 0 /\ cTask'[c] = "none" /\ cToReceive'[c] = ModelSize
      BY <1>3, <3>2, ClientSendProperties
    <3> QED BY <3>1, <3>3
  <2>2. CASE cTask[c] # "callback"
    BY <1>1, <1>3, <2>2 DEF ExchangeTypeOK
  <2> QED BY <2>1, <2>2
<1>6. Stage(c)'
  <2>1. /\ conn'[c] = "open" /\ Drained(c)' /\ toReceive[c] = cToSend[c] + cBuffer[c]
    BY <1>1, <1>2, <1>3 DEF Uploading, Rearmed, Drained
  <2>2. cToSend'[c] \in Nat /\ cBuffer'[c] \in Nat /\ toReceive'[c] = cToSend'[c] + cBuffer'[c]
    BY <1>3, <1>4, <1>5, <2>1
  <2>3. cToSend'[c] = 0 => toReceive'[c] = cBuffer'[c]
    BY <2>2
  <2>4. CASE UNCHANGED <<cToReceive, cToSend, cTask>>
    BY <1>2, <2>1, <2>2, <2>3, <2>4 DEF Stage, Uploading, Rearmed
  <2>5. CASE Uploading(c) /\ cToSend'[c] > 0 /\ cTask'[c] \in {"event", "callback"}
             /\ cToReceive'[c] = cToReceive[c]
    BY <2>1, <2>2, <2>5 DEF Stage, Uploading
  <2>6. CASE cToSend'[c] = 0 /\ cTask'[c] = "none" /\ cToReceive'[c] = ModelSize
    BY <2>1, <2>3, <2>6 DEF Stage, Rearmed
  <2> QED BY <1>5, <2>4, <2>5, <2>6
<1>7. ASSUME NEW d \in Clients, d # c PROVE Stage(d)'
  BY <1>1, <1>3, <1>4, <1>5, <1>7, StageFrame DEF ExchangeInv
<1>8. conn[c] = "open" /\ c \in inRound
  BY <1>2 DEF ExchangeInv, Taking, Uploading, Rearmed
<1>9. /\ IsFiniteSet(Done) /\ Cardinality(Done) \in Nat
      /\ IsFiniteSet(inRound) /\ Done \subseteq inRound
      /\ firstDone = Cardinality(Done)
  <2>1. Done \subseteq inRound /\ inRound \subseteq Clients
    BY DEF Done, ExchangeInv, ExchangeTypeOK, Taking
  <2>2. IsFiniteSet(inRound)
    BY <2>1, ClientsAssumption, FS_Subset
  <2> QED BY <1>1, <2>1, <2>2, FS_Subset, FS_CardinalityType DEF ExchangeInv, Counted
<1>10. phase' \in {"running", "finished"} /\ firstDone' \in Nat /\ Counted'
  <2>1. CASE toReceive[c] = 1
    <3>1. toReceive'[c] = 0
      BY <1>4, <2>1
    <3>2. c \notin Done /\ Done' = Done \cup {c}
      BY <1>1, <1>4, <1>8, <2>1, <3>1 DEF Done
    <3>3. Cardinality(Done') = firstDone + 1 /\ Done' \subseteq inRound
      BY <1>8, <1>9, <3>2, FS_AddElement
    <3>4. firstDone' = firstDone + 1
          /\ phase' = IF firstDone + 1 = Cardinality(inRound) THEN "finished" ELSE "running"
      BY <1>1, <2>1 DEF CycleDone
    <3>5. phase' = "finished" => Done' = inRound
      BY <1>9, <3>3, <3>4, FS_Subset
    <3> QED BY <1>1, <1>9, <3>3, <3>4, <3>5 DEF Counted
  <2>2. CASE toReceive[c] # 1
    <3>1. toReceive'[c] # 0 /\ toReceive[c] # 0
      BY <1>2, <1>3, <1>4, <2>2
    <3>2. Done' = Done
      BY <1>1, <1>4, <3>1 DEF Done
    <3> QED BY <1>1, <1>9, <2>2, <3>2 DEF Counted
  <2> QED BY <2>1, <2>2
<1>11. ExchangeTypeOK'
  BY <1>1, <1>4, <1>5, <1>10 DEF ExchangeTypeOK
<1>12. Taking' /\ Lone'
  BY <1>1, <1>10 DEF ExchangeInv, Taking, Lone, GoesOn
<1> QED BY <1>6, <1>7, <1>10, <1>11, <1>12 DEF ExchangeInv

LEMMA ExchangeInvStep == ExchangeInv /\ [ExchangeNext]_exchangeVars => ExchangeInv'
<1> SUFFICES ASSUME ExchangeInv, [ExchangeNext]_exchangeVars PROVE ExchangeInv'
  OBVIOUS
<1>1. CASE UNCHANGED exchangeVars
  <2>1. UNCHANGED <<phase, inRound, serverVars, clientVars>>
    BY <1>1 DEF exchangeVars
  <2> USE DEF serverVars, clientVars
  <2>2. \A c \in Clients : Stage(c)'
    BY <2>1, StageFrame DEF ExchangeInv
  <2>3. ExchangeTypeOK' /\ Taking' /\ Lone'
    BY <2>1 DEF ExchangeInv, ExchangeTypeOK, Taking, Lone, GoesOn
  <2>4. Counted'
    BY <2>1 DEF ExchangeInv, Counted, Done
  <2> QED BY <2>2, <2>3, <2>4 DEF ExchangeInv
<1>2. CASE TimeLimit \/ CollectStats \/ \E S \in SUBSET Clients : StartExperiment(S)
  BY <1>2, RunStep
<1>3. CASE SendEvent
  BY <1>3, SendEventStep
<1>4. ASSUME NEW c \in Clients,
             ConnectionSucceeded(c) \/ Accept(c) \/ Download(c) \/ Upload(c)
      PROVE  ExchangeInv'
  BY <1>4, ConnectStep, AcceptStep, DownloadStep, UploadStep
<1>5. ASSUME NEW c \in Clients, StartWriting(c) PROVE ExchangeInv'
  <2> DEFINE left == [cToSend EXCEPT ![c] = ModelSize]
  <2>1. /\ phase = "running" /\ cTask[c] = "compute" /\ ClientSend(c, left, cBuffer)
        /\ UNCHANGED <<phase, inRound, serverVars>>
    BY <1>5 DEF StartWriting
  <2>2. Computing(c)
    BY <2>1 DEF ExchangeInv, Stage, Absent, Connected, Downloading, Uploading, Rearmed
  <2>3. /\ left \in [Clients -> 0..ModelSize] /\ left[c] = ModelSize
        /\ \A d \in Clients : d # c => left[d] = cToSend[d]
    BY SizesAssumption DEF ExchangeInv, ExchangeTypeOK
  <2> HIDE DEF left
  <2> QED BY <2>1, <2>2, <2>3, ClientSendStep
<1>6. ASSUME NEW c \in Clients, ClientSendEvent(c) PROVE ExchangeInv'
  <2>1. /\ phase = "running" /\ cTask[c] = "event" /\ ClientSend(c, cToSend, cBuffer)
        /\ UNCHANGED <<phase, inRound, serverVars>>
    BY <1>6 DEF ClientSendEvent
  <2>2. Uploading(c)
    BY <2>1 DEF ExchangeInv, Stage, Absent, Connected, Downloading, Computing, Rearmed
  <2>3. cToSend \in [Clients -> 0..ModelSize]
    BY DEF ExchangeInv, ExchangeTypeOK
  <2> QED BY <2>1, <2>2, <2>3, ClientSendStep
<1> QED BY <1>1, <1>2, <1>3, <1>4, <1>5, <1>6 DEF ExchangeNext, Simulation

LEMMA ExchangeInvAlways == ExchangeSpec => []ExchangeInv
BY ExchangeInvInit, ExchangeInvStep, PTL DEF ExchangeSpec

-----------------------------------------------------------------------------
(* The theorems                                                            *)

\* No counter of bytes of the simulated exchange, all of them unsigned, falls below
\* zero, and SendModel is never scheduled twice for a client.
THEOREM ExchangeTypeCorrect == ExchangeSpec => []ExchangeTypeOK
<1>1. ExchangeInv => ExchangeTypeOK
  BY DEF ExchangeInv
<1> QED BY <1>1, ExchangeInvAlways, PTL

\* A client sends nothing back before it has the whole model (HandleRead).
THEOREM UploadsFollowDownloads == ExchangeSpec => []UploadFollowsDownload
<1>1. ExchangeInv => UploadFollowsDownload
  <2> SUFFICES ASSUME ExchangeInv, NEW c \in Clients, conn[c] = "open",
                      cBuffer[c] > 0 \/ toReceive[c] < ModelSize
               PROVE  Drained(c)
    BY DEF UploadFollowsDownload, Drained
  <2>1. cBuffer[c] \in Nat /\ toReceive[c] \in Nat /\ ModelSize \in Nat
    BY SizesAssumption DEF ExchangeInv, ExchangeTypeOK
  <2> QED BY <2>1 DEF ExchangeInv, Stage, Absent, Connected, Downloading, Computing, Uploading,
                      Rearmed
<1> QED BY <1>1, ExchangeInvAlways, PTL

\* A run that is stopped before its time limit has seen everybody's whole model
\* (HasAllClientsFinishedFirstCycle compares two counts).
THEOREM FinishedIsUploaded == ExchangeSpec => []FinishedMeansUploaded
<1>1. ExchangeInv => FinishedMeansUploaded
  BY DEF ExchangeInv, Counted, Done, FinishedMeansUploaded
<1> QED BY <1>1, ExchangeInvAlways, PTL

\* With a single client the server never stops half-way (SendModel,
\* ServerHandleSend), whatever the size of the model and of the buffer.
THEOREM LoneSenderGoesOn == ExchangeSpec => []LoneSenderNeverStalls
<1>1. ExchangeInv => LoneSenderNeverStalls
  BY DEF ExchangeInv, Lone, LoneSenderNeverStalls
<1> QED BY <1>1, ExchangeInvAlways, PTL
=============================================================================
