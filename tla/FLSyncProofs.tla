---------------------------- MODULE FLSyncProofs ----------------------------
(***************************************************************************)
(* Theorems about FLSync, for any set of clients, number of rounds, mode   *)
(* and faults.  The barrier of a round is kept by no lock: it follows from *)
(* how many rounds each client has contributed to.  Barrier says so, and   *)
(* holds as long as Orderly does.                                          *)
(***************************************************************************)
EXTENDS FLSync, FoldSums, TLAPS

\* The rounds finished so far never fall behind the model's version.
Counters ==
  /\ InRound => current_round >= 1
  /\ global_model <= RoundsFinished

\* round_done speaks of the updates at hand, and the round thread only leaves
\* "collect" for the aggregation when it is set.
Collected ==
  /\ round_done => \A c \in Clients : Submitted(c)
  /\ pc \in {"fetch", "aggregate"} => round_done

InPlay == pc \in {"announce", "collect", "fetch", "aggregate", "crashed"}
Counted(c) == InPlay /\ Submitted(c)

\* The number of rounds that count an update of client c.
Contributed(c) == IF Counted(c) THEN RoundsFinished + 1 ELSE RoundsFinished

Working(c)   == cpc[c] \in {"get", "train", "post"}
InHandler(c) == handler[c] \in {"sent", "checked"}

\* A client at work, or a handler at work for it, serves the round being
\* collected, which has no update of the client yet.
ServesRound(c) ==
  Working(c) \/ InHandler(c) =>
    pc = "collect" /\ iteration[c] = current_round /\ ~Submitted(c)

\* A client's loop counter follows from the rounds it contributed to.
KeepsCount(c) ==
  /\ cpc[c] \in {"start", "wait"} => iteration[c] = Contributed(c) + 1
  /\ cpc[c] = "reply" /\ handler[c] = "received" => iteration[c] = Contributed(c)

\* Only a client that waits for an answer, or died waiting, has a handler.
HasHandler(c) ==
  handler[c] # "none" => cpc[c] \in {"reply", "dead"}

Stamped(c) ==
  Submitted(c) => /\ InPlay => client_updates[c].round = current_round
                  /\ ~InPlay => client_updates[c].round <= RoundsFinished

\* The barrier stands until a round times out.  Intact tells so, except that it
\* also gives up after a round whose updates had no samples.
Orderly == Intact \/ "roundTimeout" \notin Faults

Barrier ==
  /\ model_ready => pc = "collect"
  /\ \A c \in Clients : /\ handler[c] \notin {"mismatch", "duplicate"}
                        /\ ServesRound(c) /\ KeepsCount(c) /\ Stamped(c)

Safe == /\ TypeOK /\ Counters /\ Collected
        /\ \A c \in Clients : HasHandler(c)

RoundInv == Safe /\ (Orderly => Barrier)

\* Where the weights of the round in play are, and what they are based on.
UpToDate(c) ==
  cpc[c] \in {"train", "post"} \/ InHandler(c) \/ Counted(c) =>
    base[c] = global_model

DirectWeights(c) ==
  Counted(c) =>
    client_updates[c].weights = [from |-> c, base |-> global_model]

EdcWeights(c) ==
  /\ cpc[c] = "post" \/ InHandler(c) \/ Counted(c) =>
       uploaded[c] = [from |-> c, base |-> global_model]
  /\ pc = "fetch" /\ c \in agreements \ fetching =>
       received[c] = [from |-> c, base |-> global_model]
  /\ pc = "aggregate" =>
       client_updates[c].weights = [from |-> c, base |-> global_model]

Basis ==
  /\ \A c \in Clients : UpToDate(c)
  /\ ~WithEdc => \A c \in Clients : DirectWeights(c)
  /\ WithEdc => /\ pc # "publish" => rc_model = global_model
                /\ \A c \in Clients : EdcWeights(c)

Outsiders ==
  /\ fetching \subseteq agreements
  /\ ~WithEdc => pc \notin {"fetch", "publish"}
  /\ \A c \in Clients : c \notin agreements => received[c] = None

WorkInv == RoundInv /\ Outsiders /\ (Orderly => Basis)

-----------------------------------------------------------------------------

\* None is no entry of client_updates.
LEMMA NoEntry == None \notin Updates
  BY NoneAssumption

\* LoadTrainedModels fills in the weights of entries that are all there.
LEMMA LoadKeepsEntries ==
  ASSUME TypeOK, Collected, LoadTrainedModels
  PROVE  \A c \in Clients : /\ Submitted(c) /\ Submitted(c)'
                            /\ client_updates'[c] \in Updates
                            /\ client_updates'[c].round = client_updates[c].round
                            /\ client_updates'[c].weights = received[c]
<1> SUFFICES ASSUME NEW c \in Clients
             PROVE /\ Submitted(c) /\ Submitted(c)'
                   /\ client_updates'[c] \in Updates
                   /\ client_updates'[c].round = client_updates[c].round
                   /\ client_updates'[c].weights = received[c]
  OBVIOUS
<1>1. Submitted(c)
  BY DEF LoadTrainedModels, Collected, Advance
<1>2. client_updates[c] \in Updates
  BY <1>1 DEF TypeOK, Submitted
<1>3. client_updates'[c] = [client_updates[c] EXCEPT !.weights = received[c]]
  BY <1>1 DEF LoadTrainedModels
<1>4. received[c] \in Weights \cup {None}
  BY DEF TypeOK
<1>5. client_updates'[c] \in Updates
  BY <1>2, <1>3, <1>4 DEF Updates
<1> QED
  BY <1>1, <1>2, <1>3, <1>5, NoEntry DEF Updates, Submitted

\* StoreUpdate adds the entry of its client and touches no other.
LEMMA StoreAddsEntry ==
  ASSUME TypeOK, NEW c \in Clients, StoreUpdate(c)
  PROVE  /\ client_updates'[c] \in Updates /\ Submitted(c)'
         /\ client_updates'[c].round = iteration[c]
         /\ ~WithEdc => client_updates'[c].weights = Trained(c)
         /\ \A d \in Clients \ {c} : client_updates'[d] = client_updates[d]
         /\ client_updates' \in [Clients -> Updates \cup {None}]
<1> DEFINE entry == [weights |-> IF WithEdc THEN None ELSE Trained(c),
                     round |-> iteration[c]]
<1>1. entry \in Updates
  BY EdcAssumption DEF Updates, Weights, Trained, TypeOK
<1>2. client_updates' = [client_updates EXCEPT ![c] = entry]
  BY DEF StoreUpdate
<1>3. client_updates'[c] = entry
  BY <1>2 DEF TypeOK
<1> QED
  BY <1>1, <1>2, <1>3, NoEntry DEF TypeOK, Submitted

\* Safe holds at the start, whatever is going to fail ...
LEMMA SafeInit == Init => Safe
<1> SUFFICES ASSUME Init PROVE Safe
  OBVIOUS
<1>1. agreements \subseteq Clients
  BY DEF Init
<1>2. rc_model \in Versions \cup {None}
  BY RoundsAssumption DEF Init, Versions
<1>3. 0 \in Versions /\ 1 \in 1..NumRounds
  BY RoundsAssumption DEF Versions
<1>4. TypeOK
  BY <1>1, <1>2, <1>3 DEF Init, TypeOK, Versions
<1> QED
  BY <1>4, RoundsAssumption
     DEF Init, Safe, Counters, Collected, HasHandler, InRound, RoundsFinished

\* ... and every step of the round thread, a handler or a client keeps it.
LEMMA SafeStep == Safe /\ [Next]_vars => Safe'
<1> SUFFICES ASSUME Safe, [Next]_vars PROVE Safe'
  OBVIOUS
<1> USE RoundsAssumption, NoneAssumption, EdcAssumption
<1> USE DEF Safe, TypeOK, Counters, Collected, HasHandler, InRound, RoundsFinished,
    Submitted, Versions, Weights, Updates, Trained, Advance, Move,
    serverVars, setupVars, storageVars, clientVars, serverSide, InPlay
<1>1. CASE BeginRound BY <1>1 DEF BeginRound
<1>2. CASE ResetRound BY <1>2 DEF ResetRound
<1>3. CASE AnnounceRound BY <1>3 DEF AnnounceRound
<1>4. CASE RoundCollected BY <1>4 DEF RoundCollected
<1>5. CASE RoundTimeout BY <1>5 DEF RoundTimeout
<1>6. ASSUME NEW c \in Clients, NEW d \in Clients, FetchTrainedModel(c, d) PROVE Safe'
  BY <1>6 DEF FetchTrainedModel
<1>7. ASSUME NEW c \in Clients, FetchFails(c) PROVE Safe' BY <1>7 DEF FetchFails
<1>8. CASE LoadTrainedModels
  <2>1. \A c \in Clients : Submitted(c)' /\ client_updates'[c] \in Updates
    BY <1>8, LoadKeepsEntries
  <2>2. client_updates' \in [Clients -> Updates \cup {None}]
    BY <1>8, <2>1 DEF LoadTrainedModels
  <2> QED
    BY <1>8, <2>1, <2>2 DEF LoadTrainedModels
<1>9. CASE LoadFails BY <1>9 DEF LoadFails
<1>10. CASE Aggregate BY <1>10 DEF Aggregate
<1>11. CASE AggregateFails BY <1>11 DEF AggregateFails
<1>12. CASE PublishModel BY <1>12 DEF PublishModel
<1>13. CASE CompleteTraining BY <1>13 DEF CompleteTraining
<1>14. CASE ServerExit BY <1>14 DEF ServerExit
<1>15. ASSUME NEW c \in Clients, CheckRound(c) PROVE Safe' BY <1>15 DEF CheckRound
<1>16. ASSUME NEW c \in Clients, StoreUpdate(c) PROVE Safe'
  <2>1. /\ client_updates' \in [Clients -> Updates \cup {None}]
        /\ Submitted(c)'
        /\ \A d \in Clients \ {c} : client_updates'[d] = client_updates[d]
    BY <1>16, StoreAddsEntry
  <2>2. round_done' => \A d \in Clients : Submitted(d)'
    BY <1>16, <2>1 DEF StoreUpdate
  <2> QED
    BY <1>16, <2>1, <2>2 DEF StoreUpdate
<1>17. ASSUME NEW c \in Clients, RefuseDuplicate(c) PROVE Safe' BY <1>17 DEF RefuseDuplicate
<1>18. ASSUME NEW c \in Clients, Client(c) PROVE Safe'
  <2>1. CASE StartClient(c) BY <2>1 DEF StartClient
  <2>2. CASE RoundReady(c) BY <2>2 DEF RoundReady
  <2>3. CASE TrainingOver(c) BY <2>3 DEF TrainingOver
  <2>4. CASE GetWeights(c) BY <2>4 DEF GetWeights
  <2>5. CASE SaveTrainedModel(c) BY <2>5 DEF SaveTrainedModel
  <2>6. CASE PostUpdate(c) BY <2>6 DEF PostUpdate
  <2>7. CASE ReplyReceived(c) BY <2>7 DEF ReplyReceived
  <2>8. CASE ReplyRefused(c) BY <2>8 DEF ReplyRefused
  <2> QED
    BY <1>18, <2>1, <2>2, <2>3, <2>4, <2>5, <2>6, <2>7, <2>8 DEF Client
<1>19. ASSUME NEW c \in Clients, ClientFails(c) PROVE Safe'
  <2>1. CASE StartFails(c) BY <2>1 DEF StartFails
  <2>2. CASE GetWeightsFails(c) BY <2>2 DEF GetWeightsFails
  <2>3. CASE PostFails(c) BY <2>3 DEF PostFails
  <2> QED
    BY <1>19, <2>1, <2>2, <2>3 DEF ClientFails
<1>20. CASE UNCHANGED vars BY <1>20 DEF vars
<1> HIDE DEF Safe
<1> QED
  BY <1>1, <1>2, <1>3, <1>4, <1>5, <1>6, <1>7, <1>8, <1>9, <1>10, <1>11, <1>12, <1>13,
     <1>14, <1>15, <1>16, <1>17, <1>18, <1>19, <1>20
     DEF Next, RoundThread, Handler, Terminated

-----------------------------------------------------------------------------

\* A round that is given up is never made good.
LEMMA OrderlyStep == Safe /\ [Next]_vars /\ Orderly' => Orderly
<1> SUFFICES ASSUME Safe, [Next]_vars, Intact' PROVE Intact
  BY DEF Orderly
<1> USE DEF Safe, TypeOK, Counters, InRound, RoundsFinished, Intact, Versions, Advance
<1>1. CASE RoundThread
  BY <1>1 DEF RoundThread, BeginRound, ResetRound, AnnounceRound, RoundCollected,
     FetchTrainedModel, LoadTrainedModels, LoadFails, Aggregate, AggregateFails,
     PublishModel, CompleteTraining, ServerExit, serverVars
<1>2. CASE RoundTimeout BY <1>2 DEF RoundTimeout
<1>3. ASSUME NEW c \in Clients, FetchFails(c) PROVE Intact BY <1>3 DEF FetchFails
<1>4. CASE UNCHANGED <<pc, current_round, global_model>> BY <1>4
<1>5. ASSUME NEW c \in Clients, Handler(c) \/ Client(c) \/ ClientFails(c)
      PROVE UNCHANGED <<pc, current_round, global_model>>
  BY <1>5 DEF Handler, CheckRound, StoreUpdate, RefuseDuplicate, Client, StartClient,
     RoundReady, TrainingOver, GetWeights, SaveTrainedModel, PostUpdate, ReplyReceived,
     ReplyRefused, ClientFails, StartFails, GetWeightsFails, PostFails, serverVars,
     serverSide
<1>6. Terminated \/ UNCHANGED vars => UNCHANGED <<pc, current_round, global_model>>
  BY DEF Terminated, vars, serverVars
<1> QED
  BY <1>1, <1>2, <1>3, <1>4, <1>5, <1>6 DEF Next

\* Before the first round no client is at work.
LEMMA BarrierInit == Init => Barrier
  BY DEF Init, Barrier, ServesRound, KeepsCount, Stamped, Working, InHandler, Contributed,
    Counted, InPlay, RoundsFinished, InRound, Submitted

\* While no round is given up, a round is announced only when nobody works on an
\* earlier one, and collected only when everybody has handed in.
LEMMA BarrierStep == Safe /\ Orderly /\ Barrier /\ [Next]_vars /\ Orderly' => Barrier'
<1> SUFFICES ASSUME Safe, Orderly, Barrier, [Next]_vars, Orderly' PROVE Barrier'
  OBVIOUS
<1> USE RoundsAssumption, NoEntry
<1> USE DEF Safe, TypeOK, Counters, Collected, HasHandler, Orderly, Intact, InRound, RoundsFinished,
    Submitted, Versions, Advance, Move, Barrier, ServesRound, KeepsCount, Stamped, Working,
    InHandler, Contributed, Counted, InPlay, serverVars, setupVars, storageVars, clientVars,
    serverSide
<1>1. CASE BeginRound BY <1>1 DEF BeginRound
<1>2. CASE ResetRound BY <1>2 DEF ResetRound
<1>3. CASE AnnounceRound BY <1>3 DEF AnnounceRound
<1>4. CASE RoundCollected BY <1>4 DEF RoundCollected
<1>5. CASE RoundTimeout BY <1>5 DEF RoundTimeout
<1>6. ASSUME NEW c \in Clients, NEW d \in Clients, FetchTrainedModel(c, d) PROVE Barrier'
  BY <1>6 DEF FetchTrainedModel
<1>7. ASSUME NEW c \in Clients, FetchFails(c) PROVE Barrier' BY <1>7 DEF FetchFails
<1>8. CASE LoadTrainedModels
  <2>1. /\ pc = "fetch" /\ pc' = "aggregate"
        /\ UNCHANGED <<cpc, handler, iteration, model_ready, current_round, global_model>>
    BY <1>8 DEF LoadTrainedModels
  <2>2. \A c \in Clients : Submitted(c) /\ Submitted(c)'
    BY <1>8, LoadKeepsEntries
  <2>3. \A c \in Clients : client_updates'[c].round = client_updates[c].round
    BY <1>8, LoadKeepsEntries
  <2> QED
    BY <2>1, <2>2, <2>3
<1>9. CASE LoadFails BY <1>9 DEF LoadFails
<1>10. CASE Aggregate BY <1>10 DEF Aggregate
<1>11. CASE AggregateFails BY <1>11 DEF AggregateFails
<1>12. CASE PublishModel BY <1>12 DEF PublishModel
<1>13. CASE CompleteTraining BY <1>13 DEF CompleteTraining
<1>14. CASE ServerExit BY <1>14 DEF ServerExit
<1>15. ASSUME NEW c \in Clients, CheckRound(c) PROVE Barrier' BY <1>15 DEF CheckRound
<1>16. ASSUME NEW c \in Clients, StoreUpdate(c) PROVE Barrier'
  <2>1. /\ handler[c] = "checked" /\ handler' = [handler EXCEPT ![c] = "received"]
        /\ UNCHANGED <<pc, cpc, iteration, model_ready, current_round, global_model>>
    BY <1>16 DEF StoreUpdate
  <2>2. /\ Submitted(c)' /\ client_updates'[c].round = iteration[c]
        /\ \A d \in Clients \ {c} : client_updates'[d] = client_updates[d]
    BY <1>16, StoreAddsEntry
  <2>3. pc = "collect" /\ iteration[c] = current_round /\ ~Submitted(c)
    BY <2>1
  <2> QED
    BY <2>1, <2>2, <2>3
<1>17. ASSUME NEW c \in Clients, RefuseDuplicate(c) PROVE Barrier'
  BY <1>17 DEF RefuseDuplicate
<1>18. ASSUME NEW c \in Clients, Client(c) PROVE Barrier'
  <2>1. CASE StartClient(c) BY <2>1 DEF StartClient
  <2>2. CASE RoundReady(c) BY <2>2 DEF RoundReady
  <2>3. CASE TrainingOver(c) BY <2>3 DEF TrainingOver
  <2>4. CASE GetWeights(c) BY <2>4 DEF GetWeights
  <2>5. CASE SaveTrainedModel(c) BY <2>5 DEF SaveTrainedModel
  <2>6. CASE PostUpdate(c) BY <2>6 DEF PostUpdate
  <2>7. CASE ReplyReceived(c) BY <2>7 DEF ReplyReceived
  <2>8. CASE ReplyRefused(c) BY <2>8 DEF ReplyRefused
  <2> QED
    BY <1>18, <2>1, <2>2, <2>3, <2>4, <2>5, <2>6, <2>7, <2>8 DEF Client
<1>19. ASSUME NEW c \in Clients, ClientFails(c) PROVE Barrier'
  <2>1. CASE StartFails(c) BY <2>1 DEF StartFails
  <2>2. CASE GetWeightsFails(c) BY <2>2 DEF GetWeightsFails
  <2>3. CASE PostFails(c) BY <2>3 DEF PostFails
  <2> QED
    BY <1>19, <2>1, <2>2, <2>3 DEF ClientFails
<1>20. CASE UNCHANGED vars BY <1>20 DEF vars
<1> HIDE DEF Barrier
<1> QED
  BY <1>1, <1>2, <1>3, <1>4, <1>5, <1>6, <1>7, <1>8, <1>9, <1>10, <1>11, <1>12, <1>13,
     <1>14, <1>15, <1>16, <1>17, <1>18, <1>19, <1>20
     DEF Next, RoundThread, Handler, Terminated


-----------------------------------------------------------------------------

\* At the start nothing has been received from anyone.
LEMMA OutsidersInit == Init => Outsiders
  BY DEF Init, Outsiders

\* A file arrives at the RC only from a client whose contract the RC holds.
LEMMA OutsidersStep == Safe /\ Outsiders /\ [Next]_vars => Outsiders'
<1> SUFFICES ASSUME Safe, Outsiders, [Next]_vars PROVE Outsiders'
  OBVIOUS
<1> USE EdcAssumption
<1> USE DEF Safe, TypeOK, Outsiders, Advance, Move, serverVars, setupVars, storageVars,
    clientVars, serverSide
<1>1. CASE BeginRound BY <1>1 DEF BeginRound
<1>2. CASE ResetRound BY <1>2 DEF ResetRound
<1>3. CASE AnnounceRound BY <1>3 DEF AnnounceRound
<1>4. CASE RoundCollected BY <1>4 DEF RoundCollected
<1>5. CASE RoundTimeout BY <1>5 DEF RoundTimeout
<1>6. ASSUME NEW c \in Clients, NEW d \in Clients, FetchTrainedModel(c, d) PROVE Outsiders'
  BY <1>6 DEF FetchTrainedModel
<1>7. ASSUME NEW c \in Clients, FetchFails(c) PROVE Outsiders' BY <1>7 DEF FetchFails
<1>8. CASE LoadTrainedModels BY <1>8 DEF LoadTrainedModels
<1>9. CASE LoadFails BY <1>9 DEF LoadFails
<1>10. CASE Aggregate BY <1>10 DEF Aggregate
<1>11. CASE AggregateFails BY <1>11 DEF AggregateFails
<1>12. CASE PublishModel BY <1>12 DEF PublishModel
<1>13. CASE CompleteTraining BY <1>13 DEF CompleteTraining
<1>14. CASE ServerExit BY <1>14 DEF ServerExit
<1>15. ASSUME NEW c \in Clients, CheckRound(c) PROVE Outsiders' BY <1>15 DEF CheckRound
<1>16. ASSUME NEW c \in Clients, StoreUpdate(c) PROVE Outsiders' BY <1>16 DEF StoreUpdate
<1>17. ASSUME NEW c \in Clients, RefuseDuplicate(c) PROVE Outsiders'
  BY <1>17 DEF RefuseDuplicate
<1>18. ASSUME NEW c \in Clients, Client(c) PROVE Outsiders'
  <2>1. CASE StartClient(c) BY <2>1 DEF StartClient
  <2>2. CASE RoundReady(c) BY <2>2 DEF RoundReady
  <2>3. CASE TrainingOver(c) BY <2>3 DEF TrainingOver
  <2>4. CASE GetWeights(c) BY <2>4 DEF GetWeights
  <2>5. CASE SaveTrainedModel(c) BY <2>5 DEF SaveTrainedModel
  <2>6. CASE PostUpdate(c) BY <2>6 DEF PostUpdate
  <2>7. CASE ReplyReceived(c) BY <2>7 DEF ReplyReceived
  <2>8. CASE ReplyRefused(c) BY <2>8 DEF ReplyRefused
  <2> QED
    BY <1>18, <2>1, <2>2, <2>3, <2>4, <2>5, <2>6, <2>7, <2>8 DEF Client
<1>19. ASSUME NEW c \in Clients, ClientFails(c) PROVE Outsiders'
  <2>1. CASE StartFails(c) BY <2>1 DEF StartFails
  <2>2. CASE GetWeightsFails(c) BY <2>2 DEF GetWeightsFails
  <2>3. CASE PostFails(c) BY <2>3 DEF PostFails
  <2> QED
    BY <1>19, <2>1, <2>2, <2>3 DEF ClientFails
<1>20. CASE UNCHANGED vars BY <1>20 DEF vars
<1> HIDE DEF Outsiders
<1> QED
  BY <1>1, <1>2, <1>3, <1>4, <1>5, <1>6, <1>7, <1>8, <1>9, <1>10, <1>11, <1>12, <1>13,
     <1>14, <1>15, <1>16, <1>17, <1>18, <1>19, <1>20
     DEF Next, RoundThread, Handler, Terminated

\* The initial upload puts version 0 where the clients look for it.
LEMMA BasisInit == Faults \cap {"upload", "sharedKey"} = {} /\ Init => Basis
  BY DEF Init, Basis, UpToDate, DirectWeights, EdcWeights, InHandler, Counted, InPlay

\* Downloads, training, uploads, POSTs and fetches hand the current version and
\* the right author on, when uploads do not get lost and transfers do not cross.
LEMMA BasisStep ==
  ASSUME Faults \cap {"upload", "sharedKey"} = {},
         Safe, Outsiders, Orderly, Barrier, Basis, [Next]_vars, Orderly'
  PROVE  Basis'
<1> USE RoundsAssumption, EdcAssumption, NoEntry
<1> USE DEF Safe, TypeOK, Outsiders, Counters, Collected, HasHandler, Orderly, Intact, InRound,
    RoundsFinished, Submitted, Trained, Advance, Move, Barrier, ServesRound, Working,
    InHandler, Counted, InPlay, Basis, UpToDate, DirectWeights, EdcWeights,
    serverVars, setupVars, storageVars, clientVars, serverSide
<1>1. CASE BeginRound BY <1>1 DEF BeginRound
<1>2. CASE ResetRound BY <1>2 DEF ResetRound
<1>3. CASE AnnounceRound BY <1>3 DEF AnnounceRound
<1>4. CASE RoundCollected BY <1>4 DEF RoundCollected
<1>5. CASE RoundTimeout BY <1>5 DEF RoundTimeout
<1>6. ASSUME NEW c \in Clients, NEW d \in Clients, FetchTrainedModel(c, d) PROVE Basis'
  BY <1>6 DEF FetchTrainedModel
<1>7. ASSUME NEW c \in Clients, FetchFails(c) PROVE Basis' BY <1>7 DEF FetchFails
<1>8. CASE LoadTrainedModels
  <2>1. /\ pc = "fetch" /\ pc' = "aggregate" /\ fetching = {} /\ WithEdc
        /\ \A c \in Clients : c \in agreements
        /\ UNCHANGED <<cpc, handler, base, uploaded, rc_model, received, agreements,
                       global_model>>
    BY <1>8, LoadKeepsEntries DEF LoadTrainedModels
  <2>2. \A c \in Clients : client_updates'[c].weights = received[c] /\ Submitted(c)
    BY <1>8, LoadKeepsEntries
  <2> QED
    BY <2>1, <2>2
<1>9. CASE LoadFails BY <1>9 DEF LoadFails
<1>10. CASE Aggregate BY <1>10 DEF Aggregate
<1>11. CASE AggregateFails BY <1>11 DEF AggregateFails
<1>12. CASE PublishModel BY <1>12 DEF PublishModel
<1>13. CASE CompleteTraining BY <1>13 DEF CompleteTraining
<1>14. CASE ServerExit BY <1>14 DEF ServerExit
<1>15. ASSUME NEW c \in Clients, CheckRound(c) PROVE Basis' BY <1>15 DEF CheckRound
<1>16. ASSUME NEW c \in Clients, StoreUpdate(c) PROVE Basis'
  <2>1. /\ handler[c] = "checked" /\ handler' = [handler EXCEPT ![c] = "received"]
        /\ UNCHANGED <<pc, cpc, base, uploaded, rc_model, received, agreements, fetching,
                       global_model>>
    BY <1>16 DEF StoreUpdate
  <2>2. /\ ~WithEdc => client_updates'[c].weights = [from |-> c, base |-> base[c]]
        /\ \A d \in Clients \ {c} : client_updates'[d] = client_updates[d]
    BY <1>16, StoreAddsEntry DEF Trained
  <2>3. pc = "collect" /\ base[c] = global_model
    BY <2>1
  <2> QED
    BY <2>1, <2>2, <2>3
<1>17. ASSUME NEW c \in Clients, RefuseDuplicate(c) PROVE Basis'
  BY <1>17 DEF RefuseDuplicate
<1>18. ASSUME NEW c \in Clients, Client(c) PROVE Basis'
  <2>1. CASE StartClient(c) BY <2>1 DEF StartClient
  <2>2. CASE RoundReady(c) BY <2>2 DEF RoundReady
  <2>3. CASE TrainingOver(c) BY <2>3 DEF TrainingOver
  <2>4. CASE GetWeights(c) BY <2>4 DEF GetWeights
  <2>5. CASE SaveTrainedModel(c) BY <2>5 DEF SaveTrainedModel
  <2>6. CASE PostUpdate(c) BY <2>6 DEF PostUpdate
  <2>7. CASE ReplyReceived(c) BY <2>7 DEF ReplyReceived
  <2>8. CASE ReplyRefused(c) BY <2>8 DEF ReplyRefused
  <2> QED
    BY <1>18, <2>1, <2>2, <2>3, <2>4, <2>5, <2>6, <2>7, <2>8 DEF Client
<1>19. ASSUME NEW c \in Clients, ClientFails(c) PROVE Basis'
  <2>1. CASE StartFails(c) BY <2>1 DEF StartFails
  <2>2. CASE GetWeightsFails(c) BY <2>2 DEF GetWeightsFails
  <2>3. CASE PostFails(c) BY <2>3 DEF PostFails
  <2> QED
    BY <1>19, <2>1, <2>2, <2>3 DEF ClientFails
<1>20. CASE UNCHANGED vars BY <1>20 DEF vars
<1> HIDE DEF Basis
<1> QED
  BY <1>1, <1>2, <1>3, <1>4, <1>5, <1>6, <1>7, <1>8, <1>9, <1>10, <1>11, <1>12, <1>13,
     <1>14, <1>15, <1>16, <1>17, <1>18, <1>19, <1>20
     DEF Next, RoundThread, Handler, Terminated


-----------------------------------------------------------------------------

\* fedavg is the only writer of the global model.
LEMMA OnlyAggregateWrites ==
  ASSUME [Next]_vars, global_model' # global_model
  PROVE  Aggregate
BY DEF Next, RoundThread, BeginRound, ResetRound, AnnounceRound, RoundCollected,
  RoundTimeout, FetchTrainedModel, FetchFails, LoadTrainedModels, LoadFails, AggregateFails,
  PublishModel, CompleteTraining, ServerExit, Handler, CheckRound, StoreUpdate,
  RefuseDuplicate, Client, StartClient, RoundReady, TrainingOver, GetWeights,
  SaveTrainedModel, PostUpdate, ReplyReceived, ReplyRefused, ClientFails, StartFails,
  GetWeightsFails, PostFails, Terminated, vars, serverSide

\* The inductive invariant holds for all faults.
THEOREM RoundInvariant == Spec => []RoundInv
<1>1. Init => RoundInv
  BY SafeInit, BarrierInit DEF RoundInv
<1>2. RoundInv /\ [Next]_vars => RoundInv'
  BY SafeStep, OrderlyStep, BarrierStep DEF RoundInv
<1> QED
  BY <1>1, <1>2, PTL DEF Spec

\* Types hold whatever fails.
THEOREM TypeCorrect == Spec => []TypeOK
<1>1. RoundInv => TypeOK
  BY DEF RoundInv, Safe
<1> QED
  BY <1>1, RoundInvariant, PTL

\* _sync_round never aggregates with an update missing, whatever fails.
THEOREM AggregationWaitsForAll == Spec => WaitsForAll
<1>1. RoundInv /\ [Next]_vars
      => [global_model' # global_model => \A c \in Clients : Submitted(c)]_vars
  <2> SUFFICES ASSUME Safe, [Next]_vars, global_model' # global_model
               PROVE \A c \in Clients : Submitted(c)
    BY DEF RoundInv
  <2>1. Aggregate
    BY OnlyAggregateWrites
  <2> QED
    BY <2>1 DEF Aggregate, Advance, Safe, Collected
<1> QED
  BY <1>1, RoundInvariant, PTL DEF Spec, WaitsForAll

\* Until a round is given up no update is refused, and so no client ends that way.
THEOREM RefusalsFollowLostRounds == Spec => []RefusalMeansLostRound
<1>1. RoundInv => RefusalMeansLostRound
  BY DEF RoundInv, Barrier, Orderly, RefusalMeansLostRound
<1> QED
  BY <1>1, RoundInvariant, PTL

\* Until a round is given up the reset of a round throws no update of it away.
THEOREM ResetIsSafe == Spec => []ResetLosesNoUpdate
<1>1. RoundInv => ResetLosesNoUpdate
  <2> SUFFICES ASSUME RoundInv, pc = "reset", Intact, NEW c \in Clients
               PROVE /\ handler[c] \notin {"sent", "checked"}
                     /\ Submitted(c) => client_updates[c].round < current_round
    BY DEF ResetLosesNoUpdate
  <2>1. ServesRound(c) /\ Stamped(c)
    BY DEF RoundInv, Barrier, Orderly
  <2>2. handler[c] \notin {"sent", "checked"}
    BY <2>1 DEF ServesRound, InHandler
  <2>3. Submitted(c) => client_updates[c].round \in Nat
                        /\ client_updates[c].round <= current_round - 1
    BY <2>1 DEF Stamped, InPlay, RoundsFinished, InRound, RoundInv, Safe, TypeOK, Updates,
       Submitted
  <2> QED
    BY <2>2, <2>3 DEF RoundInv, Safe, TypeOK
<1> QED
  BY <1>1, RoundInvariant, PTL

\* Until a round is given up the model is only replaced while nobody downloads
\* it or trains on it.
THEOREM ModelIsStable == Spec => ModelStableWhileTraining
<1>1. RoundInv /\ [Next]_vars
      => [(global_model' # global_model /\ Intact) =>
            \A c \in Clients : cpc[c] \notin {"get", "train", "post"}]_vars
  <2> SUFFICES ASSUME RoundInv, [Next]_vars, global_model' # global_model, Intact,
                      NEW c \in Clients
               PROVE cpc[c] \notin {"get", "train", "post"}
    OBVIOUS
  <2>1. Aggregate
    BY OnlyAggregateWrites DEF RoundInv
  <2> QED
    BY <2>1 DEF Aggregate, Advance, RoundInv, Orderly, Barrier, ServesRound, Working
<1> QED
  BY <1>1, RoundInvariant, PTL DEF Spec, ModelStableWhileTraining

\* The inductive invariant with the provenance of the weights.
THEOREM WorkInvariant ==
  Faults \cap {"upload", "sharedKey"} = {} => (Spec => []WorkInv)
<1> SUFFICES ASSUME Faults \cap {"upload", "sharedKey"} = {} PROVE Spec => []WorkInv
  OBVIOUS
<1>1. Init => WorkInv
  BY SafeInit, BarrierInit, OutsidersInit, BasisInit DEF RoundInv, WorkInv
<1>2. WorkInv /\ [Next]_vars => WorkInv'
  BY SafeStep, OrderlyStep, BarrierStep, OutsidersStep, BasisStep DEF RoundInv, WorkInv
<1> QED
  BY <1>1, <1>2, PTL DEF Spec

\* Uploads that succeed and transfers that do not cross are all it takes for
\* every average to be made of current work.
THEOREM AveragesAreCurrent ==
  Faults \cap {"upload", "sharedKey"} = {} => (Spec => AveragesCurrentWork)
<1> SUFFICES ASSUME Faults \cap {"upload", "sharedKey"} = {}
             PROVE Spec => AveragesCurrentWork
  OBVIOUS
<1>1. WorkInv /\ [Next]_vars
      => [(global_model' # global_model /\ Intact) =>
            \A c \in Clients : client_updates[c].weights
                                = [from |-> c, base |-> global_model]]_vars
  <2> SUFFICES ASSUME WorkInv, [Next]_vars, global_model' # global_model, Intact,
                      NEW c \in Clients
               PROVE client_updates[c].weights = [from |-> c, base |-> global_model]
    OBVIOUS
  <2>1. pc = "aggregate"
    BY OnlyAggregateWrites DEF WorkInv, RoundInv, Aggregate, Advance
  <2>2. Submitted(c)
    BY <2>1 DEF WorkInv, RoundInv, Safe, Collected
  <2> QED
    BY <2>1, <2>2, EdcAssumption DEF WorkInv, Orderly, Basis, DirectWeights, EdcWeights,
       Counted, InPlay
<1> QED
  BY <1>1, WorkInvariant, PTL DEF Spec, AveragesCurrentWork

-----------------------------------------------------------------------------
(* The rounds implement BulkRounds.                                         *)

\* The server starts with version 0 and idle clients, as BulkRounds does.
LEMMA BulkInit == Init => Bulk!Init
  BY DEF Init, Bulk!Init, RoundPhase, Submitted

\* Every step is a Start, Deliver, Quit or Combine of BulkRounds, or a stutter.
LEMMA BulkStep ==
  ASSUME Faults \cap {"roundTimeout", "upload", "sharedKey"} = {},
         WorkInv, [Next]_vars
  PROVE  [Bulk!Next]_(Bulk!vars)
<1> DEFINE Same == /\ UNCHANGED <<global_model, base>>
                   /\ \A c \in Clients : (cpc[c] = "dead")' = (cpc[c] = "dead")
                   /\ \A c \in Clients : RoundPhase(c)' = RoundPhase(c)
<1> USE RoundsAssumption, EdcAssumption, NoEntry
<1>0. Safe /\ Orderly /\ Barrier /\ Basis
  BY DEF WorkInv, RoundInv, Orderly
<1>a. Same => UNCHANGED Bulk!vars
  BY DEF Bulk!vars
<1> USE <1>0 DEF Safe, TypeOK, Collected, HasHandler, Counters, RoundsFinished, InRound,
    Submitted, Barrier, ServesRound, KeepsCount, Working, InHandler, RoundPhase,
    Advance, Move, serverVars, setupVars, storageVars, clientVars, serverSide
<1>1. CASE BeginRound
  <2>1. Same BY <1>1 DEF BeginRound
  <2> QED BY <2>1, <1>a
<1>2. CASE ResetRound
  <2>1. Same BY <1>2 DEF ResetRound
  <2> QED BY <2>1, <1>a
<1>3. CASE AnnounceRound
  <2>1. Same BY <1>3 DEF AnnounceRound
  <2> QED BY <2>1, <1>a
<1>4. CASE RoundCollected
  <2>1. Same BY <1>4 DEF RoundCollected
  <2> QED BY <2>1, <1>a
<1>5. ~RoundTimeout
  BY DEF RoundTimeout
<1>6. ASSUME NEW c \in Clients, NEW d \in Clients, FetchTrainedModel(c, d)
      PROVE UNCHANGED Bulk!vars
  <2>1. Same BY <1>6 DEF FetchTrainedModel
  <2> QED BY <2>1, <1>a
<1>7. ASSUME NEW c \in Clients, FetchFails(c) PROVE UNCHANGED Bulk!vars
  <2>1. Same BY <1>7 DEF FetchFails
  <2> QED BY <2>1, <1>a
<1>8. CASE LoadTrainedModels
  <2>1. /\ pc = "fetch" /\ pc' = "aggregate"
        /\ UNCHANGED <<cpc, handler, base, global_model>>
        /\ \A c \in Clients : Submitted(c) /\ Submitted(c)'
    BY <1>8, LoadKeepsEntries DEF LoadTrainedModels
  <2>2. Same BY <2>1
  <2> QED BY <2>2, <1>a
<1>9. CASE LoadFails
  <2>1. Same BY <1>9 DEF LoadFails
  <2> QED BY <2>1, <1>a
<1>10. CASE Aggregate \/ AggregateFails
  <2>1. /\ pc = "aggregate" /\ pc' \in {"publish", "begin"}
        /\ global_model' \in {global_model, global_model + 1}
        /\ UNCHANGED <<cpc, handler, base, client_updates>>
    BY <1>10 DEF Aggregate, AggregateFails
  <2>2. \A c \in Clients : /\ Submitted(c) /\ base[c] = global_model
                          /\ RoundPhase(c) = "delivered" /\ RoundPhase(c)' = "idle"
    BY <2>1 DEF Basis, UpToDate, Counted, InPlay
  <2>3. Bulk!Combine
    BY <2>1, <2>2 DEF Bulk!Combine
  <2> QED BY <2>3 DEF Bulk!Next
<1>12. CASE PublishModel
  <2>1. Same BY <1>12 DEF PublishModel
  <2> QED BY <2>1, <1>a
<1>13. CASE CompleteTraining
  <2>1. Same BY <1>13 DEF CompleteTraining
  <2> QED BY <2>1, <1>a
<1>14. CASE ServerExit
  <2>1. Same BY <1>14 DEF ServerExit
  <2> QED BY <2>1, <1>a
<1>15. ASSUME NEW c \in Clients, CheckRound(c) PROVE UNCHANGED Bulk!vars
  <2>1. Same BY <1>15 DEF CheckRound
  <2> QED BY <2>1, <1>a
<1>16. ASSUME NEW c \in Clients, StoreUpdate(c) PROVE Bulk!Deliver(c)
  <2>1. /\ handler[c] = "checked" /\ handler' = [handler EXCEPT ![c] = "received"]
        /\ UNCHANGED <<pc, cpc, base, global_model>>
    BY <1>16 DEF StoreUpdate
  <2>2. /\ Submitted(c)'
        /\ \A d \in Clients \ {c} : client_updates'[d] = client_updates[d]
    BY <1>16, StoreAddsEntry
  <2>3. pc = "collect"
    BY <2>1
  <2>4. /\ RoundPhase(c) = "working" /\ RoundPhase(c)' = "delivered"
        /\ \A d \in Clients \ {c} : RoundPhase(d)' = RoundPhase(d)
    BY <2>1, <2>2, <2>3
  <2>5. [d \in Clients |-> RoundPhase(d)]'
        = [[d \in Clients |-> RoundPhase(d)] EXCEPT ![c] = "delivered"]
    BY <2>4
  <2> HIDE DEF RoundPhase
  <2> QED BY <2>1, <2>4, <2>5 DEF Bulk!Deliver
<1>17. ASSUME NEW c \in Clients, RefuseDuplicate(c) PROVE UNCHANGED Bulk!vars
  <2>1. Same BY <1>17 DEF RefuseDuplicate
  <2> QED BY <2>1, <1>a
<1>18. ASSUME NEW c \in Clients, Client(c) PROVE Bulk!Start(c) \/ UNCHANGED Bulk!vars
  <2>1. CASE StartClient(c)
    <3>1. Same BY <2>1 DEF StartClient
    <3> QED BY <3>1, <1>a
  <2>2. CASE RoundReady(c)
    <3>1. Same BY <2>2 DEF RoundReady
    <3> QED BY <3>1, <1>a
  <2>3. CASE TrainingOver(c)
    <3>1. Same BY <2>3 DEF TrainingOver
    <3> QED BY <3>1, <1>a
  <2>4. CASE GetWeights(c)
    <3>1. /\ pc = "collect" /\ ~Submitted(c) /\ handler[c] = "none" /\ cpc[c] = "get"
          /\ cpc' = [cpc EXCEPT ![c] = "train"]
          /\ base' = [base EXCEPT ![c] = global_model]
          /\ UNCHANGED <<pc, handler, client_updates, global_model>>
      BY <2>4 DEF GetWeights, Basis
    <3>2. global_model < NumRounds
      <4>1. global_model <= current_round - 1
        BY <3>1
      <4>2. current_round \in Nat /\ current_round <= NumRounds /\ global_model \in Nat
        BY DEF Versions
      <4> HIDE <1>0 DEF Safe, TypeOK, Barrier, RoundPhase
      <4> QED BY <4>1, <4>2
    <3>3. /\ RoundPhase(c) = "idle" /\ RoundPhase(c)' = "working"
          /\ \A d \in Clients \ {c} : RoundPhase(d)' = RoundPhase(d)
      BY <3>1
    <3>4. /\ c \in {d \in Clients : cpc[d] # "dead"}
          /\ UNCHANGED {d \in Clients : cpc[d] # "dead"}
      BY <3>1
    <3>5. [d \in Clients |-> RoundPhase(d)]'
          = [[d \in Clients |-> RoundPhase(d)] EXCEPT ![c] = "working"]
      BY <3>3
    <3> HIDE DEF RoundPhase
    <3> QED BY <3>1, <3>2, <3>3, <3>4, <3>5 DEF Bulk!Start
  <2>5. CASE SaveTrainedModel(c)
    <3>1. Same BY <2>5 DEF SaveTrainedModel
    <3> QED BY <3>1, <1>a
  <2>6. CASE PostUpdate(c)
    <3>1. Same BY <2>6 DEF PostUpdate
    <3> QED BY <3>1, <1>a
  <2>7. CASE ReplyReceived(c)
    <3>1. Same BY <2>7 DEF ReplyReceived
    <3> QED BY <3>1, <1>a
  <2>8. ~ReplyRefused(c) BY DEF ReplyRefused
  <2> QED
    BY <1>18, <2>1, <2>2, <2>3, <2>4, <2>5, <2>6, <2>7, <2>8 DEF Client
<1>19. ASSUME NEW c \in Clients, ClientFails(c) PROVE Bulk!Quit(c)
  <2>1. /\ cpc[c] # "dead" /\ cpc' = [cpc EXCEPT ![c] = "dead"]
        /\ cpc[c] \in {"start", "get", "train", "post", "reply"}
        /\ UNCHANGED <<pc, handler, client_updates, base, global_model>>
    BY <1>19 DEF ClientFails, StartFails, GetWeightsFails, PostFails
  <2>2. /\ \/ RoundPhase(c)' = RoundPhase(c)
           \/ RoundPhase(c) = "working" /\ RoundPhase(c)' = "idle"
        /\ \A d \in Clients \ {c} : RoundPhase(d)' = RoundPhase(d)
    BY <2>1
  <2>3. /\ c \in {d \in Clients : cpc[d] # "dead"}
        /\ {d \in Clients : cpc[d] # "dead"}' = {d \in Clients : cpc[d] # "dead"} \ {c}
    BY <2>1
  <2>4. CASE RoundPhase(c)' = RoundPhase(c)
    <3>1. [d \in Clients |-> RoundPhase(d)]' = [d \in Clients |-> RoundPhase(d)]
      BY <2>2, <2>4
    <3> HIDE DEF RoundPhase
    <3> QED BY <2>1, <2>3, <3>1 DEF Bulk!Quit
  <2>5. CASE RoundPhase(c) = "working" /\ RoundPhase(c)' = "idle"
    <3>1. [d \in Clients |-> RoundPhase(d)]'
          = [[d \in Clients |-> RoundPhase(d)] EXCEPT ![c] = "idle"]
      BY <2>2, <2>5
    <3> HIDE DEF RoundPhase
    <3> QED BY <2>1, <2>3, <2>5, <3>1 DEF Bulk!Quit
  <2> QED BY <2>2, <2>4, <2>5
<1>20. CASE UNCHANGED vars
  <2>1. Same BY <1>20 DEF vars
  <2> QED BY <2>1, <1>a
<1> HIDE DEF Safe, Barrier, RoundPhase
<1> QED
  BY <1>1, <1>2, <1>3, <1>4, <1>5, <1>6, <1>7, <1>8, <1>9, <1>10, <1>12, <1>13,
     <1>14, <1>15, <1>16, <1>17, <1>18, <1>19, <1>20
     DEF Next, RoundThread, Handler, Terminated, Bulk!Next

\* As long as no round can time out, no upload is lost and no transfers cross,
\* the server and the clients implement bulk-synchronous rounds.
THEOREM RoundsAreBulkSynchronous ==
  Faults \cap {"roundTimeout", "upload", "sharedKey"} = {} => (Spec => ImplementsBulkRounds)
<1> SUFFICES ASSUME Faults \cap {"roundTimeout", "upload", "sharedKey"} = {}
             PROVE Spec => Bulk!Spec
  BY DEF ImplementsBulkRounds
<1>1. WorkInv /\ [Next]_vars => [Bulk!Next]_(Bulk!vars)
  BY BulkStep
<1>2. Spec => []WorkInv
  BY WorkInvariant
<1> QED
  BY <1>1, <1>2, BulkInit, PTL DEF Spec, Bulk!Spec

-----------------------------------------------------------------------------
(* The files that fedavg averages                                          *)

\* A file that a client under contract keeps, or has replaced after a lost round.
FileOf(w, d) ==
  /\ w # None /\ w.from = d
  /\ w = uploaded[d] \/ (~Orderly /\ Straggles(d))
Kept == {w \in Weights : \E d \in agreements : FileOf(w, d)}

\* Whose file a file is.
Signed == \A d \in Clients : uploaded[d] # None => uploaded[d].from = d

\* What the round in play has fetched are such files.  No client begins a round
\* while files are fetched.
FetchedIsKept ==
  /\ Signed
  /\ pc \in {"fetch", "aggregate"} => ~model_ready
  /\ pc = "fetch" => \A c \in agreements \ fetching : received[c] \in Kept
  /\ pc = "aggregate" /\ WithEdc => \A c \in Clients : client_updates[c].weights \in Kept

\* A client can replace its file while files are fetched, once, if a round was lost.
LEMMA KeptStays ==
  ASSUME RoundInv, RoundInv', Signed, pc \in {"fetch", "aggregate"}, ~model_ready, [Next]_vars,
         NEW w \in Kept
  PROVE  w \in Kept'
<1>0. PICK d \in agreements : FileOf(w, d)
  BY DEF Kept
<1>1. d \in Clients
  BY DEF RoundInv, Safe, TypeOK
<1>2. ~Orderly => ~Orderly'
  BY OrderlyStep DEF RoundInv
<1>3. \A c \in Clients : Submitted(c)
  BY DEF RoundInv, Safe, Collected
<1>4. agreements' = agreements
  BY DEF Next, RoundThread, BeginRound, ResetRound, AnnounceRound, RoundCollected,
    RoundTimeout, FetchTrainedModel, FetchFails, LoadTrainedModels, LoadFails, Aggregate,
    AggregateFails, PublishModel, CompleteTraining, ServerExit, Handler, CheckRound,
    StoreUpdate, RefuseDuplicate, Client, StartClient, RoundReady, TrainingOver, GetWeights,
    SaveTrainedModel, PostUpdate, ReplyReceived, ReplyRefused, ClientFails, StartFails,
    GetWeightsFails, PostFails, Terminated, vars, serverSide, storageVars, setupVars
<1>5. SUFFICES FileOf(w, d)'
  BY <1>4 DEF Kept
<1>6. CASE RoundThread \/ RoundTimeout \/ (\E c \in Clients : FetchFails(c))
  <2>1. UNCHANGED <<uploaded, cpc, handler>>
    BY <1>6
    DEF RoundThread, BeginRound, ResetRound, AnnounceRound, RoundCollected, FetchTrainedModel,
        LoadTrainedModels, LoadFails, Aggregate, AggregateFails, PublishModel,
        CompleteTraining, ServerExit, RoundTimeout, FetchFails, clientVars
  <2> QED BY <1>0, <1>2, <2>1 DEF FileOf, Straggles
<1>7. ASSUME NEW c \in Clients, SaveTrainedModel(c) PROVE FileOf(w, d)'
  <2>1. /\ cpc[c] = "train" /\ cpc' = [cpc EXCEPT ![c] = "post"] /\ handler' = handler
        /\ \A e \in Clients \ {c} : uploaded'[e] = uploaded[e]
        /\ UNCHANGED <<pc, current_round, global_model>>
    BY <1>7 DEF SaveTrainedModel, Move, RoundInv, Safe, TypeOK, serverSide, serverVars
  <2>2. ~Orderly'
    <3>1. Orderly => pc = "collect"
      BY <2>1 DEF RoundInv, Barrier, ServesRound, Working
    <3> QED BY <1>2, <3>1
  <2>3. CASE d = c
    BY <1>0, <2>1, <2>2, <2>3 DEF FileOf, Straggles, RoundInv, Safe, TypeOK
  <2>4. CASE d # c
    BY <1>0, <1>1, <2>1, <2>2, <2>4 DEF FileOf, Straggles, RoundInv, Safe, TypeOK
  <2> QED BY <2>3, <2>4
<1>8. ASSUME NEW c \in Clients, Handler(c) \/ Client(c) \/ ClientFails(c), ~SaveTrainedModel(c)
      PROVE  FileOf(w, d)'
  <2>1. uploaded' = uploaded
    BY <1>8
    DEF Handler, CheckRound, StoreUpdate, RefuseDuplicate, Client, StartClient, RoundReady,
        TrainingOver, GetWeights, PostUpdate, ReplyReceived, ReplyRefused, ClientFails,
        StartFails, GetWeightsFails, PostFails, serverSide, clientVars
  <2>2. Straggles(d) => Straggles(d)'
    BY <1>1, <1>3, <1>8
    DEF Straggles, Move, RoundInv, Safe, TypeOK, HasHandler,
        Handler, CheckRound, StoreUpdate, RefuseDuplicate, Client, StartClient, RoundReady,
        TrainingOver, GetWeights, PostUpdate, ReplyReceived, ReplyRefused, ClientFails,
        StartFails, GetWeightsFails, PostFails, serverSide, clientVars
  <2> QED BY <1>0, <1>2, <2>1, <2>2 DEF FileOf
<1>9. CASE Terminated \/ UNCHANGED vars
  BY <1>0, <1>2, <1>9 DEF Terminated, vars, clientVars, FileOf, Straggles
<1> QED BY <1>6, <1>7, <1>8, <1>9 DEF Next

\* What clients write is signed, and the announcement is taken down before the files
\* are fetched.
LEMMA SignedStep ==
  ASSUME TypeOK, Signed, pc \in {"fetch", "aggregate"} => ~model_ready, [Next]_vars
  PROVE  Signed' /\ (pc' \in {"fetch", "aggregate"} => ~model_ready')
<1>1. CASE RoundThread \/ RoundTimeout \/ (\E c \in Clients : FetchFails(c))
  BY <1>1
  DEF RoundThread, BeginRound, ResetRound, AnnounceRound, RoundCollected, FetchTrainedModel,
      LoadTrainedModels, LoadFails, Aggregate, AggregateFails, PublishModel, Signed, Advance,
      CompleteTraining, ServerExit, RoundTimeout, FetchFails, clientVars, serverVars
<1>2. ASSUME NEW c \in Clients, SaveTrainedModel(c)
      PROVE  Signed' /\ (pc' \in {"fetch", "aggregate"} => ~model_ready')
  BY <1>2 DEF SaveTrainedModel, Signed, Trained, TypeOK, serverSide, serverVars
<1>3. ASSUME NEW c \in Clients, Handler(c) \/ Client(c) \/ ClientFails(c), ~SaveTrainedModel(c)
      PROVE  UNCHANGED <<uploaded, pc, model_ready>>
  BY <1>3
  DEF Handler, CheckRound, StoreUpdate, RefuseDuplicate, Client, StartClient, RoundReady,
      TrainingOver, GetWeights, PostUpdate, ReplyReceived, ReplyRefused, ClientFails,
      StartFails, GetWeightsFails, PostFails, serverSide, clientVars, serverVars
<1>4. CASE Terminated \/ UNCHANGED vars
  BY <1>4 DEF Terminated, vars, clientVars, serverVars, Signed
<1> QED BY <1>1, <1>2, <1>3, <1>4 DEF Next, Signed

LEMMA FetchedStep ==
  ASSUME RoundInv, RoundInv', Outsiders, FetchedIsKept, [Next]_vars
  PROVE  FetchedIsKept'
<1> USE DEF RoundInv, Safe
<1>1. Signed' /\ (pc' \in {"fetch", "aggregate"} => ~model_ready')
  BY SignedStep DEF FetchedIsKept
<1>2. ASSUME NEW w \in Kept, pc \in {"fetch", "aggregate"} PROVE w \in Kept'
  BY <1>2, KeptStays DEF FetchedIsKept
<1>3. CASE pc' \notin {"fetch", "aggregate"}
  BY <1>1, <1>3 DEF FetchedIsKept
<1>4. CASE RoundCollected
  <2>1. pc' = "fetch" => WithEdc /\ agreements' \ fetching' = {}
    BY <1>4, EdcAssumption DEF RoundCollected, Advance, setupVars, TypeOK
  <2>2. pc' = "aggregate" => ~WithEdc
    BY <1>4 DEF RoundCollected, Advance, TypeOK
  <2> QED BY <1>1, <2>1, <2>2 DEF FetchedIsKept
<1>5. ASSUME NEW c \in Clients, NEW d \in Clients, FetchTrainedModel(c, d)
      PROVE  FetchedIsKept'
  <2>1. /\ pc = "fetch" /\ pc' = "fetch" /\ agreements' = agreements
        /\ received' = [received EXCEPT ![c] = uploaded[d]] /\ fetching' = fetching \ {c}
        /\ uploaded[d] # None /\ (d = c \/ d \in agreements) /\ c \in fetching
    BY <1>5 DEF FetchTrainedModel, serverVars, setupVars
  <2>2. d \in agreements
    BY <2>1 DEF Outsiders
  <2>3. uploaded[d] \in Kept
    BY <2>1, <2>2 DEF Kept, FileOf, FetchedIsKept, Signed, TypeOK
  <2>4. uploaded[d] \in Kept'
    BY <1>2, <2>1, <2>3
  <2>5. ASSUME NEW e \in agreements \ fetching' PROVE received'[e] \in Kept'
    <3>1. CASE e = c
      BY <2>1, <2>4, <3>1 DEF TypeOK
    <3>2. CASE e # c
      <4>1. received'[e] = received[e] /\ received[e] \in Kept
        BY <2>1, <2>5, <3>2 DEF TypeOK, FetchedIsKept
      <4> QED BY <1>2, <2>1, <4>1
    <3> QED BY <3>1, <3>2
  <2> QED BY <1>1, <2>1, <2>5 DEF FetchedIsKept
<1>6. CASE LoadTrainedModels
  <2>1. /\ pc = "fetch" /\ pc' = "aggregate" /\ fetching = {}
        /\ \A c \in Clients : Submitted(c) => received[c] # None
    BY <1>6 DEF LoadTrainedModels, Advance
  <2>2. \A c \in Clients : Submitted(c) /\ client_updates'[c].weights = received[c]
    BY <1>6, LoadKeepsEntries
  <2>3. ASSUME NEW c \in Clients PROVE client_updates'[c].weights \in Kept'
    <3>1. received[c] \in Kept
      BY <2>1, <2>2 DEF Outsiders, FetchedIsKept
    <3> QED BY <1>2, <2>1, <2>2, <3>1
  <2> QED BY <1>1, <2>1, <2>3 DEF FetchedIsKept
<1>7. CASE UNCHANGED <<pc, fetching, received, agreements>>
           /\ (pc = "aggregate" => UNCHANGED client_updates)
  <2>1. pc = "fetch" => \A c \in agreements \ fetching : received[c] \in Kept'
    BY <1>2 DEF FetchedIsKept
  <2>2. pc = "aggregate" /\ WithEdc => \A c \in Clients : client_updates[c].weights \in Kept'
    BY <1>2 DEF FetchedIsKept
  <2> QED BY <1>1, <1>7, <2>1, <2>2 DEF FetchedIsKept
<1>8. CASE BeginRound \/ ResetRound \/ AnnounceRound \/ RoundTimeout \/ LoadFails \/ Aggregate
           \/ AggregateFails \/ PublishModel \/ CompleteTraining \/ ServerExit
           \/ (\E c \in Clients : FetchFails(c))
  <2>1. pc' \notin {"fetch", "aggregate"}
    BY <1>8 DEF BeginRound, ResetRound, AnnounceRound, RoundTimeout, LoadFails, Aggregate,
                AggregateFails, PublishModel, CompleteTraining, ServerExit, FetchFails, Advance
  <2> QED BY <1>3, <2>1
<1>9. ASSUME NEW c \in Clients, Handler(c) \/ Client(c) \/ ClientFails(c)
      PROVE  UNCHANGED <<pc, fetching, received, agreements>>
             /\ (pc = "aggregate" => UNCHANGED client_updates)
  <2>1. pc = "aggregate" => ~StoreUpdate(c)
    BY DEF Collected, StoreUpdate
  <2>2. UNCHANGED <<pc, fetching, received, agreements>>
    BY <1>9
    DEF Handler, CheckRound, StoreUpdate, RefuseDuplicate, Client, StartClient, RoundReady,
        TrainingOver, GetWeights, SaveTrainedModel, PostUpdate, ReplyReceived, ReplyRefused,
        ClientFails, StartFails, GetWeightsFails, PostFails, serverSide, serverVars,
        storageVars, setupVars, clientVars
  <2>3. StoreUpdate(c) \/ UNCHANGED client_updates
    BY <1>9
    DEF Handler, CheckRound, RefuseDuplicate, Client, StartClient, RoundReady,
        TrainingOver, GetWeights, SaveTrainedModel, PostUpdate, ReplyReceived, ReplyRefused,
        ClientFails, StartFails, GetWeightsFails, PostFails, serverSide
  <2> QED BY <2>1, <2>2, <2>3
<1>10. CASE Terminated \/ UNCHANGED vars
  BY <1>7, <1>10 DEF Terminated, vars, serverVars, storageVars, setupVars
<1> QED BY <1>4, <1>5, <1>6, <1>7, <1>8, <1>9, <1>10 DEF Next, RoundThread

\* Whatever uploads, transfers and the round limit do, what fedavg averages in with-edc
\* mode are files that clients under contract keep in Nextcloud, or that a straggler of a
\* lost round has just replaced.
THEOREM AveragesAreFetched == Spec => AveragesFetchedFiles
<1>1. Init => Outsiders /\ FetchedIsKept
  BY OutsidersInit DEF Init, FetchedIsKept, Signed
<1>2. RoundInv /\ RoundInv' /\ Outsiders /\ FetchedIsKept /\ [Next]_vars
        => Outsiders' /\ FetchedIsKept'
  BY OutsidersStep, FetchedStep DEF RoundInv
<1>3. RoundInv /\ FetchedIsKept /\ [Next]_vars
        => [(global_model' # global_model /\ WithEdc) =>
              \A c \in Clients :
                LET w == client_updates[c].weights IN
                  /\ w # None
                  /\ \E d \in agreements :
                       /\ w.from = d
                       /\ w = uploaded[d] \/ (~Intact /\ Straggles(d))]_vars
  <2> SUFFICES ASSUME RoundInv, FetchedIsKept, [Next]_vars, global_model' # global_model,
                      WithEdc, NEW c \in Clients
               PROVE  LET w == client_updates[c].weights IN
                        /\ w # None
                        /\ \E d \in agreements :
                             /\ w.from = d
                             /\ w = uploaded[d] \/ (~Intact /\ Straggles(d))
    OBVIOUS
  <2>1. Aggregate
    BY OnlyAggregateWrites
  <2> QED BY <2>1 DEF Aggregate, Advance, FetchedIsKept, Kept, FileOf, Orderly
<1> QED BY <1>1, <1>2, <1>3, RoundInvariant, PTL DEF Spec, AveragesFetchedFiles

-----------------------------------------------------------------------------
(* What the runs sync_mismatch and sync_upload show to fail, and all that it *)
(* takes for it to hold.                                                     *)

\* As long as no round was given up, and for good where none ever times out, the
\* check of handle_sync_update before the lock is enough: a timed-out round is the
\* only way for an update of another round into client_updates.
THEOREM MismatchNeedsTimeout == Spec => [](Orderly => OnlyThisRoundsUpdates)
<1>1. RoundInv => (Orderly => OnlyThisRoundsUpdates)
  BY DEF RoundInv, Barrier, Stamped, OnlyThisRoundsUpdates, InPlay
<1> QED
  BY <1>1, RoundInvariant, PTL

\* The RC offers the server's model except between the aggregation and its upload,
\* and model_ready is down from the end of the collection to the next round.
Offered ==
  /\ WithEdc /\ pc # "publish" => rc_model = global_model
  /\ ~WithEdc => pc # "publish"
  /\ pc \in {"aggregate", "fetch", "publish"} => ~model_ready

LEMMA OfferedStep ==
  ASSUME "upload" \notin Faults, Offered, [Next]_vars
  PROVE  Offered'
<1> USE EdcAssumption DEF Offered, Advance
<1>1. CASE RoundThread
  BY <1>1 DEF RoundThread, BeginRound, ResetRound, AnnounceRound, RoundCollected,
     FetchTrainedModel, LoadTrainedModels, LoadFails, Aggregate, AggregateFails,
     PublishModel, CompleteTraining, ServerExit, serverVars, storageVars
<1>2. CASE RoundTimeout BY <1>2 DEF RoundTimeout, storageVars
<1>3. ASSUME NEW c \in Clients, FetchFails(c) PROVE Offered'
  BY <1>3 DEF FetchFails, storageVars
<1>4. CASE UNCHANGED <<pc, model_ready, global_model, rc_model>> BY <1>4
<1>5. ASSUME NEW c \in Clients, Handler(c) \/ Client(c) \/ ClientFails(c)
      PROVE UNCHANGED <<pc, model_ready, global_model, rc_model>>
  BY <1>5 DEF Handler, CheckRound, StoreUpdate, RefuseDuplicate, Client, StartClient,
     RoundReady, TrainingOver, GetWeights, SaveTrainedModel, PostUpdate, ReplyReceived,
     ReplyRefused, ClientFails, StartFails, GetWeightsFails, PostFails, serverVars,
     storageVars, serverSide
<1>6. Terminated \/ UNCHANGED vars => UNCHANGED <<pc, model_ready, global_model, rc_model>>
  BY DEF Terminated, vars, serverVars, storageVars
<1> QED
  BY <1>1, <1>2, <1>3, <1>4, <1>5, <1>6 DEF Next

\* Where every upload to the RC's Nextcloud succeeds, whatever else fails and
\* however many rounds are given up, no round is announced with an old model.
THEOREM StaleModelNeedsLostUpload ==
  ASSUME "upload" \notin Faults
  PROVE  Spec => []PublishedModelIsCurrent
<1>1. Init => Offered
  BY DEF Init, Offered
<1>2. Offered /\ [Next]_vars => Offered'
  BY OfferedStep
<1>3. Offered => PublishedModelIsCurrent
  BY DEF Offered, PublishedModelIsCurrent
<1> QED
  BY <1>1, <1>2, <1>3, PTL DEF Spec

-----------------------------------------------------------------------------
(* A training runs out                                                      *)

\* The numbers that the measures are made of.
LEMMA Measurable ==
  ASSUME TypeOK
  PROVE  /\ NumClients \in Nat
         /\ \A r \in 0..NumRounds :
              NumRounds - r \in Nat /\ (NumRounds - r) * StepsInRound \in Nat
         /\ \A s \in SUBSET Clients : IsFiniteSet(s) /\ Cardinality(s) \in 0..NumClients
<1>1. NumClients \in Nat
  BY ClientsAssumption, FS_CardinalityType DEF NumClients
<1>2. ASSUME NEW r \in 0..NumRounds
      PROVE  NumRounds - r \in Nat /\ (NumRounds - r) * StepsInRound \in Nat
  <2>1. NumRounds - r \in Nat /\ StepsInRound \in Nat
    BY <1>1, RoundsAssumption DEF StepsInRound
  <2> QED BY <2>1
<1>3. ASSUME NEW s \in SUBSET Clients
      PROVE  IsFiniteSet(s) /\ Cardinality(s) \in 0..NumClients
  <2>1. IsFiniteSet(s) /\ Cardinality(s) <= Cardinality(Clients)
    BY ClientsAssumption, FS_Subset
  <2> QED BY <1>1, <2>1, FS_CardinalityType DEF NumClients
<1> QED BY <1>1, <1>2, <1>3

\* A round begun is a round less to come.
LEMMA RoundLess ==
  ASSUME NEW r \in Nat, r < NumRounds, NEW n \in Nat, n = NumClients
  PROVE  (NumRounds - r) * StepsInRound = (NumRounds - (r + 1)) * StepsInRound + n + 7
<1>1. PICK m \in Nat : m = NumRounds - (r + 1)
  BY RoundsAssumption
<1>2. NumRounds - r = m + 1 /\ StepsInRound = n + 7
  BY <1>1, RoundsAssumption DEF StepsInRound
<1>3. (m + 1) * (n + 7) = m * (n + 7) + n + 7
  BY <1>1
<1> QED BY <1>1, <1>2, <1>3

\* The measures are natural numbers ...
LEMMA LeftNat == TypeOK => ServerLeft \in Nat /\ \A c \in Clients : ClientLeft(c) \in Nat
<1> SUFFICES ASSUME TypeOK PROVE ServerLeft \in Nat /\ \A c \in Clients : ClientLeft(c) \in Nat
  OBVIOUS
<1>1. ServerLeft \in Nat
  <2>1. PICK l, k, n \in Nat : /\ l = (NumRounds - current_round) * StepsInRound
                               /\ k = Cardinality(fetching) /\ n = NumClients
    BY Measurable DEF TypeOK
  <2>2. pc \in {"begin", "reset", "announce", "collect", "fetch", "aggregate", "publish",
                "crashed", "exiting", "exited"}
    BY DEF TypeOK
  <2>3. ServerLeft = ServerSteps(pc, l, k)
    BY <2>1 DEF ServerLeft
  <2> QED BY <2>1, <2>2, <2>3 DEF ServerSteps
<1>2. ASSUME NEW c \in Clients PROVE ClientLeft(c) \in Nat
  <2>1. PICK l, p, h : l = NumRounds - iteration[c] /\ p = cpc[c] /\ h = handler[c]
    OBVIOUS
  <2>2. /\ h \in {"none", "sent", "checked", "received", "mismatch", "duplicate"}
        /\ p \in {"start", "wait", "get", "train", "post", "reply", "done", "dead"}
        /\ l \in Nat
    BY <2>1, Measurable DEF TypeOK
  <2>3. ClientSteps(p, l, h) \in Nat
    BY <2>1, <2>2 DEF ClientSteps, Stage, HandlerSteps
  <2> QED BY <2>1, <2>3 DEF ClientLeft
<1> QED BY <1>1, <1>2

\* ... a step of the round thread lowers its own and no other ...
LEMMA ServerLess ==
  ASSUME TypeOK, TypeOK',
         RoundThread \/ RoundTimeout \/ (\E c \in Clients : FetchFails(c))
  PROVE  /\ ServerLeft' < ServerLeft
         /\ UNCHANGED <<cpc, iteration, handler>>
<1>1. UNCHANGED <<cpc, iteration, handler>>
  BY DEF RoundThread, BeginRound, ResetRound, AnnounceRound, RoundCollected, FetchTrainedModel,
         LoadTrainedModels, LoadFails, Aggregate, AggregateFails, PublishModel,
         CompleteTraining, ServerExit, RoundTimeout, FetchFails, clientVars
<1> SUFFICES ServerLeft' < ServerLeft
  BY <1>1
<1>2. PICK l, k, n \in Nat : /\ l = (NumRounds - current_round) * StepsInRound
                             /\ k = Cardinality(fetching) /\ n = NumClients
  BY Measurable DEF TypeOK
<1>3. PICK m, j : m = (NumRounds - current_round') * StepsInRound /\ j = Cardinality(fetching')
  OBVIOUS
<1>4. m \in Nat /\ j \in 0..n
  BY <1>2, <1>3, Measurable DEF TypeOK
<1>5. ServerLeft = ServerSteps(pc, l, k) /\ ServerLeft' = ServerSteps(pc', m, j)
  BY <1>2, <1>3 DEF ServerLeft, ServerSteps, StepsInRound, NumClients
<1>6. CASE BeginRound
  <2>1. /\ pc = "begin" /\ pc' = "reset"
        /\ current_round < NumRounds /\ current_round' = current_round + 1
    BY <1>6 DEF BeginRound, Advance
  <2>2. l = m + n + 7
    BY <1>2, <1>3, <2>1, RoundLess DEF TypeOK
  <2>3. ServerLeft = l + 2 /\ ServerLeft' = m + n + 8
    BY <1>2, <1>4, <1>5, <2>1 DEF ServerSteps
  <2> QED BY <1>2, <1>4, <2>2, <2>3
<1>7. ASSUME NEW c \in Clients, NEW d \in Clients, FetchTrainedModel(c, d)
      PROVE  ServerLeft' < ServerLeft
  <2>1. pc = "fetch" /\ pc' = "fetch" /\ m = l /\ c \in fetching /\ fetching' = fetching \ {c}
    BY <1>2, <1>3, <1>7 DEF FetchTrainedModel, serverVars
  <2>2. j = k - 1
    BY <1>2, <1>3, <2>1, Measurable, FS_RemoveElement DEF TypeOK
  <2>3. ServerLeft = l + k + 5 /\ ServerLeft' = l + j + 5
    BY <1>2, <1>4, <1>5, <2>1 DEF ServerSteps
  <2> QED BY <1>2, <1>4, <2>2, <2>3
<1>8. CASE m = l /\ <<pc, pc'>> \in {
          <<"reset", "announce">>, <<"announce", "collect">>,
          <<"collect", "fetch">>, <<"collect", "aggregate">>, <<"collect", "begin">>,
          <<"fetch", "crashed">>, <<"fetch", "aggregate">>,
          <<"aggregate", "publish">>, <<"aggregate", "begin">>, <<"publish", "begin">>,
          <<"begin", "exiting">>, <<"exiting", "exited">>}
  <2> DEFINE From(p) == ServerSteps(p, l, k)
             To(p) == ServerSteps(p, l, j)
  <2>1. /\ To("announce") < From("reset") /\ To("collect") < From("announce")
        /\ To("fetch") < From("collect") /\ To("aggregate") < From("collect")
        /\ To("begin") < From("collect")
        /\ To("crashed") < From("fetch") /\ To("aggregate") < From("fetch")
        /\ To("publish") < From("aggregate") /\ To("begin") < From("aggregate")
        /\ To("begin") < From("publish")
        /\ To("exiting") < From("begin") /\ To("exited") < From("exiting")
    BY <1>2, <1>4 DEF ServerSteps
  <2>2. To(pc') < From(pc)
    <3> HIDE DEF To, From
    <3> QED BY <1>8, <2>1
  <2>3. ServerLeft = From(pc) /\ ServerLeft' = To(pc')
    BY <1>5, <1>8
  <2> HIDE DEF To, From
  <2> QED BY <2>2, <2>3
<1>9. CASE ResetRound \/ AnnounceRound \/ RoundCollected \/ RoundTimeout \/ LoadTrainedModels
           \/ LoadFails \/ Aggregate \/ AggregateFails \/ PublishModel \/ CompleteTraining
           \/ ServerExit \/ (\E c \in Clients : FetchFails(c))
  <2>1. current_round' = current_round
    BY <1>9 DEF ResetRound, AnnounceRound, RoundCollected, LoadTrainedModels, LoadFails,
       Aggregate, AggregateFails, PublishModel, CompleteTraining, ServerExit, RoundTimeout,
       FetchFails
  <2>2. <<pc, pc'>> \in {
          <<"reset", "announce">>, <<"announce", "collect">>,
          <<"collect", "fetch">>, <<"collect", "aggregate">>, <<"collect", "begin">>,
          <<"fetch", "crashed">>, <<"fetch", "aggregate">>,
          <<"aggregate", "publish">>, <<"aggregate", "begin">>, <<"publish", "begin">>,
          <<"begin", "exiting">>, <<"exiting", "exited">>}
    BY <1>9 DEF ResetRound, AnnounceRound, RoundCollected, LoadTrainedModels, LoadFails,
       Aggregate, AggregateFails, PublishModel, CompleteTraining, ServerExit, RoundTimeout,
       FetchFails, Advance
  <2> QED BY <1>2, <1>3, <1>8, <2>1, <2>2
<1> QED BY <1>6, <1>7, <1>9 DEF RoundThread

\* ... and a step of a handler or a client that of its client alone.
LEMMA ClientLess ==
  ASSUME TypeOK, TypeOK', NEW c \in Clients, Handler(c) \/ Client(c) \/ ClientFails(c)
  PROVE  /\ ClientLeft(c)' < ClientLeft(c)
         /\ \A d \in Clients \ {c} : ClientLeft(d)' = ClientLeft(d)
         /\ ServerLeft' = ServerLeft
<1> USE RoundsAssumption
<1>1. ServerLeft' = ServerLeft
  <2>1. UNCHANGED <<pc, current_round, fetching>>
    BY DEF Handler, CheckRound, StoreUpdate, RefuseDuplicate, Client, StartClient, RoundReady,
       TrainingOver, GetWeights, SaveTrainedModel, PostUpdate, ReplyReceived, ReplyRefused,
       ClientFails, StartFails, GetWeightsFails, PostFails, serverSide, serverVars, storageVars
  <2> QED BY <2>1 DEF ServerLeft, ServerSteps
<1>2. ASSUME NEW d \in Clients \ {c} PROVE ClientLeft(d)' = ClientLeft(d)
  <2>1. cpc'[d] = cpc[d] /\ iteration'[d] = iteration[d] /\ handler'[d] = handler[d]
    BY DEF Handler, CheckRound, StoreUpdate, RefuseDuplicate, Client, StartClient, RoundReady,
       TrainingOver, GetWeights, SaveTrainedModel, PostUpdate, ReplyReceived, ReplyRefused,
       ClientFails, StartFails, GetWeightsFails, PostFails, clientVars, Move, TypeOK
  <2> QED BY <2>1 DEF ClientLeft, ClientSteps
<1> SUFFICES ClientLeft(c)' < ClientLeft(c)
  BY <1>1, <1>2
<1>3. PICK p, l, h : p = cpc[c] /\ l = NumRounds - iteration[c] /\ h = handler[c]
  OBVIOUS
<1>4. PICK q, m, g : q = cpc'[c] /\ m = NumRounds - iteration'[c] /\ g = handler'[c]
  OBVIOUS
<1>5. /\ l \in Nat /\ m \in Nat
      /\ {h, g} \subseteq {"none", "sent", "checked", "received", "mismatch", "duplicate"}
      /\ p \in {"start", "wait", "get", "train", "post", "reply", "done", "dead"}
  BY <1>3, <1>4, Measurable DEF TypeOK
<1>6. ClientLeft(c) = ClientSteps(p, l, h) /\ ClientLeft(c)' = ClientSteps(q, m, g)
  BY <1>3, <1>4 DEF ClientLeft, ClientSteps
<1>7. CASE p = q /\ l = m /\ HandlerSteps[g] < HandlerSteps[h]
  <2>1. PICK a, b, e : /\ e = IF p \in DOMAIN Stage THEN 4 * (5 * l + Stage[p]) ELSE 0
                       /\ a = HandlerSteps[h] /\ b = HandlerSteps[g]
    OBVIOUS
  <2>2. e \in Nat /\ a \in Nat /\ b \in Nat /\ b < a
    BY <1>5, <1>7, <2>1 DEF Stage, HandlerSteps
  <2>3. ClientLeft(c) = e + a /\ ClientLeft(c)' = e + b
    BY <1>6, <1>7, <2>1 DEF ClientSteps
  <2> QED BY <2>2, <2>3
<1>8. CASE l = m /\ <<p, q>> \in {
          <<"start", "wait">>, <<"start", "dead">>, <<"wait", "get">>, <<"wait", "done">>,
          <<"get", "train">>, <<"get", "dead">>, <<"train", "post">>, <<"train", "reply">>,
          <<"train", "dead">>, <<"post", "reply">>, <<"post", "dead">>,
          <<"reply", "done">>, <<"reply", "dead">>}
  <2> DEFINE From(s) == ClientSteps(s, l, h)
             To(s) == ClientSteps(s, l, g)
  <2>1. /\ To("wait") < From("start") /\ To("dead") < From("start")
        /\ To("get") < From("wait") /\ To("done") < From("wait")
        /\ To("train") < From("get") /\ To("dead") < From("get")
        /\ To("post") < From("train") /\ To("reply") < From("train")
        /\ To("dead") < From("train")
        /\ To("reply") < From("post") /\ To("dead") < From("post")
        /\ To("done") < From("reply") /\ To("dead") < From("reply")
    BY <1>5 DEF ClientSteps, Stage, HandlerSteps
  <2>2. To(q) < From(p)
    <3> HIDE DEF To, From
    <3> QED BY <1>8, <2>1
  <2>3. ClientLeft(c) = From(p) /\ ClientLeft(c)' = To(q)
    BY <1>6, <1>8
  <2> HIDE DEF To, From
  <2> QED BY <2>2, <2>3
<1>9. CASE p = "reply" /\ q = "wait" /\ l = m + 1
  <2>1. ClientSteps("wait", m, g) < ClientSteps("reply", m + 1, h)
    BY <1>5 DEF ClientSteps, Stage, HandlerSteps
  <2>2. /\ ClientLeft(c) = ClientSteps("reply", m + 1, h)
        /\ ClientLeft(c)' = ClientSteps("wait", m, g)
    BY <1>6, <1>9
  <2> QED BY <2>1, <2>2
<1>10. CASE Handler(c)
  <2>1. p = q /\ l = m
    BY <1>3, <1>4, <1>10 DEF Handler, CheckRound, StoreUpdate, RefuseDuplicate, clientVars
  <2>2. <<h, g>> \in {<<"sent", "checked">>, <<"sent", "mismatch">>, <<"checked", "received">>,
                     <<"checked", "duplicate">>}
    BY <1>3, <1>4, <1>10 DEF Handler, CheckRound, StoreUpdate, RefuseDuplicate, TypeOK
  <2>3. HandlerSteps[g] < HandlerSteps[h]
    BY <2>2 DEF HandlerSteps
  <2> QED BY <1>7, <2>1, <2>3
<1>11. CASE Client(c) \/ ClientFails(c)
  <2>1. CASE ReplyReceived(c) /\ iteration[c] < NumRounds
    <3>1. p = "reply" /\ q = "wait" /\ iteration'[c] = iteration[c] + 1 /\ iteration[c] \in Nat
      BY <1>3, <1>4, <2>1 DEF ReplyReceived, Move, TypeOK
    <3>2. l = m + 1
      BY <1>3, <1>4, <2>1, <3>1
    <3> QED BY <1>9, <3>1, <3>2
  <2>2. CASE ~(ReplyReceived(c) /\ iteration[c] < NumRounds)
    <3>1. iteration'[c] = iteration[c]
      BY <1>11, <2>2 DEF Client, StartClient, RoundReady, TrainingOver, GetWeights,
         SaveTrainedModel, PostUpdate, ReplyReceived, ReplyRefused, ClientFails, StartFails,
         GetWeightsFails, PostFails, TypeOK
    <3>2. <<p, q>> \in {
          <<"start", "wait">>, <<"start", "dead">>, <<"wait", "get">>, <<"wait", "done">>,
          <<"get", "train">>, <<"get", "dead">>, <<"train", "post">>, <<"train", "reply">>,
          <<"train", "dead">>, <<"post", "reply">>, <<"post", "dead">>,
          <<"reply", "done">>, <<"reply", "dead">>}
      BY <1>3, <1>4, <1>11, <2>2 DEF Client, StartClient, RoundReady, TrainingOver, GetWeights,
         SaveTrainedModel, PostUpdate, ReplyReceived, ReplyRefused, ClientFails, StartFails,
         GetWeightsFails, PostFails, Move, TypeOK
    <3> QED BY <1>3, <1>4, <1>8, <3>1, <3>2
  <2> QED BY <2>1, <2>2
<1> QED BY <1>10, <1>11

\* The sum of StepsLeft is one of FoldSums.
LEMMA StepsAdded ==
  \A h : h = [c \in Clients |-> ClientLeft(c)] => StepsLeft = ServerLeft + SumOver(h, Clients)
<1> SUFFICES ASSUME NEW h, h = [c \in Clients |-> ClientLeft(c)]
             PROVE  StepsLeft = ServerLeft + SumOver(h, Clients)
  OBVIOUS
<1>1. StepsLeft = ServerLeft + Total(h)
  BY DEF StepsLeft
<1>2. Total(h) = SumOver(h, DOMAIN h)
  BY FoldIsSumOver DEF Total
<1> QED BY <1>1, <1>2

\* Whatever fails and is retried or given up, a training takes a bounded number of steps.
THEOREM TrainingRunsOut == Spec => RunsOut
<1>1. TypeOK /\ TypeOK' /\ [Next]_vars => [StepsLeft' \in 0..(StepsLeft - 1)]_vars
  <2> SUFFICES ASSUME TypeOK, TypeOK', Next, vars' # vars
               PROVE  StepsLeft' \in 0..(StepsLeft - 1)
    OBVIOUS
  <2>1. ServerLeft \in Nat /\ \A c \in Clients : ClientLeft(c) \in Nat
    BY LeftNat
  <2>2. ServerLeft' \in Nat /\ \A c \in Clients : ClientLeft(c)' \in Nat
    <3>1. TypeOK' => (ServerLeft \in Nat /\ \A c \in Clients : ClientLeft(c) \in Nat)'
      BY LeftNat, PTL
    <3> QED BY <3>1
  <2>3. PICK f, g : /\ f = [c \in Clients |-> ClientLeft(c)]
                    /\ g = [c \in Clients |-> ClientLeft(c)']
    OBVIOUS
  <2>4. StepsLeft = ServerLeft + SumOver(f, Clients)
    BY <2>3, StepsAdded
  <2>5. StepsLeft' = ServerLeft' + SumOver(g, Clients)
    <3>1. (\A h : h = [c \in Clients |-> ClientLeft(c)] =>
             StepsLeft = ServerLeft + SumOver(h, Clients))'
      BY StepsAdded, PTL
    <3> QED BY <2>3, <3>1
  <2>6. PICK F, G : F = SumOver(f, Clients) /\ G = SumOver(g, Clients)
    OBVIOUS
  <2>7. F \in Nat /\ G \in Nat
    BY <2>1, <2>2, <2>3, <2>6, ClientsAssumption, SumNat
  <2>8. CASE RoundThread \/ RoundTimeout \/ (\E c \in Clients : FetchFails(c))
    <3>1. ServerLeft' < ServerLeft /\ UNCHANGED <<cpc, iteration, handler>>
      BY <2>8, ServerLess
    <3>2. f = g
      BY <2>3, <3>1 DEF ClientLeft
    <3> QED BY <2>1, <2>2, <2>4, <2>5, <2>6, <2>7, <3>1, <3>2
  <2>9. ASSUME NEW c \in Clients, Handler(c) \/ Client(c) \/ ClientFails(c)
        PROVE  StepsLeft' \in 0..(StepsLeft - 1)
    <3>1. /\ ClientLeft(c)' < ClientLeft(c)
          /\ \A d \in Clients \ {c} : ClientLeft(d)' = ClientLeft(d)
          /\ ServerLeft' = ServerLeft
      BY <2>9, ClientLess
    <3>2. /\ \A d \in Clients : f[d] \in Nat /\ g[d] \in Nat
          /\ g[c] < f[c] /\ \A d \in Clients \ {c} : g[d] = f[d]
      BY <2>1, <2>2, <2>3, <3>1
    <3>3. G < F
      BY <2>6, <3>2, ClientsAssumption, SumDecrease
    <3> QED BY <2>1, <2>4, <2>5, <2>6, <2>7, <3>1, <3>3
  <2>10. ~Terminated
    BY DEF Terminated
  <2> QED BY <2>8, <2>9, <2>10 DEF Next
<1>2. Spec => []TypeOK
  BY TypeCorrect
<1> QED BY <1>1, <1>2, PTL DEF Spec, RunsOut
=============================================================================
