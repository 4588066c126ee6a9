--------------------------- MODULE FedAsyncProofs ---------------------------
(***************************************************************************)
(* Theorems about FedAsync, for any clients, number of rounds, samples and *)
(* failures.                                                               *)
(***************************************************************************)
EXTENDS FedAsync, FoldSums

-----------------------------------------------------------------------------
(* The inductive invariant.                                                *)

\* Only a client that waits for an answer, or died waiting, has a handler.
HasHandler(c) ==
  /\ hpc[c] # "none" => cpc[c] \in {"reply", "dead"}
  /\ cpc[c] = "reply" => hpc[c] # "none"

\* The handlers between "with self.lock" and the end of its block.
Mutex == \A c \in Clients : InLock(c) <=> lock = c

Uncounted(c) == hpc[c] \in {"sent", "fetch", "apply", "set", "count"}

\* What client_async_iterations knows of a client's loop counter.
KeepsCount(c) ==
  /\ cpc[c] \in {"start", "get", "read", "train", "post"} \/ Uncounted(c) =>
       iteration[c] = client_async_iterations[c] + 1
  /\ hpc[c] \in {"publish", "finish", "aggregated", "completed"} =>
       iteration[c] = client_async_iterations[c]

Finished ==
  /\ training_complete =>
       \A c \in Clients : client_async_iterations[c] = NumRounds /\ ~InLock(c)
  /\ \A c \in Clients : hpc[c] = "completed" => training_complete

\* client_versions lags behind global_version, and a handler at "publish" has
\* just made the version that no other client has seen.
VersionsLag ==
  \A c \in Clients :
    /\ client_versions[c] <= global_version
    /\ lock # None /\ hpc[lock] = "publish" /\ lock # c =>
         client_versions[c] < global_version

Serialized ==
  /\ TypeOK /\ Mutex /\ Finished /\ VersionsLag
  /\ \A c \in Clients : HasHandler(c) /\ KeepsCount(c)

\* The parts of the model that the handler at work has written and not counted,
\* or written and not published.
NotCounted(p) ==
  IF lock # None /\ (hpc[lock] = "count" \/ (hpc[lock] = "set" /\ p = 1)) THEN 1 ELSE 0
NotPublished(p) ==
  IF lock # None /\ (hpc[lock] \in {"count", "publish"} \/ (hpc[lock] = "set" /\ p = 1))
  THEN 1 ELSE 0

\* The RC offers the model of the last version.
OffersModel ==
  with_edc => /\ rc_model # None
              /\ \A p \in Parts : global_model[p] <= rc_model[p] + NotPublished(p)

\* How far the model may have moved on from the one a client works on.
Follows(c, p) ==
  global_model[p] <= base[c][p] + (global_version - client_versions[c]) + NotCounted(p)

Follow(c) ==
  /\ cpc[c] \in {"train", "post"} \/ hpc[c] \in {"sent", "fetch", "apply"} =>
       \A p \in Parts : Follows(c, p)
  /\ cpc[c] = "read" => Follows(c, 1)

\* The client's work on its way from the client to fedavg_async.
Handed(c) ==
  /\ with_edc /\ (cpc[c] = "post" \/ hpc[c] \in {"sent", "fetch"}) => uploaded[c] = base[c]
  /\ hpc[c] \in {"fetch", "apply"} => staleness[c] = global_version - client_versions[c]

\* A transfer given up brings the last work of a client that is out of the training.
LateWork ==
  \A d \in late : /\ hpc[d] \in {"failed", "none"} /\ cpc[d] \in {"reply", "dead"}
                  /\ uploaded[d] = base[d]

Delivered(c) ==
  hpc[c] = "apply" => \E d \in {c} \cup late : weights[c] = Work(d, base[d])

Fresh == OffersModel /\ \A c \in Clients : Follow(c) /\ Handed(c)

Fetched == LateWork /\ \A c \in Clients : Delivered(c)

AsyncInv == Serialized /\ ("upload" \notin faults => Fresh /\ Fetched)

-----------------------------------------------------------------------------

\* The lock is free, no count is made and no handler is at work at the start.
LEMMA SerializedInit == Init => Serialized
<1> SUFFICES ASSUME Init PROVE Serialized
  OBVIOUS
<1>1. TypeOK
  <2>1. Whole(0) \in Models
    BY DEF Whole, Models, Parts
  <2>2. with_edc \in BOOLEAN
    BY ModesAssumption DEF Init
  <2>3. num_samples \in [Clients -> Nat]
    BY SamplesAssumption DEF Init
  <2>4. agreements \subseteq Clients
    BY DEF Init
  <2>5. rc_model \in Models \cup {None}
    BY <2>1 DEF Init
  <2>6. /\ iteration \in [Clients -> 1..NumRounds]
        /\ client_async_iterations \in [Clients -> 0..NumRounds]
    BY RoundsAssumption DEF Init
  <2>7. /\ base \in [Clients -> Models] /\ weights \in [Clients -> Works \cup {None}]
        /\ late \subseteq Clients /\ uploaded \in [Clients -> Models \cup {None}]
    BY <2>1 DEF Init
  <2> QED
    BY <2>1, <2>2, <2>3, <2>4, <2>5, <2>6, <2>7 DEF Init, TypeOK
<1>2. Mutex /\ Finished /\ VersionsLag /\ \A c \in Clients : HasHandler(c) /\ KeepsCount(c)
  BY NoneAssumption DEF Init, Mutex, Finished, VersionsLag, HasHandler, KeepsCount, Uncounted, InLock
<1> QED
  BY <1>1, <1>2 DEF Serialized

\* Every step of a handler or a client keeps the types, the lock and the counts.
LEMMA SerializedStep == Serialized /\ [Next]_vars => Serialized'
<1> SUFFICES ASSUME Serialized, [Next]_vars PROVE Serialized'
  OBVIOUS
<1> USE RoundsAssumption, NoneAssumption DEF Serialized, TypeOK, Mutex, Finished,
    VersionsLag, HasHandler, KeepsCount, Uncounted, InLock, Proceed, Move,
    setup, counts, serverVars, fetched, handlerVars, clientVars
<1>1. ASSUME NEW c \in Clients, AcquireLock(c) PROVE Serialized'
  BY <1>1 DEF AcquireLock
<1>2. ASSUME NEW c \in Clients, FetchWeights(c) PROVE Serialized'
  <2>1. weights' \in [Clients -> Works \cup {None}]
    BY <1>2 DEF FetchWeights, Works, Work
  <2> QED
    BY <1>2, <2>1 DEF FetchWeights
<1>3. ASSUME NEW c \in Clients, FetchFails(c) PROVE Serialized'
  BY <1>3 DEF FetchFails
<1>4. ASSUME NEW c \in Clients, SkipWeights(c) PROVE Serialized'
  BY <1>4 DEF SkipWeights
<1>5. ASSUME NEW c \in Clients, SetFirstWeights(c) \/ SetOtherWeights(c)
      PROVE Serialized'
  <2>1. global_model' \in Models
    BY <1>5 DEF SetFirstWeights, SetOtherWeights, Models, Parts
  <2> QED
    BY <1>5, <2>1 DEF SetFirstWeights, SetOtherWeights
<1>6. ASSUME NEW c \in Clients, CountUpdate(c) PROVE Serialized'
  BY <1>6 DEF CountUpdate
<1>7. ASSUME NEW c \in Clients, PublishModel(c) PROVE Serialized'
  BY <1>7 DEF PublishModel
<1>8. ASSUME NEW c \in Clients, FinishUpdate(c) PROVE Serialized'
  BY <1>8 DEF FinishUpdate, AllContributed
<1>9. ASSUME NEW c \in Clients, StartClient(c) PROVE Serialized'
  BY <1>9 DEF StartClient
<1>10. ASSUME NEW c \in Clients, ReadFirstWeights(c) \/ ReadOtherWeights(c)
       PROVE Serialized'
  <2>1. PICK p \in Parts : base' = [base EXCEPT ![c][p] = global_model[p]]
    BY <1>10 DEF ReadFirstWeights, ReadOtherWeights, Parts
  <2>2. [base[c] EXCEPT ![p] = global_model[p]] \in Models
    BY DEF Models
  <2>3. base' \in [Clients -> Models]
    BY <2>1, <2>2
  <2> QED
    BY <1>10, <2>3 DEF ReadFirstWeights, ReadOtherWeights
<1>11. ASSUME NEW c \in Clients, TransferModel(c) PROVE Serialized'
  BY <1>11 DEF TransferModel
<1>12. ASSUME NEW c \in Clients, SaveTrainedModel(c) PROVE Serialized'
  BY <1>12 DEF SaveTrainedModel
<1>13. ASSUME NEW c \in Clients, PostUpdate(c) PROVE Serialized'
  BY <1>13 DEF PostUpdate
<1>14. ASSUME NEW c \in Clients, ReplyReceived(c) PROVE Serialized'
  BY <1>14 DEF ReplyReceived
<1>15. ASSUME NEW c \in Clients, ReplyRefused(c) PROVE Serialized'
  BY <1>15 DEF ReplyRefused
<1>16. ASSUME NEW c \in Clients, ClientFails(c) PROVE Serialized'
  BY <1>16 DEF ClientFails
<1>17. CASE ServerExit
  BY <1>17 DEF ServerExit
<1>18. CASE UNCHANGED vars
  BY <1>18 DEF vars
<1> HIDE DEF Serialized
<1> QED
  BY <1>1, <1>2, <1>3, <1>4, <1>5, <1>6, <1>7, <1>8, <1>9, <1>10, <1>11, <1>12,
     <1>13, <1>14, <1>15, <1>16, <1>17, <1>18 DEF Next, Handler, Client, Terminated

-----------------------------------------------------------------------------

\* The first downloads find version 0.
LEMMA FreshInit == Init /\ "upload" \notin faults => Fresh
<1> SUFFICES ASSUME Init, "upload" \notin faults PROVE Fresh
  OBVIOUS
<1>1. OffersModel
  <2>1. Whole(0) \in Models /\ Whole(0) # None
    BY NoneAssumption DEF Whole, Models, Parts
  <2> QED
    BY <2>1 DEF Init, OffersModel, NotPublished, Models, Parts
<1>2. \A c \in Clients : Follow(c) /\ Handed(c)
  BY DEF Init, Follow, Handed
<1> QED
  BY <1>1, <1>2 DEF Fresh

\* As long as uploads succeed every step keeps track of how old a client's work is.
LEMMA FreshStep ==
  Serialized /\ "upload" \notin faults /\ Fresh /\ [Next]_vars => Fresh'
<1> SUFFICES ASSUME Serialized, "upload" \notin faults, Fresh, [Next]_vars
             PROVE Fresh'
  OBVIOUS
<1> USE NoneAssumption DEF Serialized, TypeOK, Mutex,
    VersionsLag, HasHandler, InLock, Proceed, Move, Models,
    setup, counts, serverVars, fetched, handlerVars, clientVars,
    Fresh, OffersModel, NotPublished, NotCounted, Follow, Follows, Handed
<1>1. ASSUME NEW c \in Clients, AcquireLock(c) PROVE Fresh'
  BY <1>1 DEF AcquireLock
<1>2. ASSUME NEW c \in Clients, FetchWeights(c) PROVE Fresh'
  BY <1>2 DEF FetchWeights
<1>3. ASSUME NEW c \in Clients, FetchFails(c) PROVE Fresh'
  <2>1. /\ lock = c /\ lock' = None /\ hpc[c] = "fetch" /\ hpc' = [hpc EXCEPT ![c] = "failed"]
        /\ UNCHANGED <<global_model, global_version, client_versions, rc_model, base,
                       cpc, uploaded, weights, staleness, with_edc>>
    BY <1>3 DEF FetchFails
  <2>2. \A p \in Parts : /\ NotCounted(p) = 0 /\ NotPublished(p) = 0
                         /\ NotCounted(p)' = 0 /\ NotPublished(p)' = 0
    BY <2>1
  <2> HIDE DEF NotCounted, NotPublished
  <2>3. OffersModel'
    BY <2>1, <2>2
  <2>4. \A d \in Clients : Follow(d)' /\ Handed(d)'
    BY <2>1, <2>2 DEF Parts
  <2> QED
    BY <2>3, <2>4
<1>4. ASSUME NEW c \in Clients, SkipWeights(c) PROVE Fresh'
  <2>1. /\ lock = c /\ lock' = c /\ hpc[c] = "apply" /\ hpc' = [hpc EXCEPT ![c] = "count"]
        /\ UNCHANGED <<global_model, global_version, client_versions, rc_model, base,
                       cpc, uploaded, weights, staleness, with_edc>>
    BY <1>4 DEF SkipWeights
  <2>2. \A p \in Parts : /\ NotCounted(p) = 0 /\ NotPublished(p) = 0
                         /\ NotCounted(p)' = 1 /\ NotPublished(p)' = 1
    BY <2>1
  <2> HIDE DEF NotCounted, NotPublished
  <2>3. OffersModel'
    BY <2>1, <2>2
  <2>4. ASSUME NEW d \in Clients PROVE Follow(d)' /\ Handed(d)'
    <3>1. \A p \in Parts : Follows(d, p) => Follows(d, p)'
      BY <2>1, <2>2
    <3> HIDE DEF Follows
    <3>2. Follow(d)'
      BY <2>1, <3>1 DEF Parts
    <3>3. Handed(d)'
      BY <2>1
    <3> QED BY <3>2, <3>3
  <2> QED BY <2>3, <2>4
<1>5. ASSUME NEW c \in Clients, SetFirstWeights(c) PROVE Fresh'
  BY <1>5 DEF SetFirstWeights, Parts
<1>6. ASSUME NEW c \in Clients, SetOtherWeights(c) PROVE Fresh'
  BY <1>6 DEF SetOtherWeights, Parts
<1>7. ASSUME NEW c \in Clients, CountUpdate(c) PROVE Fresh'
  <2>1. /\ lock = c /\ lock' = c /\ hpc[c] = "count" /\ hpc' = [hpc EXCEPT ![c] = "publish"]
        /\ global_version' = global_version + 1
        /\ client_versions' = [client_versions EXCEPT ![c] = global_version + 1]
        /\ UNCHANGED <<global_model, rc_model, base, cpc, uploaded, weights, staleness,
                       with_edc>>
    BY <1>7 DEF CountUpdate
  <2>2. \A p \in Parts : /\ NotCounted(p) = 1 /\ NotPublished(p) = 1
                         /\ NotCounted(p)' = 0 /\ NotPublished(p)' = 1
    BY <2>1
  <2> HIDE DEF NotCounted, NotPublished
  <2>3. OffersModel'
    BY <2>1, <2>2
  <2>4. Follow(c)' /\ Handed(c)'
    BY <2>1
  <2>5. ASSUME NEW d \in Clients, d # c PROVE Follow(d)' /\ Handed(d)'
    <3>1. /\ hpc'[d] = hpc[d] /\ client_versions'[d] = client_versions[d]
          /\ hpc[d] \notin {"fetch", "apply"}
      BY <2>1, <2>5
    <3>2. Handed(d)'
      BY <2>1, <3>1
    <3>3. \A p \in Parts : Follows(d, p) => Follows(d, p)'
      BY <2>1, <2>2, <3>1
    <3>4. Follow(d)'
      BY <2>1, <3>1, <3>3 DEF Parts
    <3> QED BY <3>2, <3>4
  <2> QED BY <2>3, <2>4, <2>5
<1>8. ASSUME NEW c \in Clients, PublishModel(c) PROVE Fresh'
  <2>1. /\ lock = c /\ lock' = c /\ hpc[c] = "publish" /\ hpc' = [hpc EXCEPT ![c] = "finish"]
        /\ rc_model' = IF with_edc THEN global_model ELSE rc_model
        /\ UNCHANGED <<global_model, global_version, client_versions, base, cpc,
                       uploaded, weights, staleness, with_edc>>
    BY <1>8 DEF PublishModel
  <2>2. \A p \in Parts : NotCounted(p) = 0 /\ NotCounted(p)' = 0 /\ NotPublished(p)' = 0
    BY <2>1
  <2> HIDE DEF NotCounted, NotPublished
  <2>3. OffersModel'
    BY <2>1, <2>2 DEF Parts
  <2>4. ASSUME NEW d \in Clients PROVE Follow(d)' /\ Handed(d)'
    <3>1. \A p \in Parts : Follows(d, p) => Follows(d, p)'
      BY <2>1, <2>2
    <3> HIDE DEF Follows
    <3>2. Follow(d)'
      BY <2>1, <3>1 DEF Parts
    <3>3. Handed(d)'
      BY <2>1
    <3> QED BY <3>2, <3>3
  <2> QED BY <2>3, <2>4
<1>9. ASSUME NEW c \in Clients, FinishUpdate(c) PROVE Fresh'
  <2>1. /\ lock = c /\ lock' = None /\ hpc[c] = "finish"
        /\ \E s \in {"completed", "aggregated"} : hpc' = [hpc EXCEPT ![c] = s]
        /\ UNCHANGED <<global_model, global_version, client_versions, rc_model, base,
                       cpc, uploaded, weights, staleness, with_edc>>
    BY <1>9 DEF FinishUpdate
  <2>2. \A p \in Parts : /\ NotCounted(p) = 0 /\ NotPublished(p) = 0
                         /\ NotCounted(p)' = 0 /\ NotPublished(p)' = 0
    BY <2>1
  <2> HIDE DEF NotCounted, NotPublished
  <2>3. OffersModel'
    BY <2>1, <2>2
  <2>4. ASSUME NEW d \in Clients PROVE Follow(d)' /\ Handed(d)'
    <3>1. \A p \in Parts : Follows(d, p) => Follows(d, p)'
      BY <2>1, <2>2
    <3> HIDE DEF Follows
    <3>2. Follow(d)'
      BY <2>1, <3>1 DEF Parts
    <3>3. Handed(d)'
      BY <2>1
    <3> QED BY <3>2, <3>3
  <2> QED BY <2>3, <2>4
<1>10. ASSUME NEW c \in Clients, StartClient(c) PROVE Fresh'
  BY <1>10 DEF StartClient
<1>11. ASSUME NEW c \in Clients, ReadFirstWeights(c) PROVE Fresh'
  BY <1>11 DEF ReadFirstWeights, Parts
<1>12. ASSUME NEW c \in Clients, ReadOtherWeights(c) PROVE Fresh'
  BY <1>12 DEF ReadOtherWeights, Parts
<1>13. ASSUME NEW c \in Clients, TransferModel(c) PROVE Fresh'
  <2>1. /\ with_edc /\ cpc[c] = "get" /\ cpc' = [cpc EXCEPT ![c] = "train"]
        /\ rc_model \in Models /\ base' = [base EXCEPT ![c] = rc_model]
        /\ UNCHANGED <<lock, hpc, global_model, global_version, client_versions, rc_model,
                       uploaded, weights, staleness, with_edc>>
    BY <1>13 DEF TransferModel
  <2>2. lock # c /\ hpc[c] = "none"
    BY <2>1
  <2>3. \A p \in Parts : NotPublished(p) <= global_version - client_versions[c] + NotCounted(p)
    BY <2>1, <2>2
  <2>4. OffersModel'
    BY <2>1
  <2>5. Follow(c)' /\ Handed(c)'
    <3>1. \A p \in Parts : global_model[p] <= rc_model[p] + NotPublished(p)
      BY <2>1
    <3>2. \A p \in Parts : NotPublished(p) \in Int /\ NotCounted(p) \in Int
      OBVIOUS
    <3>3. \A p \in Parts : NotCounted(p)' = NotCounted(p)
      BY <2>1
    <3> HIDE DEF NotPublished, NotCounted
    <3>4. \A p \in Parts : Follows(c, p)'
      BY <2>1, <2>3, <3>1, <3>2, <3>3
    <3> QED BY <2>1, <2>2, <3>4
  <2>6. ASSUME NEW d \in Clients, d # c PROVE Follow(d)' /\ Handed(d)'
    BY <2>1, <2>6
  <2> QED BY <2>4, <2>5, <2>6
<1>14. ASSUME NEW c \in Clients, SaveTrainedModel(c) PROVE Fresh'
  BY <1>14 DEF SaveTrainedModel
<1>15. ASSUME NEW c \in Clients, PostUpdate(c) PROVE Fresh'
  <2>1. /\ cpc[c] \in {"train", "post"} /\ (with_edc => cpc[c] = "post") /\ hpc[c] = "none"
        /\ cpc' = [cpc EXCEPT ![c] = "reply"] /\ hpc' = [hpc EXCEPT ![c] = "sent"]
        /\ UNCHANGED <<lock, global_model, global_version, client_versions, rc_model, base,
                       uploaded, staleness, with_edc>>
    BY <1>15 DEF PostUpdate
  <2>2. OffersModel' /\ \A d \in Clients : Follow(d)'
    BY <2>1
  <2>3. \A d \in Clients : Handed(d)'
    BY <2>1
  <2> QED BY <2>2, <2>3
<1>16. ASSUME NEW c \in Clients, ReplyReceived(c) PROVE Fresh'
  BY <1>16 DEF ReplyReceived
<1>17. ASSUME NEW c \in Clients, ReplyRefused(c) PROVE Fresh'
  BY <1>17 DEF ReplyRefused
<1>18. ASSUME NEW c \in Clients, ClientFails(c) PROVE Fresh'
  BY <1>18 DEF ClientFails
<1>19. CASE ServerExit
  BY <1>19 DEF ServerExit
<1>20. CASE UNCHANGED vars
  BY <1>20 DEF vars
<1> HIDE DEF Serialized, Fresh
<1> QED
  BY <1>1, <1>2, <1>3, <1>4, <1>5, <1>6, <1>7, <1>8, <1>9, <1>10, <1>11, <1>12,
     <1>13, <1>14, <1>15, <1>16, <1>17, <1>18, <1>19, <1>20
     DEF Next, Handler, Client, Terminated

\* As long as uploads succeed what arrives at a handler is its client's work, or the
\* last of a client whose transfer was given up.
LEMMA FetchedStep ==
  Serialized /\ "upload" \notin faults /\ Fresh /\ Fetched /\ [Next]_vars => Fetched'
<1> SUFFICES ASSUME Serialized, "upload" \notin faults, Fresh, Fetched, [Next]_vars
             PROVE  Fetched'
  OBVIOUS
<1>0. /\ \A c \in Clients : HasHandler(c)
      /\ \A c \in Clients : with_edc /\ hpc[c] = "fetch" => uploaded[c] = base[c]
  BY DEF Serialized, Fresh, Handed
<1> USE <1>0 DEF Serialized, TypeOK, HasHandler, Proceed, Move,
    setup, counts, serverVars, fetched, handlerVars, clientVars, Fetched, LateWork, Delivered
<1>1. ASSUME NEW c \in Clients, FetchWeights(c) PROVE Fetched'
  <2>1. /\ hpc[c] = "fetch" /\ hpc' = [hpc EXCEPT ![c] = "apply"]
        /\ UNCHANGED <<late, cpc, base, uploaded>>
    BY <1>1 DEF FetchWeights
  <2>2. PICK d \in {c} \cup late : weights' = [weights EXCEPT ![c] = Work(d, base[d])]
    BY <1>1, <2>1 DEF FetchWeights
  <2> QED
    BY <2>1, <2>2
<1>2. ASSUME NEW c \in Clients, FetchFails(c) PROVE Fetched'
  <2>1. /\ hpc[c] = "fetch" /\ hpc' = [hpc EXCEPT ![c] = "failed"] /\ with_edc
        /\ late' \in {late, late \cup {c}}
        /\ UNCHANGED <<weights, cpc, base, uploaded>>
    BY <1>2 DEF FetchFails
  <2>2. cpc[c] \in {"reply", "dead"} /\ uploaded[c] = base[c]
    BY <2>1
  <2> QED
    BY <2>1, <2>2
<1>3. ASSUME NEW c \in Clients, Handler(c), ~FetchWeights(c) PROVE Fetched'
  <2>1. /\ hpc[c] \notin {"failed", "none"} /\ UNCHANGED <<weights, late, cpc, base, uploaded>>
        /\ \E h \in {"fetch", "set", "count", "publish", "finish", "completed", "aggregated"} :
             hpc' = [hpc EXCEPT ![c] = h]
    BY <1>3 DEF Handler, AcquireLock, SkipWeights, SetFirstWeights, SetOtherWeights,
       CountUpdate, PublishModel, FinishUpdate
  <2> QED
    BY <2>1
<1>4. ASSUME NEW c \in Clients, StartClient(c) PROVE Fetched'
  BY <1>4 DEF StartClient
<1>5. ASSUME NEW c \in Clients, ReadFirstWeights(c) \/ ReadOtherWeights(c) \/ TransferModel(c)
      PROVE  Fetched'
  <2>1. /\ cpc[c] \in {"get", "read"} /\ hpc[c] = "none" /\ c \notin late
        /\ \E p \in {"read", "train"} : cpc' = [cpc EXCEPT ![c] = p]
        /\ \A d \in Clients \ {c} : base'[d] = base[d]
        /\ UNCHANGED <<weights, late, hpc, uploaded>>
    BY <1>5 DEF ReadFirstWeights, ReadOtherWeights, TransferModel
  <2> QED
    BY <2>1
<1>6. ASSUME NEW c \in Clients, SaveTrainedModel(c) PROVE Fetched'
  BY <1>6 DEF SaveTrainedModel
<1>7. ASSUME NEW c \in Clients, PostUpdate(c) PROVE Fetched'
  BY <1>7 DEF PostUpdate
<1>8. ASSUME NEW c \in Clients, ReplyReceived(c) PROVE Fetched'
  BY <1>8 DEF ReplyReceived
<1>9. ASSUME NEW c \in Clients, ReplyRefused(c) PROVE Fetched'
  BY <1>9 DEF ReplyRefused
<1>10. ASSUME NEW c \in Clients, ClientFails(c) PROVE Fetched'
  BY <1>10 DEF ClientFails
<1>11. CASE ServerExit
  BY <1>11 DEF ServerExit
<1>12. CASE UNCHANGED vars
  BY <1>12 DEF vars
<1> HIDE DEF Serialized, Fetched
<1> QED
  BY <1>1, <1>2, <1>3, <1>4, <1>5, <1>6, <1>7, <1>8, <1>9, <1>10, <1>11, <1>12
     DEF Next, Client, Terminated

-----------------------------------------------------------------------------

\* The inductive invariant holds for all failures, its part on the freshness of
\* the work as long as uploads succeed.
THEOREM AsyncInvariant == Spec => []AsyncInv
<1>1. Init => AsyncInv
  <2>1. Init => Fetched
    BY DEF Init, Fetched, LateWork, Delivered
  <2> QED
    BY <2>1, SerializedInit, FreshInit DEF AsyncInv
<1>2. AsyncInv /\ [Next]_vars => AsyncInv'
  <2>1. [Next]_vars => faults' = faults
    BY DEF Next, Handler, Client, Terminated, vars, setup, AcquireLock, FetchWeights,
       FetchFails, SkipWeights, SetFirstWeights, SetOtherWeights, CountUpdate,
       PublishModel, FinishUpdate, StartClient, ReadFirstWeights, ReadOtherWeights,
       TransferModel, SaveTrainedModel, PostUpdate, ReplyReceived, ReplyRefused,
       ClientFails, ServerExit
  <2> QED
    BY <2>1, SerializedStep, FreshStep, FetchedStep DEF AsyncInv
<1> QED
  BY <1>1, <1>2, PTL DEF Spec

\* Types hold whatever fails.
THEOREM TypeCorrect == Spec => []TypeOK
<1>1. AsyncInv => TypeOK
  BY DEF AsyncInv, Serialized
<1> QED
  BY <1>1, AsyncInvariant, PTL

\* The staleness fedavg_async is given with a client's own work bounds how far the
\* model has moved on, also while transfers given up are under way.
THEOREM StalenessIsSafe == Spec => []StalenessCoversBase
<1>1. AsyncInv => StalenessCoversBase
  <2> SUFFICES ASSUME AsyncInv, "upload" \notin faults, NEW c \in Clients,
                      hpc[c] = "apply", weights[c].from = c, NEW p \in Parts
               PROVE  global_model[p] <= weights[c].base[p] + staleness[c]
    BY DEF StalenessCoversBase
  <2>1. lock = c
    BY DEF AsyncInv, Serialized, Mutex, InLock
  <2>2. Follows(c, p) /\ staleness[c] = global_version - client_versions[c]
    BY DEF AsyncInv, Fresh, Follow, Handed
  <2>3. weights[c].base = base[c]
    <3>1. PICK d \in {c} \cup late : weights[c] = [from |-> d, base |-> base[d]]
      BY DEF AsyncInv, Fetched, Delivered, Work
    <3>2. weights[c].from = d /\ weights[c].base = base[d]
      BY <3>1
    <3> QED
      BY <3>2
  <2>4. NotCounted(p) = 0
    BY <2>1 DEF NotCounted
  <2>5. /\ global_model[p] \in Nat /\ base[c][p] \in Nat
        /\ global_version \in Nat /\ client_versions[c] \in Nat
    BY DEF AsyncInv, Serialized, TypeOK, Models
  <2> QED
    BY <2>2, <2>3, <2>4, <2>5 DEF Follows
<1> QED
  BY <1>1, AsyncInvariant, PTL

\* Uploads that succeed are all it takes for fedavg_async to see current work: the
\* client's, or the last that a client left behind whose transfer was given up.
THEOREM OwnWorkIsApplied == Spec => []AppliesOwnWork
<1>1. AsyncInv => AppliesOwnWork
  BY DEF AsyncInv, Fetched, LateWork, Delivered, AppliesOwnWork
<1> QED
  BY <1>1, AsyncInvariant, PTL

\* No handler is left behind when the training completes.
THEOREM CompletionIsClean == Spec => []CompletionDropsNothing
<1>1. AsyncInv => CompletionDropsNothing
  <2> SUFFICES ASSUME AsyncInv, training_complete, NEW c \in Clients
               PROVE  hpc[c] # "sent" /\ ~InLock(c)
    BY DEF CompletionDropsNothing
  <2>1. client_async_iterations[c] = NumRounds /\ ~InLock(c)
    BY DEF AsyncInv, Serialized, Finished
  <2>2. hpc[c] # "sent"
    BY <2>1, RoundsAssumption DEF AsyncInv, Serialized, TypeOK, KeepsCount, Uncounted
  <2> QED
    BY <2>1, <2>2
<1> QED
  BY <1>1, AsyncInvariant, PTL

-----------------------------------------------------------------------------
(* The count of updates                                                    *)

LEMMA CountedSum ==
  UpdatesCountOnce <=> global_version = SumOver(client_async_iterations, Clients)
<1>1. MapThenSumSet(LAMBDA c : client_async_iterations[c], Clients)
      = SumOver(client_async_iterations, Clients)
  BY SumIsSumOver
<1> QED BY <1>1 DEF UpdatesCountOnce

\* Only CountUpdate touches either side of UpdatesCountOnce.
LEMMA OnlyCountUpdateCounts ==
  ASSUME [Next]_vars
  PROVE  (\E c \in Clients : CountUpdate(c)) \/ UNCHANGED counts
BY DEF Next, Handler, Client, Terminated, vars, serverVars, AcquireLock, FetchWeights,
   FetchFails, SkipWeights, SetFirstWeights, SetOtherWeights, PublishModel, FinishUpdate,
   StartClient, ReadFirstWeights, ReadOtherWeights, TransferModel, SaveTrainedModel,
   PostUpdate, ReplyReceived, ReplyRefused, ClientFails, ServerExit

\* Each accepted update is one version and one iteration of its client, whatever is in
\* progress or fails around it (lines after the aggregation in handle_async_update).
THEOREM EveryUpdateCounts == Spec => []UpdatesCountOnce
<1> DEFINE Counted == global_version = SumOver(client_async_iterations, Clients)
<1>1. Init => Counted
  <2> SUFFICES ASSUME Init PROVE Counted
    OBVIOUS
  <2>1. \A c \in Clients : client_async_iterations[c] = 0
    BY DEF Init
  <2> QED BY <2>1, ClientsAssumption, SumZero DEF Init
<1>2. AsyncInv /\ Counted /\ [Next]_vars => Counted'
  <2> SUFFICES ASSUME AsyncInv, Counted, [Next]_vars PROVE Counted'
    OBVIOUS
  <2>1. ASSUME NEW c \in Clients, CountUpdate(c) PROVE Counted'
    <3>1. /\ hpc[c] = "count" /\ global_version' = global_version + 1
          /\ client_async_iterations' = [client_async_iterations EXCEPT ![c] = iteration[c]]
      BY <2>1 DEF CountUpdate, Proceed
    <3>2. /\ iteration[c] = client_async_iterations[c] + 1
          /\ client_async_iterations \in [Clients -> 0..NumRounds]
      BY <3>1 DEF AsyncInv, Serialized, KeepsCount, Uncounted, TypeOK
    <3>3. PICK f, g : f = client_async_iterations /\ g = client_async_iterations'
      OBVIOUS
    <3>4. /\ \A d \in Clients : f[d] \in Nat
          /\ g[c] = f[c] + 1 /\ \A d \in Clients \ {c} : g[d] = f[d]
      BY <3>1, <3>2, <3>3, RoundsAssumption
    <3>5. SumOver(g, Clients) = SumOver(f, Clients) + 1
      BY <3>4, ClientsAssumption, SumIncrement
    <3> QED BY <3>1, <3>3, <3>5
  <2>2. CASE UNCHANGED counts
    BY <2>2 DEF counts
  <2> QED BY <2>1, <2>2, OnlyCountUpdateCounts
<1>3. Counted => UpdatesCountOnce
  BY CountedSum
<1> QED
  <2> HIDE DEF Counted
  <2> QED BY <1>1, <1>2, <1>3, AsyncInvariant, PTL DEF Spec

-----------------------------------------------------------------------------
(* The abstract specification                                              *)

\* Every step applies one update, completes the training, or is a stutter.
LEMMA SerialStep == AsyncInv /\ [Next]_vars => [Serial!Next]_(Serial!vars)
<1> SUFFICES ASSUME AsyncInv, [Next]_vars PROVE [Serial!Next]_(Serial!vars)
  OBVIOUS
<1>0. Serialized
  BY DEF AsyncInv
<1>1. ASSUME NEW c \in Clients, CountUpdate(c) PROVE Serial!Apply(c)
  <2>1. /\ hpc[c] = "count"
        /\ global_version' = global_version + 1
        /\ client_versions' = [client_versions EXCEPT ![c] = global_version + 1]
        /\ client_async_iterations' = [client_async_iterations EXCEPT ![c] = iteration[c]]
        /\ UNCHANGED training_complete
    BY <1>1 DEF CountUpdate, Proceed
  <2>2. iteration[c] = client_async_iterations[c] + 1
    BY <1>0, <2>1 DEF Serialized, KeepsCount, Uncounted
  <2>3. client_async_iterations[c] < NumRounds
    BY <1>0, <2>2, RoundsAssumption DEF Serialized, TypeOK
  <2>4. ~training_complete
    BY <1>0, <2>1 DEF Serialized, Finished, InLock
  <2> QED
    BY <2>1, <2>2, <2>3, <2>4 DEF Serial!Apply
<1>2. ASSUME NEW c \in Clients, FinishUpdate(c)
      PROVE Serial!Complete \/ UNCHANGED Serial!vars
  <2>1. /\ training_complete' = (training_complete \/ AllContributed)
        /\ UNCHANGED counts
    BY <1>2 DEF FinishUpdate
  <2>2. training_complete \in BOOLEAN
    BY <1>0 DEF Serialized, TypeOK
  <2>3. AllContributed => \A d \in Clients : client_async_iterations[d] = NumRounds
    BY <1>0, RoundsAssumption DEF Serialized, TypeOK, AllContributed
  <2>4. CASE AllContributed
    BY <2>1, <2>3, <2>4 DEF Serial!Complete, counts
  <2>5. CASE ~AllContributed
    BY <2>1, <2>2, <2>5 DEF Serial!vars, counts
  <2> QED
    BY <2>4, <2>5
<1>3. CASE UNCHANGED <<counts, training_complete>>
  BY <1>3 DEF Serial!vars, counts
<1>4. \/ \E c \in Clients : CountUpdate(c) \/ FinishUpdate(c)
      \/ UNCHANGED <<counts, training_complete>>
  BY DEF Next, Handler, Client, Terminated, vars, serverVars, AcquireLock, FetchWeights,
     FetchFails, SkipWeights, SetFirstWeights, SetOtherWeights,
     PublishModel, StartClient, ReadFirstWeights, ReadOtherWeights,
     TransferModel, SaveTrainedModel, PostUpdate, ReplyReceived, ReplyRefused,
     ClientFails, ServerExit
<1> QED
  BY <1>1, <1>2, <1>3, <1>4 DEF Serial!Next

\* The handlers implement SerialUpdates, whatever fails.
THEOREM UpdatesAreSerial == Spec => ImplementsSerialUpdates
<1>1. Init => Serial!Init
  BY DEF Init, Serial!Init
<1> QED
  BY <1>1, SerialStep, AsyncInvariant, PTL DEF Spec, ImplementsSerialUpdates, Serial!Spec


-----------------------------------------------------------------------------
(* What the run async_torn shows to fail, and the mode in which it holds.  *)

\* The model is in two pieces only while the handler with the lock writes it; the
\* RC's file and, in with-edc mode, the clients' models are never.
KeptWhole ==
  /\ (\A c \in Clients : hpc[c] # "set") => global_model[1] = global_model[2]
  /\ (\E c \in Clients : hpc[c] = "set") => global_model[1] = global_model[2] + 1
  /\ rc_model # None => rc_model[1] = rc_model[2]
  /\ with_edc => \A c \in Clients : base[c][1] = base[c][2] /\ cpc[c] # "read"

LEMMA KeptWholeStep == Serialized /\ KeptWhole /\ [Next]_vars => KeptWhole'
<1> SUFFICES ASSUME Serialized, KeptWhole, [Next]_vars PROVE KeptWhole'
  OBVIOUS
<1>0. \A c, d \in Clients : InLock(c) /\ InLock(d) => c = d
  BY DEF Serialized, Mutex
<1> USE NoneAssumption DEF Serialized, TypeOK, InLock, Proceed, Move, Models, Parts,
    setup, counts, serverVars, fetched, handlerVars, clientVars, KeptWhole
<1>1. ASSUME NEW c \in Clients, AcquireLock(c) PROVE KeptWhole'
  BY <1>1 DEF AcquireLock
<1>2. ASSUME NEW c \in Clients, FetchWeights(c) PROVE KeptWhole'
  BY <1>2 DEF FetchWeights
<1>3. ASSUME NEW c \in Clients, FetchFails(c) PROVE KeptWhole'
  BY <1>3 DEF FetchFails
<1>4. ASSUME NEW c \in Clients, SkipWeights(c) PROVE KeptWhole'
  BY <1>4 DEF SkipWeights
<1>5. ASSUME NEW c \in Clients, SetFirstWeights(c) PROVE KeptWhole'
  BY <1>0, <1>5 DEF SetFirstWeights
<1>6. ASSUME NEW c \in Clients, SetOtherWeights(c) PROVE KeptWhole'
  BY <1>0, <1>6 DEF SetOtherWeights
<1>7. ASSUME NEW c \in Clients, CountUpdate(c) PROVE KeptWhole'
  BY <1>7 DEF CountUpdate
<1>8. ASSUME NEW c \in Clients, PublishModel(c) PROVE KeptWhole'
  <2>1. global_model[1] = global_model[2]
    BY <1>0, <1>8 DEF PublishModel
  <2> QED
    BY <1>8, <2>1 DEF PublishModel
<1>9. ASSUME NEW c \in Clients, FinishUpdate(c) PROVE KeptWhole'
  BY <1>9 DEF FinishUpdate
<1>10. ASSUME NEW c \in Clients, StartClient(c) PROVE KeptWhole'
  BY <1>10 DEF StartClient
<1>11. ASSUME NEW c \in Clients, ReadFirstWeights(c) PROVE KeptWhole'
  BY <1>11 DEF ReadFirstWeights
<1>12. ASSUME NEW c \in Clients, ReadOtherWeights(c) PROVE KeptWhole'
  BY <1>12 DEF ReadOtherWeights
<1>13. ASSUME NEW c \in Clients, TransferModel(c) PROVE KeptWhole'
  BY <1>13 DEF TransferModel
<1>14. ASSUME NEW c \in Clients, SaveTrainedModel(c) PROVE KeptWhole'
  BY <1>14 DEF SaveTrainedModel
<1>15. ASSUME NEW c \in Clients, PostUpdate(c) PROVE KeptWhole'
  BY <1>15 DEF PostUpdate, HasHandler
<1>16. ASSUME NEW c \in Clients, ReplyReceived(c) PROVE KeptWhole'
  BY <1>16 DEF ReplyReceived
<1>17. ASSUME NEW c \in Clients, ReplyRefused(c) PROVE KeptWhole'
  BY <1>17 DEF ReplyRefused
<1>18. ASSUME NEW c \in Clients, ClientFails(c) PROVE KeptWhole'
  BY <1>18 DEF ClientFails
<1>19. CASE ServerExit
  BY <1>19 DEF ServerExit
<1>20. CASE UNCHANGED vars
  BY <1>20 DEF vars
<1> HIDE DEF KeptWhole
<1> QED
  BY <1>1, <1>2, <1>3, <1>4, <1>5, <1>6, <1>7, <1>8, <1>9, <1>10, <1>11, <1>12, <1>13,
     <1>14, <1>15, <1>16, <1>17, <1>18, <1>19, <1>20 DEF Next, Handler, Client, Terminated

\* In with-edc mode no client trains on half a model, whatever fails: the RC's
\* upload reads the model under the lock of handle_async_update, as /get_model of
\* the direct mode does not.
THEOREM DataspaceDownloadsAreWhole == Spec => [](with_edc => DownloadsAreWhole)
<1>1. Init => KeptWhole
  BY DEF Init, KeptWhole, Whole, Parts
<1>2. AsyncInv /\ KeptWhole /\ [Next]_vars => KeptWhole'
  BY KeptWholeStep DEF AsyncInv
<1>3. KeptWhole => (with_edc => DownloadsAreWhole)
  BY DEF KeptWhole, DownloadsAreWhole
<1> QED
  BY <1>1, <1>2, <1>3, AsyncInvariant, PTL DEF Spec

-----------------------------------------------------------------------------
(* A training takes a bounded number of steps                              *)

\* The sum of StepsLeft is one of FoldSums.
LEMMA StepsAdded ==
  \A h : h = [c \in Clients |-> ClientLeft(c)] =>
           StepsLeft = (IF up THEN 1 ELSE 0) + SumOver(h, Clients)
<1> SUFFICES ASSUME NEW h, h = [c \in Clients |-> ClientLeft(c)]
             PROVE  StepsLeft = (IF up THEN 1 ELSE 0) + SumOver(h, Clients)
  OBVIOUS
<1>1. StepsLeft = (IF up THEN 1 ELSE 0) + Total(h)
  BY DEF StepsLeft
<1>2. Total(h) = SumOver(h, DOMAIN h)
  BY FoldIsSumOver DEF Total
<1> QED BY <1>1, <1>2

\* What a client and its handler have left is a natural number ...
LEMMA LeftNat == TypeOK => \A c \in Clients : ClientLeft(c) \in Nat
<1> SUFFICES ASSUME TypeOK, NEW c \in Clients PROVE ClientLeft(c) \in Nat
  OBVIOUS
<1>1. PICK p, l, h : p = cpc[c] /\ l = NumRounds - iteration[c] /\ h = hpc[c]
  OBVIOUS
<1>2. /\ l \in Nat
      /\ h \in {"none", "sent", "fetch", "apply", "set", "count",
                "publish", "finish", "aggregated", "completed", "failed"}
      /\ p \in {"start", "get", "read", "train", "post", "reply", "done", "dead"}
  BY <1>1, RoundsAssumption DEF TypeOK
<1>3. ClientSteps(p, l, h) \in Nat
  BY <1>2 DEF ClientSteps, Stage, HandlerSteps
<1> QED BY <1>1, <1>3 DEF ClientLeft

\* ... a step of the handler lowers it ...
LEMMA HandlerLess ==
  ASSUME TypeOK, TypeOK', NEW c \in Clients, Handler(c) \/ FetchFails(c)
  PROVE  ClientLeft(c)' < ClientLeft(c)
<1>1. PICK p, l, h, g : /\ p = cpc[c] /\ l = NumRounds - iteration[c]
                        /\ h = hpc[c] /\ g = hpc'[c]
  OBVIOUS
<1>2. cpc' = cpc /\ iteration' = iteration
  BY DEF Handler, AcquireLock, FetchWeights, SkipWeights, SetFirstWeights, SetOtherWeights,
         CountUpdate, PublishModel, FinishUpdate, FetchFails, clientVars
<1>3. <<h, g>> \in {<<"sent", "fetch">>, <<"fetch", "apply">>, <<"fetch", "failed">>,
                    <<"apply", "count">>, <<"apply", "set">>, <<"set", "count">>,
                    <<"count", "publish">>, <<"publish", "finish">>,
                    <<"finish", "completed">>, <<"finish", "aggregated">>}
  BY <1>1 DEF Handler, AcquireLock, FetchWeights, SkipWeights, SetFirstWeights,
              SetOtherWeights, CountUpdate, PublishModel, FinishUpdate, FetchFails, Proceed, TypeOK
<1>4. PICK a, b, e : /\ e = IF p \in DOMAIN Stage THEN 9 * (5 * l + Stage[p]) ELSE 0
                     /\ a = HandlerSteps[h] /\ b = HandlerSteps[g]
  OBVIOUS
<1>5. a \in Nat /\ b \in Nat /\ b < a
  BY <1>3, <1>4 DEF HandlerSteps
<1>6. e \in Nat
  <2>1. l \in Nat /\ p \in {"start", "get", "read", "train", "post", "reply", "done", "dead"}
    BY <1>1, RoundsAssumption DEF TypeOK
  <2> QED BY <1>4, <2>1 DEF Stage
<1>7. ClientLeft(c) = e + a /\ ClientLeft(c)' = e + b
  BY <1>1, <1>2, <1>4 DEF ClientLeft, ClientSteps
<1> QED BY <1>5, <1>6, <1>7

\* ... and so does a step of the client.
LEMMA ClientLess ==
  ASSUME TypeOK, TypeOK', NEW c \in Clients, Client(c) \/ ClientFails(c)
  PROVE  ClientLeft(c)' < ClientLeft(c)
<1> USE RoundsAssumption
<1>1. PICK p, l, h : p = cpc[c] /\ l = NumRounds - iteration[c] /\ h = hpc[c]
  OBVIOUS
<1>2. PICK q, m, g : q = cpc'[c] /\ m = NumRounds - iteration'[c] /\ g = hpc'[c]
  OBVIOUS
<1>3. /\ l \in Nat /\ m \in Nat
      /\ {h, g} \subseteq {"none", "sent", "fetch", "apply", "set", "count",
                           "publish", "finish", "aggregated", "completed", "failed"}
  BY <1>1, <1>2 DEF TypeOK
<1>4. ClientLeft(c) = ClientSteps(p, l, h) /\ ClientLeft(c)' = ClientSteps(q, m, g)
  BY <1>1, <1>2 DEF ClientLeft, ClientSteps
<1>5. CASE p = "reply" /\ q = "get" /\ l = m + 1
  <2>1. ClientSteps("get", m, g) < ClientSteps("reply", m + 1, h)
    <3>1. HandlerSteps[h] \in 1..8 /\ HandlerSteps[g] = 0
      <4>1. h \in {"aggregated", "completed"} /\ g = "none"
        BY <1>1, <1>2, <1>5 DEF Client, StartClient, ReadFirstWeights, ReadOtherWeights,
           TransferModel, SaveTrainedModel, PostUpdate, ReplyReceived, ReplyRefused,
           ClientFails, Proceed, Move, TypeOK
      <4> QED BY <4>1 DEF HandlerSteps
    <3> QED BY <1>3, <3>1 DEF ClientSteps, Stage
  <2>2. ClientLeft(c) = ClientSteps("reply", m + 1, h) /\ ClientLeft(c)' = ClientSteps("get", m, g)
    BY <1>4, <1>5
  <2> QED BY <2>1, <2>2
<1>6. CASE l = m /\ <<p, q>> \in {
          <<"start", "get">>, <<"start", "dead">>, <<"get", "read">>, <<"get", "train">>,
          <<"get", "dead">>, <<"read", "train">>, <<"read", "dead">>, <<"train", "post">>,
          <<"train", "reply">>, <<"train", "dead">>, <<"post", "reply">>, <<"post", "dead">>,
          <<"reply", "done">>, <<"reply", "dead">>}
  <2> DEFINE From(s) == ClientSteps(s, l, h)
             To(s) == ClientSteps(s, l, g)
  <2>1. /\ To("get") < From("start") /\ To("dead") < From("start")
        /\ To("read") < From("get") /\ To("train") < From("get") /\ To("dead") < From("get")
        /\ To("train") < From("read") /\ To("dead") < From("read")
        /\ To("post") < From("train") /\ To("reply") < From("train") /\ To("dead") < From("train")
        /\ To("reply") < From("post") /\ To("dead") < From("post")
        /\ To("done") < From("reply") /\ To("dead") < From("reply")
    <3>1. /\ HandlerSteps[h] \in 0..8 /\ HandlerSteps[g] \in 0..8
      BY <1>3 DEF HandlerSteps
    <3>2. /\ DOMAIN Stage = {"start", "get", "read", "train", "post", "reply"}
          /\ Stage["start"] = 6 /\ Stage["get"] = 5 /\ Stage["read"] = 4
          /\ Stage["train"] = 3 /\ Stage["post"] = 2 /\ Stage["reply"] = 1
      BY DEF Stage
    <3> QED BY <1>3, <3>1, <3>2 DEF ClientSteps
  <2>2. ClientLeft(c) = From(p) /\ ClientLeft(c)' = To(q)
    BY <1>4, <1>6
  <2> HIDE DEF To, From
  <2>3. To(q) < From(p)
    BY <1>6, <2>1
  <2> QED BY <2>2, <2>3
<1>7. CASE ReplyReceived(c) /\ ~(hpc[c] = "completed" \/ iteration[c] = NumRounds)
  <2>1. p = "reply" /\ q = "get" /\ iteration'[c] = iteration[c] + 1 /\ iteration[c] \in Nat
    BY <1>1, <1>2, <1>7 DEF ReplyReceived, Move, TypeOK
  <2>2. l = m + 1
    BY <1>1, <1>2, <2>1
  <2> QED BY <1>5, <2>1, <2>2
<1>8. CASE ~(ReplyReceived(c) /\ ~(hpc[c] = "completed" \/ iteration[c] = NumRounds))
  <2>1. iteration'[c] = iteration[c]
    BY <1>8 DEF Client, StartClient, ReadFirstWeights, ReadOtherWeights, TransferModel,
       SaveTrainedModel, PostUpdate, ReplyReceived, ReplyRefused, ClientFails, TypeOK
  <2>2. <<p, q>> \in {
          <<"start", "get">>, <<"start", "dead">>, <<"get", "read">>, <<"get", "train">>,
          <<"get", "dead">>, <<"read", "train">>, <<"read", "dead">>, <<"train", "post">>,
          <<"train", "reply">>, <<"train", "dead">>, <<"post", "reply">>, <<"post", "dead">>,
          <<"reply", "done">>, <<"reply", "dead">>}
    BY <1>1, <1>2, <1>8 DEF Client, StartClient, ReadFirstWeights, ReadOtherWeights,
       TransferModel, SaveTrainedModel, PostUpdate, ReplyReceived, ReplyRefused, ClientFails,
       CallsServer, NegotiatesOrTransfers, Proceed, Move, TypeOK
  <2> QED BY <1>1, <1>2, <1>6, <2>1, <2>2
<1> QED BY <1>7, <1>8

\* No client is disturbed by the steps of another.
LEMMA OthersKeep ==
  ASSUME TypeOK, NEW c \in Clients, Handler(c) \/ FetchFails(c) \/ Client(c) \/ ClientFails(c)
  PROVE  up' = up /\ \A d \in Clients \ {c} : ClientLeft(d)' = ClientLeft(d)
<1>1. up' = up
  BY DEF Handler, AcquireLock, FetchWeights, SkipWeights, SetFirstWeights, SetOtherWeights,
     CountUpdate, PublishModel, FinishUpdate, FetchFails, Client, StartClient,
     ReadFirstWeights, ReadOtherWeights, TransferModel, SaveTrainedModel, PostUpdate,
     ReplyReceived, ReplyRefused, ClientFails, serverVars
<1>2. ASSUME NEW d \in Clients \ {c} PROVE ClientLeft(d)' = ClientLeft(d)
  <2>1. cpc'[d] = cpc[d] /\ iteration'[d] = iteration[d] /\ hpc'[d] = hpc[d]
    BY DEF Handler, AcquireLock, FetchWeights, SkipWeights, SetFirstWeights, SetOtherWeights,
       CountUpdate, PublishModel, FinishUpdate, FetchFails, Client, StartClient,
       ReadFirstWeights, ReadOtherWeights, TransferModel, SaveTrainedModel, PostUpdate,
       ReplyReceived, ReplyRefused, ClientFails, clientVars, handlerVars, fetched, Proceed, Move, TypeOK
  <2> QED BY <2>1 DEF ClientLeft, ClientSteps
<1> QED BY <1>1, <1>2

\* Whatever fails, a training takes a bounded number of steps.
THEOREM TrainingRunsOut == Spec => RunsOut
<1>1. TypeOK /\ TypeOK' /\ [Next]_vars => [StepsLeft' \in 0..(StepsLeft - 1)]_vars
  <2> SUFFICES ASSUME TypeOK, TypeOK', Next, vars' # vars
               PROVE  StepsLeft' \in 0..(StepsLeft - 1)
    OBVIOUS
  <2>1. \A c \in Clients : ClientLeft(c) \in Nat
    BY LeftNat
  <2>2. \A c \in Clients : ClientLeft(c)' \in Nat
    <3>1. TypeOK' => (\A c \in Clients : ClientLeft(c) \in Nat)'
      BY LeftNat, PTL
    <3> QED BY <3>1
  <2>3. PICK f, g : /\ f = [c \in Clients |-> ClientLeft(c)]
                    /\ g = [c \in Clients |-> ClientLeft(c)']
    OBVIOUS
  <2>4. PICK F, G, u, v : /\ F = SumOver(f, Clients) /\ G = SumOver(g, Clients)
                          /\ u = (IF up THEN 1 ELSE 0) /\ v = (IF up' THEN 1 ELSE 0)
    OBVIOUS
  <2>5. StepsLeft = u + F /\ StepsLeft' = v + G
    <3>1. (\A h : h = [c \in Clients |-> ClientLeft(c)] =>
             StepsLeft = (IF up THEN 1 ELSE 0) + SumOver(h, Clients))'
      BY StepsAdded, PTL
    <3> QED BY <2>3, <2>4, <3>1, StepsAdded
  <2>6. F \in Nat /\ G \in Nat /\ u \in Nat /\ v \in Nat
    BY <2>1, <2>2, <2>3, <2>4, ClientsAssumption, SumNat
  <2>7. CASE ServerExit
    <3>1. up /\ ~up' /\ UNCHANGED <<cpc, iteration, hpc>>
      BY <2>7 DEF ServerExit, clientVars, handlerVars
    <3>2. f = g
      BY <2>3, <3>1 DEF ClientLeft
    <3> QED BY <2>4, <2>5, <2>6, <3>1, <3>2
  <2>8. ASSUME NEW c \in Clients, Handler(c) \/ FetchFails(c) \/ Client(c) \/ ClientFails(c)
        PROVE  StepsLeft' \in 0..(StepsLeft - 1)
    <3>1. ClientLeft(c)' < ClientLeft(c)
      BY <2>8, HandlerLess, ClientLess
    <3>2. up' = up /\ \A d \in Clients \ {c} : ClientLeft(d)' = ClientLeft(d)
      BY <2>8, OthersKeep
    <3>3. /\ \A d \in Clients : f[d] \in Nat /\ g[d] \in Nat
          /\ g[c] < f[c] /\ \A d \in Clients \ {c} : g[d] = f[d]
      BY <2>1, <2>2, <2>3, <3>1, <3>2
    <3>4. G < F
      BY <2>4, <3>3, ClientsAssumption, SumDecrease
    <3>5. u = v
      BY <2>4, <3>2
    <3> QED BY <2>5, <2>6, <3>4, <3>5
  <2>9. ~Terminated
    BY DEF Terminated
  <2> QED BY <2>7, <2>8, <2>9 DEF Next
<1>2. Spec => []TypeOK
  BY TypeCorrect
<1> QED BY <1>1, <1>2, PTL DEF Spec, RunsOut
=============================================================================
