------------------------------- MODULE FLSync -------------------------------
(***************************************************************************)
(* Synchronous federated learning: the round thread of the server          *)
(* (FLTrainer.run_fedsync/_sync_round), the threaded Flask handlers of     *)
(* /submit_update, and the clients (FLClientTrainer.run), in both exchange *)
(* modes: direct HTTP and with-edc, where weights travel through           *)
(* Nextcloud.                                                              *)
(*                                                                         *)
(* Weights are abstracted to their provenance: global_model is the number  *)
(* of aggregations behind the server's model, and trained weights are a    *)
(* record of who trained them and from which global model.  A section      *)
(* under FLTrainer.lock is one action; what the code does outside the lock *)
(* (the round check, setting current_round and model_ready) is an action   *)
(* of its own.                                                             *)
(***************************************************************************)
EXTENDS Naturals, FiniteSets, Functions

CONSTANTS
  Clients,      \* the clients; the server waits for num_clients = |Clients|
  NumRounds,    \* federated.rounds
  WithEdc,      \* mode = 'with-edc'
  Samples,      \* the possible values of len(X_train)
  Faults,       \* the kinds of failure the environment may produce
  None          \* a missing file, a missing update, weights not loaded yet

FaultKinds == {"roundTimeout", "request", "transfer", "upload", "sharedKey",
               "negotiation", "slowPeers"}

ASSUME ClientsAssumption == IsFiniteSet(Clients)
ASSUME RoundsAssumption == NumRounds \in Nat \ {0}
ASSUME EdcAssumption == WithEdc \in BOOLEAN
ASSUME SamplesAssumption == Samples \subseteq Nat
ASSUME FaultsAssumption == Faults \subseteq FaultKinds

VARIABLES
  pc,                 \* where the round thread is in run_fedsync/_sync_round
  current_round, model_ready, training_complete, client_updates, round_done,
  global_model,       \* number of aggregations the global model went through
  num_samples,        \* of each client; part of each update it sends
  agreements,         \* clients with which the RC holds a model contract
  fetching,           \* agreements whose transfer of this round is unfinished
  rc_model,           \* models/global_weights.pkl in the RC's Nextcloud
  received,           \* received_trained_models/<client>_weights.pkl, same place
  cpc,                \* where each client is in FLClientTrainer.run
  iteration,          \* the client's loop counter: the round it claims to serve
  base,               \* the global model the client's local model started from
  uploaded,           \* trained_models/<client>_weights.pkl in its own Nextcloud
  handler             \* the server thread that serves the client's POST

serverVars  == <<pc, current_round, model_ready, training_complete, round_done>>
setupVars   == <<num_samples, agreements>>
storageVars == <<setupVars, fetching, rc_model, received>>
clientVars  == <<cpc, iteration, base, uploaded>>
vars == <<serverVars, client_updates, global_model, storageVars, clientVars,
          handler>>

-----------------------------------------------------------------------------

Versions == 0..NumRounds
Weights  == [from : Clients, base : Versions]
\* The entry of client_updates.  "round" is the payload's round number: the
\* code checks it and drops it, here it stays for the properties to speak of.
Updates  == [weights : Weights \cup {None}, round : 1..NumRounds]

ASSUME NoneAssumption == None \notin Versions \cup Weights \cup Updates

Submitted(c) == client_updates[c] # None
Trained(c)   == [from |-> c, base |-> base[c]]

\* The process is gone after os._exit; a crashed round thread leaves the
\* Flask threads serving requests.
ServerUp == pc # "exited"

Advance(from, to) == pc = from /\ pc' = to

-----------------------------------------------------------------------------
(* Deviations: plausible slips in the actions below, each of which breaks a   *)
(* property.  They are no part of the specification.                         *)

\* range(1, num_rounds + 2)
BeginRoundPastEnd ==
  /\ Advance("begin", "reset")
  /\ current_round' = current_round + 1
  /\ UNCHANGED <<model_ready, training_complete, round_done, client_updates,
                 global_model, storageVars, clientVars, handler>>

\* model_ready = True along with current_round, ahead of the reset
BeginRoundReady ==
  /\ Advance("begin", "reset")
  /\ current_round < NumRounds
  /\ current_round' = current_round + 1
  /\ model_ready' = TRUE
  /\ UNCHANGED <<training_complete, round_done, client_updates, global_model,
                 storageVars, clientVars, handler>>

\* without client_updates = {}
ResetRoundKeepsUpdates ==
  /\ Advance("reset", "announce")
  /\ round_done' = FALSE
  /\ UNCHANGED <<current_round, model_ready, training_complete, client_updates,
                 global_model, storageVars, clientVars, handler>>

\* without round_done.clear()
ResetRoundKeepsEvent ==
  /\ Advance("reset", "announce")
  /\ client_updates' = [c \in Clients |-> None]
  /\ UNCHANGED <<current_round, model_ready, training_complete, round_done,
                 global_model, storageVars, clientVars, handler>>

\* a timeout that starts the same round again
RoundTimeoutRetries ==
  /\ "roundTimeout" \in Faults
  /\ Advance("collect", "reset")
  /\ ~round_done
  /\ UNCHANGED <<current_round, model_ready, training_complete, round_done,
                 client_updates, global_model, storageVars, clientVars, handler>>

\* a transfer whose exception nobody collects with future.result()
FetchFailureIgnored(c) ==
  /\ pc = "fetch" /\ c \in fetching
  /\ "transfer" \in Faults \/ uploaded[c] = None
  /\ fetching' = fetching \ {c}
  /\ UNCHANGED <<serverVars, client_updates, global_model, setupVars, rc_model,
                 received, clientVars, handler>>

\* the upload of the model_path_global saved one round before
PublishModelOfLastRound ==
  /\ Advance("publish", "begin")
  /\ rc_model' = global_model - 1
  /\ UNCHANGED <<current_round, model_ready, training_complete, round_done,
                 client_updates, global_model, setupVars, fetching, received,
                 clientVars, handler>>

\* without training_complete = True
CompleteTrainingSilently ==
  /\ Advance("begin", "exiting")
  /\ current_round = NumRounds
  /\ UNCHANGED <<current_round, model_ready, training_complete, round_done,
                 client_updates, global_model, storageVars, clientVars, handler>>

\* len(client_updates) > num_clients
StoreUpdateOffByOne(c) ==
  /\ ServerUp
  /\ handler[c] = "checked"
  /\ ~Submitted(c)
  /\ client_updates' = [client_updates EXCEPT ![c] =
       [weights |-> IF WithEdc THEN None ELSE Trained(c), round |-> iteration[c]]]
  /\ handler' = [handler EXCEPT ![c] = "received"]
  /\ UNCHANGED <<serverVars, global_model, storageVars, clientVars>>

-----------------------------------------------------------------------------
(* The round thread                                                        *)

BeginRound ==
  /\ Advance("begin", "reset")
  /\ current_round < NumRounds
  /\ current_round' = current_round + 1
  /\ UNCHANGED <<model_ready, training_complete, round_done, client_updates,
                 global_model, storageVars, clientVars, handler>>

ResetRound ==
  /\ Advance("reset", "announce")
  /\ client_updates' = [c \in Clients |-> None]
  /\ round_done' = FALSE
  /\ UNCHANGED <<current_round, model_ready, training_complete, global_model,
                 storageVars, clientVars, handler>>

AnnounceRound ==
  /\ Advance("announce", "collect")
  /\ model_ready' = TRUE
  /\ UNCHANGED <<current_round, training_complete, round_done, client_updates,
                 global_model, storageVars, clientVars, handler>>

\* round_done.wait returned True and model_ready is taken down.
RoundCollected ==
  /\ Advance("collect", IF WithEdc THEN "fetch" ELSE "aggregate")
  /\ round_done
  /\ model_ready' = FALSE
  /\ fetching' = IF WithEdc THEN agreements ELSE {}
  /\ UNCHANGED <<current_round, training_complete, round_done, client_updates,
                 global_model, setupVars, rc_model, received, clientVars,
                 handler>>

\* round_done.wait returned False after 1200 s: the round is given up, and
\* model_ready stays up.
RoundTimeout ==
  /\ "roundTimeout" \in Faults
  /\ Advance("collect", "begin")
  /\ ~round_done
  /\ UNCHANGED <<current_round, model_ready, training_complete, round_done,
                 client_updates, global_model, storageVars, clientVars, handler>>

\* One of the concurrent transfers completes: the file of client d is written
\* under the name of client c.  The files differ only when the transfers share
\* the Vault key (module NextcloudTransfer).
FetchTrainedModel(c, d) ==
  /\ pc = "fetch" /\ c \in fetching
  /\ d = c \/ ("sharedKey" \in Faults /\ d \in agreements)
  /\ uploaded[d] # None
  /\ received' = [received EXCEPT ![c] = uploaded[d]]
  /\ fetching' = fetching \ {c}
  /\ UNCHANGED <<serverVars, client_updates, global_model, setupVars, rc_model,
                 clientVars, handler>>

\* A failed transfer raises out of future.result() and ends the thread.
FetchFails(c) ==
  /\ c \in fetching
  /\ "transfer" \in Faults \/ uploaded[c] = None
  /\ Advance("fetch", "crashed")
  /\ UNCHANGED <<current_round, model_ready, training_complete, round_done,
                 client_updates, global_model, storageVars, clientVars, handler>>

LoadTrainedModels ==
  /\ fetching = {}
  /\ \A c \in Clients : Submitted(c) => received[c] # None
  /\ Advance("fetch", "aggregate")
  /\ client_updates' = [c \in Clients |->
       IF Submitted(c) THEN [client_updates[c] EXCEPT !.weights = received[c]]
                       ELSE None]
  /\ UNCHANGED <<current_round, model_ready, training_complete, round_done,
                 global_model, storageVars, clientVars, handler>>

\* FileNotFoundError for a client whose model was never received.
LoadFails ==
  /\ fetching = {}
  /\ \E c \in Clients : Submitted(c) /\ received[c] = None
  /\ Advance("fetch", "crashed")
  /\ UNCHANGED <<current_round, model_ready, training_complete, round_done,
                 client_updates, global_model, storageVars, clientVars, handler>>

HasSamples == \E c \in Clients : Submitted(c) /\ num_samples[c] > 0

\* fedavg writes the model; evaluation, statistics and the local save follow.
Aggregate ==
  /\ HasSamples
  /\ Advance("aggregate", IF WithEdc THEN "publish" ELSE "begin")
  /\ global_model' = global_model + 1
  /\ UNCHANGED <<current_round, model_ready, training_complete, round_done,
                 client_updates, storageVars, clientVars, handler>>

AggregateFails ==
  /\ ~HasSamples
  /\ Advance("aggregate", "begin")
  /\ UNCHANGED <<current_round, model_ready, training_complete, round_done,
                 client_updates, global_model, storageVars, clientVars, handler>>

\* upload_bytes answers False when the PUT fails; nobody looks at it.
PublishModel ==
  /\ Advance("publish", "begin")
  /\ \/ rc_model' = global_model
     \/ "upload" \in Faults /\ rc_model' = rc_model
  /\ UNCHANGED <<current_round, model_ready, training_complete, round_done,
                 client_updates, global_model, setupVars, fetching, received,
                 clientVars, handler>>

CompleteTraining ==
  /\ Advance("begin", "exiting")
  /\ current_round = NumRounds
  /\ training_complete' = TRUE
  /\ UNCHANGED <<current_round, model_ready, round_done, client_updates,
                 global_model, storageVars, clientVars, handler>>

\* os._exit(0), 5 s later: time for a client that polls every second to learn
\* of the end, and for answers on their way to arrive, unless peers are slow.
ServerExit ==
  /\ Advance("exiting", "exited")
  /\ "slowPeers" \in Faults
     \/ \A c \in Clients : cpc[c] \notin {"start", "wait", "reply"}
  /\ UNCHANGED <<current_round, model_ready, training_complete, round_done,
                 client_updates, global_model, storageVars, clientVars, handler>>

-----------------------------------------------------------------------------
(* The handler thread of POST /submit_update                               *)

\* The round number is compared before the lock is taken.
CheckRound(c) ==
  /\ ServerUp
  /\ handler[c] = "sent"
  /\ handler' = [handler EXCEPT
       ![c] = IF iteration[c] = current_round THEN "checked" ELSE "mismatch"]
  /\ UNCHANGED <<serverVars, client_updates, global_model, storageVars, clientVars>>

\* Under the lock.  In with-edc mode the payload carries no weights.
StoreUpdate(c) ==
  /\ ServerUp
  /\ handler[c] = "checked"
  /\ ~Submitted(c)
  /\ client_updates' = [client_updates EXCEPT ![c] =
       [weights |-> IF WithEdc THEN None ELSE Trained(c), round |-> iteration[c]]]
  /\ round_done' = (round_done \/ \A d \in Clients : d = c \/ Submitted(d))
  /\ handler' = [handler EXCEPT ![c] = "received"]
  /\ UNCHANGED <<pc, current_round, model_ready, training_complete, global_model,
                 storageVars, clientVars>>

RefuseDuplicate(c) ==
  /\ ServerUp
  /\ handler[c] = "checked"
  /\ Submitted(c)
  /\ handler' = [handler EXCEPT ![c] = "duplicate"]
  /\ UNCHANGED <<serverVars, client_updates, global_model, storageVars, clientVars>>

-----------------------------------------------------------------------------
(* A client                                                                *)

Move(c, from, to) == cpc[c] = from /\ cpc' = [cpc EXCEPT ![c] = to]

serverSide == <<serverVars, client_updates, global_model, storageVars>>

\* wait_for_server, and in with-edc mode the contract for the global model.
StartClient(c) ==
  /\ ServerUp
  /\ Move(c, "start", "wait")
  /\ UNCHANGED <<serverSide, iteration, base, uploaded, handler>>

StartFails(c) ==
  /\ "request" \in Faults \/ (WithEdc /\ "negotiation" \in Faults) \/ ~ServerUp
  /\ Move(c, "start", "dead")
  /\ UNCHANGED <<serverSide, iteration, base, uploaded, handler>>

\* One poll of /round_status that ends wait_for_round.  The fields are read one
\* after the other and without the lock; current_round and training_complete
\* only grow, so the poll is as good as atomic at the read of model_ready.
RoundReady(c) ==
  /\ ServerUp /\ ~training_complete
  /\ current_round >= iteration[c] /\ model_ready
  /\ Move(c, "wait", "get")
  /\ UNCHANGED <<serverSide, iteration, base, uploaded, handler>>

TrainingOver(c) ==
  /\ ServerUp /\ training_complete
  /\ Move(c, "wait", "done")
  /\ UNCHANGED <<serverSide, iteration, base, uploaded, handler>>

\* The model comes from the server, or from the RC's Nextcloud by EDC transfer.
GetWeights(c) ==
  /\ IF WithEdc THEN rc_model # None ELSE ServerUp
  /\ Move(c, "get", "train")
  /\ base' = [base EXCEPT ![c] = IF WithEdc THEN rc_model ELSE global_model]
  /\ UNCHANGED <<serverSide, iteration, uploaded, handler>>

GetWeightsFails(c) ==
  /\ IF WithEdc THEN rc_model = None \/ Faults \cap {"transfer", "negotiation"} # {}
                ELSE ~ServerUp \/ "request" \in Faults
  /\ Move(c, "get", "dead")
  /\ UNCHANGED <<serverSide, iteration, base, uploaded, handler>>

\* with-edc: the trained weights are put in the client's Nextcloud before the
\* POST; a failed PUT goes unnoticed.
SaveTrainedModel(c) ==
  /\ WithEdc
  /\ Move(c, "train", "post")
  /\ \/ uploaded' = [uploaded EXCEPT ![c] = Trained(c)]
     \/ "upload" \in Faults /\ uploaded' = uploaded
  /\ UNCHANGED <<serverSide, iteration, base, handler>>

PostUpdate(c) ==
  /\ ServerUp
  /\ Move(c, IF WithEdc THEN "post" ELSE "train", "reply")
  /\ handler' = [handler EXCEPT ![c] = "sent"]
  /\ UNCHANGED <<serverSide, iteration, base, uploaded>>

\* The connection is refused, or the answer does not come within 120 s; a
\* handler at work goes on without its client.
PostFails(c) ==
  /\ "request" \in Faults \/ ~ServerUp
  /\ cpc[c] \in {IF WithEdc THEN "post" ELSE "train", "reply"}
  /\ cpc' = [cpc EXCEPT ![c] = "dead"]
  /\ UNCHANGED <<serverSide, iteration, base, uploaded, handler>>

ReplyReceived(c) ==
  /\ ServerUp
  /\ handler[c] = "received"
  /\ Move(c, "reply", IF iteration[c] < NumRounds THEN "wait" ELSE "done")
  /\ iteration' = [iteration EXCEPT ![c] = IF @ < NumRounds THEN @ + 1 ELSE @]
  /\ handler' = [handler EXCEPT ![c] = "none"]
  /\ UNCHANGED <<serverSide, base, uploaded>>

\* raise_for_status on 409 or 400: the client process ends.
ReplyRefused(c) ==
  /\ ServerUp
  /\ handler[c] \in {"mismatch", "duplicate"}
  /\ Move(c, "reply", "dead")
  /\ handler' = [handler EXCEPT ![c] = "none"]
  /\ UNCHANGED <<serverSide, iteration, base, uploaded>>

-----------------------------------------------------------------------------

Init ==
  /\ pc = "begin"
  /\ current_round = 0
  /\ model_ready = FALSE
  /\ training_complete = FALSE
  /\ client_updates = [c \in Clients |-> None]
  /\ round_done = FALSE
  /\ global_model = 0
  /\ num_samples \in [Clients -> Samples]
  /\ agreements \in IF WithEdc /\ "negotiation" \in Faults
                    THEN SUBSET Clients ELSE {Clients}
  /\ fetching = {}
  /\ rc_model \in IF "upload" \in Faults THEN {0, None} ELSE {0}
  /\ received = [c \in Clients |-> None]
  /\ cpc = [c \in Clients |-> "start"]
  /\ iteration = [c \in Clients |-> 1]
  /\ base = [c \in Clients |-> 0]
  /\ uploaded = [c \in Clients |-> None]
  /\ handler = [c \in Clients |-> "none"]

RoundThread ==
  \/ BeginRound \/ ResetRound \/ AnnounceRound \/ RoundCollected
  \/ \E c, d \in Clients : FetchTrainedModel(c, d)
  \/ LoadTrainedModels \/ LoadFails
  \/ Aggregate \/ AggregateFails \/ PublishModel
  \/ CompleteTraining \/ ServerExit

Handler(c) == CheckRound(c) \/ StoreUpdate(c) \/ RefuseDuplicate(c)

Client(c) ==
  \/ StartClient(c) \/ RoundReady(c) \/ TrainingOver(c) \/ GetWeights(c)
  \/ SaveTrainedModel(c) \/ PostUpdate(c) \/ ReplyReceived(c) \/ ReplyRefused(c)

ClientFails(c) == StartFails(c) \/ GetWeightsFails(c) \/ PostFails(c)

\* The containers have stopped.
Terminated ==
  /\ pc = "exited" /\ \A c \in Clients : cpc[c] \in {"done", "dead"}
  /\ UNCHANGED vars

Next ==
  \/ RoundThread
  \/ RoundTimeout
  \/ \E c \in Clients : FetchFails(c)
  \/ \E c \in Clients : Handler(c) \/ Client(c) \/ ClientFails(c)
  \/ Terminated

Spec == Init /\ [][Next]_vars

\* Threads and processes that can run do run.  The 1200 s and 120 s limits run
\* out when nothing else happens; no failure has to happen otherwise.
Fairness ==
  /\ WF_vars(RoundThread)
  /\ WF_vars(RoundTimeout)
  /\ \A c \in Clients : /\ WF_vars(FetchFails(c))
                        /\ WF_vars(Handler(c))
                        /\ WF_vars(Client(c))
                        /\ WF_vars(~ServerUp /\ ClientFails(c))

FairSpec == Spec /\ Fairness

-----------------------------------------------------------------------------
(* Properties                                                              *)

\* Every variable keeps its type, whatever fails.
TypeOK ==
  /\ pc \in {"begin", "reset", "announce", "collect", "fetch", "aggregate",
             "publish", "crashed", "exiting", "exited"}
  /\ current_round \in 0..NumRounds
  /\ model_ready \in BOOLEAN
  /\ training_complete \in BOOLEAN
  /\ client_updates \in [Clients -> Updates \cup {None}]
  /\ round_done \in BOOLEAN
  /\ global_model \in Versions
  /\ num_samples \in [Clients -> Samples]
  /\ agreements \subseteq Clients
  /\ fetching \subseteq Clients
  /\ rc_model \in Versions \cup {None}
  /\ received \in [Clients -> Weights \cup {None}]
  /\ cpc \in [Clients -> {"start", "wait", "get", "train", "post", "reply",
                          "done", "dead"}]
  /\ iteration \in [Clients -> 1..NumRounds]
  /\ base \in [Clients -> Versions]
  /\ uploaded \in [Clients -> Weights \cup {None}]
  /\ handler \in [Clients -> {"none", "sent", "checked", "received",
                              "mismatch", "duplicate"}]

InRound == pc \in {"reset", "announce", "collect", "fetch", "aggregate", "crashed"}
RoundsFinished == IF InRound THEN current_round - 1 ELSE current_round

\* No round so far was given up: each finished round went into the model.
Intact == global_model = RoundsFinished

\* "Wait for all clients each round, then aggregate" (Readme.md): whatever
\* fails, _sync_round aggregates only when it holds an update of every client.
WaitsForAll ==
  [][global_model' # global_model => \A c \in Clients : Submitted(c)]_vars

\* As long as no round was given up, every update that _sync_round averages was
\* trained by the client it is credited to, from the model it replaces.
AveragesCurrentWork ==
  [][(global_model' # global_model /\ Intact) =>
       \A c \in Clients :
         client_updates[c].weights = [from |-> c, base |-> global_model]]_vars

\* Client d has put a file in its Nextcloud that it has not told the server about,
\* or told it in vain.
Straggles(d) ==
  cpc[d] \in {"post", "dead"} \/ (cpc[d] = "reply" /\ handler[d] # "received")

\* Whatever fails around Nextcloud, EDC and the round limit, and even when the
\* transfers mix the files up, what fedavg averages in with-edc mode are files
\* that clients under contract keep in their Nextcloud right now: no update is
\* averaged without weights or with the file received in an earlier round.  Only
\* after a round was given up may the file averaged have been replaced since its
\* transfer, by a client that straggles from an earlier round.
AveragesFetchedFiles ==
  [][(global_model' # global_model /\ WithEdc) =>
       \A c \in Clients :
         LET w == client_updates[c].weights IN
           /\ w # None
           /\ \E d \in agreements :
                /\ w.from = d
                /\ w = uploaded[d] \/ (~Intact /\ Straggles(d))]_vars

\* As long as no round was given up, set_weights never runs while a client is
\* between the end of wait_for_round and its POST: no /get_model sees half a
\* model, and nobody trains on a model that is replaced meanwhile.
ModelStableWhileTraining ==
  [][(global_model' # global_model /\ Intact) =>
       \A c \in Clients : cpc[c] \notin {"get", "train", "post"}]_vars

\* handle_sync_update refuses an update (409, 400), which ends the client, only
\* after some round was given up.
RefusalMeansLostRound ==
  (\E c \in Clients : handler[c] \in {"mismatch", "duplicate"}) => ~Intact

\* As long as no round was given up, the reset at the start of a round throws
\* away no update that was sent for that round.
ResetLosesNoUpdate ==
  (pc = "reset" /\ Intact) =>
    \A c \in Clients : /\ handler[c] \notin {"sent", "checked"}
                       /\ Submitted(c) => client_updates[c].round < current_round

\* The round check of handle_sync_update: an update for another round is
\* "ignored" ("round mismatch").
OnlyThisRoundsUpdates ==
  pc \in {"announce", "collect", "fetch", "aggregate"} =>
    \A c \in Clients : Submitted(c) => client_updates[c].round = current_round

\* "Upload updated global model to research centre for next round": once a
\* round is announced the clients find the current model there.
PublishedModelIsCurrent ==
  (WithEdc /\ model_ready /\ global_model > 0) => rc_model = global_model

\* A run in which nothing fails ends with every round aggregated and every
\* client finished.
TrainingCompletes ==
  (/\ \E c \in Clients : num_samples[c] > 0
   /\ [](pc # "crashed" /\ \A c \in Clients : cpc[c] # "dead"))
  => <>(/\ pc = "exited" /\ global_model = NumRounds
        /\ \A c \in Clients : cpc[c] = "done")

\* The round limit keeps the server going to its end whatever the clients do, and
\* no client polls for ever: it finishes, or ends on an error.
TrainingEnds == <>(pc = "exited" /\ \A c \in Clients : cpc[c] \in {"done", "dead"})

(* How many steps of the round thread are left, at most: in this round, and a
   full round for each that follows. *)
NumClients == Cardinality(Clients)
StepsInRound == NumClients + 7
ServerSteps(place, later, transfers) ==
  CASE place = "reset"     -> later + NumClients + 8
    [] place = "announce"  -> later + NumClients + 7
    [] place = "collect"   -> later + NumClients + 6
    [] place = "fetch"     -> later + transfers + 5
    [] place = "aggregate" -> later + 4
    [] place = "publish"   -> later + 3
    [] place = "begin"     -> later + 2
    [] place = "exiting"   -> 1
    [] OTHER               -> 0
ServerLeft ==
  ServerSteps(pc, (NumRounds - current_round) * StepsInRound, Cardinality(fetching))

(* The same of a client and of the handler of its POST: five stages in an
   iteration, with up to three steps of the handler to each. *)
Stage == [start |-> 7, wait |-> 6, get |-> 5, train |-> 4, post |-> 3, reply |-> 2]
HandlerSteps == [sent |-> 3, checked |-> 2, received |-> 1, mismatch |-> 1,
                 duplicate |-> 1, none |-> 0]
ClientSteps(place, later, answer) ==
  (IF place \in DOMAIN Stage THEN 4 * (5 * later + Stage[place]) ELSE 0)
  + HandlerSteps[answer]
ClientLeft(c) == ClientSteps(cpc[c], NumRounds - iteration[c], handler[c])

Total(f) == FoldFunction(LAMBDA a, b : a + b, 0, f)
StepsLeft == ServerLeft + Total([c \in Clients |-> ClientLeft(c)])

\* Whatever fails and is retried or given up, every step of the server or of a
\* client brings the end nearer: polls that find nothing aside, a training takes a
\* bounded number of steps, and no client is sent back to a round it has been
\* through.
RunsOut == [][StepsLeft' \in 0..(StepsLeft - 1)]_vars

(* The rounds of FLSync as those of BulkRounds: an update counts as delivered
   from its store to the aggregation, and as under way from the download of the
   model to the store, even when its client has died meanwhile. *)
RoundPhase(c) ==
  IF Submitted(c) /\ pc \in {"announce", "collect", "fetch", "aggregate", "crashed"}
  THEN "delivered"
  ELSE IF cpc[c] \in {"train", "post"} \/ handler[c] \in {"sent", "checked"}
       THEN "working" ELSE "idle"

Bulk == INSTANCE BulkRounds WITH
  Workers <- Clients, Rounds <- NumRounds, version <- global_model,
  phase <- [c \in Clients |-> RoundPhase(c)], basis <- base,
  alive <- {c \in Clients : cpc[c] # "dead"}

\* Unless a round is given up or an upload fails, the round thread, the handlers
\* and the clients together implement the bulk-synchronous rounds.
ImplementsBulkRounds == Bulk!Spec

=============================================================================
