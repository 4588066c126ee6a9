------------------------------ MODULE FedAsync ------------------------------
(***************************************************************************)
(* Asynchronous federated learning: FLTrainer.handle_async_update in the   *)
(* threaded Flask server, and the clients' loop without rounds.            *)
(*                                                                         *)
(* A handler holds FLTrainer.lock from the computation of the staleness to *)
(* the answer.  /get_model does not take the lock and set_weights writes   *)
(* the model tensor by tensor, so the model is a pair of Parts, written    *)
(* and read one at a time; each holds the number of aggregations that went *)
(* into it.  total_async_updates moves with global_version and is left out.*)
(***************************************************************************)
EXTENDS Naturals, FiniteSets, FiniteSetsExt

CONSTANTS
  Clients, NumRounds,
  Modes,        \* the exchange modes to start in: TRUE is 'with-edc'
  Samples,      \* the num_samples an update may carry
  FaultSets,    \* the kinds of failure a deployment is exposed to: the choices
  None          \* no holder of the lock, no file, no weights yet

FaultKinds == {"request", "transfer", "upload", "negotiation", "slowPeers"}

ASSUME ClientsAssumption == IsFiniteSet(Clients)
ASSUME RoundsAssumption == NumRounds \in Nat \ {0}
ASSUME ModesAssumption == Modes \subseteq BOOLEAN
ASSUME SamplesAssumption == Samples \subseteq Nat
ASSUME FaultsAssumption == FaultSets \subseteq SUBSET FaultKinds

VARIABLES
  with_edc, faults, num_samples, agreements,  \* settled before the training
  up,                                     \* the server process runs
  lock,                                   \* FLTrainer.lock: its holder
  global_model, global_version, client_versions, client_async_iterations,
  training_complete,
  rc_model,           \* models/global_weights.pkl in the RC's Nextcloud
  hpc,                \* where the handler of each client's POST is
  staleness, weights, \* the handler's locals
  late,               \* whose transfers were given up and may still be under way
  cpc,                \* where each client is in FLClientTrainer.run
  iteration,          \* the client's loop counter
  base,               \* the global model the client's local model started from
  uploaded            \* trained_models/<client>_weights.pkl: its base

setup      == <<with_edc, faults, num_samples, agreements>>
counts     == <<global_version, client_versions, client_async_iterations>>
serverVars == <<up, lock, global_model, counts, training_complete, rc_model>>
fetched    == <<weights, late>>
handlerVars == <<hpc, staleness, fetched>>
clientVars == <<cpc, iteration, base, uploaded>>
vars == <<setup, serverVars, handlerVars, clientVars>>

-----------------------------------------------------------------------------

Parts  == {1, 2}
Models == [Parts -> Nat]
Whole(v) == [p \in Parts |-> v]

\* What a handler mixes in: a client's weights, by the global model they grew from.
Works == [from : Clients, base : Models]
Work(c, m) == [from |-> c, base |-> m]

ASSUME NoneAssumption == None \notin Clients \cup Models \cup Works

Recorded(c) == client_async_iterations[c] > 0

-----------------------------------------------------------------------------
(* Deviations: plausible slips in the definitions below, each of which breaks *)
(* a property.  They are no part of the specification.                       *)

Proceed(c, from, to) == hpc[c] = from /\ hpc' = [hpc EXCEPT ![c] = to]
Move(c, from, to)    == cpc[c] = from /\ cpc' = [cpc EXCEPT ![c] = to]

\* No contract, no file, or a transfer that fails or takes too long.
TransferFails(c) == c \notin agreements \/ uploaded[c] = None \/ "transfer" \in faults

\* a handler that does not wait for the lock
AcquireNoLock(c) ==
  /\ up
  /\ Proceed(c, "sent", "fetch")
  /\ lock' = c
  /\ staleness' = [staleness EXCEPT ![c] = global_version - client_versions[c]]
  /\ UNCHANGED <<setup, up, global_model, counts, training_complete, rc_model,
                 fetched, clientVars>>

\* lock.acquire() without a "with" block: the exception keeps the lock
FetchFailsLocked(c) ==
  /\ up /\ with_edc
  /\ TransferFails(c)
  /\ Proceed(c, "fetch", "failed")
  /\ late' = IF c \in agreements THEN late \cup {c} ELSE late
  /\ UNCHANGED <<setup, up, lock, global_model, counts, training_complete,
                 rc_model, staleness, weights, clientVars>>

\* global_version += 1 ahead of the fetch
FetchFailsCounted(c) ==
  /\ up /\ with_edc
  /\ TransferFails(c)
  /\ Proceed(c, "fetch", "failed")
  /\ lock' = None
  /\ global_version' = global_version + 1
  /\ late' = IF c \in agreements THEN late \cup {c} ELSE late
  /\ UNCHANGED <<setup, up, global_model, client_versions,
                 client_async_iterations, training_complete, rc_model,
                 staleness, weights, clientVars>>

\* client_versions[client_id] = global_version ahead of the increment
CountUpdateEarly(c) ==
  /\ up
  /\ Proceed(c, "count", "publish")
  /\ global_version' = global_version + 1
  /\ client_versions' = [client_versions EXCEPT ![c] = global_version]
  /\ client_async_iterations' = [client_async_iterations EXCEPT ![c] = iteration[c]]
  /\ UNCHANGED <<setup, up, lock, global_model, training_complete, rc_model,
                 staleness, fetched, clientVars>>

\* without len(client_async_iterations) == num_clients
RecordedContributed ==
  \A c \in Clients : client_async_iterations[c] > 0
                     => client_async_iterations[c] >= NumRounds

\* it > num_rounds
MoreContributed ==
  \A c \in Clients : client_async_iterations[c] > NumRounds

\* an upload that a file_exists skips from the second iteration on
SaveTrainedModelOnce(c) ==
  /\ with_edc
  /\ Move(c, "train", "post")
  /\ uploaded' = [uploaded EXCEPT ![c] = IF @ = None THEN base[c] ELSE @]
  /\ UNCHANGED <<setup, serverVars, handlerVars, iteration, base>>

\* while iteration <= num_rounds
ReplyReceivedOnceMore(c) ==
  /\ up
  /\ LET last == hpc[c] = "completed" \/ iteration[c] > NumRounds IN
       /\ Move(c, "reply", IF last THEN "done" ELSE "get")
       /\ iteration' = [iteration EXCEPT ![c] = IF last THEN @ ELSE @ + 1]
  /\ hpc[c] \in {"aggregated", "completed"}
  /\ hpc' = [hpc EXCEPT ![c] = "none"]
  /\ UNCHANGED <<setup, serverVars, staleness, fetched, base, uploaded>>

-----------------------------------------------------------------------------
(* The handler thread of POST /submit_update                               *)

\* The server leaves between two steps of a handler, and takes it along.
AcquireLock(c) ==
  /\ up /\ lock = None
  /\ Proceed(c, "sent", "fetch")
  /\ lock' = c
  /\ staleness' = [staleness EXCEPT ![c] = global_version - client_versions[c]]
  /\ UNCHANGED <<setup, up, global_model, counts, training_complete, rc_model,
                 fetched, clientVars>>

\* The weights of the payload, or a file by EDC transfer.  The lock keeps the
\* transfers of the RC apart, but those given up go on after their handler has
\* released it, under the Vault key that every transfer uses: the file that
\* arrives is the client's or that of one of them (OneByOneKeepsFilesApart of
\* module NextcloudTransfer).
FetchWeights(c) ==
  /\ up
  /\ Proceed(c, "fetch", "apply")
  /\ \/ ~with_edc /\ weights' = [weights EXCEPT ![c] = Work(c, base[c])]
     \/ /\ with_edc /\ c \in agreements
        /\ \E d \in {c} \cup late :
             uploaded[d] # None /\ weights' = [weights EXCEPT ![c] = Work(d, uploaded[d])]
  /\ UNCHANGED <<setup, serverVars, staleness, late, clientVars>>

\* The exception leaves the "with" block and Flask answers 500; a transfer that was
\* asked for is not called off.
FetchFails(c) ==
  /\ up /\ with_edc
  /\ TransferFails(c)
  /\ Proceed(c, "fetch", "failed")
  /\ lock' = None
  /\ late' = IF c \in agreements THEN late \cup {c} ELSE late
  /\ UNCHANGED <<setup, up, global_model, counts, training_complete, rc_model,
                 staleness, weights, clientVars>>

\* fedavg_async returned False: the update weighs nothing.
SkipWeights(c) ==
  /\ up
  /\ num_samples[c] = 0
  /\ Proceed(c, "apply", "count")
  /\ UNCHANGED <<setup, serverVars, staleness, fetched, clientVars>>

\* set_weights: some tensors first, ...
SetFirstWeights(c) ==
  /\ up
  /\ num_samples[c] > 0
  /\ Proceed(c, "apply", "set")
  /\ global_model' = [global_model EXCEPT ![1] = @ + 1]
  /\ UNCHANGED <<setup, up, lock, counts, training_complete, rc_model, staleness,
                 fetched, clientVars>>

\* ... then the others.
SetOtherWeights(c) ==
  /\ up
  /\ Proceed(c, "set", "count")
  /\ global_model' = [global_model EXCEPT ![2] = @ + 1]
  /\ UNCHANGED <<setup, up, lock, counts, training_complete, rc_model, staleness,
                 fetched, clientVars>>

CountUpdate(c) ==
  /\ up
  /\ Proceed(c, "count", "publish")
  /\ global_version' = global_version + 1
  /\ client_versions' = [client_versions EXCEPT ![c] = global_version + 1]
  /\ client_async_iterations' = [client_async_iterations EXCEPT ![c] = iteration[c]]
  /\ UNCHANGED <<setup, up, lock, global_model, training_complete, rc_model,
                 staleness, fetched, clientVars>>

\* with-edc: the upload of the model; a refused PUT goes unnoticed.
PublishModel(c) ==
  /\ up
  /\ Proceed(c, "publish", "finish")
  /\ \/ rc_model' = IF with_edc THEN global_model ELSE rc_model
     \/ "upload" \in faults /\ rc_model' = rc_model
  /\ UNCHANGED <<setup, up, lock, global_model, counts, training_complete,
                 staleness, fetched, clientVars>>

AllContributed ==
  \A c \in Clients : Recorded(c) /\ client_async_iterations[c] >= NumRounds

\* The completion check and the response, which ends the "with" block.
FinishUpdate(c) ==
  /\ up
  /\ training_complete' = (training_complete \/ AllContributed)
  /\ Proceed(c, "finish", IF training_complete' THEN "completed" ELSE "aggregated")
  /\ lock' = None
  /\ UNCHANGED <<setup, up, global_model, counts, rc_model, staleness, fetched,
                 clientVars>>

Handler(c) ==
  \/ AcquireLock(c) \/ FetchWeights(c) \/ SkipWeights(c) \/ SetFirstWeights(c)
  \/ SetOtherWeights(c) \/ CountUpdate(c) \/ PublishModel(c) \/ FinishUpdate(c)

\* The Timer: os._exit(0), 5 s after the completion: time for the last answers
\* to arrive, unless peers are slow.
ServerExit ==
  /\ up /\ training_complete
  /\ "slowPeers" \in faults \/ \A c \in Clients : cpc[c] # "reply"
  /\ up' = FALSE
  /\ UNCHANGED <<setup, lock, global_model, counts, training_complete, rc_model,
                 handlerVars, clientVars>>

-----------------------------------------------------------------------------
(* A client                                                                *)

\* wait_for_server, and in with-edc mode the contract for the global model.
StartClient(c) ==
  /\ up
  /\ Move(c, "start", "get")
  /\ UNCHANGED <<setup, serverVars, handlerVars, iteration, base, uploaded>>

\* /get_model takes no lock: some tensors are read ...
ReadFirstWeights(c) ==
  /\ up /\ ~with_edc
  /\ Move(c, "get", "read")
  /\ base' = [base EXCEPT ![c][1] = global_model[1]]
  /\ UNCHANGED <<setup, serverVars, handlerVars, iteration, uploaded>>

\* ... before the others.
ReadOtherWeights(c) ==
  /\ up
  /\ Move(c, "read", "train")
  /\ base' = [base EXCEPT ![c][2] = global_model[2]]
  /\ UNCHANGED <<setup, serverVars, handlerVars, iteration, uploaded>>

\* with-edc: the file in the RC's Nextcloud, which is always a whole model.
TransferModel(c) ==
  /\ with_edc /\ rc_model # None
  /\ Move(c, "get", "train")
  /\ base' = [base EXCEPT ![c] = rc_model]
  /\ UNCHANGED <<setup, serverVars, handlerVars, iteration, uploaded>>

\* The trained weights go to the client's Nextcloud first, if anywhere.
SaveTrainedModel(c) ==
  /\ with_edc
  /\ Move(c, "train", "post")
  /\ \/ uploaded' = [uploaded EXCEPT ![c] = base[c]]
     \/ "upload" \in faults /\ uploaded' = uploaded
  /\ UNCHANGED <<setup, serverVars, handlerVars, iteration, base>>

PostUpdate(c) ==
  /\ up
  /\ Move(c, IF with_edc THEN "post" ELSE "train", "reply")
  /\ hpc' = [hpc EXCEPT ![c] = "sent"]
  /\ UNCHANGED <<setup, serverVars, staleness, fetched, iteration, base, uploaded>>

ReplyReceived(c) ==
  /\ up
  /\ LET last == hpc[c] = "completed" \/ iteration[c] = NumRounds IN
       /\ Move(c, "reply", IF last THEN "done" ELSE "get")
       /\ iteration' = [iteration EXCEPT ![c] = IF last THEN @ ELSE @ + 1]
  /\ hpc[c] \in {"aggregated", "completed"}
  /\ hpc' = [hpc EXCEPT ![c] = "none"]
  /\ UNCHANGED <<setup, serverVars, staleness, fetched, base, uploaded>>

\* raise_for_status on 500.
ReplyRefused(c) ==
  /\ up
  /\ Proceed(c, "failed", "none")
  /\ Move(c, "reply", "dead")
  /\ UNCHANGED <<setup, serverVars, staleness, fetched, iteration, base, uploaded>>

Client(c) ==
  \/ StartClient(c) \/ ReadFirstWeights(c) \/ ReadOtherWeights(c)
  \/ TransferModel(c) \/ SaveTrainedModel(c) \/ PostUpdate(c)
  \/ ReplyReceived(c) \/ ReplyRefused(c)

CallsServer(c) ==
  cpc[c] \in IF with_edc THEN {"start", "post", "reply"}
             ELSE {"start", "get", "read", "train", "reply"}

NegotiatesOrTransfers(c) == with_edc /\ cpc[c] \in {"start", "get"}

\* An exception ends the client: a request that is refused or not answered in
\* time (120 s for a POST that may queue for the lock), a failed negotiation or
\* transfer.  A handler at work goes on without its client.
ClientFails(c) ==
  /\ \/ CallsServer(c) /\ ("request" \in faults \/ ~up)
     \/ NegotiatesOrTransfers(c) /\ faults \cap {"negotiation", "transfer"} # {}
     \/ NegotiatesOrTransfers(c) /\ rc_model = None
  /\ cpc' = [cpc EXCEPT ![c] = "dead"]
  /\ UNCHANGED <<setup, serverVars, handlerVars, iteration, base, uploaded>>

-----------------------------------------------------------------------------

Init ==
  /\ with_edc \in Modes /\ faults \in FaultSets
  /\ num_samples \in [Clients -> Samples]
  /\ agreements \in IF with_edc /\ "negotiation" \in faults
                    THEN SUBSET Clients ELSE {Clients}
  /\ up = TRUE /\ lock = None
  /\ global_model = Whole(0) /\ global_version = 0
  /\ client_versions = [c \in Clients |-> 0]
  /\ client_async_iterations = [c \in Clients |-> 0]
  /\ training_complete = FALSE
  /\ rc_model \in IF with_edc /\ "upload" \in faults THEN {Whole(0), None}
                                                    ELSE {Whole(0)}
  /\ hpc = [c \in Clients |-> "none"]
  /\ staleness = [c \in Clients |-> 0]
  /\ weights = [c \in Clients |-> None] /\ late = {}
  /\ cpc = [c \in Clients |-> "start"]
  /\ iteration = [c \in Clients |-> 1]
  /\ base = [c \in Clients |-> Whole(0)]
  /\ uploaded = [c \in Clients |-> None]

Terminated ==
  /\ ~up /\ \A c \in Clients : cpc[c] \in {"done", "dead"}
  /\ UNCHANGED vars

Next ==
  \/ \E c \in Clients : Handler(c) \/ FetchFails(c) \/ Client(c) \/ ClientFails(c)
  \/ ServerExit
  \/ Terminated

Spec == Init /\ [][Next]_vars

\* Threads and processes that can run do run; no failure has to happen.
Fairness ==
  /\ WF_vars(ServerExit)
  /\ \A c \in Clients : /\ WF_vars(Handler(c))
                        /\ WF_vars(FetchFails(c))
                        /\ WF_vars(Client(c))
                        /\ WF_vars((~up \/ rc_model = None) /\ ClientFails(c))

FairSpec == Spec /\ Fairness

-----------------------------------------------------------------------------
(* Properties                                                              *)

\* Every variable keeps its type, whatever fails.
TypeOK ==
  /\ with_edc \in BOOLEAN /\ faults \in FaultSets /\ num_samples \in [Clients -> Nat]
  /\ agreements \subseteq Clients
  /\ up \in BOOLEAN /\ lock \in Clients \cup {None}
  /\ global_model \in Models /\ global_version \in Nat
  /\ client_versions \in [Clients -> Nat]
  /\ client_async_iterations \in [Clients -> 0..NumRounds]
  /\ training_complete \in BOOLEAN
  /\ rc_model \in Models \cup {None}
  /\ hpc \in [Clients -> {"none", "sent", "fetch", "apply", "set", "count",
                         "publish", "finish", "aggregated", "completed", "failed"}]
  /\ staleness \in [Clients -> Nat]
  /\ weights \in [Clients -> Works \cup {None}] /\ late \subseteq Clients
  /\ cpc \in [Clients -> {"start", "get", "read", "train", "post", "reply",
                         "done", "dead"}]
  /\ iteration \in [Clients -> 1..NumRounds]
  /\ base \in [Clients -> Models]
  /\ uploaded \in [Clients -> Models \cup {None}]

InLock(c) == hpc[c] \in {"fetch", "apply", "set", "count", "publish", "finish"}

\* The staleness that handle_async_update hands to fedavg_async never takes a
\* client's work for fresher than it is: the model the client trained on has not
\* been written more often since.  (It may take it for staler: the code counts from
\* the client's last update, not from its download.)  Uploads that fail unnoticed
\* do break this, as the client then trains on an old file; another client's work
\* that a late transfer brings is no older than AppliesOwnWork allows.
StalenessCoversBase ==
  "upload" \notin faults =>
    \A c \in Clients : hpc[c] = "apply" /\ weights[c].from = c =>
      \A p \in Parts : global_model[p] <= weights[c].base[p] + staleness[c]

\* What fedavg_async mixes in for a client is its work of this iteration, and no
\* earlier file, although in with-edc mode the update travels through the client's
\* Nextcloud and may wait for the lock for long.  The one exception is the work that
\* a transfer given up before brings instead: the last of a client whose POST was
\* refused, and never of one still in the training.
AppliesOwnWork ==
  "upload" \notin faults => \A c \in Clients : hpc[c] = "apply" =>
    \/ weights[c] = Work(c, base[c])
    \/ \E d \in late : /\ weights[c] = Work(d, base[d])
                       /\ hpc[d] \in {"failed", "none"} /\ cpc[d] \in {"reply", "dead"}

\* Each update that a handler accepts counts once, however handlers interleave
\* and fail: the version is the number of iterations recorded.
UpdatesCountOnce ==
  global_version = MapThenSumSet(LAMBDA c : client_async_iterations[c], Clients)

\* The server announces the end, and exits, only when no update is still being
\* handled: os._exit throws no client's contribution away.
CompletionDropsNothing ==
  training_complete => \A c \in Clients : hpc[c] # "sent" /\ ~InLock(c)

\* "Download current global model" (the docstring of get_model): every model
\* that a client trains on is one the server had between two updates.
DownloadsAreWhole ==
  \A c \in Clients : cpc[c] = "train" => base[c][1] = base[c][2]

\* Every update posted is dealt with, whatever happens to the handlers before
\* it in the queue for the lock; the answer may find its client gone.
EveryPostIsHandled ==
  \A c \in Clients : hpc[c] = "sent" ~> hpc[c] \in {"aggregated", "completed", "failed"}

\* A training in which nobody fails completes, and everybody leaves.
TrainingCompletes ==
  [](\A c \in Clients : cpc[c] # "dead")
  => <>(training_complete /\ ~up /\ \A c \in Clients : cpc[c] = "done")

(* How many steps are left, at most: of a client, five stages in an iteration, and
   up to eight steps of the handler of its POST to each; of the server, the exit. *)
Stage == [start |-> 6, get |-> 5, read |-> 4, train |-> 3, post |-> 2, reply |-> 1]
HandlerSteps == [sent |-> 8, fetch |-> 7, apply |-> 6, set |-> 5, count |-> 4,
                 publish |-> 3, finish |-> 2, aggregated |-> 1, completed |-> 1,
                 failed |-> 1, none |-> 0]
ClientSteps(place, later, answer) ==
  (IF place \in DOMAIN Stage THEN 9 * (5 * later + Stage[place]) ELSE 0)
  + HandlerSteps[answer]
ClientLeft(c) == ClientSteps(cpc[c], NumRounds - iteration[c], hpc[c])

Total(f) == FoldFunction(LAMBDA a, b : a + b, 0, f)
StepsLeft == (IF up THEN 1 ELSE 0) + Total([c \in Clients |-> ClientLeft(c)])

\* Whatever fails, every step of a handler, a client or the server brings the end
\* nearer: no update is handled twice, and no client comes back to an iteration.
RunsOut == [][StepsLeft' \in 0..(StepsLeft - 1)]_vars

Serial == INSTANCE SerialUpdates WITH
  Workers <- Clients, Quota <- NumRounds, version <- global_version,
  last <- client_versions, applied <- client_async_iterations,
  complete <- training_complete

\* The handlers, for all their steps, waiting and failures, apply the updates
\* one at a time.
ImplementsSerialUpdates == Serial!Spec
=============================================================================
