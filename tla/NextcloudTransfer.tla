------------------------- MODULE NextcloudTransfer -------------------------
(***************************************************************************)
(* The transfer of the clients' trained models into the research centre's  *)
(* Nextcloud: the server's polling threads (fl_edc_utils.py, edc_utils.py),*)
(* the provisioner in each client's connector and, in the RC's connector,  *)
(* the threads of /nextcloudtransfer and of the data plane.  The link to   *)
(* the file goes through the RC's Vault, under the key that the transfer   *)
(* request names: "research-centre-key" for all of them.  A client's       *)
(* download of the global model runs the same code with a Vault and a key  *)
(* of its own.                                                             *)
(*                                                                         *)
(* A file is identified by the client it belongs to.  What an earlier      *)
(* fetch left under the same name counts as None.                          *)
(***************************************************************************)
EXTENDS Naturals

CONSTANTS
  Clients,
  Keys,            \* names in the Vault
  KeyAssignments,  \* the keys the transfers name: the choices
  Concurrencies,   \* TRUE: synchronous training fetches all at once;
                   \* FALSE: asynchronous training one by one, under its lock
  MaxPolls,        \* max_attempts of poll_transfer_status
  FaultSets, None

FaultKinds == {"request", "lease", "provision", "storage"}

ASSUME KeysAssumption == KeyAssignments \subseteq [Clients -> Keys]
ASSUME ConcurrenciesAssumption == Concurrencies \subseteq BOOLEAN
ASSUME PollsAssumption == MaxPolls \in Nat
ASSUME FaultsAssumption == FaultSets \subseteq SUBSET FaultKinds
ASSUME NoneAssumption == None \notin Clients

VARIABLES
  key, concurrent, faults,  \* settled beforehand
  fpc, polls,               \* each polling thread, and its attempts
  state,                    \* the transfer process in the RC's connector
  vault,                    \* whose link each key holds
  jpc,                      \* where the RC's connector is with the transfer
  found,                    \* the handler got hold of the transfer process
  link,                     \* the link handed to the data source
  received                  \* received_trained_models/<client>_weights.pkl

setup == <<key, concurrent, faults>>
fetchVars == <<fpc, polls>>
jobVars == <<vault, jpc, found, link, received>>
vars == <<setup, fetchVars, state, jobVars>>

Ended(c)  == state[c] \in {"COMPLETED", "TERMINATED"}
Proceed(c, from, to) == jpc[c] = from /\ jpc' = [jpc EXCEPT ![c] = to]

\* transitionStarted, transitionCompleted, ... throw in a terminated process.
Transition(c, to) == state' = [state EXCEPT ![c] = to]

-----------------------------------------------------------------------------
(* Deviations: plausible slips in the actions below, each of which breaks a   *)
(* property.  They are no part of the specification.                         *)

\* one fixed name for the secret, in spite of the key of the request
StoreSecretFixedName(c) ==
  /\ Proceed(c, "none", "stored")
  /\ state[c] = "REQUESTED"
  /\ vault' = [k \in Keys |-> c]
  /\ UNCHANGED <<setup, fetchVars, state, found, link, received>>

\* a secret that is stored only where there is none yet
StoreSecretOnce(c) ==
  /\ Proceed(c, "none", "stored")
  /\ state[c] = "REQUESTED"
  /\ vault' = [vault EXCEPT ![key[c]] = IF @ = None THEN c ELSE @]
  /\ UNCHANGED <<setup, fetchVars, state, found, link, received>>

\* COMPLETED ahead of the upload, along with the start of the pipeline
CreateSourceCompleted(c) ==
  /\ Proceed(c, "started", "transfer")
  /\ link' = [link EXCEPT ![c] = vault[key[c]]]
  /\ IF found[c] /\ ~Ended(c) THEN Transition(c, "COMPLETED") ELSE UNCHANGED state
  /\ UNCHANGED <<setup, fetchVars, vault, found, received>>

\* a loop without a limit
PollForever(c) ==
  /\ fpc[c] = "poll" /\ polls[c] < MaxPolls /\ ~Ended(c)
  /\ UNCHANGED vars

\* range(max_attempts + 1)
PollOnceMore(c) ==
  /\ fpc[c] = "poll" /\ polls[c] <= MaxPolls /\ ~Ended(c)
  /\ polls' = [polls EXCEPT ![c] = @ + 1]
  /\ UNCHANGED <<setup, fpc, state, jobVars>>

-----------------------------------------------------------------------------
(* A polling thread of the server                                          *)

\* initiate_transfer; the thread pool starts all fetches of a round, the lock
\* of asynchronous training admits one at a time.
Initiate(c) ==
  /\ fpc[c] = "idle"
  /\ concurrent \/ \A d \in Clients : fpc[d] # "poll"
  /\ fpc' = [fpc EXCEPT ![c] = "poll"]
  /\ Transition(c, "REQUESTED")
  /\ UNCHANGED <<setup, polls, jobVars>>

\* An answer other than 200, or none: then the connector may have begun.
InitiateFails(c) ==
  /\ "request" \in faults
  /\ fpc[c] = "idle"
  /\ concurrent \/ \A d \in Clients : fpc[d] # "poll"
  /\ fpc' = [fpc EXCEPT ![c] = "failed"]
  /\ UNCHANGED state \/ Transition(c, "REQUESTED")
  /\ UNCHANGED <<setup, polls, jobVars>>

Poll(c) ==
  /\ fpc[c] = "poll" /\ polls[c] < MaxPolls /\ ~Ended(c)
  /\ polls' = [polls EXCEPT ![c] = @ + 1]
  /\ UNCHANGED <<setup, fpc, state, jobVars>>

PollCompleted(c) ==
  /\ fpc[c] = "poll" /\ polls[c] < MaxPolls /\ state[c] = "COMPLETED"
  /\ fpc' = [fpc EXCEPT ![c] = "ok"]
  /\ UNCHANGED <<setup, polls, state, jobVars>>

PollTerminated(c) ==
  /\ fpc[c] = "poll" /\ polls[c] < MaxPolls /\ state[c] = "TERMINATED"
  /\ fpc' = [fpc EXCEPT ![c] = "failed"]
  /\ UNCHANGED <<setup, polls, state, jobVars>>

\* The request of a poll raises.
PollRaises(c) ==
  /\ "request" \in faults
  /\ fpc[c] = "poll" /\ polls[c] < MaxPolls
  /\ fpc' = [fpc EXCEPT ![c] = "failed"]
  /\ UNCHANGED <<setup, polls, state, jobVars>>

\* The transfer goes on without anybody waiting for it.
PollTimeout(c) ==
  /\ fpc[c] = "poll" /\ polls[c] = MaxPolls
  /\ fpc' = [fpc EXCEPT ![c] = "failed"]
  /\ UNCHANGED <<setup, polls, state, jobVars>>

\* The next iteration of a client, or the next round once all have succeeded.
Renew(S) ==
  /\ \A c \in S : fpc[c] = "ok"
  /\ S = Clients \/ (~concurrent /\ \E c \in Clients : S = {c})
  /\ fpc' = [c \in Clients |-> IF c \in S THEN "idle" ELSE fpc[c]]
  /\ polls' = [c \in Clients |-> IF c \in S THEN 0 ELSE polls[c]]
  /\ state' = [c \in Clients |-> IF c \in S THEN "none" ELSE state[c]]
  /\ jpc' = [c \in Clients |-> IF c \in S THEN "none" ELSE jpc[c]]
  /\ received' = [c \in Clients |-> IF c \in S THEN None ELSE received[c]]
  /\ UNCHANGED <<setup, vault, found, link>>

-----------------------------------------------------------------------------
(* The connectors                                                          *)

\* The client's provisioner has posted the link; the handler stores it.
StoreSecret(c) ==
  /\ Proceed(c, "none", "stored")
  /\ state[c] = "REQUESTED"
  /\ vault' = [vault EXCEPT ![key[c]] = c]
  /\ UNCHANGED <<setup, fetchVars, state, found, link, received>>

\* FATAL_ERROR: no link, no answer, or not the right one.  The POST may have
\* reached the handler all the same.
ProvisionFails(c) ==
  /\ "provision" \in faults
  /\ state[c] \in {"REQUESTED", "STARTED"} /\ jpc[c] \in {"none", "stored", "started"}
  /\ Transition(c, "TERMINATED")
  /\ UNCHANGED <<setup, fetchVars, jobVars>>

\* The process may be leased by the connector's own state machine: the handler
\* goes on without it.
StartProcess(c) ==
  /\ Proceed(c, "stored", "started")
  /\ \/ ~Ended(c) /\ Transition(c, "STARTED") /\ found' = [found EXCEPT ![c] = TRUE]
     \/ "lease" \in faults /\ state' = state /\ found' = [found EXCEPT ![c] = FALSE]
  /\ UNCHANGED <<setup, fetchVars, vault, link, received>>

\* The handler fails on an ended process, and the POST is not repeated; or on
\* the store, with a 500 that makes the provisioner try again.
HandlerFails(c) ==
  /\ \/ Ended(c) /\ Proceed(c, "stored", "over")
     \/ "lease" \in faults /\ ~Ended(c) /\ Proceed(c, "stored", "none")
  /\ UNCHANGED <<setup, fetchVars, state, vault, found, link, received>>

\* The data source gets the link that the Vault holds now.
CreateSource(c) ==
  /\ Proceed(c, "started", "transfer")
  /\ link' = [link EXCEPT ![c] = vault[key[c]]]
  /\ UNCHANGED <<setup, fetchVars, state, vault, found, received>>

\* The sink downloads from the link and uploads under the client's file name.
TransferParts(c) ==
  /\ Proceed(c, "transfer", "delivered")
  /\ received' = [received EXCEPT ![c] = link[c]]
  /\ UNCHANGED <<setup, fetchVars, state, vault, found, link>>

TransferFails(c) ==
  /\ "storage" \in faults
  /\ Proceed(c, "transfer", "undelivered")
  /\ UNCHANGED <<setup, fetchVars, state, vault, found, link, received>>

\* whenComplete.  Without the process, or when it has ended, this throws and
\* nobody learns of the outcome.
Report(c) ==
  /\ \/ /\ Proceed(c, "delivered", "over")
        /\ IF found[c] /\ ~Ended(c) THEN Transition(c, "COMPLETED") ELSE UNCHANGED state
     \/ /\ Proceed(c, "undelivered", "over")
        /\ IF found[c] /\ ~Ended(c) THEN Transition(c, "TERMINATED") ELSE UNCHANGED state
  /\ UNCHANGED <<setup, fetchVars, vault, found, link, received>>

-----------------------------------------------------------------------------

Init ==
  /\ key \in KeyAssignments /\ concurrent \in Concurrencies /\ faults \in FaultSets
  /\ fpc = [c \in Clients |-> "idle"]
  /\ polls = [c \in Clients |-> 0]
  /\ state = [c \in Clients |-> "none"]
  /\ vault = [k \in Keys |-> None]
  /\ jpc = [c \in Clients |-> "none"]
  /\ found = [c \in Clients |-> FALSE]
  /\ link = [c \in Clients |-> None]
  /\ received = [c \in Clients |-> None]

PollingThread(c) ==
  \/ Initiate(c) \/ Poll(c) \/ PollCompleted(c) \/ PollTerminated(c)
  \/ PollTimeout(c)

Connectors(c) ==
  \/ StoreSecret(c) \/ StartProcess(c) \/ HandlerFails(c) \/ CreateSource(c)
  \/ TransferParts(c) \/ TransferFails(c) \/ Report(c)

Next ==
  \/ \E c \in Clients : PollingThread(c) \/ InitiateFails(c) \/ PollRaises(c)
  \/ \E c \in Clients : Connectors(c) \/ ProvisionFails(c)
  \/ \E S \in SUBSET Clients : Renew(S)

Spec == Init /\ [][Next]_vars

\* The polling threads keep going; nothing is asked of the connectors.
FairSpec == Spec /\ \A c \in Clients : WF_vars(PollingThread(c))

-----------------------------------------------------------------------------
(* Properties                                                              *)

\* Every variable keeps its type, whatever fails.
TypeOK ==
  /\ key \in [Clients -> Keys] /\ concurrent \in BOOLEAN /\ faults \in FaultSets
  /\ fpc \in [Clients -> {"idle", "poll", "ok", "failed"}]
  /\ polls \in [Clients -> 0..MaxPolls]
  /\ state \in [Clients -> {"none", "REQUESTED", "STARTED", "COMPLETED", "TERMINATED"}]
  /\ vault \in [Keys -> Clients \cup {None}]
  /\ jpc \in [Clients -> {"none", "stored", "started", "transfer", "delivered",
                         "undelivered", "over"}]
  /\ found \in [Clients -> BOOLEAN]
  /\ link \in [Clients -> Clients \cup {None}]
  /\ received \in [Clients -> Clients \cup {None}]

OwnFiles == \A c \in Clients : received[c] \in {c, None}

\* Concurrent transfers with a Vault key each, as the clients' downloads of the
\* global model have, deliver each file under its own name, whatever fails.
DistinctKeysKeepFilesApart ==
  (\A c, d \in Clients : key[c] = key[d] => c = d) => OwnFiles

GivenUp == {c \in Clients : fpc[c] = "failed"}

\* "for async one by one": the lock keeps transfers with the same Vault key
\* apart, and files with them, except that a transfer whose fetch was given up
\* may still be under way when the next handler gets the lock.  The only other
\* file that a fetch can end up with is that of such a transfer.
OneByOneKeepsFilesApart ==
  ~concurrent => \A c \in Clients \ GivenUp : received[c] \in {c, None} \cup GivenUp

\* Every fetch comes to an end, although connectors may never report one.
FetchesEnd == \A c \in Clients : fpc[c] = "poll" ~> fpc[c] \in {"ok", "failed"}

\* "push {client_id}_weights.pkl as a file transfer into the RC's Nextcloud"
\* (Readme.md), "Trained model from {client_id} received" (the log): what a
\* successful fetch leaves under the client's name is the client's file.
ReceivesOwnFile == \A c \in Clients : fpc[c] = "ok" => received[c] = c

Fetch == INSTANCE ModelFetch WITH fetch <- fpc

\* The threads, the connectors and the data plane together behave as fetches
\* that succeed only once a file was delivered, in this fetch, from a client
\* with the same Vault key.
ImplementsModelFetch == Fetch!Spec
=============================================================================
