# FL-DataSpaces in TLA+

TLA+ modules for FL-DataSpaces: federated learning in which the model weights
travel between the clients and a research centre (RC) over HTTP, or through a
dataspace of EDC connectors and Nextcloud servers. Paths below are relative to
`src/`. `PROJECT.json` maps every definition to the lines it models.

## The system

| Component | State | Operations | Interacts with |
|---|---|---|---|
| Server, synchronous (`fedLearning/utils/fl_server_trainer.py`, `fl_server.py`) | `current_round`, `model_ready`, `client_updates`, `round_done`, `global_model`, one lock | the round thread `run_fedsync`/`_sync_round`; Flask threads for `/round_status`, `/get_model`, `/submit_update` | clients by HTTP; transfers; RC Nextcloud; NS-3 |
| Server, asynchronous (same files) | `global_version`, `client_versions`, `client_async_iterations`, `global_model`, the same lock | `handle_async_update` in a Flask thread per POST, `/get_model`, an exit timer | same |
| Client (`fl_client.py`, `utils/fl_client_trainer.py`) | its loop counter, its local model, its file in Nextcloud | wait for the server, wait for a round, download, train, upload, POST | server by HTTP; its own connector and Nextcloud |
| Aggregation (`utils/fl_aggregation.py`) | none | `fedavg`, `fedavg_async` | called by the trainer |
| Model transfer (`utils/fl_edc_utils.py`, `dataspace/edc_utils.py`, the Java extension in `dataspace/edc-ionos-nextcloud-extension`) | transfer processes, the Vault, files in Nextcloud | `initiate_transfer`, `poll_transfer_status`, `provision`, `/nextcloudtransfer`, data source and sink | connectors, Nextcloud |
| Contract negotiation (`dataspace/edc_negotiation.py`) | agreements | `fetch_catalogue` with retries, `negotiate_contract` with polling | connectors |
| Marketplace (`dataspace/marketplace`) | the list of offers | registration with removal of duplicates, listing, discovery by polling | launcher, server |
| NS-3 link (`ns3-fl-network/ns3_coordinator.py`, `scratch/wifi_exp/main.cc`, `fl-sim-interface.cc`) | a socket at each end, the simulator's count of rounds | round start, statistics, exit, reconnect; the simulator's command loop | round thread |
| Simulated exchange (`scratch/wifi_exp`: `fl-server.cc`, `fl-client-application.cc`) | sessions, byte counters, socket buffers, scheduled events | send, acknowledge, compute, count finished clients, stop | command loop |
| Dataset partitioning (`dataset_utils`) | files | split by ratio, upload | launcher |
| Launchers (`start_fl.py`, `experiments`), configuration, metrics | none of their own | sequential start-up and logging | docker, files |

What is hard in it:

* No lock spans a round. The round number is checked before the lock is taken,
  the round's variables are reset in four separate steps, and a round may be
  given up after 1200 s while clients and handlers are still in it.
* `/get_model` never takes the lock.
* In asynchronous mode the lock is held through a transfer, an evaluation and
  an upload; everything else queues.
* Errors are swallowed (uploads), end a thread but not its process (transfers),
  or end a client for good (any status other than 2xx): the trainer containers
  have no restart policy, so a death is final.
* Transfers into the RC share one Vault key, concurrent ones and, since a transfer
  that is given up goes on in the connector, also those one after the other.
* The streams between trainer and simulator have no framing beyond counts: each
  side reads as many words as it expects. Rounds whose statistics are not read,
  reads given up half-way and reconnections shift what comes next.
* The simulated server has one pending event for all its sockets.
* The marketplace's handlers change a plain list without a lock, and a POST that
  takes more than five seconds is repeated while its handler is at work.

What makes each component correct is stated with the runs below; `hazards` in
`PROJECT.json` lists what can go wrong, at its line, with the property that
would catch it.

## The modules

| Module | What it is |
|---|---|
| `FLSync` | synchronous training: round thread, update handlers, clients |
| `BulkRounds` | the bulk-synchronous computation that `FLSync` implements |
| `FedAsync` | asynchronous training: handlers, lock, clients |
| `SerialUpdates` | the serial application of updates that `FedAsync` implements |
| `NextcloudTransfer` | the transfers of trained models: polling threads, connectors, Vault, data plane |
| `ModelFetch` | what a fetch promises; implemented by `NextcloudTransfer`, relied on by `FLSync` |
| `Ns3Exchange` | one run of the simulator: models to the clients and back |
| `Ns3Link` | trainer and simulator, their streams, and the runs of `Ns3Exchange` in between |
| `RoundService` | what the simulator is to the training; implemented by `Ns3Link` |
| `SplitData` | the split of the training data |
| `Marketplace` | offers: launcher, handlers of POSTs, listing, discovery |
| `StartUp` | the start of a training: `SplitData`, then `Marketplace`, with contract negotiation |
| `MCFLSync`, `MCFedAsync`, `MCNextcloudTransfer`, `MCNs3Link`, `MCStartUp` | the choices of faults, keys and data for TLC |
| `FLSyncProofs`, `FedAsyncProofs`, `NextcloudTransferProofs`, `Ns3ExchangeProofs`, `Ns3LinkProofs`, `MarketplaceProofs`, `StartUpProofs` | theorems |
| `FoldSums` | lemmas on the sums that the measures and counters are made of |

Each detailed module has a section "Deviations": variants of its actions with a
plausible slip (a missing reset, a dropped guard, an off-by-one). They are not
part of the specification. Putting one in place of its action violates a
property; `mutants` in `PROJECT.json` says which. That is how we know that the
properties depend on the code.

### FLSync

Variables carry the names of the code's. `pc` is the place of the round thread
in `run_fedsync`/`_sync_round`, `cpc[c]` that of client `c` in
`FLClientTrainer.run`, `handler[c]` that of the Flask thread with `c`'s POST (a
client has one request at a time). One action is what the code does under the
lock, or between two accesses to shared variables outside it. So
`BeginRound`, `ResetRound` and `AnnounceRound` are three actions, since clients
and handlers can see the state in between, and `CheckRound` and `StoreUpdate`
are two, since `handle_sync_update` compares the round before it takes the lock.

Weights are abstracted to provenance: `global_model` is the number of
aggregations behind the model, trained weights are the pair of client and base.
That is what the properties tell apart; the arithmetic is left out. The round
number of an update is kept in `client_updates` for the properties to speak of,
though the code drops it.

A transfer is one step (`FetchTrainedModel`) that delivers the right file or,
under the fault `sharedKey`, that of another client, as `ModelFetch` allows, or
it fails (`FetchFails`), which ends the round thread. A failure does not wait
for the round's other transfers; the thread is dead either way.

Faults are a constant set: `roundTimeout` (1200 s pass), `request` (refused or
unanswered requests), `transfer`, `upload` (a failed PUT, which
the code ignores), `sharedKey`, `negotiation` (no agreement with some clients),
`slowPeers` (a client that does not poll within the five seconds before
`os._exit`). Without `slowPeers`, `ServerExit` waits for the clients that still
poll: they poll every second and have five. `Samples` holds the values that
`num_samples` may have; zero is what a client with an empty partition would
send, and makes `fedavg` refuse.

`StepsLeft` is a measure: an upper bound on the steps of the round thread, the
handlers and the clients that are still to come. A poll that does not end a wait
changes nothing and is no step of the model.

Evaluation, metrics and local saving do not change the state above and are left
out; so do the calls to NS-3, which `Ns3Link` models from the round thread's
side.

### FedAsync

`lock` is explicit, since a handler does many things while holding it that
other threads can see: `AcquireLock`, `FetchWeights`, `SetFirstWeights`,
`SetOtherWeights`, `CountUpdate`, `PublishModel`, `FinishUpdate`. `set_weights`
writes tensor by tensor and `/get_model` reads without the lock, so the model is
a pair of parts, written and read one at a time; each is the number of
aggregations in it. Two parts are enough to tell a torn model from a whole one.
`total_async_updates` always equals `global_version` and is left out. A refusal
by `fedavg_async` (no samples) skips the write and, as in the code, nothing
else: its return value is ignored.

Mode, faults, sample counts and agreements are variables that never change
(`setup`), chosen at the start, so one run covers several deployments. There is
no time limit in this mode: the server waits for ever for a client that died,
which is why deadlock is not checked there.

`late` are the clients whose transfer was given up: it goes on in the connector
when its handler has released the lock, and `FetchWeights` of another client may
get its file. That this is all that can happen between transfers one by one is
what `OneByOneKeepsFilesApart` of `NextcloudTransfer` says. Weights are therefore
the pair of a client and the model it started from (`Works`).

### NextcloudTransfer

`fpc[c]` is a polling thread of the server, `polls[c]` its attempts; `state[c]`
is the transfer process in the RC's connector; `jpc[c]` is the progress of
`/nextcloudtransfer` and the data plane. The steps between `StoreSecret` and
`CreateSource` are kept apart, since other transfers may store a secret under
the same key in between. `key` gives the key each transfer names: one for all
into the RC, as in the code; distinct ones for the clients' downloads of the
global model, each with its own connector and Vault.

The connector framework (EDC) is not in the repository. Taken from how the
extension uses it: a transition of a terminated process throws; an exception in
a handler is a 500, which `NextCloudProvisioner` answers with a retry; an
exception in `whenComplete` is lost; a process may be leased by someone else
(`lease`), then the handler goes on without it. Faults: `request` (calls of the
management API), `lease`, `provision` (no link, or no answer to the POST),
`storage` (download or upload).

### Ns3Exchange and Ns3Link

`Ns3Exchange` is what `Experiment::WeakNetwork` runs. A session is a row of
per-client counters: `toSend`, `toReceive` at the server, `cToReceive`,
`cToSend` at the client, in packets. TCP is external: a packet that arrives is
acknowledged in the same step, which frees its place in the sender's `buffer`
and calls the sender's callback. `events` are the scheduled calls of
`SendModel`, which all have the same delay and so run in order; the code keeps
only the last one in `m_sendEvent`, hence the test `events = <<>>`. `TimeLimit`
may end a run at any time, since simulated time is left out.

`Ns3Link` has two processes. `tpc` is the place of the round thread around its
three calls (`send_round_start`, `receive_round_stats`, `send_exit`), `spc` that
of the simulator in its loop. The streams `toSim` and `toTrainer` are sequences
of words: the pieces that the two sides read at a time. A word says what it
was written as and for which round, which the real one does not; so a
reader that takes it for something else can be seen. `answered`, `command` and
`simulated` are history for the properties. `MisreadHeader` is what
`receive_round_stats` makes of a word that is not a header: an id or a double
taken for a type and a count.

`conn9099` is the trainer's socket. The simulator calls `accept` once, so a
reconnection ends in its backlog (`queued`), where writes vanish and reads time
out, and where it is refused once the simulator is gone (`none`). Faults: `late`
(no simulator within the 120 attempts), `raise` (fetching or loading the trained
models ends the round thread, but neither its process nor the socket), `overrun` (a round given up, or refused
by `fedavg`, whose statistics are not read), `slow` and `stall` (more than 30 s
for a simulation, or between two messages), `reset`, `crash`. They and the
members of the training are chosen at the start (`setup`).

### SplitData, Marketplace and StartUp

`SplitData` follows `split_and_save_datasets` step by step. Ratios are whole
numbers; that floating point may round a whole share down by one is a choice
(`low` in `FloorShares`). Examples are their positions in the shuffled array.

`Marketplace` names an offer by the POST that registers it. A handler runs in
the steps that other threads can see: each step of the generator that looks for
an earlier offer (`Scan`, with its `index` into a list that changes), `remove`,
`append`. `list.remove` compares by value, and two offers of a client that were
registered in the same second are equal, so `Remove` may take either. The
server's listing has a cursor of its own into the same list. `PostFails` with
`slow` is the time-out of 5 s: the handler goes on.

`StartUp` composes the two and adds the server's `negotiate_edc_contracts`: one
partner after the other, with up to 60 polls (a negotiation that is given up is
`abandoned`, and `late` if the connectors finalise it all the same), and the
initial model as the last step.
`FLSync` and `FedAsync` begin where it ends; their choice of `agreements` is
what its `agreements` may be.

## The runs

| Run | Question | Instance |
|---|---|---|
| `sync_late` | what do rounds guarantee when they overrun and requests fail | direct mode, 2 clients, 3 rounds, `roundTimeout`, `request` |
| `sync_edc` | do rounds implement `BulkRounds`, and complete if nothing fails | with-edc, 2 clients, 3 rounds, `request`, `transfer`, `negotiation`, samples 0 or 1 |
| `sync_dataspace` | which files can reach `fedavg`, and do the steps run out | with-edc, 2 clients, 3 rounds, all faults but `request` |
| `sync_mismatch` | can an update be stored in another round (violation) | direct, 2 clients, 2 rounds |
| `sync_upload` | is the announced model the one in Nextcloud (violation) | with-edc, 2 clients, 2 rounds, `upload` |
| `async` | the properties of `FedAsync` | both modes, 2 clients, 2 iterations, samples 0 or 1, all faults, and all but `upload` |
| `async_torn` | can a download be torn (violation) | direct, 2 clients, 2 iterations, no fault |
| `transfer` | the properties of `NextcloudTransfer` | 2 transfers, any of 2 keys, concurrent or not, limit of 1 poll, all faults |
| `transfer_crossed` | can a file get under another's name (violation) | 2 concurrent transfers, one key, limit of 2 polls, no fault |
| `simulator` | the properties of `Ns3Link` and of `Ns3Exchange` within it | 3 rounds, model of 2 packets, buffer of 1; one client with every fault or all but `stall`, 2 clients with all but `reset` and `crash`, 2 clients with `crash` |
| `simulator_stall` | does whoever waits for a send callback get one (violation) | `Ns3Exchange` alone, 2 clients, model of 3 packets, buffer of 1 |
| `startup` | the properties of `StartUp`, `Marketplace` and `SplitData` | 2 clients, 3 attempts of a POST, 2 handlers at once, 2 looks; all offers eligible with `slow`, all or one left out with the other faults; up to 5 examples, 6 lists of ratios |

Why these bounds are enough to be of interest: two clients give every pairwise
interleaving, and the code treats clients alike; with a third the barrier and
the lock have no new case. Three rounds let a late update of round 1 meet round
2 and still leave a round after it. `AveragesFetchedFiles` needs them, too: only
in the third round can a client that straggles from the first replace a file
between its transfer and the average. Two suffice where no property spans more
than one change of round. The poll limit is 60 in the code; with a limit of 1
a fetch may time out at every stage of its transfer, since steps take any time.
A model of two packets does not fit a buffer of one, so senders wait for
callbacks at both ends. Three rounds let a misread reach a double, and a
connection go from lost to queued to gone. Three attempts of a POST let two
handlers overlap while the list already holds an offer of the same client, and
with two looks a failed discovery is followed by another. The members of a
`Setups` constant that would only multiply states without a new interaction
(a reset with two clients) are left out. For what must hold for every number of clients and rounds there are theorems.

What they show:

* **The barrier.** `WaitsForAll`: whatever fails, `fedavg` runs only with an
  update of every client. `ResetLosesNoUpdate`, `RefusalMeansLostRound`,
  `ModelStableWhileTraining`: as long as no round was given up, the unlocked
  resets lose no update, nobody is refused, and no download or training overlaps
  the replacement of the model. `Intact` says "no round was given up" through
  `global_model = RoundsFinished`.
* **What is averaged.** `AveragesCurrentWork`: every client's own work on the
  model that is replaced, unless uploads fail, transfers cross, or a round was
  given up. `AveragesFetchedFiles`: under every fault, only files that clients
  under contract hold at that moment; after a lost round also one that its owner
  has replaced since the transfer, if that owner straggles (`Straggles`): it has
  uploaded for a round that did not count it.
* **The end.** `TrainingEnds`, `TrainingCompletes`. That
  something goes on is liveness; that it cannot go on for ever is `RunsOut`, in
  both modes and under every fault: nobody is sent back to a round or an
  iteration, so each training takes a bounded number of steps.
* **Asynchronous mode.** Updates are applied one at a time and each once
  (`ImplementsSerialUpdates`, `UpdatesCountOnce`). Unless uploads fail unnoticed
  each is with the client's own work or, as the one exception, with the last work
  of a client whose transfer was given up (`AppliesOwnWork`); for its own work the
  staleness never makes it fresher than it is (`StalenessCoversBase`). For the work
  of another it has no meaning, and nothing is claimed. Further, the exit drops no handler (`CompletionDropsNothing`);
  a handler that fails does not block the others (`EveryPostIsHandled`).
* **Transfers.** A fetch succeeds only after a delivery of its own
  (`ImplementsModelFetch`) and always ends (`FetchesEnd`); files stay apart with
  distinct keys (`DistinctKeysKeepFilesApart`); one by one a fetch gets its own file
  or that of a fetch that was given up, and nothing else (`OneByOneKeepsFilesApart`).

* **The simulator.** Whatever is lost or given up, it takes commands for
  commands (`CommandsAligned`) and simulates the rounds one by one, leaving none
  out (`ImplementsRoundService`). The trainer may fall behind by rounds, but unless a
  response is torn (`stall`) it reads responses whole and in order
  (`ResponsesInOrder`), each after its simulation. Training comes to an end, and so does the simulator
  unless the round thread dies of an exception (`BothEnd`): then nobody sends the
  exit command while Flask keeps the socket open, and the simulator waits in `read`
  for ever once it has done what it was told, if the connection holds.
  In a run, uploads follow downloads, and a run that stops by its count has
  everybody's model (`UploadFollowsDownload`, `FinishedMeansUploaded`); a sender
  that is alone never stalls (`LoneSenderNeverStalls`).
* **The start.** Every example goes to one client (`SplitsEverything`).
  Overlapping POSTs may list a client twice but never lose it
  (`PublishedIsListed`); without overlap nobody is listed twice
  (`NoDuplicatesOneByOne`). If no request is slow, or none was repeated (`OneByOne`), discovery finds everyone although it
  counts offers, also when an offer is taken off the list and put back at its end
  during the listing (`DiscoveryFindsEveryone`). Training then begins with an
  agreement with each client but those whose own negotiation was refused, was
  terminated or was given up, even if it is finalised later
  (`EnrolledUnlessFailed`): one that fails costs nobody else the contract. Launcher
  and server end whatever the other does (`StartUpEnds`).

`CHECK_DEADLOCK FALSE` is used where the system may stop short of its end: a
crashed round thread with every client dead or waiting, an asynchronous server
whose client died, failed fetches.

### Fairness

`FLSync` and `FedAsync` assume weak fairness of each thread and process: what
can run does run. Weak fairness of the lock is enough: each client posts a
bounded number of times, so nobody waits for it for ever. The 1200 s limit of a
round runs out (`RoundTimeout` is fair), so do request time-outs once the server
is gone; no other failure has to happen. `TrainingCompletes` is conditional on
no client dying and the round thread not crashing; the unconditional claims are
`TrainingEnds`, in direct mode with overrun rounds.
In `NextcloudTransfer` only the polling threads are fair: a fetch must end even
when the connectors stop. In `Ns3Link` both programs are fair, and simulated
time passes (`SimulatedTimePasses`): the simulation's own events need no
fairness, since its limit of 300 s ends it. The trainer's fairness covers its
time-outs, which the socket's 30 s justify. `StartUp` assumes
that the launcher, the server, each handler and the connectors go on; a
handler's liveness does not depend on the others, as there is no lock.

## Disagreements with the code's own words

Five runs end in a violation; each checks what a comment, docstring or the
Readme says.

* `sync_mismatch`: an update checked just before a time-out is stored in the
  next round, not "ignored" for its "round mismatch".
* `sync_upload`: a failed PUT of the global model goes unnoticed, and the next
  round is announced with the old one in Nextcloud.
* `async_torn`: "Download current global model" may return a mixture of two.
* `transfer_crossed`: a client's weights arrive under another client's name,
  since all transfers of a round share `research-centre-key`.
* `simulator_stall`: `SendModel` says that a full buffer makes it "wait for data
  ready callback", but the callback is ignored while an event of another client
  is pending; the client gets no more, and the run goes on to its limit of 300 s.

For the first three it is proved what the violation takes, for any number of
clients and rounds: a round given up (`MismatchNeedsTimeout`), an upload that
fails (`StaleModelNeedsLostUpload`), the direct mode
(`DataspaceDownloadsAreWhole`). Without that no other fault breaks the property.
For the last two the positive sides are `OneByOneKeepsFilesApart`,
`DistinctKeysKeepFilesApart` and `LoneSenderNeverStalls`, which are run properties.

Three more weaknesses show in what the properties have to exclude, and TLC refutes
them without the exclusion:

* A transfer that `poll_transfer_status` gives up is not called off: even one by one
  the next may receive its file (`OneByOneKeepsFilesApart`, `AppliesOwnWork`).
* Two POSTs of a client that overlap both pass "Check for duplicates". Discovery
  counts offers, so it may find that client twice and go on without another, and the
  server then waits for `num_clients` updates that never come
  (`DiscoveryFindsEveryone`).
* An exception in the round thread leaves the simulator waiting (`BothEnd`).

## The proofs

TLAPS checks the theorems for all values of the constants that satisfy the named
assumptions: `NumRounds` positive, `Samples` natural numbers, faults among the
named kinds, `None` different from every value it stands beside. Clients are
finitely many where the code or a measure counts them (everywhere but in
`NextcloudTransfer`); a data set of `SplitData` has ratios that do not add up to
zero, which the code divides by.

**FoldSums.** What the other modules need of sums over a finite set: taking one
term out (`SumRemove`), that a sum is a natural number (`SumNat`), that terms in
a proportion have sums in that proportion (`SumProportion`), that a sum grows by
one when one term does (`SumIncrement`) and falls with it (`SumDecrease`). The
folds of the community modules are recursive functions over the subsets of a
set. The induction over them is put as the choice of a smallest counterexample
(`SmallestSet`), since the provers cannot instantiate the library's induction
theorems.

**FLSyncProofs.** `RoundInv` is `Safe`, which holds whatever happens, and
`Barrier`, which holds while `Orderly` does (no round given up). The properties
alone are not inductive: that a client at work is serving the current round
follows from no flag, only from the number of rounds it has contributed to.
`KeepsCount` ties its loop counter to that number, `ServesRound` puts clients
and handlers at work in the round being collected, `Stamped` says which round
the stored updates are of. From these follow `TypeOK`, `WaitsForAll`,
`RefusalMeansLostRound`, `ResetLosesNoUpdate` and `ModelStableWhileTraining`.
`WorkInv` adds `Basis` (where the weights of the round in play are, and that
they are based on the model to be replaced), for `AveragesCurrentWork` and the
refinement `ImplementsBulkRounds`. The last two are proved under the
assumption that the faults leave out `upload` and `sharedKey`, and for the
refinement `roundTimeout`: with them they are false.
`AveragesFetchedFiles` is proved under every fault (`AveragesAreFetched`). Its
invariant says of each file the round has fetched that its owner, a client under
contract, still holds it or straggles. The proof found that the property had to
say so: without the clause for stragglers it fails in the third round, which the
run of two rounds had not shown.
For `RunsOut` (`TrainingRunsOut`) the measure is the sum of what the server has
before it (`ServerLeft`: rounds to come, transfers under way, its place in the
round) and, per client, of its iterations to come, its place and that of its
handler (`ClientLeft`). A step of the server lowers the first and leaves the
others (`ServerLess`), one of a client or handler lowers its own (`ClientLess`),
and a sum falls with one term (`SumDecrease`).
`MismatchNeedsTimeout` is read off `RoundInv`. `Offered` says that the RC offers
the server's model except between aggregation and upload, when `model_ready` is
down; it gives `StaleModelNeedsLostUpload`, under every fault but `upload`.

**FedAsyncProofs.** `AsyncInv` has mutual exclusion (`Mutex`), the relation of
a client's loop counter to what the server has recorded (`KeepsCount`), the
order of versions (`VersionsLag`) and, unless uploads fail unnoticed, how far the
model may have moved on from what each client works on (`Follow`, which has to
count the parts that the handler at work has written but not counted), where
its work is (`Handed`), and that a late transfer can only bring the last work of a
client that is out of the training (`LateWork`, `Delivered`). It gives `TypeOK`, `StalenessCoversBase`,
`AppliesOwnWork`, `CompletionDropsNothing` and the refinement of
`SerialUpdates`. `UpdatesCountOnce` says that `global_version` is the sum of the
clients' iterations; the lock makes the one that `CountUpdate` raises the
handler's own, and the sum grows with it (`SumIncrement`). `RunsOut` is proved as in
`FLSyncProofs`. `KeptWhole` says that the model is torn only while the handler
with the lock writes it, so that the RC's file never is.

**NextcloudTransferProofs.** `FetchInv` follows a link from the Vault to the
file and says that all of them were stored under the transfer's key (`SameKey`),
that a process is COMPLETED only after a delivery (`Delivered`), and that a
transfer belongs to a fetch that began (`Belongs`). `SerialInv` adds that with
one fetch at a time only those that were given up disturb the Vault. They give `TypeOK`, both
`...KeepFilesApart` and the refinement of `ModelFetch`.

**Ns3ExchangeProofs.** The invariant assigns each client a stage (absent,
connected, downloading, computing, uploading, rearmed) and says what the
counters of the two ends have in common in it, for example that what the server
has still to send or has unacknowledged is what the client has still to
receive. The count of finished clients is the cardinality of the set of clients
with nothing left to send, which makes it neither early nor twice. For a lone
client, `ready` or a scheduled event is carried along.

**Ns3LinkProofs.** `ExchangeInLink` shows that the simulator's runs are those of
`Ns3Exchange`, so its theorems hold here (`Linked...`). The alignment of
commands is not inductive as it stands, nor can it be said of the head of the
stream alone. `Track` gives every unread word its place in an ideal stream (the
command of round 1 with its flags, that of round 2, ...): the first is the one
the simulator expects, each is followed by the next, and while the trainer is
served the last is followed by the one it writes next. A reset, a queued
connection and the exit command cut the sequence but do not bend it. From
`LinkInv` follow `TypeOK` and `CommandsAligned`.

`OrderInv` is the same for the other direction, for `ResponsesInOrder`: the unread words lead (`Leads`) from the place where the trainer reads to the one
where the simulator writes. The place is known although rounds are given up,
because a response that was not read is the first that a later round reads.
The step that needs the premise is `OrderTimeout`: without a stall a read is
given up only while nothing of a response is under way, since two words or fewer
never lead from the beginning of a message to the beginning of a response
(`ShortOfAMessage`).

For the refinement of `RoundService` (`LinkIsRoundService`) `SimulatorOK` says
how many simulations have ended at each place of the command loop, and
`Answerable` that no unread word is of a later one; with the order of responses
that covers the response being read. Answers count as such only without a
stall: of a torn response nobody can tell what it answers. That the simulator's own
count is the trainer's round (`LabelsAreRounds`) is a by-product.

**MarketplaceProofs.** `Kept` says that once one of its POSTs was handled a
client stays on the list or is about to be put back: `Remove` takes a single
offer, and its handler appends one. Without overlap (`Alone`) at most one
handler is at work, what it has passed is of other clients, and the list is
`Distinct`. For discovery, with nobody registering again, nothing is removed and
the catalogue holds different eligible clients of offers that the cursor has
passed; as many as there are clients are then all of them, by a counting lemma.
While POSTs may be repeated but do not overlap, the offers are those of the first
clients in their order (`InOrder`), since only the last is ever taken off and put
back; the listing so far has clients below its cursor (`Ahead`), so that none is
listed twice.

**StartUpProofs.** The composition's steps are steps or stutters of
`Marketplace`, so its theorems carry over; `StartInv` adds where the server is
in its list of partners and that of the ones before it those are enrolled whose
contract was final in time (`Enrolled`), which needs partners that differ: an
agreement is then nobody else's. `SplitInv` is
about the split: rounded down, the shares add up to no more than what is used
(`SumProportion`), topped up to just that, and the parts saved so far deal out
the examples up to `start` without a gap (`Dealt`). `SplitsEverything` follows (`EverythingIsSplit`).

Only model-checked: the liveness properties (`TrainingEnds`, both
`TrainingCompletes`, `EveryPostIsHandled`, `FetchesEnd`, `BothEnd`,
`StartUpEnds`), which are out of the prover's reach. Every other property of a passing run is proved.

## Not modelled

* The numerical content of training, evaluation and averaging; serialization;
  metrics and logs; reading configuration. They change no state above.
* The simulator's asynchronous mode: `send_async_update` has no caller, so its
  branches of `fl-server.cc` and `fl-client-application.cc` (further cycles of a
  client) and the messages `AsyncMessage` and `ENDSIM` are never reached. A
  trainer that never connects leaves the simulator in `accept`.
* `RoundMaxTimeS` is parsed and not used; the limit of 300 s is fixed in
  `fl-experiment.cc`. Topology, propagation and the energy model only shape the
  statistics.
* Of the marketplace the HTML page and the filters of `get_offers`, which
  nothing in the repository uses. Of the launchers docker, log files and
  `run_experiment.py`, which edits a configuration and calls `start_fl.py`. Of
  the data preparation, one-shot file I/O; ratios that add up to zero.
* ns-3 itself and other third-party code. It is the bulk of the source tree: the
  share of all lines that the map covers says little about the project's own
  code.
* `wait_for_round` swallowing errors: a poll that fails is a poll that does not
  end the wait.
* The sharing branch of `NextCloudProvisioner`: the policy in `configs/edc`
  always allows downloads.

## Plan

Done, in this order: `FLSync` with `BulkRounds`; `FedAsync` with
`SerialUpdates`; `NextcloudTransfer` with `ModelFetch`; `Ns3Exchange` and
`Ns3Link` with `RoundService`; `Marketplace`, `SplitData` and `StartUp` with negotiation; each with
proofs.

Left:

* `Aggregation` as a pure module against a reference definition (weights of
  `fedavg` that sum to one, the staleness factor of `fedavg_async`).
* `RunsOut` for the start-up, whose pollers and handlers are bounded, too.
* That the composition of `FLSync` with `ModelFetch` keeps `WaitsForAll`.
