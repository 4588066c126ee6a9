---------------------- MODULE NextcloudTransferProofs ----------------------
(***************************************************************************)
(* Theorems about NextcloudTransfer, for any clients, keys, limit of polls *)
(* and failures.                                                           *)
(***************************************************************************)
EXTENDS NextcloudTransfer, TLAPS

-----------------------------------------------------------------------------
(* The inductive invariant.                                                *)

\* A transfer belongs to a fetch that has begun and has not succeeded yet.
Belongs(c) ==
  /\ fpc[c] = "idle" => state[c] = "none" /\ jpc[c] = "none"
  /\ state[c] \in {"REQUESTED", "STARTED"} => fpc[c] \in {"poll", "failed"}
  /\ jpc[c] \notin {"none", "over"} => fpc[c] \in {"poll", "failed"}

\* The connector says COMPLETED only of what was delivered.
Delivered(c) ==
  /\ jpc[c] = "delivered" => received[c] # None
  /\ state[c] = "COMPLETED" => received[c] # None /\ jpc[c] = "over"
  /\ fpc[c] = "ok" => state[c] = "COMPLETED"

\* What a key holds was stored under that key, and so are the link and the file
\* that come of it.
SameKey(c) ==
  /\ vault[key[c]] # None => key[vault[key[c]]] = key[c]
  /\ jpc[c] \in {"stored", "started"} => vault[key[c]] # None
  /\ jpc[c] = "transfer" => link[c] # None /\ key[link[c]] = key[c]
  /\ received[c] # None => key[received[c]] = key[c]

FetchInv == TypeOK /\ \A c \in Clients : Belongs(c) /\ Delivered(c) /\ SameKey(c)

\* One fetch at a time; those that were given up are no longer counted.
OneFetch == ~concurrent => \A c, d \in Clients : fpc[c] = "poll" /\ fpc[d] = "poll" => c = d

\* Only a transfer that was given up touches the Vault while another one depends
\* on it.
Undisturbed(c) ==
  /\ jpc[c] \in {"stored", "started"} => vault[key[c]] \in {c} \cup GivenUp
  /\ jpc[c] = "transfer" => link[c] \in {c} \cup GivenUp
  /\ received[c] \in {c, None} \cup GivenUp

SerialInv == OneFetch /\ (~concurrent => \A c \in Clients \ GivenUp : Undisturbed(c))

-----------------------------------------------------------------------------

\* Before the first fetch there are no transfers.
LEMMA FetchInvInit == Init => FetchInv
BY KeysAssumption, ConcurrenciesAssumption, PollsAssumption
   DEF Init, FetchInv, TypeOK, Belongs, Delivered, SameKey

\* The polling threads only read what the connectors do.
LEMMA FetchInvPolling ==
  ASSUME FetchInv, NEW c \in Clients,
         PollingThread(c) \/ InitiateFails(c) \/ PollRaises(c)
  PROVE  FetchInv'
<1> USE PollsAssumption, NoneAssumption
    DEF FetchInv, TypeOK, Belongs, Delivered, SameKey, setup, fetchVars, jobVars,
        Transition, Ended
<1>1. CASE Initiate(c)
  BY <1>1 DEF Initiate
<1>2. CASE Poll(c)
  BY <1>2 DEF Poll
<1>3. CASE PollCompleted(c)
  BY <1>3 DEF PollCompleted
<1>4. CASE PollTerminated(c)
  BY <1>4 DEF PollTerminated
<1>5. CASE PollTimeout(c)
  BY <1>5 DEF PollTimeout
<1>6. CASE InitiateFails(c)
  BY <1>6 DEF InitiateFails
<1>7. CASE PollRaises(c)
  BY <1>7 DEF PollRaises
<1> QED
  BY <1>1, <1>2, <1>3, <1>4, <1>5, <1>6, <1>7 DEF PollingThread

\* A secret is stored under the key of its own transfer, and travels from there.
LEMMA FetchInvConnectors ==
  ASSUME FetchInv, NEW c \in Clients, Connectors(c) \/ ProvisionFails(c)
  PROVE  FetchInv'
<1> USE PollsAssumption, NoneAssumption
    DEF FetchInv, TypeOK, Belongs, Delivered, SameKey, setup, fetchVars, jobVars,
        Transition, Ended, Proceed
<1>1. CASE StoreSecret(c)
  BY <1>1 DEF StoreSecret
<1>2. CASE StartProcess(c)
  <2>1. /\ jpc[c] = "stored" /\ jpc' = [jpc EXCEPT ![c] = "started"]
        /\ UNCHANGED <<key, concurrent, faults, fpc, polls, vault, link, received>>
    BY <1>2 DEF StartProcess
  <2>2. /\ found' \in [Clients -> BOOLEAN]
        /\ state' \in [Clients -> {"none", "REQUESTED", "STARTED", "COMPLETED", "TERMINATED"}]
        /\ state'[c] # "COMPLETED"
        /\ \A d \in Clients : d # c => state'[d] = state[d]
    BY <1>2 DEF StartProcess
  <2>3. TypeOK'
    BY <2>1, <2>2
  <2>4. ASSUME NEW d \in Clients PROVE Belongs(d)' /\ Delivered(d)' /\ SameKey(d)'
    BY <2>1, <2>2
  <2> QED
    BY <2>3, <2>4
<1>3. CASE HandlerFails(c)
  BY <1>3 DEF HandlerFails
<1>4. CASE CreateSource(c)
  BY <1>4 DEF CreateSource
<1>5. CASE TransferParts(c)
  BY <1>5 DEF TransferParts
<1>6. CASE TransferFails(c)
  BY <1>6 DEF TransferFails
<1>7. CASE Report(c)
  BY <1>7 DEF Report
<1>8. CASE ProvisionFails(c)
  BY <1>8 DEF ProvisionFails
<1> QED
  BY <1>1, <1>2, <1>3, <1>4, <1>5, <1>6, <1>7, <1>8 DEF Connectors

\* A new fetch starts from a transfer that is over.
LEMMA FetchInvRenew ==
  ASSUME FetchInv, NEW S \in SUBSET Clients, Renew(S)
  PROVE  FetchInv'
BY PollsAssumption
   DEF FetchInv, TypeOK, Belongs, Delivered, SameKey, setup, Renew

\* The inductive invariant about the single fetch holds at all times.
LEMMA FetchInvariant == Spec => []FetchInv
<1>1. FetchInv /\ [Next]_vars => FetchInv'
  <2> SUFFICES ASSUME FetchInv, [Next]_vars PROVE FetchInv'
    OBVIOUS
  <2>1. CASE UNCHANGED vars
    BY <2>1 DEF FetchInv, TypeOK, Belongs, Delivered, SameKey, vars, setup,
                fetchVars, jobVars
  <2>2. CASE Next
    BY <2>2, FetchInvPolling, FetchInvConnectors, FetchInvRenew DEF Next
  <2> QED
    BY <2>1, <2>2
<1> QED
  BY <1>1, FetchInvInit, PTL DEF Spec

-----------------------------------------------------------------------------

\* What happens to one transfer happens to no other while fetches take turns,
\* unless it was given up.
LEMMA SerialInvStep == FetchInv /\ SerialInv /\ [Next]_vars => SerialInv'
<1> SUFFICES ASSUME FetchInv, SerialInv, [Next]_vars PROVE SerialInv'
  OBVIOUS
<1> USE NoneAssumption
    DEF FetchInv, TypeOK, Belongs, Delivered, SerialInv, OneFetch, Undisturbed, GivenUp,
        setup, fetchVars, jobVars, Proceed, Transition
<1>1. ASSUME NEW c \in Clients, Initiate(c) PROVE SerialInv'
  BY <1>1 DEF Initiate
<1>2. ASSUME NEW c \in Clients, Poll(c) PROVE SerialInv'
  BY <1>2 DEF Poll
<1>3. ASSUME NEW c \in Clients, PollCompleted(c) PROVE SerialInv'
  BY <1>3 DEF PollCompleted
<1>4. ASSUME NEW c \in Clients,
             PollTerminated(c) \/ PollTimeout(c) \/ InitiateFails(c) \/ PollRaises(c)
      PROVE  SerialInv'
  BY <1>4 DEF PollTerminated, PollTimeout, InitiateFails, PollRaises
<1>5. ASSUME NEW c \in Clients, StoreSecret(c) PROVE SerialInv'
  BY <1>5 DEF StoreSecret
<1>6. ASSUME NEW c \in Clients, StartProcess(c) \/ HandlerFails(c) PROVE SerialInv'
  BY <1>6 DEF StartProcess, HandlerFails
<1>7. ASSUME NEW c \in Clients, CreateSource(c) PROVE SerialInv'
  BY <1>7 DEF CreateSource
<1>8. ASSUME NEW c \in Clients, TransferParts(c) \/ TransferFails(c) PROVE SerialInv'
  BY <1>8 DEF TransferParts, TransferFails
<1>9. ASSUME NEW c \in Clients, Report(c) \/ ProvisionFails(c) PROVE SerialInv'
  BY <1>9 DEF Report, ProvisionFails
<1>10. ASSUME NEW S \in SUBSET Clients, Renew(S) PROVE SerialInv'
  BY <1>10 DEF Renew
<1>11. CASE UNCHANGED vars
  BY <1>11 DEF vars
<1> QED
  BY <1>1, <1>2, <1>3, <1>4, <1>5, <1>6, <1>7, <1>8, <1>9, <1>10, <1>11
     DEF Next, PollingThread, Connectors

-----------------------------------------------------------------------------

\* Every variable of NextcloudTransfer keeps its type.
THEOREM TypeCorrect == Spec => []TypeOK
<1>1. FetchInv => TypeOK
  BY DEF FetchInv
<1> QED
  BY <1>1, FetchInvariant, PTL

\* Transfers with Vault keys of their own never get each other's files,
\* whatever fails and however they interleave.
THEOREM DistinctKeysAreSafe == Spec => []DistinctKeysKeepFilesApart
<1>1. FetchInv => DistinctKeysKeepFilesApart
  BY DEF FetchInv, TypeOK, SameKey, DistinctKeysKeepFilesApart, OwnFiles
<1> QED
  BY <1>1, FetchInvariant, PTL

\* Fetches that take turns under the lock get their own files, or that of a
\* transfer that was given up and goes on.
THEOREM OneByOneIsSafe == Spec => []OneByOneKeepsFilesApart
<1>1. Init => SerialInv
  BY DEF Init, SerialInv, OneFetch, Undisturbed, GivenUp
<1>2. SerialInv => OneByOneKeepsFilesApart
  BY DEF SerialInv, Undisturbed, OneByOneKeepsFilesApart
<1> QED
  BY <1>1, <1>2, SerialInvStep, FetchInvariant, PTL DEF Spec

\* The threads and connectors implement ModelFetch.
THEOREM FetchesAreModelFetches == Spec => ImplementsModelFetch
<1>1. Init => Fetch!Init
  BY DEF Init, Fetch!Init
<1>2. FetchInv /\ [Next]_vars => [Fetch!Next]_Fetch!vars
  <2> SUFFICES ASSUME FetchInv, [Next]_vars PROVE [Fetch!Next]_Fetch!vars
    OBVIOUS
  <2> USE NoneAssumption DEF FetchInv, TypeOK, setup, fetchVars, jobVars, Fetch!vars
  <2>1. ASSUME NEW c \in Clients, Initiate(c) PROVE Fetch!Next
    BY <2>1 DEF Initiate, Fetch!Next, Fetch!Begin
  <2>2. ASSUME NEW c \in Clients, PollCompleted(c) PROVE Fetch!Next
    BY <2>2 DEF PollCompleted, Delivered, Fetch!Next, Fetch!Succeed
  <2>3. ASSUME NEW c \in Clients,
               PollTerminated(c) \/ PollTimeout(c) \/ InitiateFails(c) \/ PollRaises(c)
        PROVE  Fetch!Next
    BY <2>3 DEF PollTerminated, PollTimeout, InitiateFails, PollRaises, Fetch!Next,
                Fetch!Fail
  <2>4. ASSUME NEW c \in Clients, TransferParts(c) PROVE Fetch!Next
    <3>1. Fetch!Deliver(c, link[c]) /\ link[c] \in Clients
      BY <2>4 DEF TransferParts, Proceed, Belongs, SameKey, Fetch!Deliver
    <3> QED
      BY <3>1 DEF Fetch!Next
  <2>5. ASSUME NEW c \in Clients,
               \/ Poll(c) \/ StoreSecret(c) \/ StartProcess(c) \/ HandlerFails(c)
               \/ CreateSource(c) \/ TransferFails(c) \/ Report(c) \/ ProvisionFails(c)
        PROVE  UNCHANGED Fetch!vars
    BY <2>5 DEF Poll, StoreSecret, StartProcess, HandlerFails, CreateSource,
                TransferFails, Report, ProvisionFails
  <2>6. ASSUME NEW S \in SUBSET Clients, Renew(S) PROVE Fetch!Next
    <3>1. Fetch!Renew(S)
      BY <2>6 DEF Renew, Fetch!Renew
    <3> QED
      BY <3>1 DEF Fetch!Next
  <2>7. CASE UNCHANGED vars
    BY <2>7 DEF vars
  <2> QED
    BY <2>1, <2>2, <2>3, <2>4, <2>5, <2>6, <2>7 DEF Next, PollingThread, Connectors
<1> QED
  BY <1>1, <1>2, FetchInvariant, PTL DEF Spec, ImplementsModelFetch, Fetch!Spec
=============================================================================
