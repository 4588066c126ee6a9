---------------------------- MODULE ModelFetch ----------------------------
(***************************************************************************)
(* What fetch_trained_models_from_clients promises, and what FLSync's      *)
(* FetchTrainedModel takes it to do: a fetch delivers a file before it     *)
(* succeeds, it may fail at any time, and files get mixed up only between  *)
(* fetches that share a Vault key.                                         *)
(***************************************************************************)
CONSTANTS Clients, None

VARIABLES
  key,        \* the Vault key each fetch names
  received,   \* whose file is under the client's name, None before this fetch
  fetch       \* "idle", "poll", "ok" or "failed"

vars == <<key, received, fetch>>

Init ==
  /\ received = [c \in Clients |-> None]
  /\ fetch = [c \in Clients |-> "idle"]

Begin(c) ==
  /\ fetch[c] = "idle"
  /\ fetch' = [fetch EXCEPT ![c] = "poll"]
  /\ UNCHANGED <<key, received>>

\* Also when the fetch was given up.
Deliver(c, d) ==
  /\ fetch[c] \in {"poll", "failed"}
  /\ key[c] = key[d]
  /\ received' = [received EXCEPT ![c] = d]
  /\ UNCHANGED <<key, fetch>>

Succeed(c) ==
  /\ fetch[c] = "poll"
  /\ received[c] # None
  /\ fetch' = [fetch EXCEPT ![c] = "ok"]
  /\ UNCHANGED <<key, received>>

Fail(c) ==
  /\ fetch[c] \in {"idle", "poll"}
  /\ fetch' = [fetch EXCEPT ![c] = "failed"]
  /\ UNCHANGED <<key, received>>

\* The next round of fetches, or of one fetch.
Renew(S) ==
  /\ \A c \in S : fetch[c] = "ok"
  /\ fetch' = [c \in Clients |-> IF c \in S THEN "idle" ELSE fetch[c]]
  /\ received' = [c \in Clients |-> IF c \in S THEN None ELSE received[c]]
  /\ UNCHANGED key

Next ==
  \/ \E c \in Clients : Begin(c) \/ Succeed(c) \/ Fail(c)
  \/ \E c, d \in Clients : Deliver(c, d)
  \/ \E S \in SUBSET Clients : Renew(S)

Spec == Init /\ [][Next]_vars
=============================================================================
