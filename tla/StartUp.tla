------------------------------ MODULE StartUp ------------------------------
(***************************************************************************)
(* The start of a training over the dataspace: start_fl.py splits the data *)
(* and starts the containers, then offers are published while the research *)
(* centre's server looks for clients (Marketplace) and negotiates a        *)
(* contract with each it finds (edc_negotiation.py), before it lets        *)
(* training begin.                                                         *)
(***************************************************************************)
EXTENDS Marketplace, SplitData

ASSUME SameClientsAssumption == \A d \in DataSets : d.clients = NumClients

VARIABLES
  npc,         \* the server: "catalogue", "request", "poll", "publish", "ready", "died"
  contracts,   \* the negotiations so far, in the order of found: their state in
               \* the research centre's connector, and whether it came too late
  agreements   \* trained_model_agreements: the clients

negotiationVars == <<npc, contracts, agreements>>
vars == <<marketVars, splitVars, negotiationVars>>

Partner == found[Len(contracts)]

\* The next partner, or the end of setup.
Continue == npc' = IF Len(contracts') = Len(found) THEN "publish" ELSE "catalogue"

-----------------------------------------------------------------------------
(* Deviations: plausible slips in the actions below, each of which breaks a   *)
(* property.  They are no part of the specification.                         *)

\* one poll is enough
PollGivesUpEarly ==
  /\ npc = "poll" /\ contracts[Len(contracts)] # "finalized"
  /\ contracts' = [contracts EXCEPT ![Len(contracts)] =
                     IF @ = "requested" THEN "abandoned" ELSE @]
  /\ Continue
  /\ UNCHANGED <<marketVars, splitVars, agreements>>

\* the agreement is noted for the offer after it
PollFinalizedNext ==
  /\ npc = "poll" /\ contracts[Len(contracts)] = "finalized"
  /\ agreements' = agreements \cup {Partner + 1}
  /\ UNCHANGED contracts /\ Continue
  /\ UNCHANGED <<marketVars, splitVars>>

-----------------------------------------------------------------------------
(* start_fl.py                                                              *)

\* split_dataset, then docker-compose; an exception ends the launcher.
SplitDataset ==
  /\ Split
  /\ UNCHANGED <<marketVars, negotiationVars>>

\* What split_dataset worked with is gone.
StartContainers ==
  /\ dpc = "saved"
  /\ dpc' = "up"
  /\ data' = [length |-> 0, clients |-> NumClients, perClient |-> 0, ratios |-> <<>>]
  /\ sizes' = <<>> /\ parts' = <<>> /\ start' = 0
  /\ UNCHANGED <<marketVars, negotiationVars>>

Market ==
  /\ dpc = "up" /\ MarketNext
  /\ UNCHANGED <<splitVars, negotiationVars>>

-----------------------------------------------------------------------------
(* negotiate_edc_contracts for the clients found, one after the other         *)

FetchCatalogue ==
  /\ spc = "found" /\ npc = "catalogue"
  /\ npc' = "request"
  /\ UNCHANGED <<marketVars, splitVars, contracts, agreements>>

\* fetch_catalogue fails for the last time, the asset is not in the catalogue,
\* or a request of negotiate_contract raises; or the asset of the global model
\* cannot be created.
ConnectorRaises ==
  /\ "connector" \in faults
  /\ spc = "found" /\ npc \in {"catalogue", "request", "poll", "publish"}
  /\ npc' = "died"
  /\ UNCHANGED <<marketVars, splitVars, contracts, agreements>>

RequestContract ==
  /\ npc = "request"
  /\ contracts' = Append(contracts, "requested")
  /\ npc' = "poll"
  /\ UNCHANGED <<marketVars, splitVars, agreements>>

\* A status other than 200: on to the next.
RequestRefused ==
  /\ "negotiation" \in faults
  /\ npc = "request"
  /\ contracts' = Append(contracts, "refused")
  /\ Continue
  /\ UNCHANGED <<marketVars, splitVars, agreements>>

PollFinalized ==
  /\ npc = "poll" /\ contracts[Len(contracts)] = "finalized"
  /\ agreements' = agreements \cup {Partner}
  /\ UNCHANGED contracts /\ Continue
  /\ UNCHANGED <<marketVars, splitVars>>

\* TERMINATED, or 60 polls without an end; the connectors go on with it.
PollGivesUp ==
  /\ npc = "poll"
  /\ \/ contracts[Len(contracts)] = "terminated" /\ UNCHANGED contracts
     \/ /\ contracts[Len(contracts)] = "requested" /\ "negotiation" \in faults
        /\ contracts' = [contracts EXCEPT ![Len(contracts)] = "abandoned"]
  /\ Continue
  /\ UNCHANGED <<marketVars, splitVars, agreements>>

\* The connectors come to an agreement, or not; for a poll that was given up, late.
Negotiated(i) ==
  /\ \/ /\ contracts[i] = "requested"
        /\ contracts' = [contracts EXCEPT ![i] = "finalized"]
     \/ /\ contracts[i] = "abandoned"
        /\ contracts' = [contracts EXCEPT ![i] = "late"]
     \/ /\ contracts[i] \in {"requested", "abandoned"} /\ "negotiation" \in faults
        /\ contracts' = [contracts EXCEPT ![i] = "terminated"]
  /\ UNCHANGED <<marketVars, splitVars, npc, agreements>>

\* The initial model goes to Nextcloud and becomes an asset.
PublishModel ==
  /\ npc = "publish"
  /\ npc' = "ready"
  /\ UNCHANGED <<marketVars, splitVars, contracts, agreements>>

-----------------------------------------------------------------------------
Init ==
  /\ MarketInit /\ SplitInit
  /\ npc = "catalogue" /\ contracts = <<>> /\ agreements = {}

Negotiation ==
  \/ FetchCatalogue \/ ConnectorRaises
  \/ RequestContract \/ RequestRefused
  \/ PollFinalized \/ PollGivesUp
  \/ PublishModel

Connectors == \E i \in DOMAIN contracts : Negotiated(i)

LauncherEnded == dpc = "failed" \/ lpc \in {"done", "died"}
ServerEnded == dpc = "failed" \/ spc = "died" \/ npc \in {"ready", "died"}

Next ==
  \/ SplitDataset
  \/ StartContainers
  \/ Market
  \/ Negotiation
  \/ Connectors
  \/ LauncherEnded /\ ServerEnded /\ UNCHANGED vars

Spec == Init /\ [][Next]_vars

InMarket(A) == dpc = "up" /\ A /\ UNCHANGED <<splitVars, negotiationVars>>

\* Every program, thread and connector goes on.
Fairness ==
  /\ WF_vars(SplitDataset) /\ WF_vars(StartContainers)
  /\ WF_vars(InMarket(Launcher))
  /\ WF_vars(InMarket(Discovery))
  /\ \A h \in Posts :
       WF_vars(InMarket(Scan(h) \/ Remove(h) \/ RemoveFails(h) \/ AppendOffer(h)))
  /\ WF_vars(Negotiation) /\ WF_vars(Connectors)

FairSpec == Spec /\ Fairness

-----------------------------------------------------------------------------
(* Properties                                                              *)

TypeOK ==
  /\ MarketTypeOK
  /\ dpc \in {"floor", "topup", "save", "saved", "up", "failed"}
  /\ npc \in {"catalogue", "request", "poll", "publish", "ready", "died"}
  /\ contracts \in Seq({"requested", "refused", "finalized", "terminated",
                        "abandoned", "late"})
  /\ Len(contracts) <= Len(found)
  /\ agreements \subseteq Clients

\* Training begins with an agreement with every client of the launcher's but those
\* whose own negotiation was refused, was terminated or had no end in time, though it
\* may still come to one: a failure costs nobody else the contract, and nobody is
\* enrolled on another's (setup: discover_clients, then negotiate_edc_contracts).
\* Where two POSTs of a client may have overlapped, nothing is said: discovery may
\* have left out others.
EnrolledUnlessFailed ==
  npc = "ready" /\ OneByOne =>
    \A c \in Clients : \E i \in DOMAIN contracts :
      /\ found[i] = c
      /\ c \in agreements <=> contracts[i] = "finalized"
      /\ contracts[i] # "requested"
      /\ "negotiation" \notin faults => c \in agreements

\* Whatever fails, the launcher gets to the end of its part, and the server is
\* ready or gives up (and dies): no retry and no wait goes on for ever.
StartUpEnds == <>(LauncherEnded /\ ServerEnded)
=============================================================================
