---------------------------- MODULE Marketplace ----------------------------
(***************************************************************************)
(* The marketplace: its list of offers, written and read by the threads of *)
(* a Flask server without a lock (dataspace_web_app.py), the launcher that *)
(* publishes an offer for one client after the other, and the research     *)
(* centre's server that looks for clients (marketplace_utils.py).          *)
(*                                                                         *)
(* An offer is named by the POST that registers it, <<client, attempt>>.   *)
(* Two offers of a client are equal if they were registered in the same    *)
(* second.                                                                 *)
(***************************************************************************)
EXTENDS Naturals, Sequences, FiniteSets

CONSTANTS
  NumClients,
  MaxPosts,      \* attempts of publish_client_offer
  MaxOverlap,    \* handlers at work at once: a bound
  MaxLooks,      \* attempts of discover_clients
  Setups,        \* pairs of the clients whose offers meet select_clients_by_criteria
                 \* and of the faults there may be: the choices
  None

FaultKinds ==
  {"refused",     \* a request is refused, or its answer lost
   "slow",        \* a POST is not answered in 5 s; its handler goes on
   "connector",   \* a call to a connector's management API raises
   "negotiation"} \* a negotiation is refused, terminated or not final in time

Clients == 1..NumClients
Posts == Clients \X (1..MaxPosts)

ASSUME CountsAssumption ==
  /\ NumClients \in Nat \ {0} /\ MaxPosts \in Nat \ {0}
  /\ MaxOverlap \in Nat /\ MaxLooks \in Nat
ASSUME SetupsAssumption == Setups \subseteq (SUBSET Clients) \X (SUBSET FaultKinds)
ASSUME NoneAssumption == None \notin Posts

VARIABLES
  eligible, faults,  \* settled beforehand
  lpc,               \* the launcher: "wait_up", "create", "post", "wait", "done", "died"
  cur, attempt,      \* client_id and attempt of its loops
  hpc,               \* the handler of each POST: "none", "scan", "remove",
                     \* "append", "created" (201), "error" (500)
  index,             \* how far it has looked, while it looks
  existing,          \* the offer it is about to remove
  offers,
  spc,               \* the server: "down", "probe", "listing", "found", ...
  looks,             \* attempt of discover_clients
  cursor, catalogue, \* the listing under way, and the eligible clients it has so far
  found              \* client_offers

setup == <<eligible, faults>>
launcherVars == <<lpc, cur, attempt>>
handlerVars == <<hpc, index, existing, offers>>
serverVars == <<spc, looks, cursor, catalogue, found>>
marketVars == <<setup, launcherVars, handlerVars, serverVars>>

ClientOf(post) == post[1]
AtWork == {h \in Posts : hpc[h] \in {"scan", "remove", "append"}}
Without(s, i) == SubSeq(s, 1, i - 1) \o SubSeq(s, i + 1, Len(s))

-----------------------------------------------------------------------------
(* Deviations: plausible slips in the actions below, each of which breaks a   *)
(* property.  They are no part of the specification.                         *)

\* no look for an earlier offer
ScanSkipped(h) ==
  /\ hpc[h] = "scan"
  /\ hpc' = [hpc EXCEPT ![h] = "append"]
  /\ UNCHANGED <<setup, launcherVars, index, existing, offers, serverVars>>

\* an offer that is there already is removed and the new one forgotten
RemoveOnly(h) ==
  /\ hpc[h] = "remove"
  /\ \E i \in DOMAIN offers :
       /\ offers[i] = existing[h]
       /\ offers' = Without(offers, i)
  /\ hpc' = [hpc EXCEPT ![h] = "created"]
  /\ UNCHANGED <<setup, launcherVars, index, existing, serverVars>>

\* one client short is enough
ListEndEarly ==
  /\ spc = "listing" /\ cursor > Len(offers)
  /\ IF Len(catalogue) + 1 >= NumClients
     THEN spc' = "found" /\ found' = catalogue
     ELSE spc' = "probe" /\ UNCHANGED found
  /\ catalogue' = <<>> /\ cursor' = 1
  /\ UNCHANGED <<setup, launcherVars, handlerVars, looks>>

\* attempts that found too few are not counted
ProbeUncounted ==
  /\ spc = "probe" /\ looks < MaxLooks
  /\ spc' = "listing"
  /\ cursor' = 1 /\ catalogue' = <<>>
  /\ UNCHANGED <<setup, launcherVars, handlerVars, looks, found>>

-----------------------------------------------------------------------------
(* The launcher: publish_client_offer for one client after the other         *)

\* The first answer to setup_client_offers within its 60 attempts.
MarketplaceReady ==
  /\ lpc = "wait_up"
  /\ \/ lpc' = "create"
     \/ "refused" \in faults /\ lpc' = "died"
  /\ UNCHANGED <<setup, cur, attempt, handlerVars, serverVars>>

\* Asset, policy and contract definition in the client's connector.
CreateObjects ==
  /\ lpc = "create"
  /\ \/ lpc' = "post"
     \/ "connector" \in faults /\ lpc' = "died"
  /\ UNCHANGED <<setup, cur, attempt, handlerVars, serverVars>>

Post ==
  /\ lpc = "post"
  /\ attempt' = attempt + 1
  /\ hpc' = [hpc EXCEPT ![<<cur, attempt'>>] = "scan"]
  /\ lpc' = "wait"
  /\ UNCHANGED <<setup, cur, index, existing, offers, serverVars>>

Retry == lpc' = IF attempt' = MaxPosts THEN "died" ELSE "post"

PostRefused ==
  /\ "refused" \in faults
  /\ lpc = "post"
  /\ attempt' = attempt + 1
  /\ Retry
  /\ UNCHANGED <<setup, cur, handlerVars, serverVars>>

\* raise_for_status, an answer that is lost, or none in time, whatever the handler
\* has done or will still do.
PostFails ==
  /\ lpc = "wait"
  /\ \/ hpc[<<cur, attempt>>] = "error"
     \/ hpc[<<cur, attempt>>] = "created" /\ "refused" \in faults
     \/ "slow" \in faults /\ Cardinality(AtWork) < MaxOverlap
  /\ UNCHANGED attempt
  /\ Retry
  /\ UNCHANGED <<setup, cur, handlerVars, serverVars>>

Published ==
  /\ lpc = "wait" /\ hpc[<<cur, attempt>>] = "created"
  /\ cur' = cur + 1 /\ attempt' = 0
  /\ lpc' = IF cur = NumClients THEN "done" ELSE "create"
  /\ UNCHANGED <<setup, handlerVars, serverVars>>

-----------------------------------------------------------------------------
(* register_offer, a thread per POST                                       *)

\* One step of the generator over the list, which others may change meanwhile.
Scan(h) ==
  /\ hpc[h] = "scan"
  /\ LET i == index[h] + 1 IN
     \/ /\ i > Len(offers)
        /\ hpc' = [hpc EXCEPT ![h] = "append"]
        /\ index' = [index EXCEPT ![h] = 0]
        /\ UNCHANGED existing
     \/ /\ i <= Len(offers) /\ ClientOf(offers[i]) = ClientOf(h)
        /\ hpc' = [hpc EXCEPT ![h] = "remove"]
        /\ existing' = [existing EXCEPT ![h] = offers[i]]
        /\ index' = [index EXCEPT ![h] = 0]
     \/ /\ i <= Len(offers) /\ ClientOf(offers[i]) # ClientOf(h)
        /\ index' = [index EXCEPT ![h] = i]
        /\ UNCHANGED <<hpc, existing>>
  /\ UNCHANGED <<setup, launcherVars, offers, serverVars>>

\* list.remove takes the first offer that equals the one found: that one, or one
\* of the same client registered in the same second.
Remove(h) ==
  /\ hpc[h] = "remove"
  /\ \E i \in DOMAIN offers :
       /\ ClientOf(offers[i]) = ClientOf(h)
       /\ \A j \in 1..(i - 1) : offers[j] # existing[h]
       /\ offers' = Without(offers, i)
  /\ hpc' = [hpc EXCEPT ![h] = "append"]
  /\ existing' = [existing EXCEPT ![h] = None]
  /\ UNCHANGED <<setup, launcherVars, index, serverVars>>

\* ValueError: no such offer any more.
RemoveFails(h) ==
  /\ hpc[h] = "remove"
  /\ \A i \in DOMAIN offers : offers[i] # existing[h]
  /\ hpc' = [hpc EXCEPT ![h] = "error"]
  /\ existing' = [existing EXCEPT ![h] = None]
  /\ UNCHANGED <<setup, launcherVars, index, offers, serverVars>>

AppendOffer(h) ==
  /\ hpc[h] = "append"
  /\ offers' = Append(offers, h)
  /\ hpc' = [hpc EXCEPT ![h] = "created"]
  /\ UNCHANGED <<setup, launcherVars, index, existing, serverVars>>

-----------------------------------------------------------------------------
(* The server: discover_clients, and the listing it asks for                  *)

\* The first of two requests succeeds.
Probe ==
  /\ spc = "probe" /\ looks < MaxLooks
  /\ spc' = "listing" /\ looks' = looks + 1
  /\ cursor' = 1 /\ catalogue' = <<>>
  /\ UNCHANGED <<setup, launcherVars, handlerVars, found>>

ProbeFails ==
  /\ "refused" \in faults
  /\ spc = "probe" /\ looks < MaxLooks
  /\ looks' = looks + 1
  /\ UNCHANGED <<setup, launcherVars, handlerVars, spc, cursor, catalogue, found>>

\* get_offers iterates over the list itself.  What select_clients_by_criteria
\* will not take is left out here already.
ListNext ==
  /\ spc = "listing" /\ cursor <= Len(offers)
  /\ catalogue' = IF ClientOf(offers[cursor]) \in eligible
                  THEN Append(catalogue, ClientOf(offers[cursor])) ELSE catalogue
  /\ cursor' = cursor + 1
  /\ UNCHANGED <<setup, launcherVars, handlerVars, spc, looks, found>>

\* The answer: offers are counted, not clients.
ListEnd ==
  /\ spc = "listing" /\ cursor > Len(offers)
  /\ IF Len(catalogue) >= NumClients
     THEN spc' = "found" /\ found' = catalogue
     ELSE spc' = "probe" /\ UNCHANGED found
  /\ catalogue' = <<>> /\ cursor' = 1
  /\ UNCHANGED <<setup, launcherVars, handlerVars, looks>>

ListFails ==
  /\ "refused" \in faults
  /\ spc = "listing"
  /\ spc' = "probe" /\ catalogue' = <<>> /\ cursor' = 1
  /\ UNCHANGED <<setup, launcherVars, handlerVars, looks, found>>

DiscoveryGivesUp ==
  /\ spc = "probe" /\ looks = MaxLooks
  /\ spc' = "died"
  /\ UNCHANGED <<setup, launcherVars, handlerVars, looks, cursor, catalogue, found>>

-----------------------------------------------------------------------------
MarketInit ==
  /\ \E s \in Setups : eligible = s[1] /\ faults = s[2]
  /\ lpc = "wait_up" /\ cur = 1 /\ attempt = 0
  /\ hpc = [h \in Posts |-> "none"]
  /\ index = [h \in Posts |-> 0]
  /\ existing = [h \in Posts |-> None]
  /\ offers = <<>>
  /\ spc = "probe" /\ looks = 0 /\ cursor = 1 /\ catalogue = <<>> /\ found = <<>>

Launcher == MarketplaceReady \/ CreateObjects \/ Post \/ PostRefused \/ PostFails \/ Published

Handlers ==
  \E h \in Posts : Scan(h) \/ Remove(h) \/ RemoveFails(h) \/ AppendOffer(h)

Discovery ==
  Probe \/ ProbeFails \/ ListNext \/ ListEnd \/ ListFails \/ DiscoveryGivesUp

MarketNext == Launcher \/ Handlers \/ Discovery

MarketSpec == MarketInit /\ [][MarketNext]_marketVars

-----------------------------------------------------------------------------
(* Properties                                                              *)

MarketTypeOK ==
  /\ eligible \subseteq Clients /\ faults \subseteq FaultKinds
  /\ lpc \in {"wait_up", "create", "post", "wait", "done", "died"}
  /\ cur \in 1..(NumClients + 1) /\ attempt \in 0..MaxPosts
  /\ hpc \in [Posts -> {"none", "scan", "remove", "append", "created", "error"}]
  /\ index \in [Posts -> Nat] /\ existing \in [Posts -> Posts \cup {None}]
  /\ offers \in Seq(Posts)
  /\ spc \in {"probe", "listing", "found", "died"}
  /\ looks \in 0..MaxLooks /\ cursor \in Nat \ {0}
  /\ catalogue \in Seq(Clients) /\ found \in Seq(Clients)

\* A client whose offer was published stays on the list, or some handler is just
\* about to put it back: no interleaving of late and repeated POSTs loses it
\* (register_offer removes before it appends, without a lock).
PublishedIsListed ==
  \A c \in Clients : c < cur =>
    \/ \E i \in DOMAIN offers : ClientOf(offers[i]) = c
    \/ \E k \in 1..MaxPosts : hpc[<<c, k>>] = "append"

\* As long as every POST is answered before the next one, an offer that is
\* registered again replaces the earlier one ("Check for duplicates").
NoDuplicatesOneByOne ==
  "slow" \notin faults =>
    \A i, j \in DOMAIN offers : ClientOf(offers[i]) = ClientOf(offers[j]) => i = j

\* No client's offer was registered again.
RegisteredOnce ==
  \A h, k \in Posts : hpc[h] # "none" /\ hpc[k] # "none" /\ ClientOf(h) = ClientOf(k) => h = k

\* Either is enough for no two POSTs of a client to overlap: none is given up while
\* its handler is at work, or none was repeated.
OneByOne == "slow" \notin faults \/ RegisteredOnce

\* If no two POSTs of a client can have overlapped (OneByOne), the offers that discovery counts are those
\* of different clients, and it succeeds with all of them: also when it lists while
\* others register, and while the offer it has just passed is taken off the list
\* and put back behind it (discover_clients, get_offers, register_offer).
DiscoveryFindsEveryone ==
  spc = "found" /\ OneByOne =>
    /\ Len(found) = NumClients
    /\ \A c \in Clients : c \in eligible /\ \E i \in DOMAIN found : found[i] = c
=============================================================================
