--------------------------- MODULE StartUpProofs ---------------------------
(***************************************************************************)
(* Theorems about StartUp: the marketplace within the start of a training  *)
(* keeps what it promises on its own (MarketplaceProofs), the data are     *)
(* split without a remainder, and each client found is enrolled unless its *)
(* own negotiation comes to nothing.                                       *)
(***************************************************************************)
EXTENDS StartUp, MarketplaceProofs, FoldSums

\* The server's part of the type invariant.
NegotiationTypeOK ==
  /\ npc \in {"catalogue", "request", "poll", "publish", "ready", "died"}
  /\ contracts \in Seq({"requested", "refused", "finalized", "terminated",
                        "abandoned", "late"})
  /\ Len(contracts) <= Len(found)
  /\ agreements \subseteq Clients

\* Where the server is: nothing is negotiated before discovery has succeeded, then
\* one partner after the other.
Turn ==
  /\ spc = "found" => Len(found) >= NumClients
  /\ spc # "found" => npc = "catalogue" /\ contracts = <<>>
  /\ spc = "found" /\ npc \in {"catalogue", "request"} => Len(contracts) < Len(found)
  /\ npc = "poll" => Len(contracts) > 0
  /\ npc \in {"publish", "ready"} => Len(contracts) = Len(found)

\* The poll for the i-th partner is over.
Settled(i) == i < Len(contracts) \/ npc \notin {"poll", "died"}

\* If all partners differ, those are enrolled whose contract was seen to be final.
Enrolled ==
  /\ \A a \in agreements : \E j \in DOMAIN contracts : found[j] = a
  /\ Differ(found) => \A i \in DOMAIN contracts :
       /\ found[i] \in agreements => contracts[i] = "finalized"
       /\ Settled(i) => /\ contracts[i] # "requested"
                        /\ contracts[i] = "finalized" => found[i] \in agreements

\* Without a fault every contract is final in time.
NothingFails ==
  "negotiation" \notin faults =>
    \A i \in DOMAIN contracts : contracts[i] \in {"requested", "finalized"}

StartInv == NegotiationTypeOK /\ Turn /\ Enrolled /\ NothingFails

-----------------------------------------------------------------------------
(* The marketplace is that of Marketplace                                  *)

LEMMA MarketInStartUp == Spec => MarketSpec
<1>1. Init => MarketInit
  BY DEF Init
<1>2. [Next]_vars => [MarketNext]_marketVars
  BY DEF Next, vars, SplitDataset, StartContainers, Market, Negotiation, FetchCatalogue,
         ConnectorRaises, RequestContract, RequestRefused, PollFinalized, PollGivesUp,
         PublishModel, Connectors, Negotiated
<1> QED BY <1>1, <1>2, PTL DEF Spec, MarketSpec

\* Once discovery has succeeded it is over; it succeeds with enough offers.
LEMMA FoundStays ==
  ASSUME MarketNext
  PROVE  /\ spc = "found" => spc' = "found" /\ found' = found
         /\ spc # "found" /\ spc' = "found" => Len(found') >= NumClients
         /\ spc # "found" /\ spc' # "found" => found' = found
         /\ faults' = faults /\ eligible' = eligible
BY DEF MarketNext, Launcher, MarketplaceReady, CreateObjects, Post, PostRefused, PostFails,
       Published, Handlers, Scan, Remove, RemoveFails, AppendOffer, Discovery, Probe,
       ProbeFails, ListNext, ListEnd, ListFails, DiscoveryGivesUp, setup, handlerVars, serverVars

-----------------------------------------------------------------------------
(* The invariant                                                           *)

LEMMA StartInvInit == Init => StartInv
<1> SUFFICES ASSUME Init PROVE StartInv
  OBVIOUS
<1>1. contracts = <<>> /\ agreements = {} /\ found = <<>> /\ npc = "catalogue" /\ spc = "probe"
  BY DEF Init, MarketInit
<1>2. Len(contracts) = 0 /\ DOMAIN contracts = {}
      /\ contracts \in Seq({"requested", "refused", "finalized", "terminated",
                            "abandoned", "late"})
  BY <1>1, EmptySeq
<1> QED BY <1>1, <1>2 DEF StartInv, NegotiationTypeOK, Turn, Enrolled, NothingFails

LEMMA StartInvStep ==
  ASSUME MarketTypeOK, MarketTypeOK', StartInv, [Next]_vars
  PROVE  StartInv'
<1> DEFINE States == {"requested", "refused", "finalized", "terminated", "abandoned", "late"}
<1> USE DEF marketVars, setup, serverVars, negotiationVars
<1>1. /\ contracts \in Seq(States) /\ Len(contracts) \in Nat
      /\ DOMAIN contracts = 1..Len(contracts)
      /\ found \in Seq(Clients) /\ Len(found) \in Nat /\ Len(contracts) <= Len(found)
      /\ \A i \in 1..Len(found) : found[i] \in Clients
      /\ NumClients \in Nat \ {0}
  BY CountsAssumption, LenProperties, ElementOfSeq DEF StartInv, NegotiationTypeOK, MarketTypeOK
<1>2. CASE Market
  <2>1. UNCHANGED <<npc, contracts, agreements, faults, eligible>>
    BY <1>2, FoundStays DEF Market
  <2>2. CASE spc = "found"
    <3>1. spc' = "found" /\ found' = found
      BY <1>2, <2>2, FoundStays DEF Market
    <3> QED BY <2>1, <2>2, <3>1 DEF StartInv, NegotiationTypeOK, Turn, Enrolled,
                                       NothingFails, Settled, Differ
  <2>3. CASE spc # "found"
    <3>1. /\ npc = "catalogue" /\ contracts = <<>> /\ Len(contracts) = 0 /\ DOMAIN contracts = {}
      BY <2>3, EmptySeq DEF StartInv, Turn
    <3>2. agreements = {}
      BY <3>1 DEF StartInv, Enrolled
    <3>3. spc' = "found" => Len(found') >= NumClients
      BY <1>2, <2>3, FoundStays DEF Market
    <3>4. Len(found') \in Nat
      BY LenProperties DEF MarketTypeOK
    <3> QED BY <1>1, <2>1, <3>1, <3>2, <3>3, <3>4
            DEF StartInv, NegotiationTypeOK, Turn, Enrolled, NothingFails
  <2> QED BY <2>2, <2>3
<1>3. CASE UNCHANGED <<marketVars, negotiationVars>>
  BY <1>3 DEF StartInv, NegotiationTypeOK, Turn, Enrolled, NothingFails, Settled, Differ
<1>4. CASE FetchCatalogue \/ ConnectorRaises \/ PublishModel
  <2>1. /\ UNCHANGED <<spc, found, faults, contracts, agreements>>
        /\ \/ spc = "found" /\ npc = "catalogue" /\ npc' = "request"
           \/ spc = "found" /\ npc' = "died"
           \/ npc = "publish" /\ npc' = "ready"
    BY <1>4 DEF FetchCatalogue, ConnectorRaises, PublishModel
  <2>2. NegotiationTypeOK'
    BY <2>1 DEF StartInv, NegotiationTypeOK
  <2>3. Turn'
    BY <2>1 DEF StartInv, Turn
  <2>4. Enrolled' /\ NothingFails'
    <3>1. UNCHANGED eligible
      BY <1>4 DEF FetchCatalogue, ConnectorRaises, PublishModel
    <3>2. \A i : Settled(i)' => Settled(i)
      BY <2>1 DEF Settled
    <3> QED BY <2>1, <3>1, <3>2 DEF StartInv, Enrolled, NothingFails, Differ
  <2> QED BY <2>2, <2>3, <2>4 DEF StartInv
<1>5. CASE RequestContract \/ RequestRefused
  <2>1. /\ npc = "request" /\ UNCHANGED <<spc, found, faults, eligible, agreements>>
        /\ \/ contracts' = Append(contracts, "requested") /\ npc' = "poll"
           \/ /\ contracts' = Append(contracts, "refused") /\ "negotiation" \in faults
              /\ npc' = IF Len(contracts') = Len(found) THEN "publish" ELSE "catalogue"
    BY <1>5 DEF RequestContract, RequestRefused, Continue
  <2>2. spc = "found" /\ Len(contracts) < Len(found)
    BY <2>1 DEF StartInv, Turn
  <2>3. /\ contracts' \in Seq(States) /\ Len(contracts') = Len(contracts) + 1
        /\ DOMAIN contracts' = 1..(Len(contracts) + 1)
        /\ \A i \in 1..Len(contracts) : contracts'[i] = contracts[i]
        /\ contracts'[Len(contracts) + 1] \in {"requested", "refused"}
        /\ contracts'[Len(contracts) + 1] = "refused" => "negotiation" \in faults
    <3>1. "requested" \in States /\ "refused" \in States
      OBVIOUS
    <3> HIDE DEF States
    <3>2. \A e \in States :
            /\ Append(contracts, e) \in Seq(States)
            /\ Len(Append(contracts, e)) = Len(contracts) + 1
            /\ \A i \in 1..Len(contracts) : Append(contracts, e)[i] = contracts[i]
            /\ Append(contracts, e)[Len(contracts) + 1] = e
      BY <1>1, AppendProperties
    <3>3. contracts' = Append(contracts, "requested") \/ contracts' = Append(contracts, "refused")
      BY <2>1
    <3>4. contracts' \in Seq(States) /\ Len(contracts') = Len(contracts) + 1
      BY <3>1, <3>2, <3>3
    <3>5. DOMAIN contracts' = 1..(Len(contracts) + 1)
      BY <3>4, LenProperties
    <3>6. \A i \in 1..Len(contracts) : contracts'[i] = contracts[i]
      BY <3>1, <3>2, <3>3
    <3>7. /\ contracts'[Len(contracts) + 1] \in {"requested", "refused"}
          /\ contracts'[Len(contracts) + 1] = "refused" => "negotiation" \in faults
      BY <2>1, <3>1, <3>2
    <3> QED BY <3>4, <3>5, <3>6, <3>7
  <2>4. Len(contracts) + 1 <= Len(found) /\ Len(contracts) + 1 > 0
    BY <1>1, <2>2
  <2>5. npc' \in {"poll", "publish", "catalogue"}
    BY <2>1
  <2>6. NegotiationTypeOK'
    BY <2>1, <2>3, <2>4, <2>5 DEF StartInv, NegotiationTypeOK
  <2>7. Turn'
    <3>1. npc' = "catalogue" => Len(contracts) + 1 # Len(found)
      BY <2>1, <2>3
    <3>2. npc' = "publish" => Len(contracts) + 1 = Len(found)
      BY <2>1, <2>3
    <3>3. npc' = "catalogue" => Len(contracts) + 1 < Len(found)
      BY <1>1, <2>4, <3>1
    <3> QED BY <2>1, <2>2, <2>3, <2>4, <2>5, <3>2, <3>3 DEF StartInv, Turn
  <2>8. Enrolled'
    <3>1. \A a \in agreements' : \E j \in DOMAIN contracts' : found'[j] = a
      BY <1>1, <2>1, <2>3 DEF StartInv, Enrolled
    <3>2. SUFFICES ASSUME Differ(found), NEW i \in 1..(Len(contracts) + 1)
                   PROVE  /\ found[i] \in agreements => contracts'[i] = "finalized"
                          /\ Settled(i)' => /\ contracts'[i] # "requested"
                                            /\ contracts'[i] = "finalized" => found[i] \in agreements
      BY <2>1, <2>3, <3>1 DEF Enrolled, Differ
    <3>3. CASE i \in 1..Len(contracts)
      <4>1. Settled(i)
        BY <2>1 DEF Settled
      <4> QED BY <1>1, <2>3, <3>2, <3>3, <4>1 DEF StartInv, Enrolled
    <3>4. CASE i = Len(contracts) + 1
      <4>1. found[i] \notin agreements
        <5>1. \A j \in DOMAIN contracts : j # i /\ j \in DOMAIN found /\ i \in DOMAIN found
          <6>1. DOMAIN found = 1..Len(found)
            BY <1>1, LenProperties
          <6> QED BY <1>1, <2>4, <3>4, <6>1
        <5> QED BY <3>2, <5>1 DEF StartInv, Enrolled, Differ
      <4>2. contracts'[i] = "requested" => ~Settled(i)'
        <5>1. ~(Len(contracts) + 1 < Len(contracts) + 1)
          BY <1>1
        <5>2. contracts'[i] = "requested" => npc' = "poll"
          <6>1. PICK e : contracts' = Append(contracts, e) /\ (e = "requested" => npc' = "poll")
            BY <2>1
          <6>2. Append(contracts, e)[Len(contracts) + 1] = e
            BY <1>1, AppendProperties
          <6> QED BY <3>4, <6>1, <6>2
        <5> QED BY <2>3, <3>4, <5>1, <5>2 DEF Settled
      <4> QED BY <2>3, <3>4, <4>1, <4>2
    <3> QED BY <1>1, <3>3, <3>4
  <2>9. NothingFails'
    <3>1. \A i \in 1..(Len(contracts) + 1) : i \in 1..Len(contracts) \/ i = Len(contracts) + 1
      BY <1>1
    <3> QED BY <1>1, <2>1, <2>3, <3>1 DEF StartInv, NothingFails
  <2> QED BY <2>6, <2>7, <2>8, <2>9 DEF StartInv
<1>6. CASE PollFinalized \/ PollGivesUp
  <2>1. /\ npc = "poll" /\ UNCHANGED <<spc, found, faults, eligible>>
        /\ npc' = IF Len(contracts') = Len(found) THEN "publish" ELSE "catalogue"
        /\ \/ /\ contracts[Len(contracts)] = "finalized"
              /\ agreements' = agreements \cup {found[Len(contracts)]}
              /\ contracts' = contracts
           \/ /\ contracts[Len(contracts)] = "terminated"
              /\ UNCHANGED <<agreements, contracts>>
           \/ /\ contracts[Len(contracts)] = "requested" /\ "negotiation" \in faults
              /\ contracts' = [contracts EXCEPT ![Len(contracts)] = "abandoned"]
              /\ agreements' = agreements
    BY <1>6 DEF PollFinalized, PollGivesUp, Continue, Partner
  <2>2. spc = "found" /\ Len(contracts) \in 1..Len(found) /\ Len(contracts) \in 1..Len(contracts)
    BY <1>1, <2>1 DEF StartInv, Turn
  <2>3. /\ contracts' \in Seq(States) /\ Len(contracts') = Len(contracts)
        /\ DOMAIN contracts' = 1..Len(contracts)
        /\ \A i \in 1..Len(contracts) : i # Len(contracts) => contracts'[i] = contracts[i]
    <3>1. [contracts EXCEPT ![Len(contracts)] = "abandoned"] \in Seq(States)
          /\ Len([contracts EXCEPT ![Len(contracts)] = "abandoned"]) = Len(contracts)
      BY <1>1, <2>2, ExceptSeq
    <3> QED BY <1>1, <2>1, <3>1, LenProperties
  <2>4. NegotiationTypeOK'
    <3>1. agreements' \subseteq Clients
      BY <1>1, <2>1, <2>2 DEF StartInv, NegotiationTypeOK
    <3> QED BY <1>1, <2>1, <2>3, <3>1 DEF NegotiationTypeOK
  <2>5. Turn'
    <3>1. Len(contracts) # Len(found) => Len(contracts) < Len(found)
      BY <1>1
    <3> QED BY <2>1, <2>2, <2>3, <3>1 DEF StartInv, Turn
  <2>6. Enrolled'
    <3>1. \A a \in agreements' : \E j \in DOMAIN contracts' : found'[j] = a
      BY <1>1, <2>1, <2>2, <2>3 DEF StartInv, Enrolled
    <3>2. SUFFICES ASSUME Differ(found), NEW i \in 1..Len(contracts)
                   PROVE  /\ found[i] \in agreements' => contracts'[i] = "finalized"
                          /\ contracts'[i] # "requested"
                          /\ contracts'[i] = "finalized" => found[i] \in agreements'
      BY <2>1, <2>3, <3>1 DEF Enrolled, Differ
    <3>3. /\ found[i] \in agreements => contracts[i] = "finalized"
          /\ i < Len(contracts) => /\ contracts[i] # "requested"
                                   /\ contracts[i] = "finalized" => found[i] \in agreements
      BY <1>1, <3>2 DEF StartInv, Enrolled, Settled
    <3>4. CASE i = Len(contracts)
      <4>1. contracts'[i] = IF contracts[i] = "requested" THEN "abandoned" ELSE contracts[i]
        BY <1>1, <2>1, <2>2, <3>4
      <4> QED BY <2>1, <3>3, <3>4, <4>1
    <3>5. CASE i # Len(contracts)
      <4>1. i < Len(contracts) /\ contracts'[i] = contracts[i]
        <5>1. PICK n \in Nat : n = Len(contracts)
          BY <1>1
        <5>2. i \in 1..n /\ i # n => i < n
          OBVIOUS
        <5> QED BY <2>3, <3>5, <5>1, <5>2
      <4>2. found[i] # found[Len(contracts)]
        <5>1. DOMAIN found = 1..Len(found)
          BY <1>1, LenProperties
        <5>2. i \in DOMAIN found /\ Len(contracts) \in DOMAIN found
          BY <1>1, <2>2, <5>1
        <5> QED BY <3>2, <3>5, <5>2 DEF Differ
      <4> QED BY <2>1, <3>3, <4>1, <4>2
    <3> QED BY <3>4, <3>5
  <2>7. NothingFails'
    BY <1>1, <2>1, <2>2, <2>3 DEF StartInv, NothingFails
  <2> QED BY <2>4, <2>5, <2>6, <2>7 DEF StartInv
<1>7. CASE Connectors
  <2>1. PICK i \in 1..Len(contracts), new \in {"finalized", "late", "terminated"} :
          /\ contracts' = [contracts EXCEPT ![i] = new]
          /\ contracts[i] \in {"requested", "abandoned"}
          /\ new = "finalized" => contracts[i] = "requested"
          /\ new = "late" => contracts[i] = "abandoned"
          /\ new = "terminated" => "negotiation" \in faults
    <3>1. PICK i \in 1..Len(contracts) : Negotiated(i)
      BY <1>1, <1>7 DEF Connectors
    <3> QED BY <3>1 DEF Negotiated
  <2>2. UNCHANGED <<spc, found, faults, eligible, npc, agreements>>
    BY <1>7 DEF Connectors, Negotiated
  <2>3. contracts' \in Seq(States) /\ Len(contracts') = Len(contracts)
        /\ DOMAIN contracts' = 1..Len(contracts)
    BY <1>1, <2>1, ExceptSeq, LenProperties
  <2>4. NegotiationTypeOK'
    BY <2>2, <2>3 DEF StartInv, NegotiationTypeOK
  <2>5. Turn'
    <3>1. spc = "found"
      BY <1>1, <2>1, EmptySeq DEF StartInv, Turn
    <3> QED BY <2>2, <2>3, <3>1 DEF StartInv, Turn
  <2>6. Enrolled'
    <3>1. \A a \in agreements' : \E j \in DOMAIN contracts' : found'[j] = a
      BY <1>1, <2>2, <2>3 DEF StartInv, Enrolled
    <3>2. SUFFICES ASSUME Differ(found), NEW j \in 1..Len(contracts)
                   PROVE  /\ found[j] \in agreements => contracts'[j] = "finalized"
                          /\ Settled(j) => /\ contracts'[j] # "requested"
                                           /\ contracts'[j] = "finalized" => found[j] \in agreements
      BY <2>2, <2>3, <3>1 DEF Enrolled, Differ, Settled
    <3>3. /\ found[j] \in agreements => contracts[j] = "finalized"
          /\ Settled(j) => /\ contracts[j] # "requested"
                           /\ contracts[j] = "finalized" => found[j] \in agreements
      BY <1>1, <3>2 DEF StartInv, Enrolled
    <3>4. contracts'[j] = IF j = i THEN new ELSE contracts[j]
      BY <1>1, <2>1
    <3> QED BY <2>1, <3>3, <3>4
  <2>7. NothingFails'
    BY <1>1, <2>1, <2>2, <2>3 DEF StartInv, NothingFails
  <2> QED BY <2>4, <2>5, <2>6, <2>7 DEF StartInv
<1> QED
  BY <1>2, <1>3, <1>4, <1>5, <1>6, <1>7
     DEF Next, vars, SplitDataset, StartContainers, Negotiation

LEMMA StartInvAlways == Spec => []StartInv
<1>1. Spec => []MarketTypeOK
  BY MarketInStartUp, MarketTypeCorrect
<1>2. MarketTypeOK /\ MarketTypeOK' /\ StartInv /\ [Next]_vars => StartInv'
  BY StartInvStep
<1> QED BY <1>1, <1>2, StartInvInit, PTL DEF Spec

-----------------------------------------------------------------------------
(* The splitting of the data                                               *)

\* What has been dealt out so far: the first examples, without a gap, each to one
\* client; start is how many there would be if the data set were long enough.
Dealt ==
  /\ parts \in Seq(SUBSET Nat) /\ Len(parts) <= Len(data.ratios)
  /\ start = SumOver(sizes, 1..Len(parts))
  /\ \A x : x \in 1..Lesser(start, data.length) <=> \E i \in 1..Len(parts) : x \in parts[i]
  /\ \A i, j \in 1..Len(parts) : i # j => parts[i] \cap parts[j] = {}

\* The shares never exceed what is used, and make it up once they are topped up.
Shares ==
  /\ data \in DataSets
  /\ dpc = "floor" => parts = <<>> /\ start = 0
  /\ dpc # "floor" => sizes \in [DOMAIN data.ratios -> Nat]
  /\ dpc = "topup" => parts = <<>> /\ start = 0 /\ Total(sizes) <= total_used
  /\ dpc \in {"save", "saved", "failed"} => Total(sizes) = total_used /\ Dealt
  /\ dpc = "saved" => Len(parts) = data.clients

SplitInv ==
  /\ dpc \in {"floor", "topup", "save", "saved", "up", "failed"}
  /\ dpc # "up" => Shares

\* A choice of the data set, the number of clients and the ratios, and its sums.
LEMMA DataType ==
  ASSUME data \in DataSets
  PROVE  /\ data.length \in Nat /\ data.clients \in Nat /\ total_used \in Nat
         /\ Len(data.ratios) \in Nat /\ DOMAIN data.ratios = 1..Len(data.ratios)
         /\ IsFiniteSet(DOMAIN data.ratios)
         /\ \A i \in DOMAIN data.ratios : data.ratios[i] \in Nat
         /\ Total(data.ratios) = SumOver(data.ratios, DOMAIN data.ratios)
         /\ Total(data.ratios) \in Nat \ {0}
<1>1. /\ data.length \in Nat /\ data.clients \in Nat /\ data.perClient \in Nat
      /\ data.ratios \in Seq(Nat) /\ Total(data.ratios) > 0
  BY DataSetsAssumption
<1>2. total_used \in Nat
  BY <1>1 DEF total_used
<1>3. PICK s : s = data.ratios
  OBVIOUS
<1>4. Len(s) \in Nat /\ DOMAIN s = 1..Len(s) /\ \A i \in DOMAIN s : s[i] \in Nat
  BY <1>1, <1>3, LenProperties, ElementOfSeq
<1>5. IsFiniteSet(DOMAIN s)
  BY <1>4, FS_Interval
<1>6. Total(s) = SumOver(s, DOMAIN s)
  BY FoldIsSumOver DEF Total
<1>7. Total(s) \in Nat
  BY <1>4, <1>5, <1>6, SumNat
<1> QED BY <1>1, <1>2, <1>3, <1>4, <1>5, <1>6, <1>7

\* Arithmetic of whole shares.
LEMMA WholeShare ==
  ASSUME NEW e \in Nat, NEW t \in Nat \ {0}
  PROVE  e \div t \in Nat /\ t * (e \div t) <= e
OBVIOUS

LEMMA CancelFactor ==
  ASSUME NEW t \in Nat \ {0}, NEW a \in Nat, NEW b \in Nat, t * a <= b * t
  PROVE  a <= b
<1>1. SUFFICES ASSUME a >= b + 1 PROVE FALSE
  OBVIOUS
<1>2. PICK k \in Nat : a = b + 1 + k
  <2>1. a - (b + 1) \in Nat /\ a = b + 1 + (a - (b + 1))
    BY <1>1
  <2> QED BY <2>1
<1>3. t * a = b * t + t + t * k /\ t * k \in Nat
  BY <1>2
<1> QED BY <1>3

\* Rounding every share down, even by one more, uses up no more than there is.
LEMMA FloorStep ==
  ASSUME Shares, FloorShares
  PROVE  Shares'
<1>1. /\ dpc = "floor" /\ dpc' = "topup" /\ UNCHANGED <<data, parts, start>>
      /\ parts = <<>> /\ start = 0 /\ data \in DataSets
  BY DEF FloorShares, Shares
<1>2. PICK r, u, t, D : r = data.ratios /\ u = total_used /\ t = Total(r) /\ D = DOMAIN r
  OBVIOUS
<1>3. /\ u \in Nat /\ t \in Nat \ {0} /\ IsFiniteSet(D) /\ t = SumOver(r, D)
      /\ \A i \in D : r[i] \in Nat
  BY <1>1, <1>2, DataType
<1>4. PICK low \in [D -> BOOLEAN] :
        sizes' = [i \in D |->
                   IF low[i] /\ r[i] * u > 0 /\ r[i] * u = ((r[i] * u) \div t) * t
                   THEN ((r[i] * u) \div t) - 1 ELSE (r[i] * u) \div t]
  BY <1>2 DEF FloorShares
<1>5. PICK s : s = sizes'
  OBVIOUS
<1>6. ASSUME NEW i \in D PROVE s[i] \in Nat /\ t * s[i] <= u * r[i]
  <2>1. PICK e, w : e = r[i] * u /\ w = e \div t
    OBVIOUS
  <2>2. e \in Nat /\ e = u * r[i]
    BY <1>3, <2>1
  <2>3. w \in Nat /\ t * w <= e
    BY <1>3, <2>1, <2>2, WholeShare
  <2>4. s[i] = IF low[i] /\ e > 0 /\ e = w * t THEN w - 1 ELSE w
    BY <1>4, <1>5, <2>1
  <2>5. CASE s[i] = w
    BY <2>2, <2>3, <2>5
  <2>6. CASE e > 0 /\ e = w * t /\ s[i] = w - 1
    <3>1. w # 0
      BY <1>3, <2>6
    <3>2. w - 1 \in Nat /\ t * (w - 1) = t * w - t /\ t * w \in Nat
      BY <1>3, <2>3, <3>1
    <3> QED BY <1>3, <2>2, <2>3, <2>6, <3>2
  <2> QED BY <2>4, <2>5, <2>6
<1>7. t * SumOver(s, D) <= u * SumOver(r, D)
  BY <1>3, <1>6, SumProportion
<1>8. SumOver(s, D) \in Nat
  BY <1>3, <1>6, SumNat
<1>9. SumOver(s, D) <= u
  BY <1>3, <1>7, <1>8, CancelFactor
<1>10. DOMAIN s = D /\ s \in [D -> Nat]
  BY <1>4, <1>5, <1>6
<1>11. Total(s) = SumOver(s, D)
  BY <1>10, FoldIsSumOver DEF Total
<1>12. total_used' = total_used
  BY <1>1 DEF total_used
<1> QED BY <1>1, <1>2, <1>5, <1>9, <1>10, <1>11, <1>12 DEF Shares

\* The total of the shares so far.
LEMMA SharesType ==
  ASSUME Shares, dpc # "floor"
  PROVE  /\ DOMAIN sizes = DOMAIN data.ratios /\ \A i \in DOMAIN sizes : sizes[i] \in Nat
         /\ Len(sizes) = Len(data.ratios) /\ IsFiniteSet(DOMAIN sizes)
         /\ Total(sizes) = SumOver(sizes, DOMAIN sizes) /\ Total(sizes) \in Nat
<1>1. PICK s, r : s = sizes /\ r = data.ratios
  OBVIOUS
<1>2. /\ s \in [DOMAIN r -> Nat] /\ DOMAIN r = 1..Len(r) /\ Len(r) \in Nat
      /\ IsFiniteSet(DOMAIN r)
  BY <1>1, DataType DEF Shares
<1>3. DOMAIN s = 1..Len(r) /\ Len(s) = Len(r) /\ \A i \in DOMAIN s : s[i] \in Nat
  <2>1. s \in [1..Len(r) -> Nat]
    BY <1>2
  <2>2. s \in Seq(Nat)
    BY <1>2, <2>1, SeqDef
  <2>3. Len(s) \in Nat /\ 1..Len(s) = 1..Len(r)
    BY <2>1, <2>2, LenProperties
  <2>4. Len(s) = Len(r)
    BY <1>2, <2>3
  <2> QED BY <2>1, <2>4
<1>4. Total(s) = SumOver(s, DOMAIN s)
  BY FoldIsSumOver DEF Total
<1>5. SumOver(s, DOMAIN s) \in Nat
  BY <1>2, <1>3, SumNat
<1> QED BY <1>1, <1>2, <1>3, <1>4, <1>5

\* The smallest share grows by one, until all that is used is handed out.
LEMMA TopUpStep ==
  ASSUME Shares, TopUp
  PROVE  Shares'
<1>1. /\ dpc = "topup" /\ UNCHANGED <<data, parts, start>> /\ data \in DataSets
      /\ parts = <<>> /\ start = 0 /\ Total(sizes) <= total_used
      /\ sizes \in [DOMAIN data.ratios -> Nat]
  BY DEF TopUp, Shares
<1>2. /\ DOMAIN sizes = DOMAIN data.ratios /\ \A i \in DOMAIN sizes : sizes[i] \in Nat
      /\ IsFiniteSet(DOMAIN sizes) /\ Total(sizes) = SumOver(sizes, DOMAIN sizes)
      /\ Total(sizes) \in Nat /\ total_used \in Nat /\ data.length \in Nat
      /\ Len(data.ratios) \in Nat
  BY <1>1, SharesType, DataType
<1>3. total_used' = total_used
  BY <1>1 DEF total_used
<1>4. CASE Total(sizes) < total_used
  <2>1. PICK i \in DOMAIN sizes : sizes' = [sizes EXCEPT ![i] = @ + 1] /\ dpc' = "topup"
    BY <1>1, <1>4 DEF TopUp
  <2>2. PICK f, g, D : f = sizes /\ g = sizes' /\ D = DOMAIN f
    OBVIOUS
  <2>3. /\ DOMAIN g = D /\ g \in [D -> Nat] /\ IsFiniteSet(D) /\ \A j \in D : f[j] \in Nat
        /\ i \in D /\ g[i] = f[i] + 1 /\ \A j \in D \ {i} : g[j] = f[j]
    BY <1>1, <1>2, <2>1, <2>2
  <2>4. SumOver(g, D) = SumOver(f, D) + 1
    BY <2>3, SumIncrement
  <2>5. Total(g) = SumOver(g, D)
    BY <2>3, FoldIsSumOver DEF Total
  <2> QED BY <1>1, <1>2, <1>3, <1>4, <2>1, <2>2, <2>3, <2>4, <2>5 DEF Shares
<1>5. CASE ~(Total(sizes) < total_used)
  <2>1. dpc' = "save" /\ sizes' = sizes
    BY <1>1, <1>5 DEF TopUp
  <2>2. Total(sizes) = total_used
    BY <1>1, <1>2, <1>5
  <2>3. Dealt
    <3>1. Len(parts) = 0 /\ parts \in Seq(SUBSET Nat) /\ 1..Len(parts) = {}
      BY <1>1, EmptySeq
    <3>2. SumOver(sizes, 1..Len(parts)) = 0
      BY <3>1, SumEmpty
    <3>3. 1..Lesser(start, data.length) = {}
      BY <1>1, <1>2 DEF Lesser
    <3> QED BY <1>1, <1>2, <3>1, <3>2, <3>3 DEF Dealt
  <2>4. Dealt'
    BY <1>1, <2>1, <2>3 DEF Dealt
  <2> QED BY <1>1, <1>3, <2>1, <2>2, <2>4 DEF Shares
<1> QED BY <1>4, <1>5

\* The next client gets the examples that follow, as far as there are any.
LEMMA NextPart ==
  ASSUME Dealt, data.length \in Nat, Len(data.ratios) \in Nat,
         Len(parts) < Len(data.ratios), \A i \in 1..Len(data.ratios) : sizes[i] \in Nat,
         UNCHANGED <<data, sizes>>, start' = start + sizes[Len(parts) + 1],
         parts' = Append(parts, start + 1 .. Lesser(start', data.length))
  PROVE  Dealt'
<1>1. PICK n, L, K, p, q, s, a, b, P :
        /\ n = data.length /\ L = Len(p) /\ K = Len(data.ratios) /\ p = parts /\ q = parts'
        /\ s = sizes /\ a = start /\ b = start' /\ P = (a + 1 .. Lesser(b, n))
  OBVIOUS
<1>2. /\ p \in Seq(SUBSET Nat) /\ L \in Nat /\ K \in Nat /\ L < K /\ n \in Nat
      /\ \A i \in 1..K : s[i] \in Nat
      /\ a = SumOver(s, 1..L) /\ b = a + s[L + 1] /\ q = Append(p, P)
      /\ \A x : x \in 1..Lesser(a, n) <=> \E i \in 1..L : x \in p[i]
      /\ \A i, j \in 1..L : i # j => p[i] \cap p[j] = {}
  BY <1>1, LenProperties DEF Dealt
<1>3. a \in Nat /\ s[L + 1] \in Nat /\ b \in Nat /\ b = SumOver(s, 1..(L + 1))
  <2>1. /\ IsFiniteSet(1..(L + 1)) /\ IsFiniteSet(1..L)
        /\ 1..L \subseteq 1..K /\ 1..(L + 1) \subseteq 1..K
        /\ (1..(L + 1)) \ {L + 1} = 1..L /\ L + 1 \in 1..(L + 1)
    <3>1. PICK k : k = L + 1 /\ k \in Int
      BY <1>2
    <3>2. IsFiniteSet(1..k) /\ IsFiniteSet(1..L)
      BY <1>2, <3>1, FS_Interval
    <3> QED BY <1>2, <3>1, <3>2
  <2>2. a \in Nat
    BY <1>2, <2>1, SumNat
  <2>3. SumOver(s, 1..(L + 1)) = s[L + 1] + SumOver(s, 1..L)
    <3>1. SumOver(s, 1..(L + 1)) = s[L + 1] + SumOver(s, (1..(L + 1)) \ {L + 1})
      BY <1>2, <2>1, SumRemove
    <3> QED BY <2>1, <3>1
  <2>4. s[L + 1] \in Nat
    BY <1>2, <2>1
  <2> QED BY <1>2, <2>2, <2>3, <2>4
<1>4. P \in SUBSET Nat
  BY <1>1, <1>2, <1>3 DEF Lesser
<1>5. /\ q \in Seq(SUBSET Nat) /\ Len(q) = L + 1 /\ q[L + 1] = P
      /\ \A i \in 1..L : q[i] = p[i]
  BY <1>1, <1>2, <1>4, AppendProperties
<1>6. ASSUME NEW x
      PROVE  x \in 1..Lesser(b, n) <=> \E i \in 1..(L + 1) : x \in q[i]
  <2>1. x \in 1..Lesser(b, n) <=> x \in 1..Lesser(a, n) \/ x \in P
    BY <1>1, <1>2, <1>3 DEF Lesser
  <2>2. (\E i \in 1..(L + 1) : x \in q[i]) <=> (\E i \in 1..L : x \in p[i]) \/ x \in P
    <3>1. \A i \in 1..(L + 1) : i \in 1..L \/ i = L + 1
      BY <1>2
    <3>2. L + 1 \in 1..(L + 1) /\ 1..L \subseteq 1..(L + 1)
      BY <1>2
    <3> QED BY <1>5, <3>1, <3>2
  <2>3. x \in 1..Lesser(a, n) <=> \E i \in 1..L : x \in p[i]
    BY <1>2
  <2> QED BY <2>1, <2>2, <2>3
<1>7. ASSUME NEW i \in 1..(L + 1), NEW j \in 1..(L + 1), i # j
      PROVE  q[i] \cap q[j] = {}
  <2>1. ASSUME NEW k \in 1..L PROVE p[k] \cap P = {}
    <3>1. SUFFICES ASSUME NEW x, x \in p[k], x \in P PROVE FALSE
      OBVIOUS
    <3>2. x \in 1..Lesser(a, n)
      BY <1>2, <3>1
    <3> QED BY <1>1, <1>2, <1>3, <3>1, <3>2 DEF Lesser
  <2>2. CASE i \in 1..L /\ j \in 1..L
    BY <1>2, <1>5, <1>7, <2>2
  <2>3. CASE i \in 1..L /\ j = L + 1
    BY <1>5, <2>1, <2>3
  <2>4. CASE i = L + 1 /\ j \in 1..L
    BY <1>5, <2>1, <2>4
  <2>5. (i \in 1..L \/ i = L + 1) /\ (j \in 1..L \/ j = L + 1)
    BY <1>2
  <2> QED BY <1>7, <2>2, <2>3, <2>4, <2>5
<1>8. /\ parts' = q /\ start' = b /\ sizes' = s /\ data'.length = n /\ Len(data'.ratios) = K
      /\ Len(q) <= K
  BY <1>1, <1>2, <1>5
<1> QED BY <1>3, <1>5, <1>6, <1>7, <1>8 DEF Dealt

LEMMA SavePartStep ==
  ASSUME Shares, SavePart
  PROVE  Shares'
<1>1. /\ dpc = "save" /\ UNCHANGED <<data, sizes>> /\ data \in DataSets
      /\ Total(sizes) = total_used /\ Dealt /\ sizes \in [DOMAIN data.ratios -> Nat]
  BY DEF SavePart, Shares
<1>2. /\ DOMAIN data.ratios = 1..Len(data.ratios) /\ Len(data.ratios) \in Nat
      /\ Len(sizes) = Len(data.ratios) /\ data.length \in Nat /\ data.clients \in Nat
  BY <1>1, DataType, SharesType
<1>3. total_used' = total_used
  BY <1>1 DEF total_used
<1>4. CASE UNCHANGED <<parts, start>>
  <2>1. Dealt'
    BY <1>1, <1>4 DEF Dealt
  <2>2. dpc' \in {"saved", "failed", "save"} /\ (dpc' = "saved" => Len(parts) = data.clients)
    BY <1>1 DEF SavePart
  <2> QED BY <1>1, <1>3, <1>4, <2>1, <2>2 DEF Shares
<1>5. CASE ~UNCHANGED <<parts, start>>
  <2>1. /\ Len(parts) < Len(data.ratios) /\ dpc' = "save"
        /\ start' = start + sizes[Len(parts) + 1]
        /\ parts' = Append(parts, start + 1 .. Lesser(start', data.length))
    <3>1. Len(parts) \in Nat
      BY <1>1, LenProperties DEF Dealt
    <3> QED BY <1>1, <1>2, <1>5, <3>1 DEF SavePart
  <2>2. Dealt'
    BY <1>1, <1>2, <2>1, NextPart
  <2> QED BY <1>1, <1>3, <2>1, <2>2 DEF Shares
<1> QED BY <1>4, <1>5

\* Every example that is used and exists is dealt, to one client.
LEMMA SharesSuffice == SplitInv => SplitsEverything
<1> SUFFICES ASSUME Shares, dpc = "saved", Len(data.ratios) = data.clients
             PROVE  /\ UNION {parts[i] : i \in DOMAIN parts} = 1..Lesser(total_used, data.length)
                    /\ \A i, j \in DOMAIN parts : i # j => parts[i] \cap parts[j] = {}
  BY DEF SplitInv, SplitsEverything
<1>1. Dealt /\ Total(sizes) = total_used /\ Len(parts) = Len(data.ratios)
  BY DEF Shares
<1>2. DOMAIN parts = 1..Len(parts)
  BY <1>1, LenProperties DEF Dealt
<1>3. start = total_used
  <2>1. DOMAIN sizes = 1..Len(parts)
    BY <1>1, SharesType, DataType DEF Shares
  <2> QED BY <1>1, <2>1, SharesType DEF Dealt
<1>4. \A x : x \in UNION {parts[i] : i \in DOMAIN parts} <=> x \in 1..Lesser(total_used, data.length)
  BY <1>1, <1>2, <1>3 DEF Dealt
<1> QED BY <1>1, <1>2, <1>4 DEF Dealt

LEMMA SplitAlways == Spec => []SplitInv
<1>1. Init => SplitInv
  BY DEF Init, SplitInit, SplitInv, Shares
<1>2. SplitInv /\ [Next]_vars => SplitInv'
  <2> SUFFICES ASSUME SplitInv, [Next]_vars PROVE SplitInv'
    OBVIOUS
  <2>1. CASE SplitDataset
    <3>1. dpc # "up" /\ dpc' \in {"floor", "topup", "save", "saved", "failed"}
      BY <2>1 DEF SplitDataset, Split, FloorShares, TopUp, SavePart, SplitInv
    <3>2. Shares'
      BY <2>1, <3>1, FloorStep, TopUpStep, SavePartStep DEF SplitDataset, Split, SplitInv
    <3> QED BY <3>1, <3>2 DEF SplitInv
  <2>2. CASE StartContainers
    BY <2>2 DEF StartContainers, SplitInv
  <2>3. CASE UNCHANGED splitVars
    BY <2>3 DEF splitVars, SplitInv, Shares, Dealt, total_used
  <2> QED BY <2>1, <2>2, <2>3
          DEF Next, vars, Market, Negotiation, FetchCatalogue, ConnectorRaises, RequestContract,
              RequestRefused, PollFinalized, PollGivesUp, PublishModel, Connectors, Negotiated
<1> QED BY <1>1, <1>2, PTL DEF Spec

-----------------------------------------------------------------------------
(* The theorems                                                            *)

\* Every variable of the start has its type.
THEOREM StartTypeCorrect == Spec => []TypeOK
<1>1. /\ MarketTypeOK /\ StartInv
      /\ SplitInv
      => TypeOK
  BY DEF SplitInv, StartInv, NegotiationTypeOK, TypeOK
<1>2. Spec => []MarketTypeOK
  BY MarketInStartUp, MarketTypeCorrect
<1> QED BY <1>1, <1>2, StartInvAlways, SplitAlways, PTL

\* For any data set, partition size and ratios, and however the shares are rounded, each
\* example that is used and exists goes to exactly one client (split_and_save_datasets).
THEOREM EverythingIsSplit == Spec => []SplitsEverything
BY SplitAlways, SharesSuffice, PTL

\* No start, whatever fails in it, takes a published offer off the list.
THEOREM StartKeepsPublished == Spec => []PublishedIsListed
BY MarketInStartUp, PublishedStaysListed

\* If no request is slow, or no POST was repeated, training begins with an agreement with each
\* client but those whose own negotiation was refused, was terminated or had no end in
\* time (setup: discover_clients, then negotiate_edc_contracts).
THEOREM StartEnrollsEveryone == Spec => []EnrolledUnlessFailed
<1>1. /\ MarketTypeOK /\ StartInv /\ DiscoveryFindsEveryone
      /\ OnceInv /\ ("slow" \notin faults => InOrder /\ Ahead)
      => EnrolledUnlessFailed
  <2> SUFFICES ASSUME MarketTypeOK, StartInv, DiscoveryFindsEveryone, OnceInv,
                      "slow" \notin faults => InOrder /\ Ahead,
                      npc = "ready", OneByOne, NEW c \in Clients
               PROVE  \E i \in DOMAIN contracts :
                        /\ found[i] = c
                        /\ c \in agreements <=> contracts[i] = "finalized"
                        /\ contracts[i] # "requested"
                        /\ "negotiation" \notin faults => c \in agreements
    BY DEF EnrolledUnlessFailed
  <2>1. /\ spc = "found" /\ Len(contracts) = Len(found)
        /\ DOMAIN contracts = 1..Len(contracts) /\ DOMAIN found = 1..Len(found)
    BY LenProperties DEF StartInv, NegotiationTypeOK, Turn, MarketTypeOK
  <2>2. Differ(found)
    BY <2>1 DEF OneByOne, OnceInv, Ahead
  <2>3. PICK i \in DOMAIN contracts : found[i] = c
    BY <2>1 DEF DiscoveryFindsEveryone
  <2>4. c \in agreements => contracts[i] = "finalized"
    BY <2>2, <2>3 DEF StartInv, Enrolled
  <2>5. /\ contracts[i] # "requested"
        /\ contracts[i] = "finalized" => c \in agreements
    BY <2>2, <2>3 DEF StartInv, Enrolled, Settled
  <2>6. "negotiation" \notin faults => contracts[i] = "finalized"
    BY <2>5 DEF StartInv, NothingFails
  <2> QED BY <2>3, <2>4, <2>5, <2>6
<1>2. Spec => []MarketTypeOK /\ []DiscoveryFindsEveryone
  BY MarketInStartUp, MarketTypeCorrect, DiscoveryIsComplete
<1>3. Spec => []OnceInv /\ []("slow" \notin faults => InOrder /\ Ahead)
  BY MarketInStartUp, OnceInvAlways, OrderedAlways
<1> QED BY <1>1, <1>2, <1>3, StartInvAlways, PTL
=============================================================================
