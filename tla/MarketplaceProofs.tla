------------------------- MODULE MarketplaceProofs -------------------------
(***************************************************************************)
(* Theorems about Marketplace, for any numbers of clients, attempts and    *)
(* overlapping handlers, and any faults.                                   *)
(***************************************************************************)
EXTENDS Marketplace, SequenceTheorems, FiniteSetTheorems, TLAPS

-----------------------------------------------------------------------------
(* The inductive invariant                                                 *)

\* Where the launcher is, and that POSTs it has not sent have no handler.
Place ==
  /\ lpc \in {"wait_up", "create", "post", "wait"} => cur \in Clients
  /\ lpc \in {"wait_up", "create"} => attempt = 0
  /\ lpc = "post" => attempt < MaxPosts
  /\ lpc = "wait" => attempt \in 1..MaxPosts
  /\ \A h \in Posts :
       ClientOf(h) > cur \/ (ClientOf(h) = cur /\ h[2] > attempt) => hpc[h] = "none"

Created(c) == \E k \in 1..MaxPosts : hpc[<<c, k>>] = "created"
Listed(c) == \E i \in DOMAIN offers : ClientOf(offers[i]) = c
Pending(c) == \E k \in 1..MaxPosts : hpc[<<c, k>>] = "append"

\* Once one of its POSTs was handled, a client stays on the list.
Kept ==
  \A c \in Clients : /\ c < cur => Created(c)
                     /\ Created(c) => Listed(c) \/ Pending(c)

\* The only handler at work is that of the POST the launcher waits for; what it
\* has looked at is of other clients.
Alone ==
  /\ \A h \in Posts : hpc[h] \in {"scan", "remove", "append"} =>
                        lpc = "wait" /\ h = <<cur, attempt>>
  /\ \A h \in Posts : \A i \in DOMAIN offers :
       \/ hpc[h] = "scan" /\ i <= index[h]
       \/ hpc[h] = "append"
       => ClientOf(offers[i]) # ClientOf(h)

Distinct ==
  \A i, j \in DOMAIN offers : ClientOf(offers[i]) = ClientOf(offers[j]) => i = j

\* Looking begins at the first offer.
AtStart == \A h \in Posts : hpc[h] # "scan" => index[h] = 0

MarketInv ==
  MarketTypeOK /\ Place /\ Kept /\ AtStart /\ ("slow" \notin faults => Alone /\ Distinct)

-----------------------------------------------------------------------------
(* The list without one of its members                                     *)

\* What is left of a sequence, and where.
LEMMA WithoutProperties ==
  ASSUME NEW S, NEW s \in Seq(S), NEW i \in 1..Len(s)
  PROVE  /\ Without(s, i) \in Seq(S)
         /\ Len(Without(s, i)) = Len(s) - 1
         /\ \A j \in 1..(Len(s) - 1) :
              Without(s, i)[j] = IF j < i THEN s[j] ELSE s[j + 1]
<1> DEFINE a == SubSeq(s, 1, i - 1)
           b == SubSeq(s, i + 1, Len(s))
<1>1. Len(s) \in Nat /\ \A j \in 1..Len(s) : s[j] \in S
  BY ElementOfSeq, LenProperties
<1>2. /\ a \in Seq(S)
      /\ Len(a) = i - 1
      /\ \A j \in 1..(i - 1) : a[j] = s[j]
  <2>1. /\ a \in Seq(S)
        /\ Len(a) = IF 1 <= i - 1 THEN i - 1 - 1 + 1 ELSE 0
        /\ \A j \in 1..(i - 1 - 1 + 1) : a[j] = s[1 + j - 1]
    <3>1. \A j \in 1..(i - 1) : s[j] \in S
      BY <1>1
    <3> QED BY <3>1, <1>1, SubSeqProperties
  <2> QED BY <2>1, <1>1
<1>3. /\ b \in Seq(S)
      /\ Len(b) = Len(s) - i
      /\ \A j \in 1..(Len(s) - i) : b[j] = s[i + j]
  <2>1. /\ b \in Seq(S)
        /\ Len(b) = IF i + 1 <= Len(s) THEN Len(s) - (i + 1) + 1 ELSE 0
        /\ \A j \in 1..(Len(s) - (i + 1) + 1) : b[j] = s[(i + 1) + j - 1]
    <3>1. \A j \in (i + 1)..Len(s) : s[j] \in S
      BY <1>1
    <3>2. i + 1 \in Int /\ Len(s) \in Int
      BY <1>1
    <3> HIDE DEF b
    <3> QED BY <3>1, <3>2, SubSeqProperties DEF b
  <2> QED BY <2>1, <1>1
<1>4. /\ a \o b \in Seq(S)
      /\ Len(a \o b) = Len(a) + Len(b)
      /\ \A j \in 1..(Len(a) + Len(b)) :
           (a \o b)[j] = IF j <= Len(a) THEN a[j] ELSE b[j - Len(a)]
  BY <1>2, <1>3, ConcatProperties
<1>5. Without(s, i) = a \o b
  BY DEF Without
<1> HIDE DEF a, b
<1>6. ASSUME NEW j \in 1..(Len(s) - 1)
      PROVE  (a \o b)[j] = IF j < i THEN s[j] ELSE s[j + 1]
  <2>1. CASE j < i
    BY <2>1, <1>1, <1>2, <1>3, <1>4
  <2>2. CASE ~(j < i)
    <3>1. j - (i - 1) \in 1..(Len(s) - i) /\ i + (j - (i - 1)) = j + 1
      BY <2>2, <1>1
    <3>2. b[j - (i - 1)] = s[j + 1]
      BY <3>1, <1>3
    <3>3. (a \o b)[j] = b[j - (i - 1)]
      BY <2>2, <1>1, <1>2, <1>3, <1>4
    <3> QED BY <3>2, <3>3, <2>2, <1>1
  <2> QED BY <2>1, <2>2
<1> QED BY <1>1, <1>2, <1>3, <1>4, <1>5, <1>6

-----------------------------------------------------------------------------
(* The invariant                                                           *)

LEMMA MarketInvInit == MarketInit => MarketInv
<1> SUFFICES ASSUME MarketInit PROVE MarketInv
  OBVIOUS
<1> USE CountsAssumption DEF MarketInit
<1>1. eligible \subseteq Clients /\ faults \subseteq FaultKinds
  BY SetupsAssumption
<1>2. offers \in Seq(Posts) /\ catalogue \in Seq(Clients) /\ found \in Seq(Clients)
  BY EmptySeq
<1>3. MarketTypeOK
  BY <1>1, <1>2 DEF MarketTypeOK, Clients
<1>4. Place /\ AtStart /\ Alone /\ Distinct
  BY DEF Place, AtStart, Alone, Distinct, Clients, Posts
<1>5. Kept
  <2>1. ASSUME NEW c \in Clients PROVE ~(c < cur) /\ ~Created(c)
    <3>1. \A k \in 1..MaxPosts : <<c, k>> \in Posts /\ hpc[<<c, k>>] = "none"
      BY DEF Posts
    <3>2. ~(c < cur)
      BY DEF Clients
    <3> QED BY <3>1, <3>2 DEF Created
  <2> QED BY <2>1 DEF Kept
<1> QED BY <1>3, <1>4, <1>5 DEF MarketInv

\* The launcher sees its POSTs handled, or sends others.
LEMMA LauncherStep ==
  ASSUME MarketInv, Launcher
  PROVE  MarketInv'
<1> USE CountsAssumption DEF setup, handlerVars, serverVars
<1>1. NumClients \in Nat /\ MaxPosts \in Nat /\ cur \in Nat /\ attempt \in Nat
  BY DEF MarketInv, MarketTypeOK
<1>2. CASE MarketplaceReady
  <2>1. /\ hpc' = hpc /\ offers' = offers /\ index' = index /\ cur' = cur /\ faults' = faults
        /\ \A h \in Posts : hpc[h] \notin {"scan", "remove", "append"} \/ lpc' = lpc \/ "slow" \in faults
    BY <1>2 DEF MarketplaceReady, MarketInv, Alone
  <2>2. MarketTypeOK'
    BY <1>1, <1>2, <2>1 DEF MarketInv, MarketTypeOK, MarketplaceReady, Place
  <2>3. Place'
    BY <1>1, <1>2, <2>1 DEF MarketInv, MarketplaceReady, Place, Posts, ClientOf
  <2>4. Kept' /\ AtStart'
    BY <2>1 DEF MarketInv, Kept, Created, Listed, Pending, AtStart
  <2>5. ASSUME "slow" \notin faults PROVE Alone' /\ Distinct'
    BY <1>2, <2>1, <2>5 DEF MarketInv, MarketplaceReady, Alone, Distinct
  <2> QED BY <2>1, <2>2, <2>3, <2>4, <2>5 DEF MarketInv
<1>3. CASE CreateObjects
  <2>1. /\ hpc' = hpc /\ offers' = offers /\ index' = index /\ cur' = cur /\ faults' = faults
        /\ \A h \in Posts : hpc[h] \notin {"scan", "remove", "append"} \/ lpc' = lpc \/ "slow" \in faults
    BY <1>3 DEF CreateObjects, MarketInv, Alone
  <2>2. MarketTypeOK'
    BY <1>1, <1>3, <2>1 DEF MarketInv, MarketTypeOK, CreateObjects, Place
  <2>3. Place'
    BY <1>1, <1>3, <2>1 DEF MarketInv, CreateObjects, Place, Posts, ClientOf
  <2>4. Kept' /\ AtStart'
    BY <2>1 DEF MarketInv, Kept, Created, Listed, Pending, AtStart
  <2>5. ASSUME "slow" \notin faults PROVE Alone' /\ Distinct'
    BY <1>3, <2>1, <2>5 DEF MarketInv, CreateObjects, Alone, Distinct
  <2> QED BY <2>1, <2>2, <2>3, <2>4, <2>5 DEF MarketInv
<1>4. CASE Post
  <2>1. /\ lpc = "post" /\ attempt' = attempt + 1 /\ cur \in Clients
        /\ <<cur, attempt + 1>> \in Posts /\ hpc[<<cur, attempt + 1>>] = "none"
        /\ hpc' = [hpc EXCEPT ![<<cur, attempt + 1>>] = "scan"]
    BY <1>1, <1>4 DEF Post, MarketInv, Place, Posts, ClientOf
  <2>2. MarketTypeOK'
    BY <1>1, <1>4, <2>1 DEF MarketInv, MarketTypeOK, Post, Place
  <2>3. Place'
    BY <1>1, <1>4, <2>1 DEF MarketInv, MarketTypeOK, Post, Place, Posts, ClientOf
  <2>4. Kept'
    <3>1. \A c \in Clients : Created(c)' <=> Created(c)
      BY <2>1 DEF MarketInv, MarketTypeOK, Created, Posts
    <3>2. \A c \in Clients : Pending(c) => Pending(c)'
      BY <2>1 DEF MarketInv, MarketTypeOK, Pending, Posts
    <3> QED BY <1>4, <3>1, <3>2 DEF MarketInv, Post, Kept, Listed
  <2>5. AtStart'
    BY <1>4, <2>1 DEF MarketInv, MarketTypeOK, Post, AtStart
  <2>6. ASSUME "slow" \notin faults PROVE Alone' /\ Distinct'
    <3>1. \A h \in Posts : hpc[h] \notin {"scan", "remove", "append"}
      BY <2>1, <2>6 DEF MarketInv, Alone
    <3>2. index[<<cur, attempt + 1>>] = 0
      BY <2>1 DEF MarketInv, AtStart
    <3>3. \A i \in DOMAIN offers : ~(i <= 0)
      BY LenProperties DEF MarketInv, MarketTypeOK
    <3>4. /\ lpc' = "wait" /\ cur' = cur /\ index' = index /\ offers' = offers
          /\ \A h \in Posts : hpc'[h] \in {"scan", "remove", "append"} =>
               h = <<cur, attempt + 1>> /\ hpc'[h] = "scan"
      BY <1>4, <2>1, <3>1 DEF Post, MarketInv, MarketTypeOK
    <3> QED
      BY <2>1, <2>6, <3>2, <3>3, <3>4 DEF MarketInv, Alone, Distinct
  <2> QED BY <1>4, <2>2, <2>3, <2>4, <2>5, <2>6 DEF MarketInv, Post
<1>5. CASE PostRefused
  <2>1. /\ hpc' = hpc /\ offers' = offers /\ index' = index /\ cur' = cur /\ faults' = faults
        /\ \A h \in Posts : hpc[h] \notin {"scan", "remove", "append"} \/ lpc' = lpc \/ "slow" \in faults
    BY <1>5 DEF PostRefused, MarketInv, Alone
  <2>2. MarketTypeOK'
    BY <1>1, <1>5, <2>1 DEF MarketInv, MarketTypeOK, PostRefused, Retry, Place
  <2>3. Place'
    BY <1>1, <1>5, <2>1 DEF MarketInv, PostRefused, Retry, Place, Posts, ClientOf
  <2>4. Kept' /\ AtStart'
    BY <2>1 DEF MarketInv, Kept, Created, Listed, Pending, AtStart
  <2>5. ASSUME "slow" \notin faults PROVE Alone' /\ Distinct'
    BY <1>5, <2>1, <2>5 DEF MarketInv, PostRefused, Alone, Distinct
  <2> QED BY <2>1, <2>2, <2>3, <2>4, <2>5 DEF MarketInv
<1>6. CASE PostFails
  <2>1. hpc' = hpc /\ offers' = offers /\ index' = index /\ cur' = cur
    BY <1>6 DEF PostFails
  <2>3. MarketTypeOK'
    BY <1>1, <1>6, <2>1 DEF MarketInv, MarketTypeOK, PostFails, Retry, Place
  <2>4. Place'
    BY <1>1, <1>6, <2>1 DEF MarketInv, PostFails, Retry, Place
  <2>5. Kept' /\ AtStart'
    BY <2>1 DEF MarketInv, Kept, Created, Listed, Pending, AtStart
  <2>2. ASSUME "slow" \notin faults PROVE Alone' /\ Distinct'
    <3>1. hpc[<<cur, attempt>>] \in {"error", "created"}
      BY <1>6, <2>2 DEF PostFails
    <3> QED BY <1>6, <2>2, <3>1 DEF MarketInv, PostFails, Alone, Distinct
  <2> QED BY <1>6, <2>2, <2>3, <2>4, <2>5 DEF MarketInv, PostFails
<1>7. CASE Published
  <2>1. /\ cur \in Clients /\ attempt \in 1..MaxPosts /\ hpc[<<cur, attempt>>] = "created"
        /\ cur' = cur + 1 /\ attempt' = 0 /\ hpc' = hpc /\ offers' = offers /\ index' = index
    BY <1>7 DEF Published, MarketInv, Place
  <2>2. MarketTypeOK'
    BY <1>1, <1>7, <2>1 DEF MarketInv, MarketTypeOK, Published, Clients
  <2>3. Place'
    BY <1>1, <1>7, <2>1 DEF MarketInv, Published, Place, Clients, Posts, ClientOf
  <2>4. Kept'
    <3>1. \A c \in Clients : c < cur + 1 => c < cur \/ c = cur
      BY <1>1 DEF Clients
    <3> QED BY <2>1, <3>1 DEF MarketInv, Kept, Created, Listed, Pending
  <2>5. AtStart'
    BY <2>1 DEF MarketInv, AtStart
  <2>6. ASSUME "slow" \notin faults PROVE Alone' /\ Distinct'
    BY <2>1, <2>6 DEF MarketInv, Alone, Distinct
  <2> QED BY <1>7, <2>2, <2>3, <2>4, <2>5, <2>6 DEF MarketInv, Published
<1> QED BY <1>2, <1>3, <1>4, <1>5, <1>6, <1>7 DEF Launcher

\* Handlers run in any order.
LEMMA HandlersStep ==
  ASSUME MarketInv, Handlers
  PROVE  MarketInv'
<1> USE DEF setup, launcherVars, serverVars
<1>1. PICK h \in Posts : Scan(h) \/ Remove(h) \/ RemoveFails(h) \/ AppendOffer(h)
  BY DEF Handlers
<1>2. /\ NumClients \in Nat /\ MaxPosts \in Nat /\ cur \in Nat /\ attempt \in Nat
      /\ offers \in Seq(Posts) /\ Len(offers) \in Nat /\ DOMAIN offers = 1..Len(offers)
      /\ hpc \in [Posts -> {"none", "scan", "remove", "append", "created", "error"}]
      /\ index \in [Posts -> Nat] /\ existing \in [Posts -> Posts \cup {None}]
      /\ ClientOf(h) \in Clients
      /\ \A c \in Clients, k \in 1..MaxPosts : <<c, k>> \in Posts
      /\ h = <<ClientOf(h), h[2]>> /\ h[2] \in 1..MaxPosts
      /\ \A i \in DOMAIN offers : offers[i] \in Posts
  <2>1. MarketTypeOK
    BY DEF MarketInv
  <2>2. /\ NumClients \in Nat /\ MaxPosts \in Nat /\ cur \in Nat /\ attempt \in Nat
        /\ offers \in Seq(Posts)
        /\ hpc \in [Posts -> {"none", "scan", "remove", "append", "created", "error"}]
        /\ index \in [Posts -> Nat] /\ existing \in [Posts -> Posts \cup {None}]
    <3> HIDE DEF Posts
    <3> QED BY <2>1, CountsAssumption DEF MarketTypeOK
  <2>3. Len(offers) \in Nat /\ DOMAIN offers = 1..Len(offers)
    BY <2>2, LenProperties
  <2>4. \A i \in DOMAIN offers : offers[i] \in Posts
    BY <2>2, <2>3, ElementOfSeq
  <2>5. /\ ClientOf(h) \in Clients
        /\ \A c \in Clients, k \in 1..MaxPosts : <<c, k>> \in Posts
        /\ h = <<ClientOf(h), h[2]>> /\ h[2] \in 1..MaxPosts
    BY DEF Posts, ClientOf
  <2> QED BY <2>2, <2>3, <2>4, <2>5
<1>3. CASE Scan(h)
  <2>1. /\ hpc[h] = "scan" /\ offers' = offers /\ cur' = cur /\ attempt' = attempt
        /\ lpc' = lpc /\ faults' = faults
        /\ \/ /\ index[h] + 1 > Len(offers)
              /\ hpc' = [hpc EXCEPT ![h] = "append"] /\ index' = [index EXCEPT ![h] = 0]
              /\ existing' = existing
           \/ /\ index[h] + 1 <= Len(offers)
              /\ hpc' = [hpc EXCEPT ![h] = "remove"] /\ index' = [index EXCEPT ![h] = 0]
              /\ existing' = [existing EXCEPT ![h] = offers[index[h] + 1]]
           \/ /\ index[h] + 1 <= Len(offers)
              /\ ClientOf(offers[index[h] + 1]) # ClientOf(h)
              /\ index' = [index EXCEPT ![h] = index[h] + 1]
              /\ hpc' = hpc /\ existing' = existing
    BY <1>3, <1>2 DEF Scan
  <2>2. MarketTypeOK'
    <3>1. index[h] + 1 <= Len(offers) => offers[index[h] + 1] \in Posts
      BY <1>2
    <3>2. index' \in [Posts -> Nat] /\ existing' \in [Posts -> Posts \cup {None}]
      <4>1. index[h] + 1 \in Nat
        BY <1>2
      <4>2. index' \in [Posts -> Nat]
        BY <1>2, <2>1, <4>1
      <4>3. existing' \in [Posts -> Posts \cup {None}]
        BY <1>2, <2>1, <3>1
      <4> QED BY <4>2, <4>3
    <3>3. hpc' \in [Posts -> {"none", "scan", "remove", "append", "created", "error"}]
      BY <1>2, <2>1
    <3>4. UNCHANGED <<setup, launcherVars, offers, serverVars>>
      BY <1>3 DEF Scan
    <3> QED BY <3>2, <3>3, <3>4 DEF MarketInv, MarketTypeOK
  <2>3. Place'
    BY <1>2, <2>1 DEF MarketInv, Place
  <2>4. Kept'
    <3>1. \A c \in Clients : (Created(c)' <=> Created(c)) /\ (Pending(c) => Pending(c)')
      BY <1>2, <2>1 DEF Created, Pending
    <3> QED BY <2>1, <3>1 DEF MarketInv, Kept, Listed
  <2>5. AtStart'
    BY <1>2, <2>1 DEF MarketInv, AtStart
  <2>6. ASSUME "slow" \notin faults PROVE Alone' /\ Distinct'
    <3>1. /\ lpc = "wait" /\ h = <<cur, attempt>>
          /\ \A i \in DOMAIN offers : i <= index[h] => ClientOf(offers[i]) # ClientOf(h)
      BY <2>1, <2>6 DEF MarketInv, Alone
    <3>2. ASSUME NEW k \in Posts, k # h PROVE hpc'[k] = hpc[k] /\ index'[k] = index[k]
      BY <1>2, <2>1, <3>2
    <3>3. \A k \in Posts : hpc'[k] \in {"scan", "remove", "append"} =>
                              lpc = "wait" /\ k = <<cur, attempt>>
      BY <3>1, <3>2, <2>6 DEF MarketInv, Alone
    <3>4. ASSUME NEW i \in DOMAIN offers,
                 (hpc'[h] = "scan" /\ i <= index'[h]) \/ hpc'[h] = "append"
          PROVE  ClientOf(offers[i]) # ClientOf(h)
      <4>1. CASE hpc'[h] = "scan" /\ i <= index'[h]
        <5>1. /\ index[h] + 1 <= Len(offers) /\ index'[h] = index[h] + 1
              /\ ClientOf(offers[index[h] + 1]) # ClientOf(h)
          BY <1>2, <2>1, <4>1
        <5>2. i <= index[h] \/ i = index[h] + 1
          BY <1>2, <4>1, <5>1
        <5> QED BY <3>1, <5>1, <5>2
      <4>2. CASE hpc'[h] = "append"
        <5>1. index[h] + 1 > Len(offers)
          BY <1>2, <2>1, <4>2
        <5>2. i <= index[h]
          BY <1>2, <5>1
        <5> QED BY <3>1, <5>2
      <4> QED BY <3>4, <4>1, <4>2
    <3>5. \A k \in Posts : \A i \in DOMAIN offers :
            (hpc'[k] = "scan" /\ i <= index'[k]) \/ hpc'[k] = "append"
              => ClientOf(offers[i]) # ClientOf(k)
      BY <3>2, <3>4, <2>6 DEF MarketInv, Alone
    <3> QED BY <2>1, <2>6, <3>3, <3>5 DEF MarketInv, Alone, Distinct, ClientOf
  <2> QED BY <2>1, <2>2, <2>3, <2>4, <2>5, <2>6 DEF MarketInv
<1>4. CASE Remove(h)
  <2>1. /\ hpc[h] = "remove" /\ cur' = cur /\ attempt' = attempt /\ index' = index
        /\ lpc' = lpc /\ faults' = faults
        /\ hpc' = [hpc EXCEPT ![h] = "append"] /\ existing' = [existing EXCEPT ![h] = None]
    BY <1>4 DEF Remove
  <2>2. PICK i \in 1..Len(offers) :
          ClientOf(offers[i]) = ClientOf(h) /\ offers' = Without(offers, i)
    BY <1>2, <1>4 DEF Remove
  <2>3. /\ offers' \in Seq(Posts) /\ DOMAIN offers' = 1..(Len(offers) - 1)
        /\ \A j \in 1..(Len(offers) - 1) :
             offers'[j] = IF j < i THEN offers[j] ELSE offers[j + 1]
    <3>1. /\ Without(offers, i) \in Seq(Posts)
          /\ Len(Without(offers, i)) = Len(offers) - 1
          /\ \A j \in 1..(Len(offers) - 1) :
               Without(offers, i)[j] = IF j < i THEN offers[j] ELSE offers[j + 1]
      BY <1>2, WithoutProperties
    <3>2. DOMAIN offers' = 1..Len(offers')
      BY <2>2, <3>1, LenProperties
    <3> QED BY <2>2, <3>1, <3>2
  <2>4. MarketTypeOK'
    BY <1>2, <1>4, <2>1, <2>3 DEF MarketInv, MarketTypeOK, Remove
  <2>5. Place'
    BY <1>2, <2>1 DEF MarketInv, Place
  <2>6. Kept'
    <3>1. \A c \in Clients : (Created(c)' <=> Created(c)) /\ (Pending(c) => Pending(c)')
      BY <1>2, <2>1 DEF Created, Pending
    <3>2. Pending(ClientOf(h))'
      BY <1>2, <2>1 DEF Pending
    <3>3. ASSUME NEW c \in Clients, c # ClientOf(h), Listed(c) PROVE Listed(c)'
      <4>1. PICK j \in 1..Len(offers) : ClientOf(offers[j]) = c
        BY <1>2, <3>3 DEF Listed
      <4>2. j # i
        BY <4>1, <2>2, <3>3
      <4>3. CASE j < i
        <5>1. j \in 1..(Len(offers) - 1)
          BY <4>3, <1>2
        <5>2. offers'[j] = offers[j]
          BY <4>3, <5>1, <2>3
        <5> QED BY <5>1, <5>2, <4>1, <2>3 DEF Listed, ClientOf
      <4>4. CASE ~(j < i)
        <5>1. j - 1 \in 1..(Len(offers) - 1) /\ offers'[j - 1] = offers[j]
          BY <4>4, <4>2, <1>2, <2>3
        <5> QED BY <5>1, <4>1, <2>3 DEF Listed, ClientOf
      <4> QED BY <4>3, <4>4
    <3> QED BY <2>1, <3>1, <3>2, <3>3 DEF MarketInv, Kept
  <2>7. AtStart'
    BY <1>2, <2>1 DEF MarketInv, AtStart
  <2>8. ASSUME "slow" \notin faults PROVE Alone' /\ Distinct'
    <3>1. \A k \in Posts : hpc[k] \in {"scan", "remove", "append"} => k = h
      BY <2>1, <2>8 DEF MarketInv, Alone
    <3>2. \A j, k \in 1..Len(offers) : ClientOf(offers[j]) = ClientOf(offers[k]) => j = k
      BY <1>2, <2>8 DEF MarketInv, Distinct
    <3> DEFINE at(j) == IF j < i THEN j ELSE j + 1
    <3>3. ASSUME NEW j \in DOMAIN offers'
          PROVE  j \in Nat /\ at(j) \in 1..Len(offers) /\ at(j) # i /\ offers'[j] = offers[at(j)]
      <4>1. j \in 1..(Len(offers) - 1)
        BY <2>3
      <4>2. j \in Nat /\ at(j) \in 1..Len(offers) /\ at(j) # i
        BY <4>1, <1>2
      <4> QED BY <2>3, <4>1, <4>2
    <3>4. ASSUME NEW j \in DOMAIN offers', NEW k \in DOMAIN offers',
                 ClientOf(offers'[j]) = ClientOf(offers'[k])
          PROVE  j = k
      <4>1. at(j) = at(k)
        BY <3>2, <3>3, <3>4
      <4> QED BY <4>1, <3>3
    <3>5. ASSUME NEW j \in DOMAIN offers' PROVE ClientOf(offers'[j]) # ClientOf(h)
      BY <2>2, <3>2, <3>3
    <3>6. \A k \in Posts : hpc'[k] \in {"scan", "remove", "append"} => k = h /\ hpc'[k] = "append"
      BY <1>2, <2>1, <3>1
    <3>7. lpc = "wait" /\ h = <<cur, attempt>>
      BY <2>1, <2>8 DEF MarketInv, Alone
    <3> HIDE DEF at
    <3>8. Distinct'
      BY <3>4 DEF Distinct, ClientOf
    <3>9. Alone'
      BY <2>1, <3>5, <3>6, <3>7 DEF Alone, ClientOf
    <3> QED BY <3>8, <3>9
  <2> QED BY <2>1, <2>4, <2>5, <2>6, <2>7, <2>8 DEF MarketInv
<1>5. CASE RemoveFails(h)
  <2>1. /\ hpc[h] = "remove" /\ cur' = cur /\ attempt' = attempt /\ index' = index
        /\ lpc' = lpc /\ faults' = faults /\ offers' = offers
        /\ hpc' = [hpc EXCEPT ![h] = "error"] /\ existing' = [existing EXCEPT ![h] = None]
    BY <1>5 DEF RemoveFails
  <2>2. MarketTypeOK'
    BY <1>2, <1>5, <2>1 DEF MarketInv, MarketTypeOK, RemoveFails
  <2>3. Place'
    BY <1>2, <2>1 DEF MarketInv, Place
  <2>4. Kept'
    <3>1. \A c \in Clients : (Created(c)' <=> Created(c)) /\ (Pending(c) => Pending(c)')
      BY <1>2, <2>1 DEF Created, Pending
    <3> QED BY <2>1, <3>1 DEF MarketInv, Kept, Listed
  <2>5. AtStart'
    BY <1>2, <2>1 DEF MarketInv, AtStart
  <2>6. ASSUME "slow" \notin faults PROVE Alone' /\ Distinct'
    BY <1>2, <2>1, <2>6 DEF MarketInv, Alone, Distinct
  <2> QED BY <2>1, <2>2, <2>3, <2>4, <2>5, <2>6 DEF MarketInv
<1>6. CASE AppendOffer(h)
  <2>1. /\ hpc[h] = "append" /\ cur' = cur /\ attempt' = attempt /\ index' = index
        /\ lpc' = lpc /\ faults' = faults
        /\ hpc' = [hpc EXCEPT ![h] = "created"] /\ offers' = Append(offers, h)
    BY <1>6 DEF AppendOffer
  <2>2. /\ offers' \in Seq(Posts) /\ DOMAIN offers' = 1..(Len(offers) + 1)
        /\ \A j \in 1..Len(offers) : offers'[j] = offers[j]
        /\ offers'[Len(offers) + 1] = h
    BY <1>2, <2>1, AppendProperties, LenProperties
  <2>3. MarketTypeOK'
    BY <1>2, <1>6, <2>1, <2>2 DEF MarketInv, MarketTypeOK, AppendOffer
  <2>4. Place'
    BY <1>2, <2>1 DEF MarketInv, Place
  <2>5. Kept'
    <3>1. \A c \in Clients : c # ClientOf(h) =>
            (Created(c)' <=> Created(c)) /\ (Pending(c) => Pending(c)')
      BY <1>2, <2>1 DEF Created, Pending
    <3>2. Created(ClientOf(h))'
      BY <1>2, <2>1 DEF Created
    <3>3. Listed(ClientOf(h))'
      <4>1. Len(offers) + 1 \in DOMAIN offers'
        BY <1>2, <2>2
      <4> QED BY <4>1, <2>2 DEF Listed, ClientOf
    <3>4. ASSUME NEW c \in Clients, Listed(c) PROVE Listed(c)'
      <4>1. PICK i \in 1..Len(offers) : ClientOf(offers[i]) = c
        BY <1>2, <3>4 DEF Listed
      <4>2. i \in DOMAIN offers' /\ offers'[i] = offers[i]
        BY <1>2, <2>2
      <4> QED BY <4>1, <4>2 DEF Listed, ClientOf
    <3> QED BY <2>1, <3>1, <3>2, <3>3, <3>4 DEF MarketInv, Kept
  <2>6. AtStart'
    BY <1>2, <2>1 DEF MarketInv, AtStart
  <2>7. ASSUME "slow" \notin faults PROVE Alone' /\ Distinct'
    <3>1. /\ \A k \in Posts : hpc[k] \in {"scan", "remove", "append"} => k = h
          /\ \A i \in 1..Len(offers) : ClientOf(offers[i]) # ClientOf(h)
          /\ \A i, j \in 1..Len(offers) : ClientOf(offers[i]) = ClientOf(offers[j]) => i = j
      BY <1>2, <2>1, <2>7 DEF MarketInv, Alone, Distinct
    <3>2. \A k \in Posts : hpc'[k] \notin {"scan", "remove", "append"}
      BY <1>2, <2>1, <3>1
    <3>3. \A i \in 1..(Len(offers) + 1) : i \in 1..Len(offers) \/ i = Len(offers) + 1
      BY <1>2
    <3>4. ASSUME NEW i \in DOMAIN offers', NEW j \in DOMAIN offers',
                 ClientOf(offers'[i]) = ClientOf(offers'[j])
          PROVE  i = j
      BY <2>2, <3>1, <3>3, <3>4
    <3> QED BY <3>2, <3>4 DEF Alone, Distinct, ClientOf
  <2> QED BY <2>1, <2>3, <2>4, <2>5, <2>6, <2>7 DEF MarketInv
<1> QED BY <1>1, <1>3, <1>4, <1>5, <1>6

\* Discovery only reads the list.
LEMMA DiscoveryStep ==
  ASSUME MarketInv, Discovery
  PROVE  MarketInv'
<1> USE DEF setup, launcherVars, handlerVars
<1>1. UNCHANGED <<eligible, faults, lpc, cur, attempt, hpc, index, existing, offers>>
  BY DEF Discovery, Probe, ProbeFails, ListNext, ListEnd, ListFails, DiscoveryGivesUp
<1>2. /\ spc' \in {"probe", "listing", "found", "died"}
      /\ looks' \in 0..MaxLooks /\ cursor' \in Nat \ {0}
      /\ catalogue' \in Seq(Clients) /\ found' \in Seq(Clients)
  <2>1. /\ spc \in {"probe", "listing", "found", "died"}
        /\ looks \in 0..MaxLooks /\ cursor \in Nat \ {0} /\ MaxLooks \in Nat
        /\ catalogue \in Seq(Clients) /\ found \in Seq(Clients) /\ <<>> \in Seq(Clients)
    BY CountsAssumption, EmptySeq DEF MarketInv, MarketTypeOK
  <2>2. CASE ListNext
    <3>1. cursor \in 1..Len(offers) /\ offers[cursor] \in Posts
      BY <2>1, <2>2, LenProperties, ElementOfSeq DEF ListNext, MarketInv, MarketTypeOK
    <3>2. Append(catalogue, ClientOf(offers[cursor])) \in Seq(Clients)
      BY <2>1, <3>1, AppendProperties DEF Posts, ClientOf
    <3> QED BY <2>1, <2>2, <3>2 DEF ListNext
  <2>3. CASE Probe \/ ProbeFails \/ DiscoveryGivesUp
    <3>1. /\ spc' \in {"probe", "listing", "died"}
          /\ looks' = looks \/ (looks < MaxLooks /\ looks' = looks + 1)
          /\ cursor' \in {cursor, 1} /\ catalogue' \in {catalogue, <<>>} /\ found' = found
      BY <2>3 DEF Probe, ProbeFails, DiscoveryGivesUp
    <3>2. looks' \in 0..MaxLooks
      BY <2>1, <3>1
    <3>3. cursor' \in Nat \ {0}
      BY <2>1, <3>1
    <3>4. catalogue' \in Seq(Clients) /\ found' \in Seq(Clients)
      BY <2>1, <3>1
    <3> QED BY <3>1, <3>2, <3>3, <3>4
  <2>4. CASE ListEnd \/ ListFails
    <3>1. /\ spc' \in {"probe", "found"} /\ looks' = looks
          /\ cursor' = 1 /\ catalogue' = <<>> /\ found' \in {found, catalogue}
      BY <2>4 DEF ListEnd, ListFails
    <3> QED BY <2>1, <3>1
  <2> QED BY <2>2, <2>3, <2>4 DEF Discovery
<1>3. MarketTypeOK'
  BY <1>1, <1>2 DEF MarketInv, MarketTypeOK
<1>4. Place' /\ Kept' /\ AtStart' /\ ("slow" \notin faults' => Alone' /\ Distinct')
  BY <1>1 DEF MarketInv, Place, Kept, Created, Listed, Pending, AtStart, Alone, Distinct
<1> QED BY <1>3, <1>4 DEF MarketInv

LEMMA MarketInvStep == MarketInv /\ [MarketNext]_marketVars => MarketInv'
<1> SUFFICES ASSUME MarketInv, [MarketNext]_marketVars PROVE MarketInv'
  OBVIOUS
<1>1. CASE MarketNext
  BY <1>1, LauncherStep, HandlersStep, DiscoveryStep DEF MarketNext
<1>2. CASE UNCHANGED marketVars
  BY <1>2 DEF MarketInv, MarketTypeOK, Place, Kept, Created, Listed, Pending, AtStart, Alone,
              Distinct, marketVars, setup, launcherVars, handlerVars, serverVars
<1> QED BY <1>1, <1>2

LEMMA MarketInvAlways == MarketSpec => []MarketInv
BY MarketInvInit, MarketInvStep, PTL DEF MarketSpec

-----------------------------------------------------------------------------
(* The theorems                                                            *)

\* Every variable of the marketplace, its launcher and its server has its type.
THEOREM MarketTypeCorrect == MarketSpec => []MarketTypeOK
<1>1. MarketInv => MarketTypeOK
  BY DEF MarketInv
<1> QED BY <1>1, MarketInvAlways, PTL

\* However many POSTs are late or repeated, and however their handlers overlap,
\* a client whose offer was published stays on the list or is about to be put
\* back (register_offer).
THEOREM PublishedStaysListed == MarketSpec => []PublishedIsListed
<1>1. MarketInv => PublishedIsListed
  BY DEF MarketInv, PublishedIsListed, Kept, Listed, Pending
<1> QED BY <1>1, MarketInvAlways, PTL

\* With no POST given up while its handler is at work, no client is listed twice
\* (register_offer's check for duplicates).
THEOREM NobodyListedTwice == MarketSpec => []NoDuplicatesOneByOne
<1>1. MarketInv => NoDuplicatesOneByOne
  BY DEF MarketInv, NoDuplicatesOneByOne, Distinct
<1> QED BY <1>1, MarketInvAlways, PTL

-----------------------------------------------------------------------------
(* Discovery while every client's offer is registered once                  *)

\* The clients in a sequence are eligible and different.
Differ(s) ==
  /\ \A i \in DOMAIN s : s[i] \in eligible
  /\ \A i, j \in DOMAIN s : s[i] = s[j] => i = j

\* Each client the listing has so far is that of an offer it has passed.
Passed ==
  \A i \in DOMAIN catalogue : \E j \in DOMAIN offers :
    j < cursor /\ ClientOf(offers[j]) = catalogue[i]

\* Without a second POST of a client nothing is removed, and nobody is listed twice.
OnceInv ==
  RegisteredOnce =>
    /\ \A h \in Posts : hpc[h] # "remove"
    /\ \A i \in DOMAIN offers : hpc[offers[i]] = "created"
    /\ Distinct
    /\ spc = "listing" => Passed /\ Differ(catalogue)
    /\ spc = "found" => Differ(found) /\ Len(found) >= NumClients

LEMMA OnceInvInit == MarketInit => OnceInv
<1> SUFFICES ASSUME MarketInit PROVE OnceInv
  OBVIOUS
<1>1. \A h \in Posts : hpc[h] = "none"
  BY DEF MarketInit
<1>2. DOMAIN offers = {} /\ spc = "probe"
  BY DEF MarketInit
<1> QED BY <1>1, <1>2 DEF OnceInv, Distinct

\* A POST that was sent stays sent.
LEMMA OnceBefore ==
  ASSUME MarketInv, MarketNext
  PROVE  RegisteredOnce' => RegisteredOnce
<1>1. hpc \in [Posts -> {"none", "scan", "remove", "append", "created", "error"}]
  BY DEF MarketInv, MarketTypeOK
<1>2. \A h \in Posts : hpc[h] # "none" => hpc'[h] # "none"
  <2>1. CASE Launcher
    <3>1. hpc' = hpc \/ hpc' = [hpc EXCEPT ![<<cur, attempt'>>] = "scan"]
      BY <2>1 DEF Launcher, MarketplaceReady, CreateObjects, Post, PostRefused, PostFails,
                  Published, handlerVars
    <3> QED BY <1>1, <3>1
  <2>2. CASE Handlers
    BY <1>1, <2>2 DEF Handlers, Scan, Remove, RemoveFails, AppendOffer
  <2>3. CASE Discovery
    BY <1>1, <2>3 DEF Discovery, Probe, ProbeFails, ListNext, ListEnd, ListFails,
                      DiscoveryGivesUp, handlerVars
  <2> QED BY <2>1, <2>2, <2>3 DEF MarketNext
<1> QED BY <1>2 DEF RegisteredOnce, ClientOf

LEMMA OnceInvStep ==
  ASSUME MarketInv, OnceInv, MarketNext
  PROVE  OnceInv'
<1> USE DEF setup, launcherVars, handlerVars, serverVars
<1> SUFFICES ASSUME RegisteredOnce' PROVE OnceInv'
  BY DEF OnceInv
<1>1. /\ RegisteredOnce
      /\ \A h \in Posts : hpc[h] # "remove"
      /\ \A i \in DOMAIN offers : hpc[offers[i]] = "created"
      /\ Distinct
      /\ spc = "listing" => Passed /\ Differ(catalogue)
      /\ spc = "found" => Differ(found) /\ Len(found) >= NumClients
  BY OnceBefore DEF OnceInv
<1>2. /\ NumClients \in Nat /\ offers \in Seq(Posts) /\ Len(offers) \in Nat
      /\ DOMAIN offers = 1..Len(offers) /\ \A i \in DOMAIN offers : offers[i] \in Posts
      /\ hpc \in [Posts -> {"none", "scan", "remove", "append", "created", "error"}]
      /\ index \in [Posts -> Nat]
      /\ catalogue \in Seq(Clients) /\ Len(catalogue) \in Nat
      /\ DOMAIN catalogue = 1..Len(catalogue) /\ cursor \in Nat \ {0}
  BY CountsAssumption, LenProperties, ElementOfSeq DEF MarketInv, MarketTypeOK
<1>3. CASE Launcher
  <2>1. UNCHANGED <<eligible, offers, spc, looks, cursor, catalogue, found>>
    BY <1>3 DEF Launcher, MarketplaceReady, CreateObjects, Post, PostRefused, PostFails, Published
  <2>2. hpc' = hpc \/ (<<cur, attempt'>> \in Posts /\ hpc[<<cur, attempt'>>] = "none"
                        /\ hpc' = [hpc EXCEPT ![<<cur, attempt'>>] = "scan"])
    <3>1. CASE Post
      <4>1. <<cur, attempt + 1>> \in Posts /\ hpc[<<cur, attempt + 1>>] = "none"
        <5>1. /\ cur \in Clients /\ attempt \in Nat /\ attempt < MaxPosts /\ MaxPosts \in Nat
              /\ \A h \in Posts : ClientOf(h) = cur /\ h[2] > attempt => hpc[h] = "none"
          BY <3>1, CountsAssumption DEF Post, MarketInv, MarketTypeOK, Place
        <5>2. <<cur, attempt + 1>> \in Posts
          BY <5>1 DEF Posts
        <5>3. ClientOf(<<cur, attempt + 1>>) = cur /\ <<cur, attempt + 1>>[2] > attempt
          BY <5>1 DEF ClientOf
        <5> QED BY <5>1, <5>2, <5>3
      <4> QED BY <3>1, <4>1 DEF Post
    <3>2. CASE ~Post
      BY <1>3, <3>2 DEF Launcher, MarketplaceReady, CreateObjects, PostRefused, PostFails, Published
    <3> QED BY <3>1, <3>2
  <2>3. \A h \in Posts : /\ hpc'[h] # "remove"
                         /\ hpc[h] = "created" => hpc'[h] = "created"
    BY <1>1, <1>2, <2>2
  <2>4. ASSUME NEW i \in DOMAIN offers PROVE hpc'[offers[i]] = "created"
    <3>1. offers[i] \in Posts /\ hpc[offers[i]] = "created"
      BY <1>1, <1>2
    <3> QED BY <2>3, <3>1
  <2>5. Distinct' /\ (Passed => Passed')
    BY <1>1, <2>1 DEF Distinct, Passed
  <2>6. (Differ(catalogue) => Differ(catalogue)') /\ (Differ(found) => Differ(found)')
    BY <2>1 DEF Differ
  <2> QED BY <1>1, <2>1, <2>3, <2>4, <2>5, <2>6 DEF OnceInv
<1>4. CASE Handlers
  <2>1. PICK h \in Posts : Scan(h) \/ AppendOffer(h)
    BY <1>1, <1>4 DEF Handlers, Remove, RemoveFails
  <2>2. UNCHANGED <<eligible, spc, looks, cursor, catalogue, found>>
    BY <2>1 DEF Scan, AppendOffer
  <2>3. CASE Scan(h)
    <3>1. ASSUME NEW i \in DOMAIN offers, ClientOf(offers[i]) = ClientOf(h) PROVE FALSE
      <4>1. hpc[offers[i]] = "created" /\ hpc[h] = "scan"
        BY <1>1, <2>3 DEF Scan
      <4>2. offers[i] = h
        BY <1>1, <1>2, <3>1, <4>1 DEF RegisteredOnce
      <4> QED BY <4>1, <4>2
    <3>2. index[h] + 1 <= Len(offers) => index[h] + 1 \in DOMAIN offers
      BY <1>2
    <3>3. /\ hpc[h] = "scan" /\ offers' = offers
          /\ hpc' = hpc \/ hpc' = [hpc EXCEPT ![h] = "append"]
      BY <2>3, <3>1, <3>2 DEF Scan
    <3>4. \A k \in Posts : /\ hpc'[k] # "remove"
                           /\ hpc[k] = "created" => hpc'[k] = "created"
      BY <1>1, <1>2, <3>3
    <3>5. ASSUME NEW i \in DOMAIN offers PROVE hpc'[offers[i]] = "created"
      <4>1. offers[i] \in Posts /\ hpc[offers[i]] = "created"
        BY <1>1, <1>2
      <4> QED BY <3>4, <4>1
    <3>6. Distinct' /\ (Passed => Passed')
      BY <1>1, <2>2, <3>3 DEF Distinct, Passed
    <3>7. (Differ(catalogue) => Differ(catalogue)') /\ (Differ(found) => Differ(found)')
      BY <2>2 DEF Differ
    <3> QED BY <1>1, <2>2, <3>3, <3>4, <3>5, <3>6, <3>7 DEF OnceInv
  <2>4. CASE AppendOffer(h)
    <3>1. /\ hpc[h] = "append" /\ hpc' = [hpc EXCEPT ![h] = "created"]
          /\ DOMAIN offers' = 1..(Len(offers) + 1)
          /\ \A i \in 1..Len(offers) : offers'[i] = offers[i]
          /\ offers'[Len(offers) + 1] = h
      BY <1>2, <2>4, AppendProperties, LenProperties DEF AppendOffer
    <3>2. ASSUME NEW i \in 1..Len(offers) PROVE ClientOf(offers[i]) # ClientOf(h)
      <4>1. offers[i] \in Posts /\ hpc[offers[i]] = "created"
        BY <1>1, <1>2
      <4> QED BY <1>1, <3>1, <4>1 DEF RegisteredOnce
    <3>3. \A i \in DOMAIN offers' : i \in 1..Len(offers) \/ i = Len(offers) + 1
      BY <1>2, <3>1
    <3>4. \A k \in Posts : /\ hpc'[k] # "remove"
                           /\ hpc[k] = "created" \/ k = h => hpc'[k] = "created"
      BY <1>1, <1>2, <3>1
    <3>5. \A i \in DOMAIN offers' : hpc'[offers'[i]] = "created"
      BY <1>1, <1>2, <3>1, <3>3, <3>4
    <3>6. \A i, j \in DOMAIN offers' : ClientOf(offers'[i]) = ClientOf(offers'[j]) => i = j
      BY <1>1, <1>2, <3>1, <3>2, <3>3 DEF Distinct
    <3>7. Passed => Passed'
      <4> SUFFICES ASSUME Passed, NEW i \in DOMAIN catalogue
                   PROVE  \E j \in DOMAIN offers' :
                            j < cursor /\ ClientOf(offers'[j]) = catalogue[i]
        BY <2>2 DEF Passed, ClientOf
      <4>1. PICK j \in 1..Len(offers) : j < cursor /\ ClientOf(offers[j]) = catalogue[i]
        BY <1>2 DEF Passed
      <4>2. j \in DOMAIN offers' /\ offers'[j] = offers[j]
        BY <1>2, <3>1
      <4> QED BY <4>1, <4>2 DEF ClientOf
    <3>8. Distinct'
      BY <3>6 DEF Distinct, ClientOf
    <3>9. (Differ(catalogue) => Differ(catalogue)') /\ (Differ(found) => Differ(found)')
      BY <2>2 DEF Differ
    <3>10. spc' = "listing" => Passed' /\ Differ(catalogue)'
      BY <1>1, <2>2, <3>7, <3>9
    <3>11. spc' = "found" => Differ(found)' /\ Len(found') >= NumClients
      BY <1>1, <2>2, <3>9
    <3> QED BY <3>4, <3>5, <3>8, <3>10, <3>11 DEF OnceInv
  <2> QED BY <2>1, <2>3, <2>4
<1>5. CASE Discovery
  <2>1. UNCHANGED <<eligible, hpc, offers>>
    BY <1>5 DEF Discovery, Probe, ProbeFails, ListNext, ListEnd, ListFails, DiscoveryGivesUp
  <2>2. Distinct'
    BY <1>1, <2>1 DEF Distinct
  <2>3. spc' = "listing" => Passed' /\ Differ(catalogue)'
    <3>1. CASE Probe
      <4>1. DOMAIN catalogue' = {}
        BY <3>1 DEF Probe
      <4> QED BY <4>1 DEF Passed, Differ
    <3>2. CASE ListNext /\ ClientOf(offers[cursor]) \notin eligible
      <4>1. catalogue' = catalogue /\ cursor' = cursor + 1 /\ spc = "listing"
        BY <3>2 DEF ListNext
      <4>2. \A j \in DOMAIN offers : j < cursor => j < cursor + 1
        BY <1>2
      <4> QED BY <1>1, <2>1, <4>1, <4>2 DEF Passed, Differ
    <3>3. CASE ListNext /\ ClientOf(offers[cursor]) \in eligible
      <4> DEFINE c == ClientOf(offers[cursor])
      <4>1. /\ cursor \in 1..Len(offers) /\ cursor' = cursor + 1 /\ spc = "listing"
            /\ catalogue' = Append(catalogue, c) /\ c \in Clients
        BY <1>2, <3>3 DEF ListNext, Posts, ClientOf
      <4>2. /\ DOMAIN catalogue' = 1..(Len(catalogue) + 1)
            /\ \A i \in 1..Len(catalogue) : catalogue'[i] = catalogue[i]
            /\ catalogue'[Len(catalogue) + 1] = c
        BY <1>2, <4>1, AppendProperties, LenProperties
      <4>3. \A i \in DOMAIN catalogue' : i \in 1..Len(catalogue) \/ i = Len(catalogue) + 1
        BY <1>2, <4>2
      <4>4. ASSUME NEW i \in 1..Len(catalogue) PROVE catalogue[i] # c
        <5>1. PICK j \in DOMAIN offers : j < cursor /\ ClientOf(offers[j]) = catalogue[i]
          BY <1>1, <1>2, <4>1 DEF Passed
        <5>2. j # cursor
          BY <1>2, <5>1
        <5> QED BY <1>1, <1>2, <4>1, <5>1, <5>2 DEF Distinct
      <4>5. Passed'
        <5> SUFFICES ASSUME NEW i \in DOMAIN catalogue'
                     PROVE  \E j \in DOMAIN offers :
                              j < cursor + 1 /\ ClientOf(offers[j]) = catalogue'[i]
          BY <2>1, <4>1 DEF Passed, ClientOf
        <5>1. CASE i \in 1..Len(catalogue)
          <6>1. PICK j \in DOMAIN offers : j < cursor /\ ClientOf(offers[j]) = catalogue[i]
            BY <1>1, <1>2, <4>1, <5>1 DEF Passed
          <6>2. j < cursor + 1
            BY <1>2, <6>1
          <6> QED BY <4>2, <5>1, <6>1, <6>2
        <5>2. CASE i = Len(catalogue) + 1
          <6>1. cursor \in DOMAIN offers /\ cursor < cursor + 1
            BY <1>2, <4>1
          <6> QED BY <4>2, <5>2, <6>1
        <5> QED BY <4>3, <5>1, <5>2
      <4>6. \A i \in DOMAIN catalogue' : catalogue'[i] \in eligible
        BY <1>1, <1>2, <3>3, <4>1, <4>2, <4>3 DEF Differ
      <4>7. \A i, j \in DOMAIN catalogue' : catalogue'[i] = catalogue'[j] => i = j
        BY <1>1, <1>2, <4>1, <4>2, <4>3, <4>4 DEF Differ
      <4> QED BY <2>1, <4>5, <4>6, <4>7 DEF Differ
    <3>4. CASE spc' # "listing"
      BY <3>4
    <3> QED BY <1>5, <3>1, <3>2, <3>3, <3>4
            DEF Discovery, ProbeFails, ListEnd, ListFails, DiscoveryGivesUp
  <2>4. spc' = "found" => Differ(found)' /\ Len(found') >= NumClients
    BY <1>1, <1>5, <2>1 DEF Discovery, Probe, ProbeFails, ListNext, ListEnd, ListFails,
                            DiscoveryGivesUp, Differ
  <2> QED BY <1>1, <2>1, <2>2, <2>3, <2>4 DEF OnceInv
<1> QED BY <1>3, <1>4, <1>5 DEF MarketNext

\* As many different clients as there are: all of them.
LEMMA EveryoneDiffers ==
  ASSUME MarketTypeOK, Differ(found), Len(found) >= NumClients
  PROVE  /\ Len(found) = NumClients
         /\ \A c \in Clients : c \in eligible /\ \E i \in DOMAIN found : found[i] = c
<1>1. /\ NumClients \in Nat /\ Len(found) \in Nat /\ DOMAIN found = 1..Len(found)
      /\ found \in [1..Len(found) -> Clients]
  BY CountsAssumption, LenProperties DEF MarketTypeOK
<1>2. found \in Injection(1..Len(found), Clients)
  BY <1>1 DEF Differ, Injection, IsInjective
<1>3. /\ IsFiniteSet(Clients) /\ Cardinality(Clients) = NumClients
      /\ Cardinality(1..Len(found)) = Len(found)
  <2>1. 1 \in Int /\ NumClients \in Int /\ Len(found) \in Int
    BY <1>1
  <2>2. \A n \in Nat : (IF 1 > n THEN 0 ELSE n - 1 + 1) = n
    OBVIOUS
  <2>3. /\ IsFiniteSet(Clients)
        /\ Cardinality(Clients) = IF 1 > NumClients THEN 0 ELSE NumClients - 1 + 1
    BY <2>1, FS_Interval DEF Clients
  <2>4. Cardinality(1..Len(found)) = IF 1 > Len(found) THEN 0 ELSE Len(found) - 1 + 1
    BY <2>1, FS_Interval
  <2> QED BY <1>1, <2>2, <2>3, <2>4
<1>4. Len(found) = NumClients /\ found \in Surjection(1..Len(found), Clients)
  <2>1. /\ Len(found) <= NumClients
        /\ Len(found) = NumClients => found \in Surjection(1..Len(found), Clients)
    BY <1>2, <1>3, FS_Injection
  <2>2. Len(found) = NumClients
    <3>1. Len(found) \in Nat /\ NumClients \in Nat
      BY <1>1
    <3>2. Len(found) <= NumClients /\ Len(found) >= NumClients
      BY <2>1
    <3> QED BY <3>1, <3>2
  <2> QED BY <2>1, <2>2
<1>5. \A c \in Clients : \E i \in 1..Len(found) : found[i] = c
  BY <1>4 DEF Surjection
<1> QED BY <1>1, <1>4, <1>5 DEF Differ

LEMMA OnceInvAlways == MarketSpec => []OnceInv
<1>1. MarketInv /\ OnceInv /\ [MarketNext]_marketVars => OnceInv'
  <2>1. UNCHANGED marketVars /\ OnceInv => OnceInv'
    BY DEF OnceInv, RegisteredOnce, Distinct, Passed, Differ, marketVars, setup, launcherVars,
           handlerVars, serverVars
  <2> QED BY <2>1, OnceInvStep
<1> QED BY <1>1, OnceInvInit, MarketInvAlways, PTL DEF MarketSpec

-----------------------------------------------------------------------------
(* Discovery while no two POSTs of a client overlap                         *)

\* The offers are those of the first clients in their order: only the last of them
\* is ever taken off, to be put back.
InOrder ==
  /\ \A i \in DOMAIN offers : ClientOf(offers[i]) = i
  /\ Len(offers) <= cur

\* The listing has clients that it is past.
Ahead ==
  /\ spc = "listing" =>
       (\A i \in DOMAIN catalogue : catalogue[i] < cursor) /\ Differ(catalogue)
  /\ spc = "found" => Differ(found) /\ Len(found) >= NumClients

LEMMA OrderedInit == MarketInit => InOrder /\ Ahead
<1> SUFFICES ASSUME MarketInit PROVE InOrder /\ Ahead
  OBVIOUS
<1>1. offers = <<>> /\ cur = 1 /\ spc = "probe" /\ Len(offers) = 0 /\ DOMAIN offers = {}
  BY EmptySeq DEF MarketInit
<1> QED BY <1>1 DEF InOrder, Ahead

\* Every client before the present one is on the list, in its place.
LEMMA EarlierListed ==
  ASSUME MarketInv, InOrder, "slow" \notin faults
  PROVE  \A c \in Clients : c < cur => c <= Len(offers)
<1> SUFFICES ASSUME NEW c \in Clients, c < cur PROVE c <= Len(offers)
  OBVIOUS
<1>1. DOMAIN offers = 1..Len(offers) /\ Len(offers) \in Nat /\ c \in Nat /\ cur \in Nat
  BY CountsAssumption, LenProperties DEF MarketInv, MarketTypeOK, Clients
<1>2. ~Pending(c)
  <2>1. SUFFICES ASSUME NEW k \in 1..MaxPosts, hpc[<<c, k>>] = "append" PROVE FALSE
    BY DEF Pending
  <2>2. <<c, k>> \in Posts
    BY DEF Posts
  <2>3. <<c, k>> = <<cur, attempt>>
    BY <2>1, <2>2 DEF MarketInv, Alone
  <2> QED BY <1>1, <2>3
<1>3. PICK i \in DOMAIN offers : ClientOf(offers[i]) = c
  BY <1>2 DEF MarketInv, Kept, Listed
<1> QED BY <1>1, <1>3 DEF InOrder

LEMMA OrderedStep ==
  ASSUME MarketInv, InOrder, Ahead, "slow" \notin faults, MarketNext
  PROVE  InOrder' /\ Ahead'
<1> USE DEF setup, launcherVars, handlerVars, serverVars
<1>1. /\ NumClients \in Nat /\ offers \in Seq(Posts) /\ Len(offers) \in Nat /\ cur \in Nat
      /\ DOMAIN offers = 1..Len(offers) /\ \A i \in DOMAIN offers : offers[i] \in Posts
      /\ hpc \in [Posts -> {"none", "scan", "remove", "append", "created", "error"}]
      /\ catalogue \in Seq(Clients) /\ Len(catalogue) \in Nat
      /\ DOMAIN catalogue = 1..Len(catalogue) /\ cursor \in Nat \ {0}
      /\ \A i \in DOMAIN catalogue : catalogue[i] \in Clients
  BY CountsAssumption, LenProperties, ElementOfSeq DEF MarketInv, MarketTypeOK
<1>2. CASE Launcher
  <2>1. /\ UNCHANGED <<eligible, offers, spc, cursor, catalogue, found>>
        /\ cur' \in {cur, cur + 1}
    BY <1>2 DEF Launcher, MarketplaceReady, CreateObjects, Post, PostRefused, PostFails, Published
  <2> QED BY <1>1, <2>1 DEF InOrder, Ahead, Differ, ClientOf
<1>3. CASE Handlers
  <2>1. PICK h \in Posts : Scan(h) \/ Remove(h) \/ RemoveFails(h) \/ AppendOffer(h)
    BY <1>3 DEF Handlers
  <2>2. UNCHANGED <<eligible, cur, spc, cursor, catalogue, found>>
    BY <2>1 DEF Scan, Remove, RemoveFails, AppendOffer
  <2>3. Ahead'
    BY <2>2 DEF Ahead, Differ
  <2>4. hpc[h] \in {"scan", "remove", "append"} => ClientOf(h) = cur /\ cur \in Clients
    BY DEF MarketInv, Alone, Place, ClientOf
  <2>5. CASE Scan(h) \/ RemoveFails(h)
    <3>1. offers' = offers
      BY <2>5 DEF Scan, RemoveFails
    <3> QED BY <2>2, <2>3, <3>1 DEF InOrder, ClientOf
  <2>6. CASE Remove(h)
    <3>1. PICK i \in DOMAIN offers : ClientOf(offers[i]) = ClientOf(h) /\ offers' = Without(offers, i)
      BY <2>6 DEF Remove
    <3>2. i = cur /\ Len(offers) = cur
      <4>1. ClientOf(offers[i]) = i /\ ClientOf(offers[i]) = cur
        BY <2>4, <2>6, <3>1 DEF InOrder, Remove
      <4>2. i \in 1..Len(offers) /\ Len(offers) <= cur
        BY <1>1, <3>1 DEF InOrder
      <4>3. i = cur
        BY <4>1
      <4>4. \A n \in Nat : cur \in 1..n /\ n <= cur => n = cur
        BY <1>1
      <4> QED BY <1>1, <4>2, <4>3, <4>4
    <3>3. /\ Len(offers') = Len(offers) - 1 /\ DOMAIN offers' = 1..(Len(offers) - 1)
          /\ \A j \in 1..(Len(offers) - 1) : offers'[j] = offers[j]
      <4>1. /\ Without(offers, i) \in Seq(Posts)
            /\ Len(Without(offers, i)) = Len(offers) - 1
            /\ \A j \in 1..(Len(offers) - 1) :
                 Without(offers, i)[j] = IF j < i THEN offers[j] ELSE offers[j + 1]
        BY <1>1, <3>1, WithoutProperties
      <4>2. \A j \in 1..(Len(offers) - 1) : j < i
        BY <1>1, <3>2
      <4> QED BY <3>1, <4>1, <4>2, LenProperties
    <3>4. \A j \in 1..(Len(offers) - 1) : j \in DOMAIN offers
      BY <1>1
    <3>5. \A j \in DOMAIN offers' : ClientOf(offers'[j]) = j
      BY <3>3, <3>4 DEF InOrder
    <3>6. Len(offers') <= cur
      BY <1>1, <3>2, <3>3
    <3> QED BY <2>2, <2>3, <3>5, <3>6 DEF InOrder, ClientOf
  <2>7. CASE AppendOffer(h)
    <3>1. /\ hpc[h] = "append" /\ Len(offers') = Len(offers) + 1
          /\ DOMAIN offers' = 1..(Len(offers) + 1)
          /\ \A i \in 1..Len(offers) : offers'[i] = offers[i]
          /\ offers'[Len(offers) + 1] = h
      BY <1>1, <2>7, AppendProperties, LenProperties DEF AppendOffer
    <3>2. ClientOf(h) = cur /\ cur \in Clients
      BY <2>4, <3>1
    <3>3. Len(offers) + 1 = cur
      <4>1. Len(offers) # cur
        <5>1. \A i \in DOMAIN offers : ClientOf(offers[i]) # cur
          BY <3>1, <3>2 DEF MarketInv, Alone
        <5>2. Len(offers) = cur => cur \in DOMAIN offers
          BY <1>1, <3>2 DEF Clients
        <5> QED BY <5>1, <5>2 DEF InOrder
      <4>2. cur - 1 <= Len(offers)
        <5>1. CASE cur = 1
          BY <1>1, <5>1
        <5>2. CASE cur # 1
          <6>1. cur - 1 \in Clients /\ cur - 1 < cur
            BY <1>1, <3>2, <5>2 DEF Clients
          <6> QED BY <6>1, EarlierListed
        <5> QED BY <5>1, <5>2
      <4>3. Len(offers) <= cur
        BY DEF InOrder
      <4>4. PICK n \in Nat : n = Len(offers)
        BY <1>1
      <4>5. n # cur /\ cur - 1 <= n /\ n <= cur
        BY <4>1, <4>2, <4>3, <4>4
      <4>6. n + 1 = cur
        BY <1>1, <4>5
      <4> QED BY <4>4, <4>6
    <3>4. \A i \in DOMAIN offers' : i \in 1..Len(offers) \/ i = Len(offers) + 1
      BY <1>1, <3>1
    <3>5. \A i \in DOMAIN offers' : ClientOf(offers'[i]) = i
      BY <1>1, <3>1, <3>2, <3>3, <3>4 DEF InOrder
    <3>6. Len(offers') <= cur
      BY <1>1, <3>1, <3>3
    <3> QED BY <2>2, <2>3, <3>5, <3>6 DEF InOrder, ClientOf
  <2> QED BY <2>1, <2>5, <2>6, <2>7
<1>4. CASE Discovery
  <2>1. UNCHANGED <<eligible, cur, offers>>
    BY <1>4 DEF Discovery, Probe, ProbeFails, ListNext, ListEnd, ListFails, DiscoveryGivesUp
  <2>2. InOrder'
    BY <2>1 DEF InOrder, ClientOf
  <2>3. CASE ListNext /\ ClientOf(offers[cursor]) \in eligible
    <3>1. /\ cursor \in DOMAIN offers /\ cursor' = cursor + 1 /\ spc = "listing" /\ spc' = spc
          /\ catalogue' = Append(catalogue, cursor) /\ cursor \in eligible
          /\ cursor \in Clients
      <4>1. /\ cursor \in DOMAIN offers /\ cursor' = cursor + 1 /\ spc = "listing" /\ spc' = spc
            /\ catalogue' = Append(catalogue, ClientOf(offers[cursor]))
            /\ ClientOf(offers[cursor]) \in eligible /\ offers[cursor] \in Posts
        BY <1>1, <2>3 DEF ListNext
      <4>2. ClientOf(offers[cursor]) = cursor /\ ClientOf(offers[cursor]) \in Clients
        BY <4>1 DEF InOrder, Posts, ClientOf
      <4> QED BY <4>1, <4>2
    <3>2. /\ DOMAIN catalogue' = 1..(Len(catalogue) + 1)
          /\ \A i \in 1..Len(catalogue) : catalogue'[i] = catalogue[i]
          /\ catalogue'[Len(catalogue) + 1] = cursor
      BY <1>1, <3>1, AppendProperties, LenProperties
    <3>3. \A i \in DOMAIN catalogue' : i \in 1..Len(catalogue) \/ i = Len(catalogue) + 1
      BY <1>1, <3>2
    <3>4. \A i \in 1..Len(catalogue) : /\ catalogue[i] \in Nat /\ catalogue[i] < cursor
                                       /\ catalogue[i] \in eligible
      <4> SUFFICES ASSUME NEW i \in DOMAIN catalogue
                   PROVE  /\ catalogue[i] \in Nat /\ catalogue[i] < cursor
                          /\ catalogue[i] \in eligible
        BY <1>1
      <4>1. catalogue[i] \in Clients
        BY <1>1
      <4>2. catalogue[i] \in Nat
        BY <1>1, <4>1 DEF Clients
      <4>3. catalogue[i] < cursor /\ catalogue[i] \in eligible
        BY <3>1 DEF Ahead, Differ
      <4> QED BY <4>2, <4>3
    <3>5. \A i \in DOMAIN catalogue' : catalogue'[i] < cursor + 1 /\ catalogue'[i] \in eligible
      BY <1>1, <3>1, <3>2, <3>3, <3>4
    <3>6. \A i, j \in DOMAIN catalogue' : catalogue'[i] = catalogue'[j] => i = j
      BY <1>1, <3>1, <3>2, <3>3, <3>4 DEF Ahead, Differ
    <3> QED BY <2>1, <2>2, <3>1, <3>5, <3>6 DEF Ahead, Differ
  <2>4. CASE ListNext /\ ClientOf(offers[cursor]) \notin eligible
    <3>1. /\ catalogue' = catalogue /\ cursor' = cursor + 1 /\ spc = "listing" /\ spc' = spc
      BY <2>4 DEF ListNext
    <3>2. \A i \in DOMAIN catalogue : catalogue[i] < cursor + 1
      BY <1>1, <3>1 DEF Ahead, Clients
    <3> QED BY <2>1, <2>2, <3>1, <3>2 DEF Ahead, Differ
  <2>5. CASE Probe
    <3>1. DOMAIN catalogue' = {} /\ spc' = "listing"
      BY <2>5 DEF Probe
    <3> QED BY <2>2, <3>1 DEF Ahead, Differ
  <2>6. CASE ListEnd
    BY <2>1, <2>2, <2>6 DEF ListEnd, Ahead, Differ
  <2>7. CASE ProbeFails \/ ListFails \/ DiscoveryGivesUp
    BY <2>1, <2>2, <2>7 DEF ProbeFails, ListFails, DiscoveryGivesUp, Ahead, Differ
  <2> QED BY <1>4, <2>3, <2>4, <2>5, <2>6, <2>7 DEF Discovery
<1> QED BY <1>2, <1>3, <1>4 DEF MarketNext

LEMMA OrderedAlways == MarketSpec => []("slow" \notin faults => InOrder /\ Ahead)
<1>1. MarketInv /\ ("slow" \notin faults => InOrder /\ Ahead) /\ [MarketNext]_marketVars
        => ("slow" \notin faults => InOrder /\ Ahead)'
  <2>1. CASE UNCHANGED marketVars
    BY <2>1 DEF InOrder, Ahead, Differ, ClientOf, marketVars, setup, launcherVars,
                handlerVars, serverVars
  <2>2. CASE MarketNext
    <3>1. faults' = faults
      BY <2>2 DEF MarketNext, Launcher, MarketplaceReady, CreateObjects, Post, PostRefused,
         PostFails, Published, Handlers, Scan, Remove, RemoveFails, AppendOffer, Discovery,
         Probe, ProbeFails, ListNext, ListEnd, ListFails, DiscoveryGivesUp, setup
    <3> QED BY <2>2, <3>1, OrderedStep
  <2> QED BY <2>1, <2>2
<1> QED BY <1>1, OrderedInit, MarketInvAlways, PTL DEF MarketSpec

\* If no request is slow, or no POST was repeated, discovery succeeds with all of them and
\* counts nobody twice, although it lists while others register and offers are
\* taken off the list and put back.
THEOREM DiscoveryIsComplete == MarketSpec => []DiscoveryFindsEveryone
<1>1. MarketInv /\ OnceInv /\ ("slow" \notin faults => InOrder /\ Ahead)
        => DiscoveryFindsEveryone
  BY EveryoneDiffers DEF MarketInv, OnceInv, Ahead, OneByOne, DiscoveryFindsEveryone
<1> QED BY <1>1, MarketInvAlways, OnceInvAlways, OrderedAlways, PTL
=============================================================================
