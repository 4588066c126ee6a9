------------------------------ MODULE FoldSums ------------------------------
(***************************************************************************)
(* What the sums of the models are: MapThenSumSet over the clients         *)
(* (FedAsync) and FoldFunction over a sequence (SplitData).  Both are      *)
(* defined by recursion over the subsets of a set.  The induction that     *)
(* this takes is put as the choice of a smallest set, which is a fact      *)
(* about sets and not about operators.                                     *)
(***************************************************************************)
EXTENDS Integers, Functions, FiniteSetsExt, FiniteSetTheorems, WellFoundedInduction, TLAPS

-----------------------------------------------------------------------------
(* Induction                                                               *)

\* A family of subsets of a finite set has a smallest one.
LEMMA SmallestSet ==
  ASSUME NEW S, IsFiniteSet(S), NEW T \in SUBSET SUBSET S, T # {}
  PROVE  \E x \in T : \A y \in T : y \subseteq x => y = x
<1>1. IsWellFoundedOn(StrictSubsetOrdering(S), FiniteSubsetsOf(S)) /\ T \subseteq FiniteSubsetsOf(S)
  BY FS_StrictSubsetOrderingWellFounded, FS_FiniteSubsetsOfFinite
<1>2. PICK x \in T : \A y \in T : ~ (<<y, x>> \in StrictSubsetOrdering(S))
  BY <1>1, WFMin
<1>3. ASSUME NEW y \in T, y \subseteq x PROVE y = x
  BY <1>2, <1>3 DEF StrictSubsetOrdering
<1> QED BY <1>2, <1>3

\* So has a set of numbers a smallest element.
LEMMA SmallestNumber ==
  ASSUME NEW T \in SUBSET Nat, T # {}
  PROVE  \E x \in T : \A y \in T : x <= y
<1>1. PICK k \in T : TRUE
  OBVIOUS
<1> DEFINE U == {0..j : j \in T \cap (0..k)}
<1>2. IsFiniteSet(0..k)
  BY FS_Interval
<1>3. U \in SUBSET SUBSET (0..k) /\ U # {}
  <2>1. 0..k \in U
    BY <1>1
  <2>2. \A j \in T \cap (0..k) : 0..j \subseteq 0..k
    OBVIOUS
  <2> QED BY <2>1, <2>2
<1>4. PICK u \in U : \A v \in U : v \subseteq u => v = u
  <2>1. PICK S, V : S = 0..k /\ V = U
    OBVIOUS
  <2>2. IsFiniteSet(S) /\ V \in SUBSET SUBSET S /\ V # {}
    BY <1>2, <1>3, <2>1
  <2>3. \E u \in V : \A v \in V : v \subseteq u => v = u
    BY <2>2, SmallestSet
  <2> QED BY <2>1, <2>3
<1>5. PICK x \in T \cap (0..k) : u = 0..x
  BY <1>4
<1>6. ASSUME NEW y \in T, ~(x <= y) PROVE FALSE
  <2>1. y \in T \cap (0..k) /\ 0..y \subseteq 0..x /\ x \notin 0..y /\ x \in 0..x
    BY <1>5, <1>6
  <2>2. 0..y \in U
    BY <2>1
  <2> HIDE DEF U
  <2> QED BY <1>4, <1>5, <2>1, <2>2
<1> QED BY <1>5, <1>6

-----------------------------------------------------------------------------
(* The recursion                                                           *)

Pick(s) == CHOOSE x \in s : TRUE
Rest(s) == s \ {Pick(s)}

\* h is what the recursion makes of the values f on the subsets of s.
Sums(h, f, s) ==
  h = [t \in SUBSET s |-> IF t = {} THEN 0 ELSE f[Pick(t)] + h[Rest(t)]]

\* The sum of the values f over s.
SumOver(f, s) == (CHOOSE h : Sums(h, f, s))[s]

\* The sums of the community modules are of this form.
LEMMA SumIsSumOver ==
  ASSUME NEW f, NEW S
  PROVE  MapThenSumSet(LAMBDA x : f[x], S) = SumOver(f, S)
BY DEF MapThenSumSet, MapThenFoldSet, SumOver, Sums, Pick, Rest

LEMMA FoldIsSumOver ==
  ASSUME NEW f
  PROVE  FoldFunction(LAMBDA a, b : a + b, 0, f) = SumOver(f, DOMAIN f)
BY DEF FoldFunction, FoldFunctionOnSet, MapThenFoldSet, SumOver, Sums, Pick, Rest

LEMMA PickType ==
  ASSUME NEW s, s # {}
  PROVE  Pick(s) \in s /\ Rest(s) \subseteq s /\ Rest(s) # s
BY DEF Pick, Rest

LEMMA SumsAt ==
  ASSUME NEW s, NEW t \in SUBSET s, NEW f, NEW h, Sums(h, f, s)
  PROVE  h[t] = IF t = {} THEN 0 ELSE f[Pick(t)] + h[Rest(t)]
BY DEF Sums

\* The recursion has one result at most, which is the same for every set around.
LEMMA SumsAgree ==
  ASSUME NEW s, IsFiniteSet(s), NEW u, NEW v, s \subseteq u, s \subseteq v,
         NEW f, NEW h, NEW k, Sums(h, f, u), Sums(k, f, v)
  PROVE  h[s] = k[s]
<1> DEFINE T == {t \in SUBSET s : h[t] # k[t]}
<1>1. SUFFICES ASSUME T # {} PROVE FALSE
  BY DEF T
<1>2. PICK t \in T : \A y \in T : y \subseteq t => y = t
  <2>1. T \in SUBSET SUBSET s
    OBVIOUS
  <2> HIDE DEF T
  <2> QED BY <1>1, <2>1, SmallestSet
<1>3. /\ h[t] = IF t = {} THEN 0 ELSE f[Pick(t)] + h[Rest(t)]
      /\ k[t] = IF t = {} THEN 0 ELSE f[Pick(t)] + k[Rest(t)]
  <2>1. t \in SUBSET u /\ t \in SUBSET v
    OBVIOUS
  <2> QED BY <2>1 DEF Sums
<1>4. t # {} => h[Rest(t)] = k[Rest(t)]
  BY <1>2, PickType
<1> QED BY <1>3, <1>4

LEMMA SumsExist ==
  ASSUME NEW S, IsFiniteSet(S), NEW f
  PROVE  \E h : Sums(h, f, S)
<1> DEFINE T == {t \in SUBSET S : ~ \E h : Sums(h, f, t)}
<1>1. SUFFICES ASSUME T # {} PROVE FALSE
  BY DEF T
<1>2. PICK s \in T : \A y \in T : y \subseteq s => y = s
  <2>1. T \in SUBSET SUBSET S
    OBVIOUS
  <2> HIDE DEF T
  <2> QED BY <1>1, <2>1, SmallestSet
<1>3. PICK g : g = [t \in SUBSET s |-> CHOOSE h : Sums(h, f, t)]
  OBVIOUS
<1>4. \A t \in SUBSET s : t # s => Sums(g[t], f, t)
  <2> SUFFICES ASSUME NEW t \in SUBSET s, t # s PROVE Sums(g[t], f, t)
    OBVIOUS
  <2>1. \E h : Sums(h, f, t)
    BY <1>2
  <2> QED BY <1>3, <2>1
<1>5. PICK k : k = [t \in SUBSET s |-> IF t = {} THEN 0 ELSE f[Pick(t)] + g[Rest(t)][Rest(t)]]
  OBVIOUS
<1>6. ASSUME NEW t \in SUBSET s, t # {}
      PROVE  k[Rest(t)] = g[Rest(t)][Rest(t)]
  <2>1. PICK r : r = Rest(t)
    OBVIOUS
  <2>2. r \in SUBSET s /\ r # s /\ IsFiniteSet(r)
    <3>1. r \in SUBSET s /\ r # s
      BY <1>6, <2>1, PickType
    <3> QED BY <3>1, FS_Subset
  <2>3. g[r][r] = IF r = {} THEN 0 ELSE f[Pick(r)] + g[r][Rest(r)]
    <3>1. PICK w : w = g[r]
      OBVIOUS
    <3>2. Sums(w, f, r) /\ r \in SUBSET r
      BY <1>4, <2>2, <3>1
    <3>3. w[r] = IF r = {} THEN 0 ELSE f[Pick(r)] + w[Rest(r)]
      BY <3>2, SumsAt
    <3> QED BY <3>1, <3>3
  <2>4. k[r] = IF r = {} THEN 0 ELSE f[Pick(r)] + g[Rest(r)][Rest(r)]
    BY <1>5, <2>2
  <2>5. r # {} => g[r][Rest(r)] = g[Rest(r)][Rest(r)]
    <3> SUFFICES ASSUME r # {} PROVE g[r][Rest(r)] = g[Rest(r)][Rest(r)]
      OBVIOUS
    <3>1. PICK q : q = Rest(r)
      OBVIOUS
    <3>2. q \subseteq r /\ q \in SUBSET s /\ q # s
      BY <2>2, <3>1, PickType
    <3>3. IsFiniteSet(q) /\ Sums(g[r], f, r) /\ Sums(g[q], f, q)
      BY <1>4, <2>2, <3>2, FS_Subset
    <3>4. g[r][q] = g[q][q]
      BY <3>2, <3>3, SumsAgree
    <3> QED BY <3>1, <3>4
  <2> QED BY <2>1, <2>3, <2>4, <2>5
<1>7. Sums(k, f, s)
  BY <1>5, <1>6 DEF Sums
<1> QED BY <1>2, <1>7

-----------------------------------------------------------------------------
(* The sums                                                                *)

LEMMA SumEmpty ==
  ASSUME NEW f
  PROVE  SumOver(f, {}) = 0
<1>1. PICK h : h = CHOOSE g : Sums(g, f, {})
  OBVIOUS
<1>2. Sums(h, f, {})
  BY <1>1, FS_EmptySet, SumsExist
<1> QED BY <1>1, <1>2 DEF Sums, SumOver

LEMMA SumPick ==
  ASSUME NEW f, NEW s, IsFiniteSet(s), s # {}
  PROVE  SumOver(f, s) = f[Pick(s)] + SumOver(f, Rest(s))
<1>1. PICK h, k, r : /\ h = CHOOSE g : Sums(g, f, s)
                     /\ k = CHOOSE g : Sums(g, f, r)
                     /\ r = Rest(s)
  OBVIOUS
<1>2. r \subseteq s /\ IsFiniteSet(r)
  BY <1>1, PickType, FS_Subset
<1>3. Sums(h, f, s) /\ Sums(k, f, r)
  BY <1>1, <1>2, SumsExist
<1>4. h[r] = k[r]
  BY <1>2, <1>3, SumsAgree
<1>5. h[s] = f[Pick(s)] + h[r]
  BY <1>1, <1>3 DEF Sums
<1> QED BY <1>1, <1>4, <1>5 DEF SumOver

LEMMA SumNat ==
  ASSUME NEW s, IsFiniteSet(s), NEW f, \A x \in s : f[x] \in Nat
  PROVE  SumOver(f, s) \in Nat
<1> DEFINE T == {t \in SUBSET s : SumOver(f, t) \notin Nat}
<1>1. SUFFICES ASSUME T # {} PROVE FALSE
  BY DEF T
<1>2. PICK t \in T : \A y \in T : y \subseteq t => y = t
  <2>1. T \in SUBSET SUBSET s
    OBVIOUS
  <2> HIDE DEF T
  <2> QED BY <1>1, <2>1, SmallestSet
<1>3. t # {} /\ IsFiniteSet(t)
  <2>1. SumOver(f, {}) \in Nat
    BY SumEmpty
  <2>2. IsFiniteSet(t)
    BY FS_Subset
  <2> QED BY <2>1, <2>2
<1>4. SumOver(f, Rest(t)) \in Nat /\ f[Pick(t)] \in Nat
  BY <1>2, <1>3, PickType
<1>5. SumOver(f, t) = f[Pick(t)] + SumOver(f, Rest(t))
  BY <1>3, SumPick
<1> QED BY <1>4, <1>5

\* The sum does not depend on the order of its terms.
LEMMA SumRemove ==
  ASSUME NEW s, IsFiniteSet(s), NEW f, \A x \in s : f[x] \in Nat, NEW z \in s
  PROVE  SumOver(f, s) = f[z] + SumOver(f, s \ {z})
<1> DEFINE T == {t \in SUBSET s : \E y \in t : SumOver(f, t) # f[y] + SumOver(f, t \ {y})}
<1>1. SUFFICES ASSUME T # {} PROVE FALSE
  BY DEF T
<1>2. PICK t \in T : \A y \in T : y \subseteq t => y = t
  <2>1. T \in SUBSET SUBSET s
    OBVIOUS
  <2> HIDE DEF T
  <2> QED BY <1>1, <2>1, SmallestSet
<1>3. PICK y \in t : SumOver(f, t) # f[y] + SumOver(f, t \ {y})
  OBVIOUS
<1>4. PICK p, r : p = Pick(t) /\ r = Rest(t)
  OBVIOUS
<1>5. /\ p \in t /\ r = t \ {p} /\ t \in SUBSET s /\ r \notin T /\ IsFiniteSet(t)
      /\ SumOver(f, t) = f[p] + SumOver(f, r)
  <2>1. p \in t /\ r = t \ {p} /\ r # t /\ r \subseteq t /\ IsFiniteSet(t)
    BY <1>3, <1>4, PickType, FS_Subset DEF Rest
  <2> QED BY <1>2, <1>4, <2>1, SumPick
<1>6. y # p
  BY <1>3, <1>5
<1>7. SumOver(f, r) = f[y] + SumOver(f, r \ {y})
  BY <1>5, <1>6
<1>8. PICK q, a, b : q = t \ {y} /\ a = Pick(q) /\ b = r \ {y}
  OBVIOUS
<1>9. q \notin T /\ p \in q /\ q \ {p} = b
  BY <1>2, <1>5, <1>6, <1>8
<1>10. SumOver(f, q) = f[p] + SumOver(f, b)
  BY <1>5, <1>8, <1>9
<1>11. SumOver(f, b) \in Nat /\ f[p] \in Nat /\ f[y] \in Nat
  BY <1>5, <1>8, SumNat, FS_Subset
<1> QED BY <1>3, <1>5, <1>7, <1>8, <1>10, <1>11

\* Terms in a proportion a : b at most are sums in that proportion at most.
LEMMA SumProportion ==
  ASSUME NEW s, IsFiniteSet(s), NEW f, NEW g, NEW a \in Nat, NEW b \in Nat,
         \A x \in s : f[x] \in Nat /\ g[x] \in Nat /\ a * f[x] <= b * g[x]
  PROVE  a * SumOver(f, s) <= b * SumOver(g, s)
<1> DEFINE T == {t \in SUBSET s : ~(a * SumOver(f, t) <= b * SumOver(g, t))}
<1>1. SUFFICES ASSUME T # {} PROVE FALSE
  BY DEF T
<1>2. PICK t \in T : \A y \in T : y \subseteq t => y = t
  <2>1. T \in SUBSET SUBSET s
    OBVIOUS
  <2> HIDE DEF T
  <2> QED BY <1>1, <2>1, SmallestSet
<1>3. t # {} /\ IsFiniteSet(t)
  <2>1. a * SumOver(f, {}) <= b * SumOver(g, {})
    BY SumEmpty
  <2>2. IsFiniteSet(t)
    BY FS_Subset
  <2> QED BY <2>1, <2>2
<1>4. PICK p, r : p = Pick(t) /\ r = Rest(t)
  OBVIOUS
<1>5. p \in s /\ r \in SUBSET s /\ r \notin T /\ IsFiniteSet(r)
  BY <1>2, <1>3, <1>4, PickType, FS_Subset
<1>6. PICK F, G, x, y : F = SumOver(f, r) /\ G = SumOver(g, r) /\ x = f[p] /\ y = g[p]
  OBVIOUS
<1>7. F \in Nat /\ G \in Nat /\ x \in Nat /\ y \in Nat /\ a * F <= b * G /\ a * x <= b * y
  BY <1>5, <1>6, SumNat
<1>8. SumOver(f, t) = x + F /\ SumOver(g, t) = y + G
  BY <1>3, <1>4, <1>6, SumPick
<1>9. a * (x + F) <= b * (y + G)
  <2>1. a * (x + F) = a * x + a * F /\ b * (y + G) = b * y + b * G
    BY <1>7
  <2>2. a * x \in Nat /\ a * F \in Nat /\ b * y \in Nat /\ b * G \in Nat
    BY <1>7
  <2> QED BY <1>7, <2>1, <2>2
<1> QED BY <1>8, <1>9

\* Equal terms have equal sums.
LEMMA SumEqual ==
  ASSUME NEW s, IsFiniteSet(s), NEW f, NEW g,
         \A x \in s : f[x] \in Nat /\ g[x] = f[x]
  PROVE  SumOver(g, s) = SumOver(f, s)
<1>1. \A x \in s : 1 * f[x] <= 1 * g[x] /\ 1 * g[x] <= 1 * f[x] /\ g[x] \in Nat
  OBVIOUS
<1>2. 1 * SumOver(f, s) <= 1 * SumOver(g, s) /\ 1 * SumOver(g, s) <= 1 * SumOver(f, s)
  BY <1>1, SumProportion
<1>3. SumOver(f, s) \in Nat /\ SumOver(g, s) \in Nat
  BY <1>1, SumNat
<1> QED BY <1>2, <1>3

\* One term more by one is a sum more by one.
LEMMA SumIncrement ==
  ASSUME NEW s, IsFiniteSet(s), NEW f, NEW g, NEW z \in s,
         \A x \in s : f[x] \in Nat, g[z] = f[z] + 1, \A x \in s \ {z} : g[x] = f[x]
  PROVE  SumOver(g, s) = SumOver(f, s) + 1
<1>1. PICK r : r = s \ {z} /\ IsFiniteSet(r)
  BY FS_Subset
<1>2. \A x \in s : g[x] \in Nat
  OBVIOUS
<1>3. SumOver(g, r) = SumOver(f, r) /\ SumOver(f, r) \in Nat
  BY <1>1, SumEqual, SumNat
<1>4. SumOver(f, s) = f[z] + SumOver(f, r) /\ SumOver(g, s) = g[z] + SumOver(g, r)
  BY <1>1, <1>2, SumRemove
<1> QED BY <1>3, <1>4

\* One term less is a sum that is less.
LEMMA SumDecrease ==
  ASSUME NEW s, IsFiniteSet(s), NEW f, NEW g, NEW z \in s,
         \A x \in s : f[x] \in Nat /\ g[x] \in Nat, g[z] < f[z],
         \A x \in s \ {z} : g[x] = f[x]
  PROVE  SumOver(g, s) < SumOver(f, s)
<1>1. PICK r : r = s \ {z} /\ IsFiniteSet(r)
  BY FS_Subset
<1>2. SumOver(g, r) = SumOver(f, r) /\ SumOver(f, r) \in Nat
  BY <1>1, SumEqual, SumNat
<1>3. SumOver(f, s) = f[z] + SumOver(f, r) /\ SumOver(g, s) = g[z] + SumOver(g, r)
  BY <1>1, SumRemove
<1> QED BY <1>2, <1>3

\* Nothing adds up to nothing.
LEMMA SumZero ==
  ASSUME NEW s, IsFiniteSet(s), NEW f, \A x \in s : f[x] = 0
  PROVE  SumOver(f, s) = 0
<1>1. \A x \in s : f[x] \in Nat /\ 1 * f[x] <= 0 * f[x]
  OBVIOUS
<1>2. 1 * SumOver(f, s) <= 0 * SumOver(f, s) /\ SumOver(f, s) \in Nat
  BY <1>1, SumProportion, SumNat
<1> QED BY <1>2
=============================================================================
