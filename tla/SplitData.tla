----------------------------- MODULE SplitData -----------------------------
(***************************************************************************)
(* split_and_save_datasets (dataset_utils/split_data.py): how the training *)
(* examples are dealt out to the clients before anything else starts.      *)
(* Examples are positions in the shuffled array of indices.                *)
(***************************************************************************)
EXTENDS Naturals, Sequences, Functions

CONSTANT
  DataSets     \* [length, clients, perClient, ratios]: the choices of the number of
               \* examples, num_clients, partition_size and fairness_ratios (whole
               \* multiples of a common unit)

VARIABLES
  data,     \* one of DataSets
  sizes,    \* client_sizes
  parts,    \* the examples saved for the clients, in order
  start,
  dpc       \* "floor", "topup", "save", "saved", "failed"

splitVars == <<data, sizes, parts, start, dpc>>

Total(s) == FoldFunction(LAMBDA a, b : a + b, 0, s)
Lesser(a, b) == IF a < b THEN a ELSE b

ASSUME DataSetsAssumption ==
  \A d \in DataSets : /\ {d.length, d.clients, d.perClient} \subseteq Nat
                      /\ d.ratios \in Seq(Nat) /\ Total(d.ratios) > 0

-----------------------------------------------------------------------------
(* Deviations: a plausible slip.  It is no part of the specification.         *)

\* range(len(ratios)) ends at the largest whole share
TopUpNever ==
  /\ dpc = "topup"
  /\ dpc' = "save"
  /\ UNCHANGED <<data, sizes, parts, start>>

-----------------------------------------------------------------------------
total_used == IF data.perClient = 0 THEN data.length
                                    ELSE data.perClient * data.clients

\* Shares rounded down, in floating point: a whole share may come out one lower.
\* (Ratios that add up to nothing are not modelled.)
FloorShares ==
  /\ dpc = "floor"
  /\ \E low \in [DOMAIN data.ratios -> BOOLEAN] :
       sizes' = [i \in DOMAIN data.ratios |->
                   LET exact == data.ratios[i] * total_used
                       whole == exact \div Total(data.ratios)
                   IN IF low[i] /\ exact > 0 /\ exact = whole * Total(data.ratios)
                      THEN whole - 1 ELSE whole]
  /\ dpc' = "topup"
  /\ UNCHANGED <<data, parts, start>>

\* argmin: the first of the smallest.
TopUp ==
  /\ dpc = "topup"
  /\ IF Total(sizes) < total_used
     THEN /\ \E i \in DOMAIN sizes :
               /\ \A j \in DOMAIN sizes : sizes[i] < sizes[j] \/ (sizes[i] = sizes[j] /\ i <= j)
               /\ sizes' = [sizes EXCEPT ![i] = @ + 1]
          /\ UNCHANGED dpc
     ELSE dpc' = "save" /\ UNCHANGED sizes
  /\ UNCHANGED <<data, parts, start>>

\* indices[start:end] stops at the end of the array without an error; more
\* clients than ratios are an IndexError.
SavePart ==
  /\ dpc = "save"
  /\ IF Len(parts) = data.clients THEN dpc' = "saved" /\ UNCHANGED <<parts, start>>
     ELSE IF Len(parts) >= Len(sizes) THEN dpc' = "failed" /\ UNCHANGED <<parts, start>>
     ELSE LET end == start + sizes[Len(parts) + 1]
          IN /\ parts' = Append(parts, start + 1 .. Lesser(end, data.length))
             /\ start' = end
             /\ UNCHANGED dpc
  /\ UNCHANGED <<data, sizes>>

SplitInit ==
  /\ data \in DataSets
  /\ sizes = <<>> /\ parts = <<>> /\ start = 0 /\ dpc = "floor"

Split == FloorShares \/ TopUp \/ SavePart

-----------------------------------------------------------------------------
\* With a ratio per client, every example that is used and exists goes to
\* exactly one client, whatever the rounding and the size of the data set.
SplitsEverything ==
  dpc = "saved" /\ Len(data.ratios) = data.clients =>
    /\ UNION {parts[i] : i \in DOMAIN parts} = 1..Lesser(total_used, data.length)
    /\ \A i, j \in DOMAIN parts : i # j => parts[i] \cap parts[j] = {}
=============================================================================
