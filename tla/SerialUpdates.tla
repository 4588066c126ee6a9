--------------------------- MODULE SerialUpdates ---------------------------
(***************************************************************************)
(* What asynchronous training promises (Readme.md, "Aggregate immediately  *)
(* on each client update"): contributions are applied one at a time, each  *)
(* once and in the order its worker made them, every one makes a version,  *)
(* and the training is complete when every worker has made its Quota.      *)
(***************************************************************************)
EXTENDS Naturals

CONSTANTS Workers, Quota

VARIABLES
  version,   \* the number of contributions applied
  last,      \* the version that each worker's last contribution made
  applied,   \* the number of contributions of each worker
  complete

vars == <<version, last, applied, complete>>

Init ==
  /\ version = 0
  /\ last = [w \in Workers |-> 0]
  /\ applied = [w \in Workers |-> 0]
  /\ complete = FALSE

Apply(w) ==
  /\ ~complete
  /\ applied[w] < Quota
  /\ version' = version + 1
  /\ last' = [last EXCEPT ![w] = version + 1]
  /\ applied' = [applied EXCEPT ![w] = @ + 1]
  /\ UNCHANGED complete

Complete ==
  /\ \A w \in Workers : applied[w] = Quota
  /\ complete' = TRUE
  /\ UNCHANGED <<version, last, applied>>

Next == Complete \/ \E w \in Workers : Apply(w)

Spec == Init /\ [][Next]_vars
=============================================================================
