----------------------------- MODULE BulkRounds -----------------------------
(***************************************************************************)
(* What synchronous training promises (Readme.md, "Wait for all clients    *)
(* each round, then aggregate"): a bulk-synchronous computation.  Each     *)
(* worker starts from the current version, delivers once, and the next     *)
(* version is made of one delivery of every worker, all of them based on   *)
(* the version it replaces.  A worker may quit, which stops the rounds.    *)
(***************************************************************************)
EXTENDS Naturals

CONSTANTS Workers, Rounds

VARIABLES
  version,  \* of the shared result
  phase,    \* what each worker does in the current round
  basis,    \* the version each worker last started from
  alive     \* the workers that have not quit

vars == <<version, phase, basis, alive>>

Init ==
  /\ version = 0
  /\ phase = [w \in Workers |-> "idle"]
  /\ basis = [w \in Workers |-> 0]
  /\ alive = Workers

Start(w) ==
  /\ w \in alive
  /\ phase[w] = "idle" /\ version < Rounds
  /\ phase' = [phase EXCEPT ![w] = "working"]
  /\ basis' = [basis EXCEPT ![w] = version]
  /\ UNCHANGED <<version, alive>>

\* Also on behalf of a worker that quit once its work was handed over.
Deliver(w) ==
  /\ phase[w] = "working"
  /\ phase' = [phase EXCEPT ![w] = "delivered"]
  /\ UNCHANGED <<version, basis, alive>>

\* The deliveries make the next version, or they weigh nothing and are dropped.
Combine ==
  /\ \A w \in Workers : phase[w] = "delivered" /\ basis[w] = version
  /\ version' \in {version, version + 1}
  /\ phase' = [w \in Workers |-> "idle"]
  /\ UNCHANGED <<basis, alive>>

Quit(w) ==
  /\ w \in alive
  /\ alive' = alive \ {w}
  /\ \/ phase' = phase
     \/ phase[w] = "working" /\ phase' = [phase EXCEPT ![w] = "idle"]
  /\ UNCHANGED <<version, basis>>

Next == Combine \/ \E w \in Workers : Start(w) \/ Deliver(w) \/ Quit(w)

Spec == Init /\ [][Next]_vars
=============================================================================
