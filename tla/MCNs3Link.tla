----------------------------- MODULE MCNs3Link -----------------------------
(* Instances of Ns3Link for TLC. *)
EXTENDS Ns3Link

\* One client and every fault, or all but the one that tears a response; all
\* clients and every fault that leaves the connection up.
OneOrAll ==
  LET One == {CHOOSE c \in Clients : TRUE}
  IN {<<One, FaultKinds>>, <<One, FaultKinds \ {"stall"}>>,
      <<Clients, FaultKinds \ {"reset", "crash"}>>,
      <<Clients, {"crash"}>>}
=============================================================================
