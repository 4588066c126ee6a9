----------------------------- MODULE MCStartUp -----------------------------
(* Instances of StartUp for TLC. *)
EXTENDS StartUp

\* Slow requests, with everybody's offers meeting the criteria; or any other
\* fault, with everybody's offers or not.
SlowOrFaulty ==
  {<<Clients, {"slow"}>>} \cup
  {<<e, FaultKinds \ {"slow"}>> : e \in {Clients, Clients \ {1}}}

\* Up to five examples, all or some of them used, even or uneven ratios, one for
\* each client, one too few or one too many.
Splits ==
  [length : 0..5, clients : {NumClients}, perClient : 0..3,
   ratios : {<<1>>, <<1, 1>>, <<1, 3>>, <<5, 1>>, <<1, 0>>, <<2, 1, 2>>}]
=============================================================================
