---------------------------- MODULE RoundService ----------------------------
(***************************************************************************)
(* What the network simulator is to the training: a service that is asked  *)
(* for one round after the other, simulates the rounds in that order, each *)
(* once, and answers for a round, once, after it was simulated.  It may be *)
(* behind, and stop for good, but it leaves no round out.                  *)
(***************************************************************************)
EXTENDS Naturals

CONSTANT NumRounds

VARIABLES
  asked,      \* rounds asked for
  begun,      \* rounds whose simulation began
  simulated,  \* and ended
  answered    \* rounds whose statistics were taken in full

vars == <<asked, begun, simulated, answered>>

Init == asked = 0 /\ begun = 0 /\ simulated = 0 /\ answered = 0

Ask ==
  /\ asked < NumRounds
  /\ asked' = asked + 1
  /\ UNCHANGED <<begun, simulated, answered>>

Begin ==
  /\ begun < asked /\ simulated = begun
  /\ begun' = begun + 1
  /\ UNCHANGED <<asked, simulated, answered>>

Finish ==
  /\ simulated < begun
  /\ simulated' = simulated + 1
  /\ UNCHANGED <<asked, begun, answered>>

Answer ==
  /\ answered < simulated
  /\ answered' = answered + 1
  /\ UNCHANGED <<asked, begun, simulated>>

Next == Ask \/ Begin \/ Finish \/ Answer

Spec == Init /\ [][Next]_vars
=============================================================================
