----------------------------- MODULE MCFedAsync -----------------------------
(* Instances of FedAsync for TLC: the failures of each run. *)
EXTENDS FedAsync

\* All kinds of failure together, and all of them but failed uploads.
AllFaults == {FaultKinds, FaultKinds \ {"upload"}}

\* Nothing fails.
NoFaults == {{}}
=============================================================================
