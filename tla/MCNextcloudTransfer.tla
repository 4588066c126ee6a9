------------------------ MODULE MCNextcloudTransfer ------------------------
(* Instances of NextcloudTransfer for TLC. *)
EXTENDS NextcloudTransfer

\* "research-centre-key" for all transfers.
OneKey == {f \in [Clients -> Keys] : \A c, d \in Clients : f[c] = f[d]}

\* Any keys.
AnyKeys == [Clients -> Keys]

\* Everything may fail.
AllFaults == {FaultKinds}

\* Nothing fails.
NoFaults == {{}}
=============================================================================
