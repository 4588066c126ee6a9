------------------------------ MODULE MCFLSync ------------------------------
(* Instances of FLSync for TLC: the failures of each run. *)
EXTENDS FLSync

\* The round limit runs out, and requests are refused or unanswered.
LateRounds == {"roundTimeout", "request"}

\* Everything that may go wrong around EDC short of an overrun round or a lost
\* upload.
TransferFaults == {"request", "transfer", "negotiation"}

\* All that can go wrong with the dataspace, and clients the server outlives.
DataspaceFaults == FaultKinds \ {"request"}

\* Nextcloud refuses PUTs.
UploadFaults == {"upload"}
=============================================================================
