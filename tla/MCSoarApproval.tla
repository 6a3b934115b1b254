--------------------------- MODULE MCSoarApproval ---------------------------
(* Instances of SoarApproval for TLC. *)
EXTENDS SoarApproval, TLC

CONSTANTS ip1, worker, api1

OneIp == {ip1}
NoIps == {}
OnlyApi == {api1}
OnlyWorker == {worker}
WorkerAndApi == {worker, api1}
=============================================================================
