--------------------------- MODULE MCSoarBlocklist ---------------------------
(* Instances of SoarBlocklist for TLC. *)
EXTENDS SoarBlocklist, TLC

CONSTANTS ip1, worker, api1

OneIp == {ip1}
NoIps == {}
TwoThreads == {worker, api1}
OnlyUfw == {"ufw"}
SimulateOrIptables == {"simulate", "iptables"}
AnyTTL == {0, 1}
Plain == {"plain"}
=============================================================================
