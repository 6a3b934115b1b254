----------------------------- MODULE MCDetection ----------------------------
(* The detection side for TLC: pipeline, correlation and packet windows.  They *)
(* share no state but the clock, so a run takes one of them at a time: its     *)
(* graph is the union of theirs, not the product.                              *)
EXTENDS AlertPipeline, SiemCorrelation, PacketWindows, TLC

CONSTANTS r1, r2, logins, beacon, ip1, ip2, portscan, brute, leak, web, lan

VARIABLE part   \* the component under check

vars == <<part, pipelineVars, siemVars, windowVars>>

OneRule == {beacon}
TwoPrints == {logins, beacon}
NoPrints == {}
TwoReporters == {r1, r2}
Swapped == Permutations(TwoReporters)
TwoAddresses == {ip1, ip2}
ThreeTypes == {portscan, brute, leak}
ScanType == {portscan}
BruteType == {brute}
LeakType == {leak}
NoType == {}
WebSource == {web}
LanHost == {lan}
TwoPorts == {22, 80}
TwoSizes == {1, 2}

Init ==
    /\ part \in {"pipeline", "siem", "windows"}
    /\ PipelineInit /\ SiemInit /\ WindowsInit

Next ==
    \/ part = "pipeline" /\ PipelineNext /\ UNCHANGED <<part, seen, feed, fired, reported, feeds, due,
                                          packetTimes, portsTried, bytesSent, raised, packets, history>>
    \/ part = "siem" /\ SiemNext /\ UNCHANGED <<part, lastId, call, state, recent, silenced, events, memory,
                                          store, arrived, finished, unsaved, trouble,
                                          packetTimes, portsTried, bytesSent, raised, packets, history>>
    \/ part = "windows" /\ WindowsNext /\ UNCHANGED <<part, lastId, call, state, recent, silenced, events,
                                          memory, store, arrived, finished, unsaved, trouble,
                                          seen, feed, fired, reported, feeds, due>>

Spec == Init /\ [][Next]_vars

TypeOK == PipelineTypeOK /\ SiemTypeOK /\ WindowsTypeOK
=============================================================================
