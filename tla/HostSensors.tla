---------------------------- MODULE HostSensors -----------------------------
(* The sensors on the host, each with a set of what it need not look at again: *)
(* the process sensor (edr.py), the network monitor (net_monitor.py) with the  *)
(* purple-team drill that runs through it (purple_team.py), and YARA's         *)
(* automatic scans (yara_scanner.py).                                          *)
(* An operator that stands right above another one with the same parameters    *)
(* and is used nowhere is a faulty variant of it (PROJECT.json, "mutants").    *)
EXTENDS SocClock, Integers, Sequences, FiniteSets, FiniteSetsExt

CONSTANTS Pids, OwnPid, ProcessKinds,   \* the kinds _evaluate tells apart
          MaxProcesses,                 \* processes started in all (bound)
          NetPorts, UsualPorts, BadPeers, DrillPeer, MaxPasses,
          FilePaths, Scans,             \* the EDR loop and the directory watch
          SeenCap, MaxWrites, SensorEnd

ASSUME SensorAssumption == OwnPid \in Pids /\ DrillPeer \in BadPeers /\ SeenCap \in Nat
\* The monitor reports both, a port is no address.
ASSUME PeersAreNoPorts == BadPeers \cap (NetPorts \cup {None}) = {}

\* A file as it was written, and a scan of one.
FileVersion == [version : Nat, size : {"small", "big"}, second : Nat, bad : BOOLEAN]
FileScan == [path : FilePaths, key : FilePaths \X {"small", "big"} \X Nat, version : Nat, marked : BOOLEAN]
ASSUME NoneIsNoFile == None \notin FileVersion \cup FileScan

VARIABLES processes, edrSeen, detections, edrAlerts, kills, killAsked, started,
          listening, knownPorts, alertedIps, reports, passes, netPass, drillPass,
          files, fileSeen, scanning, yaraRules, yaraRead, yaraLost, yaraSkipped, writes

edrRest == <<processes, edrSeen, detections, edrAlerts, kills, killAsked, started>>
netRest == <<listening, knownPorts, alertedIps, reports, passes, netPass, drillPass>>
yaraRest == <<files, fileSeen, scanning, yaraRules, yaraRead, yaraLost, yaraSkipped, writes>>
sensorVars == <<now, edrRest, netRest, yaraRest>>

-----------------------------------------------------------------------------
(* Processes. A kind says what the rules find in name, command line, parent    *)
(* and path: [binary, revshell, tmpexec, webshell, encoded, busy, protected].  *)

Ioas(kind) ==
    {<<"IOA-BIN", kind.binary>> : b \in {x \in {kind.binary} : x # None}}
       \cup {i \in {<<"IOA-REVSHELL", "CRITICAL">>} : kind.revshell}
       \cup {i \in {<<"IOA-TMPEXEC", "HIGH">>} : kind.tmpexec}
       \cup {i \in {<<"IOA-WEBSHELL", "CRITICAL">>} : kind.webshell}
       \cup {i \in {<<"IOA-ENCODED", "HIGH">>} : kind.encoded}
       \cup {i \in {<<"IOA-HIGHCPU", "MEDIUM">>} : kind.busy /\ kind.binary = None}

Weight(ioa) ==
    CASE ioa[1] = "IOA-BIN" -> [CRITICAL |-> 70, HIGH |-> 45, MEDIUM |-> 25][ioa[2]]
      [] ioa[1] = "IOA-REVSHELL" -> 65
      [] ioa[1] = "IOA-TMPEXEC" -> 40
      [] ioa[1] = "IOA-WEBSHELL" -> 60
      [] ioa[1] = "IOA-ENCODED" -> 35
      [] OTHER -> 20

Risk(kind) == LET sum == FoldSet(LAMBDA i, n : n + Weight(i), 0, Ioas(kind))
              IN IF sum > 100 THEN 100 ELSE sum

IoaOrder == [CRITICAL |-> 4, HIGH |-> 3, MEDIUM |-> 2, LOW |-> 1]
RuleOrder == <<"IOA-BIN", "IOA-REVSHELL", "IOA-TMPEXEC", "IOA-WEBSHELL", "IOA-ENCODED", "IOA-HIGHCPU">>

\* The first of the most severe ones, in the order of the rules.
TopIoa(kind) ==
    LET rank == Max({IoaOrder[i[2]] : i \in Ioas(kind)})
        first == Min({n \in DOMAIN RuleOrder : \E i \in Ioas(kind) : i[1] = RuleOrder[n] /\ IoaOrder[i[2]] = rank})
    IN CHOOSE i \in Ioas(kind) : i[1] = RuleOrder[first]

StartProcess(pid, kind) ==
    /\ processes[pid] = None /\ started < MaxProcesses
    /\ started' = started + 1
    /\ processes' = [processes EXCEPT ![pid] = [kind |-> kind, birth |-> started]]
    /\ UNCHANGED <<now, edrSeen, detections, edrAlerts, kills, killAsked>>

ExitProcess(pid) ==
    /\ processes[pid] # None /\ pid # OwnPid
    /\ processes' = [processes EXCEPT ![pid] = None]
    /\ UNCHANGED <<now, edrSeen, detections, edrAlerts, kills, killAsked, started>>

Suspicious(pid) == processes[pid] # None /\ Ioas(processes[pid].kind) # {} /\ Risk(processes[pid].kind) >= 40
DetectionKey(pid) == <<pid, TopIoa(processes[pid].kind)[1]>>

\* The scan loop looks at every process it lists; report_alert may fail.
RaiseDetection(pid, fails) ==
    /\ Suspicious(pid)
    /\ DetectionKey(pid) \notin edrSeen
    /\ edrSeen' = edrSeen \cup {DetectionKey(pid)}
    /\ detections' = detections \cup {[pid |-> pid, birth |-> processes[pid].birth, rule |-> DetectionKey(pid)[2]]}
    /\ edrAlerts' = IF IoaOrder[TopIoa(processes[pid].kind)[2]] >= 3 /\ ~fails
                    THEN edrAlerts \cup {processes[pid].birth} ELSE edrAlerts
    /\ UNCHANGED <<now, processes, kills, killAsked, started>>

\* psutil may fail to name the process: then it counts as killable.
Killable(pid, named) == pid # OwnPid /\ (named /\ processes[pid] # None => ~processes[pid].kind.protected)

AskKill(pid, named) ==
    /\ killAsked = None
    /\ Killable(pid, named)
    /\ killAsked' = pid
    /\ UNCHANGED <<now, processes, edrSeen, detections, edrAlerts, kills, started>>

\* terminate goes to whatever has the pid by now.
TerminateProcess ==
    /\ killAsked # None
    /\ kills' = IF processes[killAsked] = None THEN kills ELSE kills \cup {<<killAsked, processes[killAsked].birth>>}
    /\ processes' = [processes EXCEPT ![killAsked] = None]
    /\ killAsked' = None
    /\ UNCHANGED <<now, edrSeen, detections, edrAlerts, started>>

EdrInit ==
    /\ processes = [p \in Pids |-> IF p = OwnPid THEN [kind |-> CHOOSE k \in ProcessKinds : k.protected, birth |-> -1] ELSE None]
    /\ edrSeen = {} /\ detections = {} /\ edrAlerts = {} /\ kills = {} /\ killAsked = None /\ started = 0

EdrNext ==
    \/ \E p \in Pids, k \in ProcessKinds : StartProcess(p, k)
    \/ \E p \in Pids : ExitProcess(p)
    \/ \E p \in Pids, b \in BOOLEAN : RaiseDetection(p, b) \/ AskKill(p, b)
    \/ TerminateProcess

-----------------------------------------------------------------------------
(* The network monitor. A pass of _finalize holds what it still has to do:     *)
(* [peers, event]; the loop runs one, the drill of the purple team another.    *)

Quiet == [peers |-> {}, event |-> None]
Idle(pass) == pass = Quiet

OpenPort(p) ==
    /\ p \notin listening
    /\ listening' = listening \cup {p}
    /\ UNCHANGED <<now, knownPorts, alertedIps, reports, passes, netPass, drillPass>>

ClosePort(p) ==
    /\ p \in listening
    /\ listening' = listening \ {p}
    /\ reports' = reports \ {p}
    /\ UNCHANGED <<now, knownPorts, alertedIps, passes, netPass, drillPass>>

\* The first half of _finalize: an empty baseline only learns.
Learn(ports) ==
    /\ reports' = IF knownPorts = {} THEN reports ELSE reports \cup ((ports \ knownPorts) \ UsualPorts)
    /\ knownPorts' = ports

\* net_connections may fail: the pass goes on with empty lists.
CollectPass(peers, fails) ==
    /\ Idle(netPass) /\ passes < MaxPasses
    /\ Learn(IF fails THEN {} ELSE listening)
    /\ netPass' = [peers |-> IF fails THEN {} ELSE peers, event |-> None]
    /\ passes' = passes + 1
    /\ UNCHANGED <<now, listening, alertedIps, drillPass>>

\* _sc_malicious_ip forgets the address and feeds a pass of its own, no ports in it.
Drill ==
    /\ Idle(drillPass) /\ passes < MaxPasses
    /\ alertedIps' = alertedIps \ {DrillPeer}
    /\ Learn({})
    /\ drillPass' = [peers |-> {DrillPeer}, event |-> None]
    /\ passes' = passes + 1
    /\ UNCHANGED <<now, listening, netPass>>

\* One peer of a pass: what the reputation service says of it.
Looked(pass, peer, answer) ==
    [peers |-> pass.peers \ {peer},
     event |-> IF peer \notin alertedIps /\ answer = "trusted" /\ peer \in BadPeers THEN peer ELSE None]
Marked(peer, answer) ==
    IF answer = "trusted" /\ peer \in BadPeers THEN alertedIps \cup {peer} ELSE alertedIps

LookUp(peer, answer) ==
    /\ peer \in netPass.peers /\ netPass.event = None
    /\ netPass' = Looked(netPass, peer, answer)
    /\ alertedIps' = Marked(peer, answer)
    /\ UNCHANGED <<now, listening, knownPorts, reports, passes, drillPass>>

DrillLookUp(peer, answer) ==
    /\ peer \in drillPass.peers /\ drillPass.event = None
    /\ drillPass' = Looked(drillPass, peer, answer)
    /\ alertedIps' = Marked(peer, answer)
    /\ UNCHANGED <<now, listening, knownPorts, reports, passes, netPass>>

RaiseEvent ==
    /\ netPass.event # None
    /\ reports' = reports \cup {netPass.event}
    /\ netPass' = [netPass EXCEPT !.event = None]
    /\ UNCHANGED <<now, listening, knownPorts, alertedIps, passes, drillPass>>

DrillEvent ==
    /\ drillPass.event # None
    /\ reports' = reports \cup {drillPass.event}
    /\ drillPass' = [drillPass EXCEPT !.event = None]
    /\ UNCHANGED <<now, listening, knownPorts, alertedIps, passes, netPass>>

NetInit ==
    /\ listening \in SUBSET NetPorts
    /\ knownPorts = {} /\ alertedIps = {} /\ reports = {} /\ passes = 0
    /\ netPass = Quiet /\ drillPass = Quiet

NetNext ==
    \/ \E p \in NetPorts : OpenPort(p) \/ ClosePort(p)
    \/ \E peers \in SUBSET BadPeers, b \in BOOLEAN : CollectPass(peers, b)
    \/ \E peer \in BadPeers, a \in {"trusted", "untrusted", "failed"} : LookUp(peer, a) \/ DrillLookUp(peer, a)
    \/ Drill \/ RaiseEvent \/ DrillEvent

-----------------------------------------------------------------------------
(* YARA. A file is [version, size, second, bad]; the versions are the        *)
(* model's, the scanner sees size and second.                                  *)

PathAndSize(path) == <<path, files[path].size>>
SeenKey(path) == <<path, files[path].size, files[path].second>>

\* Two writes within a second that keep the size are the one change the key
\* cannot tell: here no version has the size and second of an earlier one (bound).
WriteFileAt(path, size, bad) ==
    /\ Cardinality(writes) < MaxWrites
    /\ <<path, size, now>> \notin writes
    /\ writes' = writes \cup {<<path, size, now>>}
    /\ files' = [files EXCEPT ![path] = [version |-> Cardinality(writes), size |-> size, second |-> now, bad |-> bad]]
    /\ UNCHANGED <<now, fileSeen, scanning, yaraRules, yaraRead, yaraLost, yaraSkipped>>

LoadRules(compiles) ==
    /\ yaraRules' = (yaraRules \/ compiles)
    /\ yaraRules' # yaraRules
    /\ UNCHANGED <<now, files, fileSeen, scanning, yaraRead, yaraLost, yaraSkipped, writes>>

\* scan_once: stat, then test and mark in one critical section, then scan_file.
StatFile(c, path) ==
    /\ scanning[c] = None /\ files[path] # None
    /\ scanning' = [scanning EXCEPT ![c] = [path |-> path, key |-> SeenKey(path),
                                            version |-> files[path].version, marked |-> FALSE]]
    /\ UNCHANGED <<now, files, fileSeen, yaraRules, yaraRead, yaraLost, yaraSkipped, writes>>

\* Over the cap the older half goes; a set has no order, so it is any half.
MarkSeen(c) ==
    /\ scanning[c] # None /\ ~scanning[c].marked
    /\ IF scanning[c].key \in fileSeen
       THEN /\ yaraSkipped' = yaraSkipped \cup {<<scanning[c].path, scanning[c].version>>}
            /\ scanning' = [scanning EXCEPT ![c] = None]
            /\ UNCHANGED fileSeen
       ELSE /\ LET marked == fileSeen \cup {scanning[c].key}
               IN IF Cardinality(marked) > SeenCap
                  THEN \E dropped \in kSubset(SeenCap \div 2, marked) : fileSeen' = marked \ dropped
                  ELSE fileSeen' = marked
            /\ scanning' = [scanning EXCEPT ![c].marked = TRUE]
            /\ UNCHANGED yaraSkipped
    /\ UNCHANGED <<now, files, yaraRules, yaraRead, yaraLost, writes>>

\* No rules, a file over the limit, an unreadable one or a time-out: nothing was read.
ScanFile(c, fails) ==
    /\ scanning[c] # None /\ scanning[c].marked
    /\ LET file == files[scanning[c].path]
           reads == yaraRules /\ file.size # "big" /\ ~fails
       IN /\ yaraRead' = IF reads THEN yaraRead \cup {[path |-> scanning[c].path, version |-> file.version,
                                                       reported |-> file.bad]}
                         ELSE yaraRead
          /\ yaraLost' = IF reads THEN yaraLost ELSE yaraLost \cup {<<scanning[c].path, scanning[c].version>>}
    /\ scanning' = [scanning EXCEPT ![c] = None]
    /\ UNCHANGED <<now, files, fileSeen, yaraRules, yaraSkipped, writes>>

YaraTick ==
    /\ now < SensorEnd
    /\ now' = now + 1
    /\ UNCHANGED <<files, fileSeen, scanning, yaraRules, yaraRead, yaraLost, yaraSkipped, writes>>

YaraInit ==
    /\ now = 0
    /\ files = [p \in FilePaths |-> None] /\ fileSeen = {} /\ scanning = [c \in Scans |-> None]
    /\ yaraRules = FALSE /\ yaraRead = {} /\ yaraLost = {} /\ yaraSkipped = {} /\ writes = {}

YaraNext ==
    \/ \E p \in FilePaths, s \in {"small", "big"}, b \in BOOLEAN : WriteFileAt(p, s, b)
    \/ \E c \in Scans, p \in FilePaths : StatFile(c, p)
    \/ \E c \in Scans, b \in BOOLEAN : ScanFile(c, b)
    \/ \E c \in Scans : MarkSeen(c)
    \/ \E b \in BOOLEAN : LoadRules(b)
    \/ YaraTick

\* The sensors side by side, each in threads of its own.
SensorInit == EdrInit /\ NetInit /\ YaraInit
SensorNext ==
    \/ EdrNext /\ UNCHANGED <<netRest, yaraRest>>
    \/ NetNext /\ UNCHANGED <<edrRest, yaraRest>>
    \/ YaraNext /\ UNCHANGED <<edrRest, netRest>>
SensorSpec == SensorInit /\ [][SensorNext]_sensorVars

-----------------------------------------------------------------------------
\* An address the monitor no longer looks up has been reported, or is about to be.
AlertedWasReported == alertedIps \subseteq reports \cup {netPass.event, drillPass.event}

\* What the scanner skipped as seen, in this version, somebody has read in this or
\* a later version, is reading, or tried to read and could not.
SkippedWasRead ==
    \A s \in yaraSkipped :
       \/ \E r \in yaraRead : r.path = s[1] /\ r.version >= s[2]
       \/ s \in yaraLost
       \/ \E c \in Scans : scanning[c] # None /\ scanning[c].path = s[1] /\ scanning[c].version = s[2]

\* Neither monitor nor scanner passes over what nobody has dealt with.
PassedOverWasHandled == AlertedWasReported /\ SkippedWasRead

=============================================================================
