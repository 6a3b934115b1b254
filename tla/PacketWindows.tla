---------------------------- MODULE PacketWindows ---------------------------
(* modules/threat_detector.py (analyze_packet, _prune_windows): the sliding    *)
(* windows in which the packet sensor counts packets, ports and bytes of each  *)
(* source, and the pruning that keeps them from growing with spoofed sources.  *)
(* Both hold _win_lock throughout.  A list of entries is the set of them, each *)
(* with the number of its packet for its place.                                *)
(*                                                                             *)
(* An operator that stands right above another one with the same parameters    *)
(* and is used nowhere is a faulty variant of it (PROJECT.json, "mutants").    *)
EXTENDS SocClock, Integers, FiniteSets, FiniteSetsExt

CONSTANTS
    Outside, Internal,   \* sources; a trusted one changes nothing
    Ports, Sizes,
    FloodMin, ScanMin, ExfilMax,                   \* thresholds
    FloodSpan, ScanSpan, ExfilSpan,                \* windows: 3 s, 30 s, DATA_EXFIL_WINDOW_SECONDS
    FloodHorizon, ScanHorizon, ExfilHorizon,       \* pruning: 10 s, 60 s, 360 s
    MaxPackets, WindowsEnd

ASSUME WindowNumbers ==
    {FloodMin, ScanMin, ExfilMax, FloodSpan, ScanSpan, ExfilSpan, FloodHorizon, ScanHorizon,
     ExfilHorizon, MaxPackets, WindowsEnd} \subseteq Nat /\ Sizes \subseteq Nat
\* What the pruning relies on, between numbers written in the code.  The window
\* of the bytes is a setting of at least ten seconds and any length at all: it may
\* be shorter or longer than the time after which the bytes are pruned.
ASSUME SpansBelowHorizons == FloodSpan <= FloodHorizon /\ ScanSpan <= ScanHorizon
ASSUME ExfilSpanIsSet == ExfilSpan > 0

VARIABLES
    packetTimes,   \* _ip_packet_window
    portsTried,    \* _ip_port_window
    bytesSent,     \* _ip_byte_window
    raised,        \* alerts handed to _add_alert
    packets,       \* packets seen
    history        \* each source's packets since the last alert they led to (history)

windowVars == <<now, packetTimes, portsTried, bytesSent, raised, packets, history>>

Sources == Outside \cup Internal
NoHistory == [flood |-> {}, scan |-> {}, exfil |-> {}]

WindowsInit ==
    /\ now = 0 /\ packets = 0 /\ raised = {}
    /\ packetTimes = [s \in Sources |-> {}]
    /\ portsTried = [s \in Sources |-> {}]
    /\ bytesSent = [s \in Sources |-> {}]
    /\ history = [s \in Sources |-> NoHistory]

Bytes(entries) == MapThenSumSet(LAMBDA e : e.size, entries)
YoungTimes(times) == {e \in times : now - e.at < FloodSpan}
YoungPorts(tries) == {p \in tries : now - p[2] < ScanSpan}
YoungBytes(entries) == {e \in entries : now - e.at < ExfilSpan}

\* analyze_packet for a source outside: flood and scan.
OutsidePacket(s, port, small) ==
    /\ s \in Outside /\ packets < MaxPackets
    /\ LET entry == [n |-> packets, at |-> now]
           times == YoungTimes(packetTimes[s] \cup {entry})
           tries == IF small THEN YoungPorts(portsTried[s] \cup {<<port, now>>}) ELSE portsTried[s]
           flood == Cardinality(times) > FloodSpan * FloodMin
           scan == small /\ Cardinality({p[1] : p \in tries}) >= ScanMin
       IN /\ packetTimes' = [packetTimes EXCEPT ![s] = IF flood THEN {} ELSE times]
          /\ portsTried' = [portsTried EXCEPT ![s] = IF scan THEN {} ELSE tries]
          /\ raised' = raised \cup {k \in {"DDOS", "PORT_SCAN"} : (k = "DDOS" /\ flood) \/ (k = "PORT_SCAN" /\ scan)}
          /\ history' = [history EXCEPT
                 ![s].flood = IF flood THEN {} ELSE @ \cup {entry},
                 ![s].scan = IF scan THEN {} ELSE IF small THEN @ \cup {<<port, now>>} ELSE @]
    /\ packets' = packets + 1
    /\ UNCHANGED <<now, bytesSent>>

\* analyze_packet for an internal source and a destination outside that is not
\* in DATA_EXFIL_ALLOWLIST.
InternalPacket(s, size) ==
    /\ s \in Internal /\ packets < MaxPackets
    /\ LET entry == [n |-> packets, at |-> now, size |-> size]
           sent == YoungBytes(bytesSent[s] \cup {entry})
           exfil == Bytes(sent) > ExfilMax
       IN /\ bytesSent' = [bytesSent EXCEPT ![s] = IF exfil THEN {} ELSE sent]
          /\ raised' = IF exfil THEN raised \cup {"DATA_EXFIL"} ELSE raised
          /\ history' = [history EXCEPT ![s].exfil = IF exfil THEN {} ELSE @ \cup {entry}]
    /\ packets' = packets + 1
    /\ UNCHANGED <<now, packetTimes, portsTried>>

\* _last_ts: how long a list has been quiet is told by its last entry.
LongAgo(entries, horizon) ==
    entries # {} => \E last \in entries : (\A e \in entries : e.n <= last.n) /\ now - last.at > horizon
OneHorizon(s) == LongAgo(bytesSent[s], FloodHorizon)
QuietBytes(s) == LongAgo(bytesSent[s], ExfilHorizon)
QuietTimes(s) == LongAgo(packetTimes[s], FloodHorizon)
QuietPorts(s) == \A p \in portsTried[s] : now - p[2] > ScanHorizon

\* _prune_windows
Prune ==
    /\ packetTimes' = [s \in Sources |-> IF QuietTimes(s) THEN {} ELSE packetTimes[s]]
    /\ bytesSent' = [s \in Sources |-> IF QuietBytes(s) THEN {} ELSE bytesSent[s]]
    /\ portsTried' = [s \in Sources |-> IF QuietPorts(s) THEN {} ELSE portsTried[s]]
    /\ UNCHANGED <<now, raised, packets, history>>

WindowsTick ==
    /\ now < WindowsEnd /\ now' = now + 1
    /\ UNCHANGED <<packetTimes, portsTried, bytesSent, raised, packets, history>>

WindowsNext ==
    \/ \E s \in Outside, port \in Ports, small \in BOOLEAN : OutsidePacket(s, port, small)
    \/ \E s \in Internal, size \in Sizes : InternalPacket(s, size)
    \/ Prune
    \/ WindowsTick

WindowsSpec == WindowsInit /\ [][WindowsNext]_windowVars

-----------------------------------------------------------------------------
WindowsTypeOK ==
    /\ \A s \in Sources : \A e \in packetTimes[s] : e.at \in 0..now
    /\ \A s \in Sources : portsTried[s] \subseteq Ports \X (0..now)
    /\ raised \subseteq {"DDOS", "PORT_SCAN", "DATA_EXFIL"}

\* The source was silent, some time after e, for longer than the pruning waits.
SilentAfter(e, entries) ==
    \E last \in entries :
        /\ e.n <= last.n /\ now - last.at > ExfilHorizon
        /\ \A f \in entries : f.n > last.n => f.at - last.at > ExfilHorizon

(* Pruning and trimming take nothing away that still counts: what a source did *)
(* within the span of a rule, since that rule last fired for it, is what the   *)
(* next packet will be judged with.  Otherwise a slow scan or a slow leak      *)
(* would slip through between two runs of the emit loop.  Of the bytes, whose  *)
(* span an operator may set beyond the pruning, only those are lost after      *)
(* which the source paused for longer than the pruning waits.                  *)
NothingYoungIsPruned ==
    \A s \in Sources :
        /\ YoungTimes(history[s].flood) = YoungTimes(packetTimes[s])
        /\ YoungPorts(history[s].scan) = YoungPorts(portsTried[s])
        /\ bytesSent[s] \subseteq history[s].exfil
        /\ \A e \in YoungBytes(history[s].exfil) \ bytesSent[s] : SilentAfter(e, history[s].exfil)
=============================================================================
