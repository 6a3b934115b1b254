--------------------------- MODULE SyslogReceiver ---------------------------
(* modules/syslog_receiver.py: syslog over UDP and TCP.  Each TCP connection   *)
(* has a thread and one of a bounded number of slots; what it receives comes   *)
(* in chunks cut anywhere and is put together to lines.                        *)
(*                                                                             *)
(* A piece of text is the set of the keyword rules it holds; NewLine ends one. *)
(* A character of several bytes is two pieces, Lead and Trail, which recv may  *)
(* part; Mark is what stands for the bytes of a broken one (U+FFFD).           *)
(*                                                                             *)
(* An operator that stands right above another one with the same parameters    *)
(* and is used nowhere is a faulty variant of it (PROJECT.json, "mutants").    *)
EXTENDS SocClock, Integers, Sequences, FiniteSets

CONSTANTS
    Links,              \* TCP connections
    LogHosts, Origins,  \* hosts that log; addresses, of which:
    Foreign,            \* those no private prefix matches
    Pieces, Chunks,     \* pieces of text; what one recv may return
    MaxConns, EventCap, \* slots; length of the deque of events
    MaxReceived         \* bound

NewLine == {0}
Lead == {-1}
Trail == {-2}
Mark == {-3}
Text == Pieces \cup {NewLine, Lead, Trail, Mark}

ASSUME SyslogNumbers == {MaxConns, EventCap, MaxReceived} \subseteq Nat /\ MaxConns > 0 /\ EventCap > 0
ASSUME SyslogTexts ==
    /\ {NewLine, Lead, Trail, Mark} \cap Pieces = {}
    /\ Chunks \subseteq Seq(Text \ {Mark}) \ {<<>>}
ASSUME SyslogSenders == None \notin LogHosts

\* _KEYWORD_RULES in their order, and _CATEGORY_THREAT.
KeywordRules == <<
    [severity |-> "HIGH", threat |-> "BRUTE_FORCE"],       \* failed password, invalid user
    [severity |-> "MEDIUM", threat |-> "ANOMALY"],         \* unauthorized
    [severity |-> "CRITICAL", threat |-> "WEB_ATTACK"],    \* SQL injection
    [severity |-> "HIGH", threat |-> "WEB_ATTACK"],        \* XSS
    [severity |-> "HIGH", threat |-> "WEB_ATTACK"],        \* path traversal
    [severity |-> "HIGH", threat |-> "PORT_SCAN"],         \* scanners
    [severity |-> "CRITICAL", threat |-> "MALWARE_BEACON"] \* malware, C2
>>

\* classify_syslog of a message: the first rule it matches (an access line is
\* the access log's to judge, with the same kind of answer).
ClassifySyslog(text) ==
    LET hit == text \cap DOMAIN KeywordRules
    IN IF hit = {} THEN [severity |-> "INFO", threat |-> None, suspicious |-> FALSE]
       ELSE LET rule == KeywordRules[CHOOSE i \in hit : \A j \in hit : i <= j]
            IN [severity |-> rule.severity, threat |-> rule.threat, suspicious |-> TRUE]

VARIABLES
    loops,      \* the receiver's threads that run, of "udp", "accept" and "demo"
    link,       \* each connection: "new", "refused", "dropped" (its thread did not
                \* start), "accepted", "open" (in recv), "lines" (in the loop over
                \* what it got), "breaks" (an exception leaves it), "closed" or "broken"
    slots,      \* value of the semaphore
    buf,        \* the text of a connection not taken yet, piece by piece
    inbox,      \* all a connection has received, and the places where a recv ended
    ends,       \* in it (history)
    kept,       \* the lines recorded of a connection, each with its end (history)
    heard,      \* all events recorded (history)
    logEvents,  \* deque of events
    originCount, hostCount, logStats,
    mapped, alertsOut,          \* handed to the attack map and MITRE; to report_alert
    received

syslogVars == <<now, loops, link, slots, buf, inbox, ends, kept, heard, logEvents, originCount, hostCount, logStats, mapped, alertsOut, received>>

SyslogInit ==
    /\ loops = {"udp", "accept", "demo"}
    /\ link = [l \in Links |-> "new"]
    /\ slots = MaxConns
    /\ buf = [l \in Links |-> <<>>] /\ inbox = buf /\ kept = buf /\ ends = [l \in Links |-> {}]
    /\ logEvents = <<>> /\ heard = <<>> /\ mapped = {} /\ alertsOut = {} /\ received = 0
    /\ originCount = [o \in Origins |-> 0] /\ hostCount = [h \in LogHosts |-> 0]
    /\ logStats = [total |-> 0, received |-> 0, demo |-> 0, suspicious |-> 0, rejected |-> 0, active |-> 0]

-----------------------------------------------------------------------------
(* _handle, _record and _escalate of a line *)

EventOf(line, origin, host, demo) ==
    LET judged == ClassifySyslog(UNION {line[i] : i \in DOMAIN line})
    IN [origin |-> origin, host |-> host, demo |-> demo,
        suspicious |-> judged.suspicious, severity |-> judged.severity, threat |-> judged.threat]

\* The event is recorded, then told to the browsers; when that raises (raised),
\* it is not escalated, and whoever handed the line over gets the exception.
Handle(line, origin, host, demo, raised) ==
    LET e == EventOf(line, origin, host, demo)
        escalated == e.suspicious /\ origin \in Foreign /\ ~raised
    IN /\ heard' = Append(heard, e)
       \* A deque that is full loses its oldest event.
       /\ logEvents' = Append(IF Len(logEvents) = EventCap THEN Tail(logEvents) ELSE logEvents, e)
       /\ originCount' = [originCount EXCEPT ![origin] = @ + 1]
       /\ hostCount' = IF host = None THEN hostCount ELSE [hostCount EXCEPT ![host] = @ + 1]
       /\ logStats' = [logStats EXCEPT !.total = @ + 1,
                                       !.suspicious = IF e.suspicious THEN @ + 1 ELSE @,
                                       !.demo = IF demo THEN @ + 1 ELSE @,
                                       !.received = IF demo THEN @ ELSE @ + 1]
       /\ mapped' = IF escalated /\ e.severity \in {"HIGH", "CRITICAL"} THEN mapped \cup {origin} ELSE mapped
       /\ alertsOut' = IF escalated THEN alertsOut \cup {[type |-> e.threat, level |-> e.severity, src |-> origin]}
                                    ELSE alertsOut

Receive == received < MaxReceived /\ received' = received + 1

\* A line of a datagram in _udp_loop: its end ends the last one; the demo loop
\* makes such lines up. Neither loop outlives an exception.
Datagram(demo, raised) ==
    LET loop == IF demo THEN "demo" ELSE "udp"
    IN  /\ loop \in loops /\ Receive
        /\ loops' = IF raised THEN loops \ {loop} ELSE loops
        /\ \E piece \in Pieces, origin \in Origins, host \in LogHosts \cup {None} :
              Handle(<<piece>>, origin, host, demo, raised)
        /\ UNCHANGED <<now, link, slots, buf, inbox, ends, kept>>

-----------------------------------------------------------------------------
(* TCP *)

\* _tcp_accept_loop: a connection too many is closed at once.
Refuse(l) ==
    /\ "accept" \in loops /\ link[l] = "new" /\ slots = 0
    /\ link' = [link EXCEPT ![l] = "refused"]
    /\ logStats' = [logStats EXCEPT !.rejected = @ + 1]
    /\ UNCHANGED <<now, loops, slots, buf, inbox, ends, kept, heard, logEvents, originCount, hostCount, mapped, alertsOut, received>>

\* The slot is taken before the thread is started; when the start fails, nobody
\* gives it back and the exception ends the loop.
Accept(l, starts) ==
    /\ "accept" \in loops /\ link[l] = "new" /\ slots > 0
    /\ slots' = slots - 1
    /\ link' = [link EXCEPT ![l] = IF starts THEN "accepted" ELSE "dropped"]
    /\ loops' = IF starts THEN loops ELSE loops \ {"accept"}
    /\ UNCHANGED <<now, buf, inbox, ends, kept, heard, logEvents, originCount, hostCount, logStats, mapped, alertsOut, received>>

\* Its thread starts.
Serve(l) ==
    /\ link[l] = "accepted" /\ link' = [link EXCEPT ![l] = "open"]
    /\ logStats' = [logStats EXCEPT !.active = @ + 1]
    /\ UNCHANGED <<now, loops, slots, buf, inbox, ends, kept, heard, logEvents, originCount, hostCount, mapped, alertsOut, received>>

\* The test of the inner loop.
NextStop(text) == IF NewLine \in {text[i] : i \in DOMAIN text} THEN "lines" ELSE "open"
\* buf.split("\n", 1): the first newline is at e.
FirstEnd(text, e) == text[e] = NewLine /\ \A i \in 1..(e - 1) : text[i] # NewLine
RestDropped(text, e) == <<>>
RestAfter(text, e) == SubSeq(text, e + 1, Len(text))

\* What a text reads as that was decoded in parts which end at the places ends:
\* a character is whole when both its halves are there and in the same part.
Whole(text, cuts, i) ==
    /\ text[i] = Lead => i \notin cuts /\ i + 1 \in DOMAIN text /\ text[i + 1] = Trail
    /\ text[i] = Trail => i - 1 \notin cuts /\ i - 1 \in DOMAIN text /\ text[i - 1] = Lead
Read(text, cuts) == [i \in DOMAIN text |-> IF Whole(text, cuts, i) THEN text[i] ELSE Mark]

\* _tcp_serve: recv returns a chunk, which is decoded on its own.
Chunk(l) ==
    /\ link[l] = "open" /\ Receive
    /\ \E chunk \in Chunks :
          LET text == Read(chunk, {Len(chunk)})
          IN  /\ buf' = [buf EXCEPT ![l] = @ \o text]
              /\ inbox' = [inbox EXCEPT ![l] = @ \o chunk]
              /\ ends' = [ends EXCEPT ![l] = @ \cup {Len(inbox'[l])}]
              /\ link' = [link EXCEPT ![l] = NextStop(buf[l] \o text)]
    /\ UNCHANGED <<now, loops, slots, kept, heard, logEvents, originCount, hostCount, logStats, mapped, alertsOut>>

\* One turn of the inner loop; a line that names no address is its peer's. An
\* exception ends the connection, and what it had not taken yet is not read.
TakeLine(l, raised) ==
    /\ link[l] = "lines"
    /\ \E e \in DOMAIN buf[l] :
          /\ FirstEnd(buf[l], e)
          /\ buf' = [buf EXCEPT ![l] = RestAfter(@, e)]
          /\ link' = [link EXCEPT ![l] = IF raised THEN "breaks" ELSE NextStop(RestAfter(buf[l], e))]
          /\ IF e = 1     \* nothing, or white space
             THEN ~raised /\ UNCHANGED <<kept, heard, logEvents, originCount, hostCount, logStats, mapped, alertsOut>>
             ELSE LET line == SubSeq(buf[l], 1, e - 1)
                  IN /\ kept' = [kept EXCEPT ![l] = Append(@, [at |-> Len(inbox[l]) - Len(buf[l]) + e, text |-> line])]
                     /\ \E origin \in Origins, host \in LogHosts \cup {None} : Handle(line, origin, host, FALSE, raised)
    /\ UNCHANGED <<now, loops, slots, inbox, ends, received>>

\* End of stream, error, 30 s of silence or an exception: what is left is lost.
Hangup(l) ==
    /\ link[l] \in {"open", "breaks"}
    /\ link' = [link EXCEPT ![l] = IF @ = "open" THEN "closed" ELSE "broken"]
    /\ logStats' = [logStats EXCEPT !.active = @ - 1]
    /\ slots' = slots + 1
    /\ UNCHANGED <<now, loops, buf, inbox, ends, kept, heard, logEvents, originCount, hostCount, mapped, alertsOut, received>>

SyslogNext ==
    \/ \E demo, raised \in BOOLEAN : Datagram(demo, raised)
    \/ \E l \in Links : Refuse(l) \/ Serve(l) \/ Chunk(l) \/ Hangup(l)
    \/ \E l \in Links, starts \in BOOLEAN : Accept(l, starts)
    \/ \E l \in Links, raised \in BOOLEAN : TakeLine(l, raised)

SyslogSpec == SyslogInit /\ [][SyslogNext]_syslogVars

-----------------------------------------------------------------------------
\* The lines of a text that are not blank: what stands between two newlines,
\* and where it ends.
Spans(text) == {q \in (0..Len(text)) \X (1..Len(text)) :
    /\ q[1] + 1 < q[2] /\ text[q[2]] = NewLine /\ (q[1] = 0 \/ text[q[1]] = NewLine)
    /\ \A i \in (q[1] + 1)..(q[2] - 1) : text[i] # NewLine}
LinesOf(text) == {[at |-> q[2], text |-> SubSeq(text, q[1] + 1, q[2] - 1)] : q \in Spans(text)}

\* What a connection sent, as its parts were decoded.
Stream(l) == Read(inbox[l], ends[l])

\* However the text is cut into chunks, the lines recorded of a connection are
\* the ones its stream holds, each once, in order and without a gap, and whole but
\* for characters a chunk's end cut in two; between two recv none of them waits.
LinesAreTheStreams == \A l \in Links :
    LET there == {kept[l][i] : i \in DOMAIN kept[l]}
    IN  /\ there \subseteq LinesOf(Stream(l))
        /\ \A i, j \in DOMAIN kept[l] : i < j => kept[l][i].at < kept[l][j].at
        /\ \A line \in LinesOf(Stream(l)) : line \in there \/ \A k \in there : k.at < line.at
        /\ link[l] \notin {"lines", "breaks", "broken"} => LinesOf(Stream(l)) \subseteq there

\* Every slot is free or held by a connection that is served, but for one: the slot
\* of a thread that did not start is lost, and no connection is accepted any more.
SlotsAreHeld ==
    LET lost == {l \in Links : link[l] = "dropped"}
    IN  /\ slots + Cardinality({l \in Links : link[l] \in {"accepted", "open", "lines", "breaks"}}) + Cardinality(lost) = MaxConns
        /\ \A l \in lost : lost = {l} /\ "accept" \notin loops
        /\ logStats.active = Cardinality({l \in Links : link[l] \in {"open", "lines", "breaks"}})
        /\ logStats.rejected = Cardinality({l \in Links : link[l] = "refused"})

\* The counters count the events, of which the newest are at hand.
CountsAgree ==
    /\ logStats.total = Len(heard) /\ logStats.total = logStats.received + logStats.demo
    /\ \A o \in Origins : originCount[o] = Cardinality({i \in DOMAIN heard : heard[i].origin = o})
    /\ \A h \in LogHosts : hostCount[h] = Cardinality({i \in DOMAIN heard : heard[i].host = h})
    /\ logStats.suspicious = Cardinality({i \in DOMAIN heard : heard[i].suspicious})
    /\ logStats.demo = Cardinality({i \in DOMAIN heard : heard[i].demo})
    /\ Len(logEvents) = IF Len(heard) < EventCap THEN Len(heard) ELSE EventCap
    /\ \A i \in DOMAIN logEvents : logEvents[i] = heard[Len(heard) - Len(logEvents) + i]

(* However the text is cut into chunks, the lines recorded of a connection are *)
(* the ones its stream holds, each once, in order and without a gap, whole but *)
(* for characters a chunk's end cut in two; every slot is free or held by a    *)
(* connection that is served, but for the one that is lost when a thread does  *)
(* not start; the counters and the deque agree with the events that were       *)
(* recorded (syslog_receiver.py:228-279).                                      *)
LinesSurviveChunks == LinesAreTheStreams /\ SlotsAreHeld /\ CountsAgree

=============================================================================
