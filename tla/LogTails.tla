------------------------------- MODULE LogTails -----------------------------
(* The readers of growing log files: access logs (access_log_parser.py), the   *)
(* ssh log (authlog_parser.py), Snort, Suricata and Zeek (snort_monitor.py,    *)
(* suricata_monitor.py, zeek_monitor.py), Sysmon's event log.  A writer adds   *)
(* to the file a part of a line at a time and rotates it; the reader polls.    *)
(*                                                                             *)
(* A behaviour has one reader.  Lines are numbered as they are written, and a  *)
(* file is the number its lines come after and how many halves of lines it     *)
(* holds; an offset counts halves.                                             *)
(*                                                                             *)
(* An operator that stands right above another one with the same parameters    *)
(* and is used nowhere is a faulty variant of it (PROJECT.json, "mutants").    *)
EXTENDS SocClock, Integers, Sequences, FiniteSets

CONSTANTS
    Readers,            \* of {"access", "auth", "snort", "suricata", "zeek", "sysmon"}
    Entry,              \* Entry[k]: what the k-th line says (see Says)
    BruteMinimum, BruteSpan, BruteCooldown, \* SSH_BRUTE_THRESHOLD, SSH_BRUTE_WINDOW, 300 s
    MaxRotations, MaxCrashes, MaxSlips, TailEnd \* bounds

ASSUME TailNumbers ==
    {BruteMinimum, BruteSpan, BruteCooldown, MaxRotations, MaxCrashes, MaxSlips, TailEnd} \subseteq Nat
ASSUME TailReaders ==
    /\ Readers \subseteq {"access", "auth", "snort", "suricata", "zeek", "sysmon"}
    /\ DOMAIN Entry \subseteq Nat \ {0}
ASSUME NoneIsNoLog == None \notin [after : Nat, halves : Nat]

VARIABLES
    reader,     \* which reader this is
    logFile,    \* None, or [after, halves]
    inode, written, \* number of the file; lines begun so far
    place,      \* how far the reader is: file it has open, offset in it, what it will do
    saved,      \* siem_offsets.json: offset (and of which file: history), backfilled
    backfilled, firstPass,
    taken,      \* taken[k]: how often the k-th line was processed to its end
    live,       \* lines whose processing reached the live path (SOAR, map, alert)
    late,       \* those that a first pass had found before (history)
    blind,      \* whether a first pass could not read the file that was there (history)
    torn, passedBy,     \* lines processed in parts; lines a reader went past unread (history)
    dropped,    \* lines lost to an exception: the one that raised, and the rest of its chunk (history)
    slips,      \* times a reader went back further than it had read (history)
    pastLines,  \* lines a first pass found, with no earlier one on record (history)
    failures, bruteAt,  \* _fail_window and _alerted of the one address
    bruteAlerts,        \* times of the alerts (history)
    crashes

tailVars == <<now, reader, logFile, inode, written, place, saved, backfilled, firstPass, taken, live, late,
              blind, torn, passedBy, dropped, slips, pastLines, failures, bruteAt, bruteAlerts, crashes>>
reading == <<taken, live, late, dropped>>
brute == <<failures, bruteAt, bruteAlerts>>
offsetState == <<saved, backfilled, firstPass, pastLines, blind>>

Lines == DOMAIN Entry
Size == IF logFile = None THEN 0 ELSE logFile.halves
Offset == reader \in {"access", "auth"}

\* The offset behind line k of the file; splitlines of the text between two offsets:
\* the lines it holds, and those it holds one end of.
EndOf(k) == 2 * (k - logFile.after)
WholeIn(from, to) == {k \in Lines : from + 2 <= EndOf(k) /\ EndOf(k) <= to}
TouchedIn(from, to) == {k \in Lines : from < to /\ from < EndOf(k) /\ EndOf(k) <= to + 1}
PartsIn(from, to) == TouchedIn(from, to) \ WholeIn(from, to)

TailInit ==
    /\ now = 0 /\ reader \in Readers
    /\ \/ logFile = None /\ written = 0
       \/ logFile = [after |-> 0, halves |-> 2] /\ written = 1
    /\ inode = 1
    \* _tail_loop of the ssh log starts at the end; the others open on their first poll.
    /\ place = [file |-> IF Offset THEN 1 ELSE 0, at |-> IF reader = "auth" THEN Size ELSE 0, pc |-> "poll"]
    /\ saved = [at |-> 0, file |-> 1, backfilled |-> FALSE] /\ backfilled = FALSE /\ firstPass = TRUE
    /\ taken = [k \in Lines |-> 0] /\ live = {} /\ late = {} /\ torn = {} /\ pastLines = {}
    /\ dropped = {} /\ slips = 0 /\ blind = FALSE
    /\ passedBy = IF reader = "auth" /\ logFile # None THEN {1} ELSE {}
    /\ failures = <<>> /\ bruteAt = None /\ bruteAlerts = {} /\ crashes = 0

-----------------------------------------------------------------------------
(* The writer, external *)

HalfWritten == logFile # None /\ Size < EndOf(written)
BeginLine ==
    /\ logFile # None /\ ~HalfWritten /\ written + 1 \in Lines
    /\ written' = written + 1
    /\ \E halves \in 1..2 : logFile' = [logFile EXCEPT !.halves = @ + halves]
    /\ UNCHANGED <<now, reader, inode, place, offsetState, reading, torn, passedBy, slips, brute, crashes>>
EndLine ==
    /\ HalfWritten /\ logFile' = [logFile EXCEPT !.halves = @ + 1]
    /\ UNCHANGED <<now, reader, inode, written, place, offsetState, reading, torn, passedBy, slips, brute, crashes>>
\* The file is moved away, and made again empty.
Rotate ==
    /\ ~HalfWritten /\ inode <= MaxRotations
    /\ IF logFile = None THEN logFile' = [after |-> written, halves |-> 0] /\ inode' = inode + 1
                         ELSE logFile' = None /\ UNCHANGED inode
    /\ UNCHANGED <<now, reader, written, place, offsetState, reading, torn, passedBy, slips, brute, crashes>>

-----------------------------------------------------------------------------
(* What a line leads to *)

\* classify_request: probes and scans only; the first test that holds.
ClassifyRequest(request, status) ==
    CASE request \in {"tls", "binary", "http2"} -> [suspicious |-> TRUE, severity |-> "HIGH", threat |-> "PORT_SCAN"]
      [] request = "scan" -> [suspicious |-> TRUE, severity |-> "CRITICAL", threat |-> "WEB_ATTACK"]
      [] request = "plain" /\ status >= 400 -> [suspicious |-> FALSE, severity |-> "LOW", threat |-> "ANOMALY"]
      [] OTHER -> [suspicious |-> FALSE, severity |-> "INFO", threat |-> "ANOMALY"]

\* parse_fast_alert and ingest_line of Snort: an excluded signature is no evidence.
SnortSays(e) ==
    [type |-> "SNORT_ALERT", evidence |-> IF e.excluded THEN {} ELSE {"snort_signature"},
     severity |-> IF e.grade = 1 THEN "CRITICAL" ELSE IF e.grade = 2 THEN "HIGH" ELSE "MEDIUM"]
\* parse_eve_line and ingest_line of Suricata: only alerts.
SuricataSays(e) ==
    IF e.request # "alert" THEN None
    ELSE [type |-> "SURICATA_ALERT", evidence |-> IF e.excluded THEN {} ELSE {"suricata_signature"},
          severity |-> IF e.grade \in 1..3 THEN <<"CRITICAL", "HIGH", "MEDIUM">>[e.grade] ELSE "MEDIUM"]
\* ZeekNoticeParser.parse and ingest_line: the note's severity, or the default's.
NoteRules == [scan |-> "HIGH", sqli |-> "CRITICAL", cert |-> "LOW"]
ZeekSays(e) ==
    IF e.request = "header" THEN None
    ELSE [type |-> "ZEEK_NOTICE", evidence |-> {"zeek_notice"},
          severity |-> IF e.request \in DOMAIN NoteRules THEN NoteRules[e.request] ELSE "MEDIUM"]
\* detect_metasploit, then _check_suspicious; nothing becomes an alert, a suspect is shown and mapped.
SysmonSays(e) ==
    CASE e.request = "metasploit" -> [type |-> "METASPLOIT", evidence |-> {}, severity |-> "CRITICAL"]
      [] e.request \in {"tool", "odd path"} -> [type |-> "SYSMON", evidence |-> {}, severity |-> "HIGH"]
      [] OTHER -> None
\* _promote_to_alert: external probes of high severity, never of a type that blocks by itself.
NeverPromoteAs == {"BRUTE_FORCE", "HONEYPOT", "DATA_EXFIL", "DNS_TUNNELING"}
AccessSays(e) ==
    LET c == ClassifyRequest(e.request, e.grade)
    IN IF ~(c.suspicious /\ c.severity \in {"HIGH", "CRITICAL"} /\ e.external) THEN None
       ELSE [type |-> IF c.threat \in NeverPromoteAs THEN "ANOMALY" ELSE c.threat,
             evidence |-> {}, severity |-> c.severity]
Says(k) ==
    CASE reader = "access" -> AccessSays(Entry[k])
      [] reader = "snort" -> SnortSays(Entry[k])
      [] reader = "suricata" -> SuricataSays(Entry[k])
      [] reader = "zeek" -> ZeekSays(Entry[k])
      [] reader = "sysmon" -> SysmonSays(Entry[k])
      [] OTHER -> None

\* The lines of a chunk; "lost" are the one whose processing raised and those behind it.
LostLines(lines) == {{}} \cup {{j \in lines : j >= k} : k \in lines}
Process(lines, lost, isLive) ==
    LET heard == IF isLive THEN {k \in lines \ lost : Says(k) # None} ELSE {}
    IN /\ taken' = [k \in Lines |-> IF k \in lines \ lost THEN taken[k] + 1 ELSE taken[k]]
       /\ live' = live \cup heard
       /\ late' = late \cup (heard \cap pastLines)
       /\ dropped' = dropped \cup lost

-----------------------------------------------------------------------------
(* Access logs: offset and "backfilled" survive in a file *)

FirstIsPast == firstPass
Backfills == firstPass /\ ~backfilled

\* A file that was replaced and has outgrown the offset is taken for the old one.
Overlooked(start) == IF place.file = inode THEN {} ELSE TouchedIn(0, start)

\* _read_source of one pass of _collect_loop.  A pass that cannot read counts too;
\* one that raises has moved the offset behind the whole chunk.
AccessPass ==
    /\ reader = "access" /\ place.pc = "poll"
    /\ \/ /\ place' = [place EXCEPT !.pc = "save"]
          /\ blind' = (blind \/ (Backfills /\ logFile # None))
          /\ UNCHANGED <<reading, torn, passedBy, pastLines>>
       \/ /\ logFile # None /\ UNCHANGED blind
          /\ LET start == IF Size < place.at THEN 0 ELSE place.at
                 lines == WholeIn(start, Size)
             IN /\ place' = [file |-> inode, at |-> Size, pc |-> "save"]
                /\ \E lost \in IF Backfills THEN {{}} ELSE LostLines(lines) : Process(lines, lost, ~Backfills)
                /\ torn' = torn \cup PartsIn(start, Size)
                /\ passedBy' = passedBy \cup Overlooked(start)
                /\ pastLines' = IF firstPass /\ ~saved.backfilled THEN pastLines \cup lines ELSE pastLines
    /\ backfilled' = (backfilled \/ Backfills)
    /\ UNCHANGED <<now, reader, logFile, inode, written, saved, firstPass, slips, brute, crashes>>

\* _save_state: after the pass, by a new file that replaces the old; a failure is
\* only logged.  The first time, a push follows that may end the thread.
SaveState ==
    /\ reader = "access" /\ place.pc = "save"
    /\ \/ saved' = [at |-> place.at, file |-> place.file, backfilled |-> backfilled]
       \/ UNCHANGED saved
    /\ \E pc \in IF firstPass THEN {"poll", "dead"} ELSE {"poll"} : place' = [place EXCEPT !.pc = pc]
    /\ firstPass' = FALSE
    /\ UNCHANGED <<now, reader, logFile, inode, written, backfilled, blind, pastLines, reading, torn, passedBy, slips, brute, crashes>>

\* __init__ with what _load_state found.
AccessRestart ==
    /\ reader = "access" /\ crashes < MaxCrashes /\ crashes' = crashes + 1
    /\ place' = [file |-> saved.file, at |-> IF saved.at > Size THEN 0 ELSE saved.at, pc |-> "poll"]
    /\ backfilled' = saved.backfilled /\ firstPass' = TRUE
    /\ UNCHANGED <<now, reader, logFile, inode, written, saved, blind, pastLines, reading, torn, passedBy, slips, brute>>

-----------------------------------------------------------------------------
(* The ssh log *)

\* _track_failure for each of n failed logins at this moment.
Tracked(n) ==
    LET recent == SelectSeq(failures, LAMBDA t : now - t < BruteSpan) \o [i \in 1..n |-> now]
        fires == Len(recent) >= BruteMinimum /\ (bruteAt = None \/ now - bruteAt >= BruteCooldown)
    IN /\ failures' = recent
       /\ bruteAt' = IF fires THEN now ELSE bruteAt
       /\ bruteAlerts' = IF fires THEN bruteAlerts \cup {now} ELSE bruteAlerts

\* _tail_loop and _process_line.
AuthPoll ==
    /\ reader = "auth"
    /\ IF logFile = None
       THEN /\ place' = [place EXCEPT !.at = 0]
            /\ UNCHANGED <<reading, torn, passedBy, brute>>
       ELSE LET start == IF Size < place.at THEN 0 ELSE place.at
                lines == WholeIn(start, Size)
            IN /\ place' = [place EXCEPT !.file = inode, !.at = Size]
               /\ torn' = torn \cup PartsIn(start, Size)
               /\ passedBy' = passedBy \cup Overlooked(start)
               /\ \E lost \in LostLines(lines) :
                     LET failed == {k \in lines \ lost : Entry[k].request = "failed" /\ Entry[k].external}
                     IN /\ Process(lines, lost, FALSE)
                        /\ IF failed = {} THEN UNCHANGED brute ELSE Tracked(Cardinality(failed))
    /\ UNCHANGED <<now, reader, logFile, inode, written, offsetState, slips, crashes>>

-----------------------------------------------------------------------------
(* The sensors: an open file, told from its successor by its inode *)

Opened == place.file = inode
Reading == place.pc = "poll"
\* _tail_loop of the three: a file seen for the first time is read from its end.
OpenAtEnd ==
    /\ reader \in {"snort", "suricata", "zeek"} /\ Reading /\ logFile # None /\ ~Opened
    /\ place' = [place EXCEPT !.file = inode, !.at = Size]
    /\ passedBy' = passedBy \cup TouchedIn(0, Size)
    /\ UNCHANGED <<now, reader, logFile, inode, written, offsetState, reading, torn, slips, brute, crashes>>

More == Reading /\ logFile # None /\ Opened /\ place.at < Size
\* What one readline gives: a line, the end of one, or what there is of one.
NextLine == WholeIn(place.at, place.at + 2)
LineIsThere == place.at + 2 <= Size /\ NextLine # {}
EndIsThere == \E k \in Lines : EndOf(k) = place.at + 1

\* ingest_line; of what it raises only an OSError leaves the thread alive.
LineRead ==
    /\ reader \in {"snort", "suricata", "zeek"} /\ More /\ LineIsThere
    /\ \E lost \in {{}, NextLine} :
          /\ Process(NextLine, lost, TRUE)
          /\ \E pc \in IF lost = {} THEN {"poll"} ELSE {"poll", "dead"} :
                place' = [place EXCEPT !.at = @ + 2, !.pc = pc]
    /\ UNCHANGED <<now, reader, logFile, inode, written, offsetState, torn, passedBy, slips, brute, crashes>>

\* Snort's reader takes whatever readline gives, half a line too; Suricata's and
\* Zeek's only what ends like a line: the second half, when they are in its middle.
PartRead ==
    /\ reader \in {"snort", "suricata", "zeek"} /\ More /\ ~LineIsThere
    /\ reader = "snort" \/ EndIsThere
    /\ torn' = torn \cup TouchedIn(place.at, place.at + 1)
    /\ place' = [place EXCEPT !.at = @ + 1]
    /\ UNCHANGED <<now, reader, logFile, inode, written, offsetState, reading, passedBy, slips, brute, crashes>>

\* A line without its end is left for the next turn: the two go back by the
\* length of the text encoded again, which is more than was read when bytes of
\* it were replaced (a character cut in two is).  Too far by up to a line; the
\* start of the file lies no further back than that, or the thread ends.
SeekBack ==
    /\ reader \in {"suricata", "zeek"} /\ More /\ ~LineIsThere /\ ~EndIsThere
    /\ slips < MaxSlips /\ slips' = slips + 1
    /\ \E back \in 1..2 :
          place' = IF back <= place.at THEN [place EXCEPT !.at = @ - back] ELSE [place EXCEPT !.pc = "dead"]
    /\ UNCHANGED <<now, reader, logFile, inode, written, offsetState, reading, torn, passedBy, brute, crashes>>

\* A missing file: the handle is closed, and what comes next is opened at its end.
Lose ==
    /\ reader \in {"snort", "suricata", "zeek"} /\ Reading /\ logFile = None /\ place.file # 0
    /\ place' = [place EXCEPT !.file = 0]
    /\ UNCHANGED <<now, reader, logFile, inode, written, offsetState, reading, torn, passedBy, slips, brute, crashes>>

\* _read_win32_loop: of the records that one call gives, a stretch of the log,
\* those above the last number seen, the newest first; "at" becomes the highest,
\* and what lies below it unread is never asked for again.  An exception ends
\* the loop.  The numbers go on when the event log is emptied.
SysmonReads ==
    /\ reader = "sysmon" /\ Reading /\ logFile # None
    /\ \E low, high \in WholeIn(0, Size) :
          LET news == {k \in WholeIn(0, Size) : low <= k /\ k <= high /\ k > place.at}
          IN /\ low <= high /\ high > place.at
             /\ \E lost \in {{}} \cup {{j \in news : j <= k} : k \in news} :
                   /\ Process(news, lost, TRUE)
                   /\ place' = [place EXCEPT !.at = high, !.pc = IF lost = {} THEN "poll" ELSE "dead"]
             /\ passedBy' = passedBy \cup {k \in WholeIn(0, Size) : place.at < k /\ k < low}
    /\ UNCHANGED <<now, reader, logFile, inode, written, offsetState, torn, slips, brute, crashes>>

TailTick ==
    /\ reader = "auth" /\ now < TailEnd /\ now' = now + 1
    /\ UNCHANGED <<reader, logFile, inode, written, place, offsetState, reading, torn, passedBy, slips, brute, crashes>>

TailNext ==
    \/ BeginLine \/ EndLine \/ Rotate
    \/ AccessPass \/ SaveState \/ AccessRestart \/ AuthPoll
    \/ OpenAtEnd \/ LineRead \/ PartRead \/ SeekBack \/ Lose \/ SysmonReads \/ TailTick

TailSpec == TailInit /\ [][TailNext]_tailVars

-----------------------------------------------------------------------------
\* The lines of the open file behind the reader.
Behind ==
    IF logFile = None THEN {}
    ELSE IF reader = "sysmon" THEN {k \in WholeIn(0, Size) : k <= place.at}
    ELSE IF place.file # inode THEN {} ELSE WholeIn(0, place.at)

(* A line behind the reader has been taken: once, and once more for each crash *)
(* between a pass and the save after it, and for each time Suricata's or Zeek's *)
(* reader went back too far.  It has not been taken to its end only when       *)
(* processing it, or a line before it in its chunk, raised an exception; when it *)
(* was in the file as a sensor's reader opened it, or in one that had outgrown *)
(* the offset in its predecessor; when it was met half-written; or, of Sysmon's, *)
(* when a call gave newer ones first.  Suricata's and Zeek's take a part for a *)
(* line (suricata_monitor.py:199) only of one that they opened the file in the *)
(* middle of, or after they went back too far.                                 *)
TailsMissNothing ==
    /\ \A k \in Behind : taken[k] >= 1 \/ k \in torn \cup passedBy \cup dropped
    /\ \A k \in Lines : taken[k] <= 1 + crashes + slips
    /\ reader = "sysmon" => torn = {}
    /\ reader \in {"suricata", "zeek"} /\ slips = 0 => torn \subseteq passedBy

(* What a first pass found in an access log is not acted on afterwards as if it *)
(* had just happened, however often the program stops and saves fail, unless a *)
(* first pass could not read the file and was counted; and every other line    *)
(* that was processed has been (access_log_parser.py:16-33): past is only what *)
(* a pass found while no file said that there had been one.                    *)
PastIsNotActedOn ==
    reader = "access" =>
        /\ blind \/ late = {}
        /\ \A k \in Lines : taken[k] > 0 /\ k \notin pastLines /\ Says(k) # None => k \in live

\* A reader neither misses what was written nor acts twice or too late on it.
ReadersAreExact == TailsMissNothing /\ PastIsNotActedOn

=============================================================================
