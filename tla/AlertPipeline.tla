---------------------------- MODULE AlertPipeline ---------------------------
(* modules/threat_detector.py (_add_alert, update_alert_status) and            *)
(* modules/alert_dedup.py: what becomes of a reported event.                   *)
(*                                                                             *)
(* Many threads report: parsers, the packet sniffer, the correlator.  A report *)
(* passes the suppression rules, the fingerprint table, the list in memory,    *)
(* the store and the hand-off, and takes a lock for each of them alone.  The   *)
(* time is read before the fingerprint table's lock is asked for.              *)
(*                                                                             *)
(* An operator that stands right above another one with the same parameters    *)
(* and is used nowhere is a faulty variant of it (PROJECT.json, "mutants").    *)
EXTENDS SocClock, Integers, Sequences, SequencesExt

CONSTANTS
    Reporters,      \* threads that report events
    Prints,         \* fingerprints: type, source, destination, shape of the text
    Ruled,          \* fingerprints suppression rules may exist for
    Exempt,         \* fingerprints of CRITICAL events, which no rule silences
    Window, StormSpan, SummaryEvery,   \* DEDUP_* times
    Threshold,      \* DEDUP_STORM_THRESHOLD
    Cap,            \* length of the deque of alerts
    MaxEvents, PipelineEnd, MaxTrouble      \* bounds

ASSUME PipelineNumbers ==
    /\ Window \in Nat /\ StormSpan \in Nat /\ SummaryEvery \in Nat \ {0}
    /\ Threshold \in Nat \ {0} /\ Cap \in Nat \ {0}
    /\ MaxEvents \in Nat /\ PipelineEnd \in Nat /\ MaxTrouble \in Nat
ASSUME PipelineNone == None \notin Nat /\ Exempt \subseteq Prints /\ Ruled \subseteq Prints

VARIABLES
    lastId,    \* Alert._id_counter
    call,      \* the report each thread is at
    state,     \* AlertDeduplicator._state
    recent,    \* AlertDeduplicator._recent
    silenced,  \* fingerprints an enabled row of suppression_rules matches
    events,    \* the table suppressed_events
    memory,    \* ThreatDetector.alerts
    store,     \* the table of alerts
    arrived,   \* events reported so far (history)
    finished,  \* what was reported and is done with (history)
    unsaved,   \* ids of alerts whose save failed (history)
    trouble    \* failed writes and restarts so far

pipelineVars == <<now, lastId, call, state, recent, silenced, events, memory, store,
                  arrived, finished, unsaved, trouble>>

EventIds == 1..MaxEvents
Ended == [pc |-> "idle", n |-> 0, id |-> 0, fp |-> None, at |-> 0,
          verdict |-> "pass", parent |-> None, count |-> 1, spoiled |-> FALSE]

PipelineInit ==
    /\ now = 0 /\ lastId = 0
    /\ call = [t \in Reporters |-> Ended]
    /\ state = [f \in Prints |-> None]
    /\ recent = [f \in Prints |-> <<>>]
    /\ silenced = {} /\ events = {}
    /\ memory = <<>> /\ store = <<>>      \* store: id -> row
    /\ arrived = 0 /\ finished = {} /\ unsaved = {} /\ trouble = 0

At(t, label) == call[t].pc = label
Goto(t, label) == call' = [call EXCEPT ![t].pc = label]
Finished(t) == finished' = finished \cup {[call[t] EXCEPT !.pc = "idle"]}
\* A write that may fail; _add_alert and _record swallow the exception.
Fails == trouble < MaxTrouble /\ trouble' = trouble + 1
Works == UNCHANGED trouble

-----------------------------------------------------------------------------
(* Report and rules *)

\* Alert(), _confidence and the first lines of evaluate: the id is taken, the
\* clock is read.  The confidence decides about the hand-off only.
Report(t, f) ==
    /\ At(t, "idle") /\ arrived < MaxEvents
    /\ arrived' = arrived + 1 /\ lastId' = lastId + 1
    /\ call' = [call EXCEPT ![t] = [Ended EXCEPT !.pc = "rules", !.n = arrived + 1,
                   !.id = lastId + 1, !.fp = f, !.at = now]]
    /\ UNCHANGED <<now, state, recent, silenced, events, memory, store, finished, unsaved, trouble>>

Silent(f) == f \in silenced \ Exempt

SuppressUnrecorded(t) ==
    /\ At(t, "rules") /\ Silent(call[t].fp)
    /\ call' = [call EXCEPT ![t].pc = "count", ![t].verdict = "suppress"]
    /\ UNCHANGED <<now, lastId, state, recent, silenced, events, memory, store, arrived, finished, unsaved, trouble>>
\* A rule matches: counted, then kept in suppressed_events by _record.
Suppress(t) ==
    /\ At(t, "rules") /\ Silent(call[t].fp)
    /\ call' = [call EXCEPT ![t].pc = "record", ![t].verdict = "suppress"]
    /\ UNCHANGED <<now, lastId, state, recent, silenced, events, memory, store, arrived, finished, unsaved, trouble>>

\* The rules cannot be read, or a matching rule's hit cannot be counted:
\* _dedup_evaluate lets the event pass, judged by nothing and with fingerprint "".
Unjudged(t) ==
    /\ At(t, "rules") /\ call[t].fp \notin Exempt /\ Fails
    /\ call' = [call EXCEPT ![t].pc = "append", ![t].verdict = "unjudged"]
    /\ UNCHANGED <<now, lastId, state, recent, silenced, events, memory, store, arrived, finished, unsaved>>

-----------------------------------------------------------------------------
(* The fingerprint table *)

Fresh(f, at) == state[f] = None \/ at - state[f].last > Window
\* Old entries leave from the head; the deque is bounded.
Burst(f, at) ==
    LET young == {i \in DOMAIN recent[f] : at - recent[f][i] <= StormSpan}
        kept == IF young = {} THEN <<>>
                ELSE SubSeq(recent[f], CHOOSE i \in young : \A j \in young : i <= j, Len(recent[f]))
        longer == Append(kept, at)
    IN IF Len(longer) > 4 * Threshold THEN Tail(longer) ELSE longer

AnnounceOnce(f, at, storm) == Fresh(f, at) \/ (storm /\ ~state[f].storm)
\* A new alert: out of the window, a storm begins, or its summary is due.
Announce(f, at, storm) ==
    \/ Fresh(f, at)
    \/ storm /\ (~state[f].storm \/ at - state[f].summary >= SummaryEvery)

\* The critical section of evaluate.
Judge(t) ==
    /\ At(t, "rules") /\ ~Silent(call[t].fp)
    /\ LET f == call[t].fp
           at == call[t].at
           storm == Len(Burst(f, at)) > Threshold
           new == Announce(f, at, storm)
           row == IF Fresh(f, at)
                  THEN [alert |-> None, last |-> at, count |-> 1, storm |-> storm,
                        summary |-> IF storm THEN at ELSE 0]
                  ELSE [state[f] EXCEPT !.last = at, !.count = @ + 1, !.storm = storm,
                            !.summary = IF new THEN at ELSE @]
       IN /\ recent' = [recent EXCEPT ![f] = Burst(f, at)]
          /\ state' = [state EXCEPT ![f] = row]
          /\ call' = [call EXCEPT ![t].pc = IF new THEN "append" ELSE "record",
                         ![t].verdict = IF ~new THEN "duplicate" ELSE IF storm THEN "storm" ELSE "pass",
                         ![t].parent = row.alert, ![t].count = row.count]
    /\ UNCHANGED <<now, lastId, silenced, events, memory, store, arrived, finished, unsaved, trouble>>

\* _record: the event goes to suppressed_events as it came.
Record(t) ==
    /\ At(t, "record")
    /\ \/ Works /\ events' = events \cup {[n |-> call[t].n, fp |-> call[t].fp, parent |-> call[t].parent]}
          /\ Goto(t, "count")
       \/ Fails /\ call' = [call EXCEPT ![t].pc = "count", ![t].spoiled = TRUE] /\ UNCHANGED events
    /\ UNCHANGED <<now, lastId, state, recent, silenced, memory, store, arrived, finished, unsaved>>

\* _handle_deduplicated: the parent in memory, then the one in the store.
CountInMemory(t) ==
    /\ At(t, "count")
    /\ memory' = [i \in DOMAIN memory |->
                     IF call[t].verdict = "duplicate" /\ memory[i].id = call[t].parent
                     THEN [memory[i] EXCEPT !.count = call[t].count] ELSE memory[i]]
    /\ Goto(t, "countStored")
    /\ UNCHANGED <<now, lastId, state, recent, silenced, events, store, arrived, finished, unsaved, trouble>>

CountInStore(t) ==
    /\ At(t, "countStored")
    /\ store' = [i \in DOMAIN store |->
                    IF call[t].verdict = "duplicate" /\ i = call[t].parent
                    THEN [store[i] EXCEPT !.count = call[t].count] ELSE store[i]]
    /\ Finished(t) /\ call' = [call EXCEPT ![t] = Ended]
    /\ UNCHANGED <<now, lastId, state, recent, silenced, events, memory, arrived, unsaved, trouble>>

-----------------------------------------------------------------------------
(* A new alert *)

Row(c) == [id |-> c.id, n |-> c.n, fp |-> c.fp, count |-> c.count, ack |-> FALSE]
LastOf(s, k) == IF Len(s) > k THEN SubSeq(s, Len(s) - k + 1, Len(s)) ELSE s

AppendAlert(t) ==
    /\ At(t, "append")
    /\ memory' = LastOf(Append(memory, Row(call[t])), Cap)
    /\ Goto(t, "save")
    /\ UNCHANGED <<now, lastId, state, recent, silenced, events, store, arrived, finished, unsaved, trouble>>

\* The row is written as the alert object is at that moment.
Save(t) ==
    /\ At(t, "save")
    /\ \/ /\ Works
          /\ LET own == {i \in DOMAIN memory : memory[i].id = call[t].id} IN
             \E row \in IF own = {} THEN {Row(call[t])} ELSE {memory[i] : i \in own} :
                store' = [i \in DOMAIN store \cup {call[t].id} |-> IF i = call[t].id THEN row ELSE store[i]]
          /\ Goto(t, "note") /\ UNCHANGED unsaved
       \/ /\ Fails
          /\ unsaved' = unsaved \cup {call[t].id}
          /\ call' = [call EXCEPT ![t].pc = "note", ![t].spoiled = TRUE] /\ UNCHANGED store
    /\ UNCHANGED <<now, lastId, state, recent, silenced, events, memory, arrived, finished>>

\* note_alert_id, which knows no fingerprint "", then the hand-off to Socket.IO,
\* SOAR and correlation, which changes nothing here.
NoteAlertId(t) ==
    /\ At(t, "note")
    /\ LET f == call[t].fp IN
       state' = IF call[t].verdict # "unjudged" /\ state[f] # None /\ state[f].alert = None
                THEN [state EXCEPT ![f].alert = call[t].id] ELSE state
    /\ Finished(t) /\ call' = [call EXCEPT ![t] = Ended]
    /\ UNCHANGED <<now, lastId, recent, silenced, events, memory, store, arrived, unsaved, trouble>>

-----------------------------------------------------------------------------
(* Requests, the clock, a restart *)

Acked(a, id) == IF a.id = id THEN [a EXCEPT !.ack = TRUE] ELSE a

\* update_alert_status: the store first; a missing row or a failing commit ends it.
Acknowledge(id) ==
    /\ id \in DOMAIN store /\ ~store[id].ack
    /\ \/ /\ Works
          /\ store' = [store EXCEPT ![id] = Acked(@, id)]
          /\ memory' = [i \in DOMAIN memory |-> Acked(memory[i], id)]
       \/ Fails /\ UNCHANGED <<store, memory>>
    /\ UNCHANGED <<now, lastId, call, state, recent, silenced, events, arrived, finished, unsaved>>

\* add_rule, set_rule_enabled, delete_rule
ChangeRules ==
    /\ silenced' \in SUBSET Ruled \ {silenced}
    /\ UNCHANGED <<now, lastId, call, state, recent, events, memory, store, arrived, finished, unsaved, trouble>>

NotRestored == 0
HighestId == IF DOMAIN store = {} THEN 0 ELSE CHOOSE i \in DOMAIN store : \A j \in DOMAIN store : j <= i

\* _restore_alerts: the newest rows of the store, oldest first, and its highest id.
PipelineRestart ==
    /\ Fails
    /\ \E ids \in [1..Min({Cap, Cardinality(DOMAIN store)}) -> DOMAIN store] :
          /\ \A j, k \in DOMAIN ids : j < k => ids[j] < ids[k]
          /\ \A i \in DOMAIN store, k \in DOMAIN ids : i < ids[k] \/ i \in Range(ids)
          /\ memory' = [k \in DOMAIN ids |-> store[ids[k]]]
    /\ lastId' = HighestId
    /\ call' = [t \in Reporters |-> Ended]
    /\ state' = [f \in Prints |-> None] /\ recent' = [f \in Prints |-> <<>>]
    /\ UNCHANGED <<now, silenced, events, store, arrived, finished, unsaved>>

PipelineTick ==
    /\ now < PipelineEnd /\ now' = now + 1
    /\ UNCHANGED <<lastId, call, state, recent, silenced, events, memory, store, arrived, finished, unsaved, trouble>>

PipelineNext ==
    \/ \E t \in Reporters, f \in Prints : Report(t, f)
    \/ \E t \in Reporters :
          \/ Suppress(t) \/ Unjudged(t) \/ Judge(t) \/ Record(t)
          \/ CountInMemory(t) \/ CountInStore(t)
          \/ AppendAlert(t) \/ Save(t) \/ NoteAlertId(t)
    \/ \E id \in EventIds : Acknowledge(id)
    \/ ChangeRules \/ PipelineRestart \/ PipelineTick

PipelineSpec == PipelineInit /\ [][PipelineNext]_pipelineVars

-----------------------------------------------------------------------------
(* Properties *)

PipelineTypeOK ==
    /\ now \in Nat /\ lastId \in Nat /\ arrived \in Nat /\ trouble \in Nat
    /\ \A f \in Prints : state[f] = None \/ state[f].alert \in EventIds \cup {None}
    /\ silenced \subseteq Ruled
    /\ Len(memory) <= Cap /\ DOMAIN store \subseteq EventIds
    /\ \A f \in Prints : Len(recent[f]) <= 4 * Threshold

(* An event whose handling is over and of which no write failed is an alert in *)
(* the store or kept in suppressed_events: no rule, window, storm or           *)
(* interleaving of reporters lets one vanish (alert_dedup.py: nothing is       *)
(* thrown away), nor does a judgement that fails (threat_detector.py: a        *)
(* duplicate is safer than an alert that is gone).                             *)
NothingVanishes ==
    \A c \in finished : ~c.spoiled =>
        \/ \E i \in DOMAIN store : store[i].n = c.n
        \/ \E e \in events : e.n = c.n

(* An event that was merged points to an alert of its own fingerprint, also    *)
(* across restarts, which reuse the ids of alerts that never reached the store *)
(* (hence the exception for a save that failed).                               *)
MergedIntoSame ==
    \A e \in events : e.parent \in DOMAIN store \ unsaved => store[e.parent].fp = e.fp

(* While a storm lasts it does not fall silent: when the last event of a       *)
(* fingerprint in storm was merged, an alert of that storm had been announced  *)
(* less than SummaryEvery before it.                                           *)
StormIsAnnounced ==
    \A f \in Prints : state[f] # None /\ state[f].storm =>
        /\ state[f].last - state[f].summary < SummaryEvery
        /\ \/ \E c \in finished : c.fp = f /\ c.at = state[f].summary /\ c.verdict = "storm"
           \/ \E t \in Reporters : call[t].fp = f /\ call[t].at = state[f].summary
                                   /\ call[t].verdict = "storm"
=============================================================================
