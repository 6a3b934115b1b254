----------------------------- MODULE PushNotices ----------------------------
(* modules/notifier.py: pushes to the analyst's phone.  The cool-down of a key *)
(* is tested and set under the lock, by a clock read before it; the push goes  *)
(* out after it, and may fail.                                                 *)
(*                                                                             *)
(* An operator that stands right above another one with the same parameters    *)
(* and is used nowhere is a faulty variant of it (PROJECT.json, "mutants").    *)
EXTENDS SocClock, Integers, Sequences

CONSTANTS
    Senders,                \* threads that notify
    PushKeys, TestKey,      \* tp:<alert>, block:<address>; the key of the test route, which forces
    PushCooldown, MinLevel,
    HistoryCap,             \* length of the history
    MaxPushes, PushEnd      \* bounds

ASSUME PushNumbers ==
    {PushCooldown, MinLevel, HistoryCap, MaxPushes, PushEnd} \subseteq Nat /\ TestKey \in PushKeys /\ PushCooldown > 0 /\ HistoryCap > 0
\* _last_sent.get(key) tells "never" from a time.
ASSUME NeverIsNoTime == None \notin Nat

VARIABLES
    active,     \* enabled, a topic is set, requests is installed
    sending,    \* what each thread is at
    lastSent,   \* _last_sent
    pushed,     \* history: the newest pushes and what became of them
    pushStats,  \* stats: sent, suppressed, failed
    sent,       \* key and time of every push handed to the server (history)
    pushes

pushVars == <<now, active, sending, lastSent, pushed, pushStats, sent, pushes>>

AtRest == [pc |-> "idle", key |-> None, at |-> 0]

PushInit ==
    /\ now = 0 /\ pushes = 0
    /\ active \in BOOLEAN
    /\ sending = [s \in Senders |-> AtRest]
    /\ lastSent = [k \in PushKeys |-> None]
    /\ pushed = <<>> /\ pushStats = [sent |-> 0, suppressed |-> 0, failed |-> 0]
    /\ sent = {}

\* notify up to its lock; below the threshold it ends there, unless forced.
Notify(s, key, level) ==
    /\ sending[s].pc = "idle" /\ pushes < MaxPushes
    /\ pushes' = pushes + 1
    /\ sending' = IF key # TestKey /\ level < MinLevel THEN sending
                  ELSE [sending EXCEPT ![s] = [pc |-> "locked", key |-> key, at |-> now]]
    /\ UNCHANGED <<now, active, lastSent, pushed, pushStats, sent>>

AtOnceAgain(s) ==
    LET last == lastSent[sending[s].key]
    IN sending[s].key # TestKey /\ last # None /\ sending[s].at = last
CoolingDown(s) ==
    LET last == lastSent[sending[s].key]
    IN sending[s].key # TestKey /\ last # None /\ sending[s].at - last < PushCooldown

\* The critical section of notify.
Reserve(s) ==
    /\ sending[s].pc = "locked"
    /\ IF CoolingDown(s)
       THEN /\ pushStats' = [pushStats EXCEPT !.suppressed = @ + 1]
            /\ sending' = [sending EXCEPT ![s] = AtRest]
            /\ UNCHANGED lastSent
       ELSE /\ lastSent' = [lastSent EXCEPT ![sending[s].key] = sending[s].at]
            /\ sending' = [sending EXCEPT ![s].pc = "send"]
            /\ UNCHANGED pushStats
    /\ UNCHANGED <<now, active, pushed, sent, pushes>>

Newest(seq) == IF Len(seq) > HistoryCap THEN Tail(seq) ELSE seq

\* _send_ntfy and _record: delivered, refused or, without a server, only noted.
Send(s) ==
    /\ sending[s].pc = "send"
    /\ \E result \in IF active THEN {"sent", "failed"} ELSE {"noted"} :
          /\ pushed' = Newest(Append(pushed, [key |-> sending[s].key, result |-> result]))
          /\ pushStats' = IF result = "noted" THEN pushStats ELSE [pushStats EXCEPT ![result] = @ + 1]
          /\ sent' = IF active THEN sent \cup {[key |-> sending[s].key, at |-> sending[s].at, by |-> s]} ELSE sent
    /\ sending' = [sending EXCEPT ![s] = AtRest]
    /\ UNCHANGED <<now, active, lastSent, pushes>>

PushTick == now < PushEnd /\ now' = now + 1
            /\ UNCHANGED <<active, sending, lastSent, pushed, pushStats, sent, pushes>>

PushNext ==
    \/ \E s \in Senders :
          \/ \E key \in PushKeys, level \in {MinLevel - 1, MinLevel} : Notify(s, key, level)
          \/ Reserve(s) \/ Send(s)
    \/ PushTick

PushSpec == PushInit /\ [][PushNext]_pushVars

-----------------------------------------------------------------------------
PushTypeOK ==
    /\ lastSent \in [PushKeys -> Nat \cup {None}] /\ Len(pushed) <= HistoryCap
    /\ \A s \in Senders : sending[s].pc \in {"idle", "locked", "send"}

(* However the threads cross between clock and lock, two pushes of one key     *)
(* are a cool-down apart, but for the test route's, which forces them.         *)
PushesAreSpaced ==
    \A p, q \in sent :
        p # q /\ p.key = q.key /\ p.key # TestKey /\ p.at <= q.at => q.at - p.at >= PushCooldown
=============================================================================
