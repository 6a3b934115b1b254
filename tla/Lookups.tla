------------------------------ MODULE Lookups -------------------------------
(* Reputation look-ups (modules/ip_reputation.py, modules/virustotal.py) and   *)
(* the watchlist (modules/watchlist.py): caches read by the detection path and *)
(* filled by calls, or rows, that are read outside the lock.                   *)
(*                                                                             *)
(* An operator that stands right above another one with the same parameters    *)
(* and is used nowhere is a faulty variant of it (PROJECT.json, "mutants").    *)
EXTENDS SocClock, Integers, Sequences, FiniteSets

CONSTANTS
    Askers,                     \* threads
    Subjects, Own,              \* addresses and hashes; internal, own or malformed ones
    Services,                   \* of {"abuseipdb", "virustotal"}
    KeyGiven, DemoAllowed,
    CacheLife,                  \* ABUSEIPDB_CACHE_HOURS, VIRUSTOTAL_CACHE_HOURS
    Iocs, MaxAsks, LookupEnd    \* watched values; bounds

ASSUME LookupNumbers ==
    /\ {CacheLife, MaxAsks, LookupEnd} \subseteq Nat /\ CacheLife > 0
    /\ {KeyGiven, DemoAllowed} \subseteq BOOLEAN /\ Own \subseteq Subjects

VARIABLES
    asker,      \* what each thread is at
    cache,      \* per service and subject: result, when it was asked for, until when it serves
    served,     \* answers given: service, subject, result, age (history)
    calls,      \* outcomes the services gave: service, subject, result, time (history)
    repStats,   \* IPReputation.stats
    rows,       \* watchlist rows: value and hits, by id order
    watched,    \* _cache: what match knows
    writers, crossed,   \* threads between a write and the end of their reload; whether two were (history)
    asks

lookupVars == <<now, asker, cache, served, calls, repStats, rows, watched, writers, crossed, asks>>

Rest == [pc |-> "rest", service |-> None, subject |-> None, since |-> 0, values |-> {}]

LookupInit ==
    /\ now = 0 /\ asks = 0 /\ served = {} /\ calls = {}
    /\ asker = [a \in Askers |-> Rest]
    /\ cache = [s \in Services |-> [x \in Subjects |-> None]]
    /\ repStats = [checks |-> 0, api |-> 0, hits |-> 0, malicious |-> 0, errors |-> 0]
    /\ rows = {} /\ watched = {} /\ writers = {} /\ crossed = FALSE

Turn(a) == asker[a].pc = "rest" /\ asks < MaxAsks /\ asks' = asks + 1
Becomes(a, task) == asker' = [asker EXCEPT ![a] = task]
Give(service, x, result, since, cached) ==
    served' = served \cup {[service |-> service, subject |-> x, result |-> result, since |-> since,
                            at |-> now, cached |-> cached]}

-----------------------------------------------------------------------------
(* check and lookup_hash *)

NeverStale(entry) == TRUE
Serves(entry) == now < entry.until

\* Internal and own addresses and malformed hashes are answered without a call.
AnswerInside(a, service) ==
    /\ Turn(a)
    /\ \E x \in Own : Give(service, x, "internal", now, FALSE)
    /\ UNCHANGED <<now, asker, cache, calls, repStats, rows, watched, writers, crossed>>

\* The look into the cache; force goes past it (IPReputation.check).
AskFor(a, service, x, force) ==
    /\ Turn(a) /\ x \notin Own
    /\ force => service = "abuseipdb"
    /\ service = "virustotal" => KeyGiven
    /\ LET entry == cache[service][x]
           hit == entry # None /\ Serves(entry) /\ ~force
       IN /\ IF hit THEN Give(service, x, entry.result, entry.since, TRUE) /\ UNCHANGED asker
             ELSE /\ Becomes(a, [Rest EXCEPT !.pc = "call", !.service = service, !.subject = x, !.since = now])
                  /\ UNCHANGED served
          /\ repStats' = IF hit /\ service = "abuseipdb" THEN [repStats EXCEPT !.hits = @ + 1] ELSE repStats
    /\ UNCHANGED <<now, cache, calls, rows, watched, writers, crossed>>

\* _lookup: what the service says; without one, a demo score only where demo is allowed.
Outcomes(service) ==
    CASE KeyGiven -> {"bad", "clean", "failed"}
      [] service = "abuseipdb" /\ DemoAllowed -> {"demo"}
      [] OTHER -> {"unavailable"}
Settled(service, outcome) ==
    IF outcome # "failed" THEN outcome
    ELSE IF service = "abuseipdb" THEN "unavailable" ELSE "error"

\* The answer comes and is kept, a failure like any other: IPReputation by the
\* clock it read before the call, VirusTotal by the one after it.
AnswerArrives(a) ==
    LET task == asker[a]
        stamp == IF task.service = "abuseipdb" THEN task.since ELSE now
    IN /\ task.pc = "call"
       /\ \E outcome \in Outcomes(task.service) :
             LET result == Settled(task.service, outcome)
             IN /\ cache' = [cache EXCEPT ![task.service][task.subject] =
                                [result |-> result, since |-> stamp, until |-> stamp + CacheLife]]
                /\ Give(task.service, task.subject, result, stamp, FALSE)
                /\ calls' = calls \cup {[service |-> task.service, subject |-> task.subject, result |-> result, since |-> stamp]}
                /\ repStats' = IF task.service # "abuseipdb" THEN repStats
                               ELSE [repStats EXCEPT !.checks = @ + 1,
                                        !.api = IF KeyGiven THEN @ + 1 ELSE @,
                                        !.errors = IF outcome = "failed" THEN @ + 1 ELSE @,
                                        !.malicious = IF result = "bad" THEN @ + 1 ELSE @]
       /\ Becomes(a, Rest)
       /\ UNCHANGED <<now, rows, watched, writers, crossed, asks>>

-----------------------------------------------------------------------------
(* The watchlist *)

Values == {r.value : r \in rows}
Enter(a) == writers' = writers \cup {a} /\ crossed' = (crossed \/ writers # {})

\* add and remove: the row under the lock, then _reload_cache.
AddIoc(a, v) ==
    /\ Turn(a) /\ v \notin Values
    /\ rows' = rows \cup {[value |-> v, hits |-> 0]}
    /\ Enter(a) /\ Becomes(a, [Rest EXCEPT !.pc = "reload"])
    /\ UNCHANGED <<now, cache, served, calls, repStats, watched>>
RemoveIoc(a, v) ==
    /\ Turn(a) /\ v \in Values
    /\ rows' = {r \in rows : r.value # v}
    /\ Enter(a) /\ Becomes(a, [Rest EXCEPT !.pc = "reload"])
    /\ UNCHANGED <<now, cache, served, calls, repStats, watched>>

\* The rows are read under the lock and take effect outside it.
ReadRows(a) ==
    /\ asker[a].pc = "reload"
    /\ Becomes(a, [Rest EXCEPT !.pc = "replace", !.values = Values])
    /\ UNCHANGED <<now, cache, served, calls, repStats, rows, watched, writers, crossed, asks>>
ReplaceCache(a) ==
    /\ asker[a].pc = "replace"
    /\ watched' = asker[a].values /\ writers' = writers \ {a}
    /\ Becomes(a, Rest)
    /\ UNCHANGED <<now, cache, served, calls, repStats, rows, crossed, asks>>

\* match_alert: the cache says whether, the row counts.
MatchAlert(a, v) ==
    /\ Turn(a) /\ v \in watched
    /\ rows' = {IF r.value = v THEN [r EXCEPT !.hits = @ + 1] ELSE r : r \in rows}
    /\ UNCHANGED <<now, asker, cache, served, calls, repStats, watched, writers, crossed>>

LookupTick ==
    /\ now < LookupEnd /\ now' = now + 1
    /\ UNCHANGED <<asker, cache, served, calls, repStats, rows, watched, writers, crossed, asks>>

LookupNext ==
    \/ \E a \in Askers :
          \/ \E s \in Services : AnswerInside(a, s) \/ \E x \in Subjects, force \in BOOLEAN : AskFor(a, s, x, force)
          \/ \E v \in Iocs : AddIoc(a, v) \/ RemoveIoc(a, v) \/ MatchAlert(a, v)
          \/ AnswerArrives(a) \/ ReadRows(a) \/ ReplaceCache(a)
    \/ LookupTick

LookupSpec == LookupInit /\ [][LookupNext]_lookupVars

-----------------------------------------------------------------------------
LookupTypeOK == watched \subseteq Iocs /\ Values \subseteq Iocs

(* However calls for one subject and writers of the list cross: an answer is    *)
(* what the service gave, a kept one less than CacheLife ago even when an      *)
(* older call has overwritten a newer; nothing internal is asked for, nothing  *)
(* is made up without a key but where demo is allowed; and when no write is    *)
(* being carried into it, and no two ever crossed, the cache match reads is    *)
(* the list.                                                                   *)
CachesAreTrue ==
    /\ \A s \in served :
          s.result # "internal" =>
              /\ [service |-> s.service, subject |-> s.subject, result |-> s.result, since |-> s.since] \in calls
              /\ s.cached => s.at - s.since < CacheLife
    /\ \A c \in calls : /\ c.subject \notin Own
                        /\ c.result \in {"bad", "clean"} => KeyGiven
                        /\ c.result = "demo" => DemoAllowed
    /\ writers = {} /\ ~crossed => watched = Values
=============================================================================
