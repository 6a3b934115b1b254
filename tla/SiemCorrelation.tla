--------------------------- MODULE SiemCorrelation --------------------------
(* modules/siem_correlation.py: rules over the alerts of a sliding window.     *)
(*                                                                             *)
(* feed evaluates the rules in one critical section and fires each hit in      *)
(* another, whose clock is read before the lock is asked for.  What fires goes *)
(* back to the detector as an alert of its own.                                *)
(*                                                                             *)
(* An operator that stands right above another one with the same parameters    *)
(* and is used nowhere is a faulty variant of it (PROJECT.json, "mutants").    *)
EXTENDS SocClock, Integers, FiniteSets

CONSTANTS
    Feeders,                \* threads that hand over alerts
    Addresses, Inside,      \* sources; those of internal hosts
    ThreatTypes, Recon, Intrusion, Exfil, Staging, Tunnels, Brute,
    CorrWindow, Cooldown,
    MultiVectorMin, BruteMin, DistributedMin,
    MaxFeeds, SiemEnd       \* bounds

ASSUME CorrelationSets ==
    /\ Inside \subseteq Addresses /\ None \notin Addresses
    /\ Recon \cup Intrusion \cup Exfil \cup Staging \cup Tunnels \cup {Brute} \subseteq ThreatTypes
ASSUME CorrelationNumbers ==
    {CorrWindow, Cooldown, MultiVectorMin, BruteMin, DistributedMin, MaxFeeds, SiemEnd} \subseteq Nat

VARIABLES
    seen,     \* _by_ip and _by_type, which hold the same events
    feed,     \* each thread's alert and the hits it has still to fire
    fired,    \* _fired
    reported, \* alerts given back to report_alert
    feeds,    \* alerts fed so far
    due       \* what each thread's last evaluation found, and when (history)

siemVars == <<now, seen, feed, fired, reported, feeds, due>>

IpRules == {"R-INTERNAL-EXFIL", "R-STAGING-EXFIL", "R-RECON-INTRUSION", "R-MULTI-VECTOR", "R-SUSTAINED-BRUTE"}
\* A hit names its rule and what its cool-down goes by: an address or a type.
Hits == (IpRules \X Addresses) \cup ({"R-DISTRIBUTED"} \X ThreatTypes)
NoFeed == [pc |-> "idle", ip |-> None, type |-> None, large |-> FALSE, n |-> 0, at |-> 0, hits |-> {}]

SiemInit ==
    /\ now = 0 /\ feeds = 0
    /\ seen = {} /\ reported = {}
    /\ feed = [t \in Feeders |-> NoFeed]
    /\ fired = [h \in Hits |-> None]
    /\ due = [t \in Feeders |-> {}]

-----------------------------------------------------------------------------
Of(window, ip) == {e \in window : e.ip = ip}
TypesOf(window, ip) == {e.type : e \in Of(window, ip)}

\* _evaluate, for an alert of type from ip that is in the window already;
\* large: at least SIEM_EXFIL_MIN_BYTES were sent.
IpHits(window, ip, type, large) ==
    LET types == TypesOf(window, ip)
        Count(t) == Cardinality({e \in Of(window, ip) : e.type = t})
    IN {r \in IpRules :
           CASE r = "R-INTERNAL-EXFIL" -> type \in Exfil /\ ip \in Inside /\ (type \in Tunnels \/ large)
             [] r = "R-STAGING-EXFIL" -> types \cap Exfil # {} /\ types \cap Staging # {} /\ ip \in Inside
             [] r = "R-RECON-INTRUSION" -> types \cap Recon # {} /\ types \cap Intrusion # {}
             [] r = "R-MULTI-VECTOR" -> Cardinality(types) >= MultiVectorMin
             [] r = "R-SUSTAINED-BRUTE" -> Count(Brute) >= BruteMin}
SpreadHits(window, type) ==
    IF Cardinality({e.ip : e \in {x \in window : x.type = type}}) >= DistributedMin
    THEN {<<"R-DISTRIBUTED", type>>} ELSE {}
Evaluated(window, ip, type, large) ==
    {<<r, ip>> : r \in IpHits(window, ip, type, large)} \cup SpreadHits(window, type)

Pruned(events, at) == {e \in events : e.at >= at - CorrWindow}

\* feed up to its lock: the clock is read.
Feed(t, ip, type, large) ==
    /\ feed[t].pc = "idle" /\ feeds < MaxFeeds
    /\ feeds' = feeds + 1
    /\ feed' = [feed EXCEPT ![t] = [pc |-> "evaluate", ip |-> ip, type |-> type, large |-> large,
                                    n |-> feeds + 1, at |-> now, hits |-> {}]]
    /\ UNCHANGED <<now, seen, fired, reported, due>>

\* The critical section of feed.
Evaluate(t) ==
    /\ feed[t].pc = "evaluate"
    /\ LET f == feed[t]
           window == Pruned(seen \cup {[n |-> f.n, at |-> f.at, ip |-> f.ip, type |-> f.type]}, f.at)
           hits == Evaluated(window, f.ip, f.type, f.large)
       IN /\ seen' = window
          /\ feed' = [feed EXCEPT ![t].pc = IF hits = {} THEN "idle" ELSE "fire", ![t].hits = hits]
          /\ due' = [due EXCEPT ![t] = {[hit |-> h, at |-> f.at] : h \in hits}]
    /\ UNCHANGED <<now, fired, reported, feeds>>

RuleOnly(h) == {g \in Hits : g[1] = h[1]}
\* (rule, key): the key is the address, or the type of a distributed attack.
CooldownKey(h) == {h}

\* _fire up to its lock: the clock is read again.
BeginFire(t) ==
    /\ feed[t].pc = "fire"
    /\ feed' = [feed EXCEPT ![t].pc = "locked", ![t].at = now]
    /\ UNCHANGED <<now, seen, fired, reported, feeds, due>>

\* _fire: the cool-down is tested and set, then the finding becomes an alert,
\* unless it has no address of its own.
Fire(t) ==
    /\ feed[t].pc = "locked"
    /\ \E h \in feed[t].hits :
          /\ IF \A g \in CooldownKey(h) : fired[g] = None \/ feed[t].at - fired[g] >= Cooldown
             THEN /\ fired' = [fired EXCEPT ![h] = feed[t].at]
                  /\ reported' = IF h[1] = "R-DISTRIBUTED" THEN reported
                                 ELSE reported \cup {[hit |-> h, at |-> feed[t].at]}
             ELSE UNCHANGED <<fired, reported>>
          /\ feed' = [feed EXCEPT ![t].hits = @ \ {h},
                                  ![t].pc = IF feed[t].hits = {h} THEN "idle" ELSE "fire"]
    /\ UNCHANGED <<now, seen, feeds, due>>

SiemTick == now < SiemEnd /\ now' = now + 1 /\ UNCHANGED <<seen, feed, fired, reported, feeds, due>>

SiemNext ==
    \/ \E t \in Feeders :
          \/ \E ip \in Addresses, type \in ThreatTypes, large \in BOOLEAN :
                (large => type \in Exfil \ Tunnels) /\ Feed(t, ip, type, large)
          \/ Evaluate(t) \/ BeginFire(t) \/ Fire(t)
    \/ SiemTick

SiemSpec == SiemInit /\ [][SiemNext]_siemVars

-----------------------------------------------------------------------------
SiemTypeOK ==
    /\ fired \in [Hits -> Nat \cup {None}]
    /\ \A e \in seen : e.ip \in Addresses /\ e.type \in ThreatTypes
    /\ \A t \in Feeders : feed[t].hits \subseteq Hits

(* What a rule found is known when feed returns: there is a finding of that    *)
(* rule for that address (or type) no older than the cool-down, whichever      *)
(* thread fired it and in whatever order the two clocks were read.             *)
HitIsKnown ==
    \A t \in Feeders : feed[t].pc = "idle" =>
        \A d \in due[t] : fired[d.hit] # None /\ fired[d.hit] > d.at - Cooldown
=============================================================================
