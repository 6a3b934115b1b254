--------------------------- MODULE AggregateCache ---------------------------
(* The dashboard's counts (alert_store.py, aggregate): a cache with a short    *)
(* life, and one computation for all who ask at the same time. One window      *)
(* (days, scope) stands for all of them: they share nothing.                   *)
(* An operator that stands right above another one with the same parameters    *)
(* and is used nowhere is a faulty variant of it (PROJECT.json, "mutants").    *)
EXTENDS SocClock, Integers, FiniteSets

CONSTANTS Viewers,              \* request threads
          AggLives,             \* the lives asked for: aggregate_ttl, or a max_age
          AggWait,              \* how long a follower waits
          MaxAggAsks, MaxAggFaults, AggEnd      \* bounds

ASSUME AggAssumption == AggLives \subseteq Nat /\ AggWait \in Nat \ {0}

VARIABLES computed,     \* _agg_cache: when the counts it holds were stamped (_computed_at), or None
          readSince,    \* and since when their rows had been read
          inflight,     \* _agg_inflight: the event of the computation under way, or None
          landed,       \* events that are set
          viewer,       \* what each thread is at
          aggAsks, aggFaults
aggVars == <<now, computed, readSince, inflight, landed, viewer, aggAsks, aggFaults>>

-----------------------------------------------------------------------------
\* answer: the stamp of the counts a thread got last; rows: since when they had been
\* read, or while it computes, since when it reads; from: its own computation
\* ("self"), another's ("flight") or the cache; excused: the other's failed, or the
\* wait for it ran out (history).
Away == [pc |-> "away", life |-> 0, asked |-> 0, flight |-> None, rows |-> 0, failed |-> FALSE,
         answer |-> None, from |-> "self", excused |-> FALSE]
Finds(x, from) == [x EXCEPT !.pc = "away", !.answer = computed, !.rows = readSince, !.from = from]
Reads(x) == [x EXCEPT !.pc = "compute", !.rows = now]

Fresh(life) == computed # None /\ now - computed <= life

\* The first look, before anybody is asked to wait. A life of 0 skips it.
AskCounts(v, life) ==
    /\ viewer[v].pc = "away" /\ aggAsks < MaxAggAsks
    /\ aggAsks' = aggAsks + 1
    /\ LET asking == [Away EXCEPT !.pc = "board", !.life = life, !.asked = now]
       IN viewer' = [viewer EXCEPT ![v] = IF life > 0 /\ Fresh(life)
                                          THEN Finds(asking, "cache")
                                          ELSE asking]
    /\ UNCHANGED <<now, computed, readSince, inflight, landed, aggFaults>>

Board(v) ==
    /\ viewer[v].pc = "board"
    /\ IF inflight = None
       THEN /\ inflight' = Cardinality(landed)
            /\ viewer' = [viewer EXCEPT ![v] = Reads(@)]
       ELSE /\ viewer' = [viewer EXCEPT ![v].pc = "wait", ![v].flight = inflight]
            /\ UNCHANGED inflight
    /\ UNCHANGED <<now, computed, readSince, landed, aggAsks, aggFaults>>

\* _aggregate_uncached has run its six statements since, each at a time of its own;
\* the result is stamped afterwards, and cached.
Compute(v) ==
    /\ viewer[v].pc = "compute"
    /\ computed' = now /\ readSince' = viewer[v].rows
    /\ viewer' = [viewer EXCEPT ![v].pc = "land", ![v].answer = now]
    /\ UNCHANGED <<now, inflight, landed, aggAsks, aggFaults>>

ComputeFails(v) ==
    /\ viewer[v].pc = "compute" /\ aggFaults < MaxAggFaults
    /\ aggFaults' = aggFaults + 1
    /\ viewer' = [viewer EXCEPT ![v].pc = "land", ![v].failed = TRUE]
    /\ UNCHANGED <<now, computed, readSince, inflight, landed, aggAsks>>

\* finally: whatever event is registered by now is taken off and set, be it this
\* thread's own or another's.
StaysBoarded == inflight
TakenOff == None

Land(v) ==
    /\ viewer[v].pc = "land"
    /\ inflight' = TakenOff
    /\ landed' = landed \cup ({inflight} \ {None})
    /\ viewer' = [w \in Viewers |->
          CASE w = v -> [viewer[v] EXCEPT !.pc = "away"]
            [] w # v /\ viewer[v].failed /\ viewer[w].pc = "wait" /\ viewer[w].flight = inflight ->
                    [viewer[w] EXCEPT !.excused = TRUE]
            [] OTHER -> viewer[w]]
    /\ UNCHANGED <<now, computed, readSince, aggAsks, aggFaults>>

\* The event is set or the wait runs out. What the cache holds by then is taken
\* without a look at its age; with nothing there the follower computes on its own.
Wake(v) ==
    /\ viewer[v].pc = "wait"
    /\ viewer[v].flight \in landed \/ now - viewer[v].asked >= AggWait
    /\ LET timely == [viewer EXCEPT ![v].excused = @ \/ viewer[v].flight \notin landed]
       IN viewer' = IF computed # None
                    THEN [timely EXCEPT ![v] = Finds(@, "flight")]
                    ELSE [timely EXCEPT ![v] = Reads(@)]
    /\ UNCHANGED <<now, computed, readSince, inflight, landed, aggAsks, aggFaults>>

\* Time passes while counts are computed or waited for; the steps between are short.
AggTick ==
    /\ now < AggEnd /\ \A v \in Viewers : viewer[v].pc \notin {"board", "land"}
    /\ now' = now + 1
    /\ UNCHANGED <<computed, readSince, inflight, landed, viewer, aggAsks, aggFaults>>

AggInit ==
    /\ now = 0
    /\ computed = None /\ readSince = 0 /\ inflight = None /\ landed = {} /\ viewer = [v \in Viewers |-> Away]
    /\ aggAsks = 0 /\ aggFaults = 0

AggNext ==
    \/ \E v \in Viewers, life \in AggLives : AskCounts(v, life)
    \/ \E v \in Viewers : Board(v) \/ Compute(v) \/ ComputeFails(v) \/ Land(v) \/ Wake(v)
    \/ AggTick

AggSpec == AggInit /\ [][AggNext]_aggVars

-----------------------------------------------------------------------------
Current(a) ==
    a.answer # None =>
        /\ a.from = "self" => a.rows >= a.asked
        /\ a.from = "cache" => a.answer + a.life >= a.asked
        /\ a.from = "flight" => a.excused \/ a.answer >= a.asked

\* Whoever computes gets rows read after it asked; whoever finds counts in the cache
\* gets them stamped no longer ago than it asked for; whoever joins another's
\* computation gets counts that were stamped after it asked, whatever the cache held
\* before, unless that computation failed or took too long. The rows behind the
\* last two may be older by the time their computation took.
AnswersAreCurrent == \A v \in Viewers : viewer[v].pc = "away" => Current(viewer[v])

=============================================================================
