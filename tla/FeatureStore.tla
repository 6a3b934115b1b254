---------------------------- MODULE FeatureStore ----------------------------
(* The store of traffic features (ml_feature_store.py) behind the ML analyst:  *)
(* rows wait in a buffer and are committed together; the one connection may    *)
(* be left with a transaction open, and whoever commits next commits it too.   *)
(* An operator that stands right above another one with the same parameters    *)
(* and is used nowhere is a faulty variant of it (PROJECT.json, "mutants").    *)
EXTENDS SocClock, Integers, Sequences, FiniteSetsExt

CONSTANTS FlushEvery, FlushInterval, FeatureDays, FeatureEnd, MaxRows, MaxFlushFaults

ASSUME FeatureAssumption ==
    FlushEvery \in Nat \ {0} /\ FlushInterval \in Nat \ {0} /\ FeatureDays \in Nat

VARIABLES buffer,       \* rows [n, at, origin] not written yet
          uncommitted,  \* rows of the table, [id, row], that an open transaction holds
          features,     \* rows of the table, committed
          lastFlush, recorded, flushFaults,
          discarded, purged  \* lost to an error, deleted for their age (history)
featureVars == <<now, buffer, uncommitted, features, lastFlush, recorded, flushFaults, discarded, purged>>

-----------------------------------------------------------------------------
Table == features \cup uncommitted
InKeeping(rows) == {r \in rows : ~(r.row.at + FeatureDays < now)}

\* An INTEGER PRIMARY KEY that is left out is one more than the largest there is:
\* the ids of rows that were purged, or never committed, are given again.
Top == IF Table = {} THEN 0 ELSE Max({r.id : r \in Table})
Inserted(rows, count) == {[id |-> Top + i, row |-> rows[i]] : i \in 1..count}

\* A flush of rows either commits all of them, with what was left uncommitted, or
\* ends in an error after some were inserted: _flush_locked drops the buffer all
\* the same and does not roll back.
KeptForRetry(rows) == rows
BufferAfterFault(rows) == <<>>

Commit(rows) ==
    /\ features' = Table \cup Inserted(rows, Len(rows))
    /\ uncommitted' = {} /\ buffer' = <<>>
    /\ UNCHANGED <<discarded, flushFaults>>

Fault(rows) ==
    /\ flushFaults < MaxFlushFaults
    /\ flushFaults' = flushFaults + 1
    /\ \E written \in 0..Len(rows) :
          /\ uncommitted' = uncommitted \cup Inserted(rows, written)
          /\ discarded' = discarded \cup {rows[i].n : i \in (written + 1)..Len(rows)}
    /\ buffer' = BufferAfterFault(rows)
    /\ UNCHANGED features

FlushRows(rows) == (Commit(rows) \/ Fault(rows)) /\ lastFlush' = now

\* record: a vector of the wrong length is refused and changes nothing. The clock
\* of the flush runs from the last one, whether it stored anything or not.
RecordFeature(origin) ==
    /\ recorded < MaxRows
    /\ recorded' = recorded + 1
    /\ LET rows == Append(buffer, [n |-> recorded', at |-> now, origin |-> origin])
       IN IF Len(rows) >= FlushEvery \/ now - lastFlush >= FlushInterval
          THEN FlushRows(rows)
          ELSE buffer' = rows /\ UNCHANGED <<uncommitted, features, lastFlush, discarded, flushFaults>>
    /\ UNCHANGED <<now, purged>>

\* flush(), before a retraining and when the analyst stops.
FlushNow ==
    /\ IF buffer = <<>>
       THEN lastFlush' = now /\ UNCHANGED <<buffer, uncommitted, features, discarded, flushFaults>>
       ELSE FlushRows(buffer)
    /\ UNCHANGED <<now, recorded, purged>>

\* purge_older_than counts and deletes over the same connection, so it sees the
\* uncommitted rows too, and commits only when it deleted something.
PurgeFeatures ==
    /\ InKeeping(Table) # Table
    /\ features' = InKeeping(Table) /\ uncommitted' = {}
    /\ purged' = purged \cup {r.row.n : r \in Table \ InKeeping(Table)}
    /\ UNCHANGED <<now, buffer, lastFlush, recorded, discarded, flushFaults>>

\* The process dies: the buffer and the open transaction with it.
FeatureCrash ==
    /\ flushFaults < MaxFlushFaults
    /\ flushFaults' = flushFaults + 1
    /\ discarded' = discarded \cup {buffer[i].n : i \in DOMAIN buffer} \cup {r.row.n : r \in uncommitted}
    /\ buffer' = <<>> /\ uncommitted' = {} /\ lastFlush' = now
    /\ UNCHANGED <<now, features, recorded, purged>>

FeatureTick ==
    /\ now < FeatureEnd
    /\ now' = now + 1
    /\ UNCHANGED <<buffer, uncommitted, features, lastFlush, recorded, discarded, flushFaults, purged>>

FeatureInit ==
    /\ now = 0
    /\ buffer = <<>> /\ uncommitted = {} /\ features = {}
    /\ lastFlush = 0 /\ recorded = 0 /\ flushFaults = 0 /\ discarded = {} /\ purged = {}

FeatureNext ==
    \/ \E origin \in {"real", "demo"} : RecordFeature(origin)
    \/ FlushNow
    \/ PurgeFeatures
    \/ FeatureCrash
    \/ FeatureTick

FeatureSpec == FeatureInit /\ [][FeatureNext]_featureVars

-----------------------------------------------------------------------------
\* load() gives a retraining its rows by their id, and that is the order they were
\* recorded in, ahead of those that wait; no row is there twice, and none is gone
\* but by an error that was logged, a crash, or its age, whatever failed in between.
RowsAreOnce ==
    LET stored == {r.row.n : r \in Table}
        waiting == {buffer[i].n : i \in DOMAIN buffer}
    IN /\ \A r, s \in Table : (r.id = s.id => r = s) /\ (r.id < s.id => r.row.n < s.row.n)
       /\ \A i, j \in DOMAIN buffer : i < j => buffer[i].n < buffer[j].n
       /\ \A n \in stored, m \in waiting : n < m
       /\ (stored \cup waiting) \cap (discarded \cup purged) = {} /\ discarded \cap purged = {}
       /\ 1..recorded = stored \cup waiting \cup discarded \cup purged

=============================================================================
