----------------------------- MODULE AlertRecord -----------------------------
(* What the alert store promises, with no word about where a row is kept: an   *)
(* alert, once saved, stays on record with the verdict last given to it, and   *)
(* is deleted only when it is older than the archive's retention.              *)
EXTENDS Integers

CONSTANTS Ids, Verdicts, Unreviewed, Lifetime, Missing

VARIABLES alerts,  \* per id when the alert was raised and how it was judged
          clock

record == <<alerts, clock>>

RecordInit == alerts = [i \in Ids |-> Missing] /\ clock = 0

Add(i) ==
    /\ alerts[i] = Missing
    /\ \E at \in 0..clock :      \* raised some time before it is saved
          alerts' = [alerts EXCEPT ![i] = [at |-> at, verdict |-> Unreviewed]]
    /\ UNCHANGED clock

Judge(i, verdict) ==
    /\ alerts[i] # Missing
    /\ alerts' = [alerts EXCEPT ![i].verdict = verdict]
    /\ UNCHANGED clock

Delete(gone) ==
    /\ \A i \in gone : alerts[i] # Missing /\ alerts[i].at + Lifetime < clock
    /\ alerts' = [i \in Ids |-> IF i \in gone THEN Missing ELSE alerts[i]]
    /\ UNCHANGED clock

Pass == clock' = clock + 1 /\ UNCHANGED alerts

RecordNext ==
    \/ \E i \in Ids : Add(i) \/ \E verdict \in Verdicts : Judge(i, verdict)
    \/ \E gone \in SUBSET Ids : Delete(gone)
    \/ Pass

RecordSpec == RecordInit /\ [][RecordNext]_record
=============================================================================
