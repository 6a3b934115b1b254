-------------------------- MODULE MCIncidentStore --------------------------
(* Instances of IncidentStore for TLC. *)
EXTENDS IncidentStore

CONSTANTS scan, net1

OneType == {scan}
OneNet == {net1}
\* incidents.json from before the database: absent, or with one closed incident
OldCase == [EmptyBook EXCEPT ![1] =
    [type |-> scan, net |-> net1, status |-> "RESOLVED", updated |-> 0, rev |-> 1]]
WithLegacy == {EmptyBook, OldCase}
Both == BOOLEAN
=============================================================================
