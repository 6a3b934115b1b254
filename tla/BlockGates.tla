----------------------------- MODULE BlockGates -----------------------------
(* modules/block_decision.py: the gates an automatic block must pass, the      *)
(* record of a decision and its replay.                                        *)
(*                                                                             *)
(* An operator that stands right above another one with the same parameters    *)
(* and is used nowhere is a faulty variant of it (PROJECT.json, "mutants").    *)
EXTENDS Integers, FiniteSets

GateIds == {"playbook_enabled", "auto_block_on", "severity_critical", "verdict_true_positive",
            "confidence", "corroboration", "not_demo", "external_ip"}
OutcomeLabels == {"blocked", "queued_for_approval", "prevented_by_safety", "already_blocked",
                  "gates_not_met", "no_ip"}

\* in: the arguments of evaluate_gates.  Each gate keeps what it was judged by.
EvaluateGates(in) ==
    LET Gate(ok, actual) == [passed |-> ok, actual |-> actual]
    IN [g \in GateIds |->
          CASE g = "playbook_enabled" -> Gate(in.enabled, in.enabled)
            [] g = "auto_block_on" -> Gate(in.auto, in.auto)
            [] g = "severity_critical" -> Gate(in.critical, in.critical)
            [] g = "verdict_true_positive" -> Gate(in.verdict, in.verdict)
            [] g = "confidence" -> Gate(in.confidence >= in.min, in.confidence)
            [] g = "corroboration" -> Gate(~in.corroborate \/ Cardinality(in.evidence) >= 2, in.evidence)
            [] g = "not_demo" -> Gate(~in.demo, in.demo)
            [] g = "external_ip" -> Gate(in.external, in.external)]
BlockingReasons(gates) == {g \in GateIds : ~gates[g].passed}
Passed(gates) == BlockingReasons(gates) = {}

\* What record stores: gates as judged, the signals and the thresholds of then.
DecisionOf(alert, ip, in, gates, outcome) ==
    [alert |-> alert, ip |-> ip, blocked |-> outcome = "blocked", outcome |-> outcome,
     passed |-> Passed(gates), gates |-> gates,
     signals |-> [confidence |-> in.confidence, evidence |-> in.evidence, demo |-> in.demo],
     thresholds |-> [min |-> in.min, corroborate |-> in.corroborate, auto |-> in.auto]]

\* replay: the same signals under other thresholds; "without" drops a source.
Replay(d, min, corroborate, auto, without, verdict) ==
    EvaluateGates(
      [enabled |-> d.gates["playbook_enabled"].actual, auto |-> auto,
       critical |-> d.gates["severity_critical"].actual, verdict |-> verdict,
       confidence |-> d.signals.confidence, min |-> min,
       evidence |-> d.signals.evidence \ without, corroborate |-> corroborate,
       demo |-> d.signals.demo, external |-> d.gates["external_ip"].actual])
\* replay with no argument but the record.
ReplayAsRecorded(d) ==
    Replay(d, d.thresholds.min, d.thresholds.corroborate, d.thresholds.auto, {},
           d.gates["verdict_true_positive"].actual)

\* stats: what kept the decisions that were no block from being one.
TopBlockers(log) ==
    [g \in GateIds |-> Cardinality({d \in log : ~d.blocked /\ g \in BlockingReasons(d.gates)})]
=============================================================================
