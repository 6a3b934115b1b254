----------------------------- MODULE SoarTriage -----------------------------
(* modules/soar.py and modules/playbooks.py: the queue of the response engine, *)
(* its single worker and the playbooks it runs on an alert, a probe or a       *)
(* threat-intelligence match, up to the automatic block and its record.        *)
(*                                                                             *)
(* The block itself is SoarBlocklist's, a request for approval SoarApproval's; *)
(* here a block is a member of a set.  Requests of analysts (status, unblock,  *)
(* toggles, retries) come in between the worker's steps.                       *)
(*                                                                             *)
(* An operator that stands right above another one with the same parameters    *)
(* and is used nowhere is a faulty variant of it (PROJECT.json, "mutants").    *)
EXTENDS SocClock, BlockGates, Sequences, SequencesExt

CONSTANTS
    Alerts, AlertOf,        \* alerts and what each says: type, level, ip, confidence, evidence, demo, hash
    Hosts, External, Guarded,       \* addresses; those outside; those never to be blocked
    Settings,               \* values of config a run starts with
    Switched,               \* playbooks an analyst may switch
    AiVerdicts,             \* answers of the model: [verdict, confidence, by]
    QueueCap, Budget, BudgetSpan, MinConfidence, RuleMin, ProbeLimit,
    MaxHanded, MaxMeddling, TriageEnd           \* bounds

ASSUME TriageNumbers ==
    /\ {QueueCap, Budget, BudgetSpan, MinConfidence, RuleMin, ProbeLimit,
        MaxHanded, MaxMeddling, TriageEnd} \subseteq Nat
    /\ Settings \subseteq [auto : BOOLEAN, approval : BOOLEAN, corroborate : BOOLEAN]
    /\ QueueCap > 0 /\ External \subseteq Hosts /\ Guarded \subseteq Hosts

VARIABLES
    config,     \* SOAR_AUTO_BLOCK, SOAR_APPROVAL_REQUIRED, SOAR_REQUIRE_CORROBORATION
    enabled,    \* playbooks that are on
    queue,      \* _queue
    work,       \* what the worker is at
    triaged, exfiled,       \* _triaged_alerts, _exfil_alerts
    aiCalls,    \* _ai_calls
    probes,     \* _siem_probe_counter
    runs,       \* the executions, by id
    retries,    \* executions request threads are running
    statusOf,   \* each alert's status at the detector
    blocked,    \* blocked_ips
    decisions,  \* BlockDecisionLog
    made,       \* blocks made: alert and address (history)
    raised,     \* executions and alerts an exception cut short (history)
    closings,   \* alerts closed as false, and on whose word (history)
    given,      \* alerts handed over so far, each once (history)
    handed, meddled

input == <<queue, given, handed>>
memo == <<triaged, exfiled, aiCalls, probes>>
effects == <<statusOf, blocked, decisions, made, closings>>
requests == <<enabled, retries, meddled>>
triageVars == <<now, config, work, runs, raised, input, memo, effects, requests>>

-----------------------------------------------------------------------------
(* Playbooks and executions *)

StepsOf == [
    triage |-> <<"intake", "enrich", "ai", "verdict", "notify">>,
    autoBlock |-> <<"gate", "safety", "block", "log">>,
    brute |-> <<"match", "safety", "block", "log">>,
    honeypot |-> <<"hit", "score", "block", "log">>,
    scanner |-> <<"probe", "thresh", "block", "log">>,
    ioc |-> <<"match", "block", "log">>,
    correlated |-> <<"corr", "assess", "escalate", "notify">>,
    exfil |-> <<"intake", "validate", "preserve", "scope", "contain", "case", "notify">>,
    malware |-> <<"intake", "hash", "vt", "verdict", "handoff">>]
Playbooks == DOMAIN StepsOf

\* _execution_start; a retry counts its attempts on.
Started(rs, pb, about, retryOf) ==
    Append(rs, [pb |-> pb, about |-> about, status |-> "running",
                attempt |-> IF retryOf = 0 THEN 1 ELSE rs[retryOf].attempt + 1,
                steps |-> [k \in ToSet(StepsOf[pb]) |-> "pending"]])
\* _execution_step, for several steps at once.
Stepped(rs, id, marks) ==
    [rs EXCEPT ![id].steps = [k \in DOMAIN @ |-> IF k \in DOMAIN marks THEN marks[k] ELSE @[k]]]
Closed(rs, id, status) == [rs EXCEPT ![id].status = status]
\* _pb_run: a short playbook, recorded as completed.
PbRun(rs, pb, about) ==
    Append(rs, [pb |-> pb, about |-> about, status |-> "completed", attempt |-> 1,
                steps |-> [k \in ToSet(StepsOf[pb]) |-> "completed"]])

IdleWorker == [pc |-> "idle", alert |-> None, ip |-> None, evidence |-> {}, eligible |-> FALSE,
               run |-> 0, verdict |-> FALSE, confidence |-> 0, by |-> None, then |-> "idle",
               outcome |-> "gates_not_met", gates |-> None]

TriageInit ==
    /\ now = 0 /\ handed = 0 /\ meddled = 0 /\ given = {}
    /\ config \in Settings
    /\ enabled = Playbooks
    /\ queue = <<>> /\ work = IdleWorker
    /\ triaged = {} /\ exfiled = {} /\ aiCalls = <<>>
    /\ probes = [h \in Hosts |-> 0]
    /\ runs = <<>> /\ retries = {}
    /\ statusOf = [a \in Alerts |-> "NEW"]
    /\ blocked = {} /\ decisions = {} /\ made = {} /\ raised = {} /\ closings = {}

At1(label) == work.pc = label
EndsWorker(what) == work' = [IdleWorker EXCEPT !.pc = "dead"] /\ raised' = raised \cup what
\* An exception ends the item and nothing else (_worker_loop).
CutShort(what) == work' = IdleWorker /\ raised' = raised \cup what

-----------------------------------------------------------------------------
(* The queue *)

\* handle_alert, handle_siem_event, handle_ti_match: a full deque drops its oldest.
Hand(item) ==
    /\ handed < MaxHanded /\ handed' = handed + 1
    /\ item.kind = "alert" => item.what \notin given
    /\ given' = IF item.kind = "alert" THEN given \cup {item.what} ELSE given
    /\ queue' = Append(IF Len(queue) = QueueCap THEN Tail(queue) ELSE queue, item)
    /\ UNCHANGED <<now, config, work, runs, raised, memo, effects, requests>>

Items == {[kind |-> "alert", what |-> a] : a \in Alerts}
         \cup {[kind |-> k, what |-> h] : k \in {"siem", "ti"}, h \in Hosts}

\* _eligible_auto_block
Eligible(a) ==
    /\ ~AlertOf[a].demo /\ AlertOf[a].confidence >= MinConfidence
    /\ config.corroborate => Cardinality(AlertOf[a].evidence) >= 2

\* _worker_loop: the next alert is taken.
TakeAlert ==
    /\ At1("idle") /\ queue # <<>> /\ Head(queue).kind = "alert"
    /\ LET a == Head(queue).what IN
       work' = [IdleWorker EXCEPT !.pc = "enrich", !.alert = a, !.ip = AlertOf[a].ip,
                    !.evidence = AlertOf[a].evidence, !.eligible = Eligible(a)]
    /\ queue' = Tail(queue)
    /\ UNCHANGED <<now, config, runs, raised, given, handed, memo, effects, requests>>

\* _process_siem: a host outside that probes for the third time is blocked, once.
TakeProbe ==
    /\ At1("idle") /\ queue # <<>> /\ Head(queue).kind = "siem"
    /\ LET h == Head(queue).what
           counts == "scanner" \in enabled /\ config.auto /\ h \in External /\ ~config.corroborate
           third == counts /\ probes[h] + 1 = ProbeLimit
       IN /\ probes' = IF counts THEN [probes EXCEPT ![h] = @ + 1] ELSE probes
          /\ runs' = IF third THEN PbRun(runs, "scanner", h) ELSE runs
          /\ work' = IF third THEN [IdleWorker EXCEPT !.pc = "block", !.ip = h] ELSE work
    /\ queue' = Tail(queue)
    /\ UNCHANGED <<now, config, triaged, exfiled, aiCalls, raised, given, handed, effects, requests>>

\* _process_ti
TakeMatch ==
    /\ At1("idle") /\ queue # <<>> /\ Head(queue).kind = "ti"
    /\ LET h == Head(queue).what
           acts == "ioc" \in enabled /\ config.auto /\ ~config.corroborate
       IN /\ runs' = IF acts THEN PbRun(runs, "ioc", h) ELSE runs
          /\ work' = IF acts THEN [IdleWorker EXCEPT !.pc = "block", !.ip = h] ELSE work
    /\ queue' = Tail(queue)
    /\ UNCHANGED <<now, config, raised, given, handed, memo, effects, requests>>

-----------------------------------------------------------------------------
(* Playbooks that need no verdict *)

NoHashMarks == [intake |-> "completed", hash |-> "skipped", vt |-> "skipped", verdict |-> "skipped", handoff |-> "completed"]
LookupMarks == [intake |-> "completed", hash |-> "completed", vt |-> "running"]

\* _process_malware_enrichment up to the look-up.
Enrich ==
    /\ At1("enrich")
    /\ LET a == work.alert
           begun == Started(runs, "malware", a, 0)
           id == Len(begun)
       IN \/ /\ ~("malware" \in enabled /\ AlertOf[a].type = "MALWARE")
             /\ work' = [work EXCEPT !.pc = "exfil"] /\ UNCHANGED runs
          \/ /\ "malware" \in enabled /\ AlertOf[a].type = "MALWARE" /\ ~AlertOf[a].hash
             /\ runs' = Closed(Stepped(begun, id, NoHashMarks), id, "completed")
             /\ work' = [work EXCEPT !.pc = "exfil"]
          \/ /\ "malware" \in enabled /\ AlertOf[a].type = "MALWARE" /\ AlertOf[a].hash
             /\ runs' = Stepped(begun, id, LookupMarks)
             /\ work' = [work EXCEPT !.pc = "lookup", !.run = id]
    /\ UNCHANGED <<now, config, raised, input, memo, effects, requests>>

\* The rest of _run_malware_lookup, by the service's answer.
Answered(rs, id, answer) ==
    CASE answer \in {"harmless", "malicious"} ->
           Closed(Stepped(rs, id, [vt |-> "completed", verdict |-> "completed", handoff |-> "completed"]), id, "completed")
      [] answer = "not_configured" ->
           Closed(Stepped(rs, id, [vt |-> "skipped", verdict |-> "skipped", handoff |-> "completed"]), id, "completed")
      [] answer = "error" ->
           Closed(Stepped(rs, id, [vt |-> "failed", verdict |-> "skipped", handoff |-> "skipped"]), id, "failed")
Answers == {"harmless", "malicious", "not_configured", "error"}

LookupAnswer ==
    /\ At1("lookup")
    /\ \E answer \in Answers :
          /\ runs' = Answered(runs, work.run, answer)
          /\ work' = [work EXCEPT !.pc = "exfil", !.run = 0,
                          !.evidence = @ \cup (IF answer = "malicious" THEN {"virustotal_5plus"} ELSE {})]
    /\ UNCHANGED <<now, config, raised, input, memo, effects, requests>>

\* _process_data_exfil: evidence and a case, never a block of an inside host.
Exfil ==
    /\ At1("exfil")
    /\ LET a == work.alert
           acts == "exfil" \in enabled /\ AlertOf[a].type = "EXFIL" /\ a \notin exfiled
           begun == Started(runs, "exfil", a, 0)
           marks == [k \in ToSet(StepsOf.exfil) |-> IF k = "contain" THEN "skipped" ELSE "completed"]
       IN /\ exfiled' = IF acts THEN exfiled \cup {a} ELSE exfiled
          /\ runs' = IF acts THEN Closed(Stepped(begun, Len(begun), marks), Len(begun), "completed") ELSE runs
          /\ statusOf' = IF acts THEN [statusOf EXCEPT ![a] = "ACK"] ELSE statusOf
    /\ work' = [work EXCEPT !.pc = "contain"]
    /\ UNCHANGED <<now, config, triaged, aiCalls, probes, blocked, decisions, made, raised, closings, input, requests>>

PlaybookOf(type) == CASE type = "BRUTE_FORCE" -> "brute" [] type = "HONEYPOT" -> "honeypot"
                      [] type = "CORRELATED" -> "correlated" [] OTHER -> None

\* PB-BRUTE-BLOCK, PB-HONEYPOT-BLOCK and PB-CORRELATED-ESCALATE.
Contain ==
    /\ At1("contain")
    /\ LET a == work.alert
           pb == PlaybookOf(AlertOf[a].type)
           blocks == pb \in enabled \cap {"brute", "honeypot"} /\ config.auto
                     /\ work.eligible /\ work.ip \in External
       IN /\ runs' = IF blocks \/ pb \in enabled \cap {"correlated"} THEN PbRun(runs, pb, a) ELSE runs
          /\ work' = IF blocks THEN [work EXCEPT !.pc = "block", !.then = "triage"]
                     ELSE [work EXCEPT !.pc = "triage"]
    /\ UNCHANGED <<now, config, raised, input, memo, effects, requests>>

-----------------------------------------------------------------------------
(* Blocks *)

Blockable(ip) == ip \in External \ Guarded

\* _block_ip up to the record in blocked_ips.
Block ==
    /\ At1("block")
    /\ LET ip == work.ip
           outcome == CASE ~Blockable(ip) -> "prevented_by_safety"
                        [] Blockable(ip) /\ ip \in blocked -> "already_blocked"
                        [] Blockable(ip) /\ ip \notin blocked /\ config.approval -> "queued_for_approval"
                        [] OTHER -> "blocked"
       IN /\ work' = [work EXCEPT !.outcome = outcome, !.pc = IF outcome = "blocked" THEN "log" ELSE work.then]
          /\ blocked' = IF outcome = "blocked" THEN blocked \cup {ip} ELSE blocked
          /\ made' = IF outcome = "blocked" THEN made \cup {<<work.alert, ip, work.then>>} ELSE made
    /\ UNCHANGED <<now, config, runs, statusOf, decisions, raised, closings, input, memo, requests>>

\* Its log line reads the record again: gone, it ends the item.
LogBlock ==
    /\ At1("log")
    /\ IF work.ip \in blocked THEN work' = [work EXCEPT !.pc = work.then] /\ UNCHANGED raised
       ELSE CutShort({work.run, work.alert})
    /\ UNCHANGED <<now, config, runs, input, memo, effects, requests>>

-----------------------------------------------------------------------------
(* PB-AI-TRIAGE *)

NoTriage ==
    /\ At1("triage")
    /\ \/ "triage" \notin enabled \/ AlertOf[work.alert].level = "LOW" \/ work.alert \in triaged
    /\ work' = IdleWorker
    /\ UNCHANGED <<now, config, runs, raised, input, memo, effects, requests>>

\* _ai_budget_ok: the calls of the window.
RecentCalls(at) == {i \in DOMAIN aiCalls : at - aiCalls[i] < BudgetSpan}

\* The verdict is asked of the model, or found by rule when the budget is used up.
AskVerdict ==
    /\ At1("triage")
    /\ "triage" \in enabled /\ AlertOf[work.alert].level # "LOW" /\ work.alert \notin triaged
    /\ LET a == work.alert
           begun == Started(runs, "triage", a, 0)
           id == Len(begun)
           asks == Cardinality(RecentCalls(now)) < Budget
           conf == AlertOf[a].confidence
       IN /\ triaged' = triaged \cup {a}
          /\ runs' = Stepped(begun, id, [intake |-> "completed", enrich |-> "completed",
                                         ai |-> IF asks THEN "running" ELSE "skipped"])
          /\ aiCalls' = IF asks THEN Append(aiCalls, now) ELSE aiCalls
          /\ work' = IF asks THEN [work EXCEPT !.pc = "ai", !.run = id]
                     ELSE [work EXCEPT !.pc = "apply", !.run = id, !.verdict = conf >= RuleMin,
                                       !.confidence = conf, !.by = "rule"]
    /\ UNCHANGED <<now, config, exfiled, probes, raised, input, effects, requests>>

LeftRunning(rs, id) == Stepped(rs, id, [ai |-> "failed"])
\* An answer without a verdict is for a person to look at.
Inconclusive(rs, id) == Closed(Stepped(rs, id, [ai |-> "failed"]), id, "failed")

\* analyze_alert returns: the model's verdict, none, or a stand-in for it.
AiAnswer ==
    /\ At1("ai")
    /\ \E v \in AiVerdicts :
          /\ runs' = IF v.verdict = None THEN Inconclusive(runs, work.run)
                     ELSE Stepped(runs, work.run, [ai |-> "completed"])
          /\ work' = IF v.verdict = None THEN IdleWorker
                     ELSE [work EXCEPT !.pc = "apply", !.verdict = v.verdict,
                                       !.confidence = v.confidence, !.by = v.by]
    /\ UNCHANGED <<now, config, raised, input, memo, effects, requests>>

\* _apply_triage: a false alert is closed, a true one acknowledged and promoted.
Apply ==
    /\ At1("apply")
    /\ LET a == work.alert IN
       IF work.verdict
       THEN /\ statusOf' = [statusOf EXCEPT ![a] = "ACK"]
            /\ runs' = Stepped(runs, work.run, [verdict |-> "completed", notify |-> "running"])
            /\ work' = [work EXCEPT !.pc = "gates"]
            /\ UNCHANGED closings
       ELSE /\ statusOf' = [statusOf EXCEPT ![a] = "CLOSED"]
            /\ runs' = Closed(Stepped(runs, work.run, [verdict |-> "completed", notify |-> "skipped"]),
                              work.run, "completed")
            /\ work' = IdleWorker
            /\ closings' = closings \cup {<<a, work.by>>}
    /\ UNCHANGED <<now, config, blocked, decisions, made, raised, input, memo, requests>>

GateInput ==
    [enabled |-> "autoBlock" \in enabled, auto |-> config.auto,
     critical |-> AlertOf[work.alert].level = "CRITICAL", verdict |-> work.verdict,
     confidence |-> work.confidence, min |-> MinConfidence, evidence |-> work.evidence,
     corroborate |-> config.corroborate, demo |-> AlertOf[work.alert].demo,
     external |-> work.ip \in External]

\* PB-AUTO-BLOCK: the gates decide; a confidence that is no number ends the item.
Gates ==
    /\ At1("gates")
    /\ \/ /\ work.confidence = None
          /\ CutShort({work.run, work.alert}) /\ UNCHANGED runs
       \/ /\ work.confidence # None
          /\ LET gates == EvaluateGates(GateInput) IN
             /\ runs' = IF Passed(gates) THEN PbRun(runs, "autoBlock", work.alert) ELSE runs
             /\ work' = [work EXCEPT !.pc = IF Passed(gates) THEN "block" ELSE "record",
                             !.then = "record", !.outcome = "gates_not_met", !.gates = gates]
          /\ UNCHANGED raised
    /\ UNCHANGED <<now, config, input, memo, effects, requests>>
Recounted == DecisionOf(work.alert, work.ip, GateInput, EvaluateGates(GateInput), work.outcome)
\* _record_block_decision: the gates that decided, with what came of it.
Decision == DecisionOf(work.alert, work.ip, GateInput, work.gates, work.outcome)

Record ==
    /\ At1("record")
    /\ decisions' = decisions \cup {Decision}
    /\ runs' = Closed(Stepped(runs, work.run, [notify |-> "completed"]), work.run, "completed")
    /\ work' = IdleWorker
    /\ UNCHANGED <<now, config, statusOf, blocked, made, raised, closings, input, memo, requests>>

-----------------------------------------------------------------------------
(* Requests, the clock, a restart *)

Meddles == meddled < MaxMeddling /\ meddled' = meddled + 1

TogglePlaybook ==
    /\ Meddles
    /\ \E pb \in Switched : enabled' = IF pb \in enabled THEN enabled \ {pb} ELSE enabled \cup {pb}
    /\ UNCHANGED <<now, config, work, runs, retries, raised, input, memo, effects>>

\* manual_unblock
Unblock ==
    /\ Meddles
    /\ \E ip \in blocked : blocked' = blocked \ {ip}
    /\ UNCHANGED <<now, config, enabled, work, runs, retries, statusOf, decisions, made, raised, closings, input, memo>>

\* retry_execution: a failed look-up is run again as an execution of its own.
Retry ==
    /\ Meddles
    /\ \E id \in DOMAIN runs :
          /\ runs[id].status = "failed" /\ runs[id].pb = "malware"
          /\ LET begun == Started(runs, "malware", runs[id].about, id) IN
             /\ runs' = Stepped(begun, Len(begun), LookupMarks)
             /\ retries' = retries \cup {Len(begun)}
    /\ UNCHANGED <<now, config, enabled, work, raised, input, memo, effects>>

RetryAnswer ==
    /\ \E id \in retries, answer \in Answers :
          runs' = Answered(runs, id, answer) /\ retries' = retries \ {id}
    /\ UNCHANGED <<now, config, enabled, work, raised, meddled, input, memo, effects>>

\* __init__: what was running is closed; sets, counters and queue are empty.
TriageRestart ==
    /\ Meddles
    /\ runs' = [id \in DOMAIN runs |-> IF runs[id].status # "running" THEN runs[id]
                                       ELSE [runs[id] EXCEPT !.status = "interrupted"]]
    /\ enabled' = Playbooks /\ queue' = <<>> /\ work' = IdleWorker /\ retries' = {}
    /\ triaged' = {} /\ exfiled' = {} /\ aiCalls' = <<>> /\ probes' = [h \in Hosts |-> 0]
    /\ raised' = raised \cup {work.alert}
    /\ UNCHANGED <<now, config, given, handed, effects>>

TriageTick ==
    /\ now < TriageEnd /\ now' = now + 1
    /\ UNCHANGED <<config, work, runs, raised, input, memo, effects, requests>>

WorkerStep ==
    \/ TakeAlert \/ TakeProbe \/ TakeMatch \/ Enrich \/ LookupAnswer \/ Exfil \/ Contain
    \/ Block \/ LogBlock \/ NoTriage \/ AskVerdict \/ AiAnswer \/ Apply \/ Gates \/ Record

TriageNext ==
    \/ \E item \in Items : Hand(item)
    \/ WorkerStep \/ RetryAnswer
    \/ TogglePlaybook \/ Unblock \/ Retry \/ TriageRestart \/ TriageTick

TriageSpec == TriageInit /\ [][TriageNext]_triageVars /\ WF_triageVars(WorkerStep) /\ WF_triageVars(RetryAnswer)

-----------------------------------------------------------------------------
(* Properties *)

TriageTypeOK ==
    /\ enabled \subseteq Playbooks /\ Len(queue) <= QueueCap
    /\ triaged \cup exfiled \subseteq Alerts
    /\ statusOf \in [Alerts -> {"NEW", "ACK", "CLOSED"}]
    /\ \A id \in DOMAIN runs : runs[id].pb \in Playbooks
    /\ \A id \in DOMAIN runs : runs[id].status \in {"running", "completed", "failed", "interrupted"}

(* A decision on record says what happened: "blocked" when the block was made  *)
(* by it and never otherwise, its gates are the ones that decided, replaying   *)
(* it with its own thresholds gives them again; and a block the gates let      *)
(* through is on record unless an exception or a restart cut it short          *)
(* (block_decision.py: log and action must not drift apart).                   *)
DecisionTellsTruth ==
    /\ \A d \in decisions :
          /\ d.blocked <=> <<d.alert, d.ip, "record">> \in made
          /\ d.outcome # "gates_not_met" <=> d.passed
          /\ ReplayAsRecorded(d) = d.gates
    /\ \A m \in made : m[3] = "record" /\ m[1] \notin raised /\ work.alert # m[1] =>
          \E d \in decisions : d.alert = m[1] /\ d.blocked

(* No execution stays "running" with nobody at it: it is the worker's, a       *)
(* retry's, or one an exception cut short; and one that is completed has no    *)
(* step left pending or running, whichever way its playbook went.              *)
RunningHasOwner ==
    \A id \in DOMAIN runs :
        /\ runs[id].status = "running" => id \in {work.run} \cup retries \cup raised
        /\ runs[id].status = "completed" =>
              \A k \in DOMAIN runs[id].steps : runs[id].steps[k] \notin {"pending", "running"}

(* Whatever an item does to it, the worker comes back and the queue drains.    *)
QueueDrains == <>[](queue = <<>> /\ work.pc = "idle")

(* What SOAR closes as false was judged so by the model or by the rule on the  *)
(* detector's confidence, never by a stand-in for a model that does not answer *)
(* (soar.py:442: without a verdict, a person reviews).                         *)
ClosedOnJudgement == \A c \in closings : c[2] \in {"model", "rule"}
=============================================================================
