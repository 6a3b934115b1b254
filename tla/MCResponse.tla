----------------------------- MODULE MCResponse -----------------------------
(* The response side for TLC: triage and playbooks, the breaker before the     *)
(* language model, pushes.  They share no state but the clock, so a behaviour  *)
(* takes one of them: the graph is the union of theirs, not the product.       *)
EXTENDS SoarTriage, AiBreaker, PushNotices, TLC

CONSTANTS a1, a2, a3, a4, ip1, ip2, lan, t1, t2, test, block

VARIABLE part   \* the component under check

TwoThreads == {t1, t2}
TwoKeys == {test, block}

AllAlerts == {a1, a2, a3, a4}
Said(type, level, ip, confidence, evidence, demo, hash) ==
    [type |-> type, level |-> level, ip |-> ip, confidence |-> confidence,
     evidence |-> evidence, demo |-> demo, hash |-> hash]
Said4 ==
    a1 :> Said("MALWARE", "CRITICAL", ip1, 2, {"snort_signature"}, FALSE, TRUE)
    @@ a2 :> Said("BRUTE_FORCE", "HIGH", ip1, 2, {"snort_signature", "abuseipdb_90"}, FALSE, FALSE)
    @@ a3 :> Said("EXFIL", "CRITICAL", lan, 1, {}, FALSE, FALSE)
    @@ a4 :> Said("HONEYPOT", "CRITICAL", ip2, 2, {"honeypot"}, TRUE, FALSE)
AllHosts == {ip1, ip2, lan}
Web == {ip1, ip2}
Kept == {ip2}
Setting(auto, approval, corroborate) == [auto |-> auto, approval |-> approval, corroborate |-> corroborate]
FourSettings == {Setting(TRUE, FALSE, FALSE), Setting(TRUE, FALSE, TRUE), Setting(TRUE, TRUE, FALSE), Setting(FALSE, FALSE, FALSE)}
OneSwitch == {"autoBlock"}
Model(verdict, confidence) == [verdict |-> verdict, confidence |-> confidence, by |-> "model"]
LiveVerdicts == {Model(TRUE, 2), Model(TRUE, None), Model(FALSE, 1), Model(None, 0)}
StandInVerdicts == LiveVerdicts \cup {[verdict |-> FALSE, confidence |-> 1, by |-> "stand-in"]}

triageRest == <<config, work, runs, raised, input, memo, effects, requests>>
breakerRest == <<asking, tasks, streak, openUntil, callStats, rewards, answers,
               asked>>
pushRest == <<active, sending, lastSent, pushed, pushStats, sent, pushes>>
vars == <<part, now, triageRest, breakerRest, pushRest>>

\* A component that is not under check starts one way only.
Init ==
    /\ part \in {"triage", "breaker", "pushes"} /\ TriageInit /\ BreakerInit /\ PushInit
    /\ part # "triage" => config = Setting(FALSE, FALSE, FALSE)
    /\ part # "pushes" => active

Next ==
    \/ part = "triage" /\ TriageNext /\ UNCHANGED <<part, breakerRest, pushRest>>
    \/ part = "breaker" /\ BreakerNext /\ UNCHANGED <<part, triageRest, pushRest>>
    \/ part = "pushes" /\ PushNext /\ UNCHANGED <<part, triageRest, breakerRest>>

\* The worker thread and the retry it was asked for run while triage does.
Fair ==
    /\ WF_vars(part = "triage" /\ WorkerStep /\ UNCHANGED <<part, breakerRest, pushRest>>)
    /\ WF_vars(part = "triage" /\ RetryAnswer /\ UNCHANGED <<part, breakerRest, pushRest>>)
Spec == Init /\ [][Next]_vars /\ Fair

TypeOK == TriageTypeOK /\ BreakerTypeOK /\ PushTypeOK
=============================================================================
