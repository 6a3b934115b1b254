-------------------------- MODULE SoarTriage_proofs ---------------------------
(* Theorems about triage: executions have owners, alerts are decided once,   *)
(* and what a decision records is what happened, for any playbook settings,  *)
(* any queue, any number of alerts, hosts and retries, exceptions and        *)
(* restarts.                                                                 *)
EXTENDS SoarTriage, SequenceTheorems, TLAPS

-------------------------------------------------------------------------------
(* What the variables hold.                                                  *)
Stages == {"idle", "enrich", "lookup", "exfil", "contain", "triage", "ai", "apply", "gates",
           "block", "log", "record"}
WorkFields == {"pc", "alert", "ip", "evidence", "eligible", "run", "verdict", "confidence",
               "by", "then", "outcome", "gates"}
StepMarks == {"pending", "running", "completed", "skipped", "failed"}
Statuses == {"running", "completed", "failed", "interrupted"}
ExecutionOf(pb) == [pb : {pb}, about : Alerts \cup Hosts, status : Statuses, attempt : Nat,
                    steps : [ToSet(StepsOf[pb]) -> StepMarks]]
Executions == UNION {ExecutionOf(pb) : pb \in Playbooks}
\* A step nobody has to come back to.
Settled(r, k) == k \in DOMAIN r.steps => r.steps[k] \notin {"pending", "running"}

-----------------------------------------------------------------------------

(* What an execution is made of.                                             *)
LEMMA ExecutionIs ==
    ASSUME NEW r \in Executions
    PROVE  /\ r.pb \in Playbooks /\ r \in ExecutionOf(r.pb) /\ r.status \in Statuses
           /\ r.about \in Alerts \cup Hosts /\ r.attempt \in Nat
           /\ r.steps \in [ToSet(StepsOf[r.pb]) -> StepMarks]
           /\ DOMAIN r.steps = ToSet(StepsOf[r.pb])
  <1>1. PICK pb \in Playbooks : r \in ExecutionOf(pb) BY DEF Executions
  <1>2. r.pb = pb BY <1>1 DEF ExecutionOf
  <1> QED BY <1>1, <1>2 DEF ExecutionOf

(* A start appends one execution that runs.                                  *)
LEMMA StartedIs ==
    ASSUME NEW rs \in Seq(Executions), NEW pb \in Playbooks, NEW about \in Alerts \cup Hosts,
           NEW retryOf \in {0} \cup DOMAIN rs
    PROVE  \E r \in ExecutionOf(pb) : r.status = "running" /\ Started(rs, pb, about, retryOf) = Append(rs, r)
  <1> DEFINE n == IF retryOf = 0 THEN 1 ELSE rs[retryOf].attempt + 1
             s == [k \in ToSet(StepsOf[pb]) |-> "pending"]
             r == [pb |-> pb, about |-> about, status |-> "running", attempt |-> n, steps |-> s]
  <1>1. n \in Nat
    <2>1. CASE retryOf = 0 BY <2>1
    <2>2. CASE retryOf # 0
      <3>1. rs[retryOf] \in Executions BY <2>2
      <3> QED BY <2>2, <3>1, ExecutionIs
    <2> QED BY <2>1, <2>2
  <1>2. s \in [ToSet(StepsOf[pb]) -> StepMarks] BY DEF StepMarks
  <1> HIDE DEF n, s
  <1>3. r \in ExecutionOf(pb) BY <1>1, <1>2 DEF ExecutionOf, Statuses
  <1>5. Started(rs, pb, about, retryOf) = Append(rs, r) BY DEF Started, n, s
  <1>6. r.status = "running" OBVIOUS
  <1> HIDE DEF r
  <1> QED BY <1>3, <1>5, <1>6

(* The others keep their places.                                             *)
LEMMA AppendIs ==
    ASSUME NEW rs \in Seq(Executions), NEW pb \in Playbooks, NEW r \in ExecutionOf(pb)
    PROVE  /\ Append(rs, r) \in Seq(Executions)
           /\ Len(Append(rs, r)) = Len(rs) + 1
           /\ DOMAIN Append(rs, r) = DOMAIN rs \cup {Len(rs) + 1}
           /\ \A i \in DOMAIN rs : Append(rs, r)[i] = rs[i]
           /\ Append(rs, r)[Len(rs) + 1] = r
           /\ r.pb = pb
  <1>1. r \in Executions BY DEF Executions
  <1> QED BY <1>1 DEF ExecutionOf

(* The same for a start that is no retry.                                    *)
LEMMA BegunIs ==
    ASSUME NEW rs \in Seq(Executions), NEW pb \in Playbooks, NEW about \in Alerts
    PROVE  \E r \in ExecutionOf(pb) : r.status = "running" /\ Started(rs, pb, about, 0) = Append(rs, r)
  <1>1. about \in Alerts \cup Hosts OBVIOUS
  <1>2. 0 \in {0} \cup DOMAIN rs OBVIOUS
  <1> QED BY <1>1, <1>2, StartedIs

(* A short playbook is recorded as completed, each of its steps too.         *)
LEMMA PbRunIs ==
    ASSUME NEW rs \in Seq(Executions), NEW pb \in Playbooks, NEW about \in Alerts \cup Hosts
    PROVE  /\ PbRun(rs, pb, about) \in Seq(Executions)
           /\ DOMAIN PbRun(rs, pb, about) = DOMAIN rs \cup {Len(rs) + 1}
           /\ \A i \in DOMAIN rs : PbRun(rs, pb, about)[i] = rs[i]
           /\ PbRun(rs, pb, about)[Len(rs) + 1].status = "completed"
           /\ \A k : Settled(PbRun(rs, pb, about)[Len(rs) + 1], k)
  <1> DEFINE s == [k \in ToSet(StepsOf[pb]) |-> "completed"]
             r == [pb |-> pb, about |-> about, status |-> "completed", attempt |-> 1, steps |-> s]
  <1>1. s \in [ToSet(StepsOf[pb]) -> StepMarks] BY DEF StepMarks
  <1>2. \A k \in DOMAIN s : s[k] \notin {"pending", "running"} OBVIOUS
  <1> HIDE DEF s
  <1>3. r \in ExecutionOf(pb) BY <1>1 DEF ExecutionOf, Statuses
  <1>4. r \in Executions BY <1>3 DEF Executions
  <1>5. PbRun(rs, pb, about) = Append(rs, r) BY DEF PbRun, s
  <1>6. r.status = "completed" /\ r.steps = s OBVIOUS
  <1>7. \A k : Settled(r, k) BY <1>2, <1>6 DEF Settled
  <1> HIDE DEF r
  <1> QED BY <1>4, <1>5, <1>6, <1>7

(* Marking touches the steps of one execution and nothing else.              *)
LEMMA SteppedIs ==
    ASSUME NEW rs \in Seq(Executions), NEW id \in DOMAIN rs, NEW marks,
           \A k \in DOMAIN marks : marks[k] \in StepMarks
    PROVE  /\ Stepped(rs, id, marks) \in Seq(Executions)
           /\ DOMAIN Stepped(rs, id, marks) = DOMAIN rs /\ Len(Stepped(rs, id, marks)) = Len(rs)
           /\ \A i \in DOMAIN rs \ {id} : Stepped(rs, id, marks)[i] = rs[i]
           /\ Stepped(rs, id, marks)[id].pb = rs[id].pb
           /\ Stepped(rs, id, marks)[id].status = rs[id].status
           /\ DOMAIN Stepped(rs, id, marks)[id].steps = DOMAIN rs[id].steps
           /\ \A k \in DOMAIN rs[id].steps :
                 Stepped(rs, id, marks)[id].steps[k] = IF k \in DOMAIN marks THEN marks[k] ELSE rs[id].steps[k]
  <1> DEFINE s == [k \in DOMAIN rs[id].steps |-> IF k \in DOMAIN marks THEN marks[k] ELSE rs[id].steps[k]]
             r == [rs[id] EXCEPT !.steps = s]
  <1>1. rs[id] \in Executions OBVIOUS
  <1>2. rs[id].pb \in Playbooks /\ rs[id] \in ExecutionOf(rs[id].pb)
        /\ rs[id].steps \in [ToSet(StepsOf[rs[id].pb]) -> StepMarks]
        /\ DOMAIN rs[id].steps = ToSet(StepsOf[rs[id].pb])
    BY <1>1, ExecutionIs
  <1>3. s \in [ToSet(StepsOf[rs[id].pb]) -> StepMarks] BY <1>2
  <1>4. Stepped(rs, id, marks) = [rs EXCEPT ![id] = r] BY DEF Stepped
  <1> HIDE DEF s
  <1>5. r \in ExecutionOf(rs[id].pb) /\ r.pb = rs[id].pb /\ r.status = rs[id].status /\ r.steps = s
    BY <1>2, <1>3 DEF ExecutionOf
  <1>6. r \in Executions BY <1>2, <1>5 DEF Executions
  <1> HIDE DEF r
  <1>7. DOMAIN [rs EXCEPT ![id] = r] = DOMAIN rs OBVIOUS
  <1>8. [rs EXCEPT ![id] = r] \in Seq(Executions) /\ Len([rs EXCEPT ![id] = r]) = Len(rs)
    BY <1>6
  <1>9. [rs EXCEPT ![id] = r][id] = r /\ \A i \in DOMAIN rs \ {id} : [rs EXCEPT ![id] = r][i] = rs[i]
    OBVIOUS
  <1>10. Stepped(rs, id, marks)[id] = r BY <1>4, <1>9
  <1>11. s = [k \in DOMAIN rs[id].steps |-> IF k \in DOMAIN marks THEN marks[k] ELSE rs[id].steps[k]] BY DEF s
  <1>12. /\ Stepped(rs, id, marks)[id].pb = rs[id].pb
         /\ Stepped(rs, id, marks)[id].status = rs[id].status
         /\ Stepped(rs, id, marks)[id].steps = s
    BY <1>5, <1>10
  <1>14. /\ DOMAIN Stepped(rs, id, marks)[id].steps = DOMAIN rs[id].steps
         /\ \A k \in DOMAIN rs[id].steps :
                   Stepped(rs, id, marks)[id].steps[k] = IF k \in DOMAIN marks THEN marks[k] ELSE rs[id].steps[k]
    BY <1>11, <1>12
  <1>13. /\ Stepped(rs, id, marks) \in Seq(Executions)
         /\ DOMAIN Stepped(rs, id, marks) = DOMAIN rs /\ Len(Stepped(rs, id, marks)) = Len(rs)
         /\ \A i \in DOMAIN rs \ {id} : Stepped(rs, id, marks)[i] = rs[i]
    BY <1>4, <1>7, <1>8, <1>9
  <1> QED BY <1>12, <1>13, <1>14

(* Closing touches the status of one execution and nothing else.             *)
LEMMA ClosedIs ==
    ASSUME NEW rs \in Seq(Executions), NEW id \in DOMAIN rs, NEW status \in Statuses
    PROVE  /\ Closed(rs, id, status) \in Seq(Executions)
           /\ DOMAIN Closed(rs, id, status) = DOMAIN rs /\ Len(Closed(rs, id, status)) = Len(rs)
           /\ \A i \in DOMAIN rs \ {id} : Closed(rs, id, status)[i] = rs[i]
           /\ Closed(rs, id, status)[id].pb = rs[id].pb
           /\ Closed(rs, id, status)[id].status = status
           /\ Closed(rs, id, status)[id].steps = rs[id].steps
  <1> DEFINE r == [rs[id] EXCEPT !.status = status]
  <1>1. rs[id] \in Executions OBVIOUS
  <1>2. rs[id].pb \in Playbooks /\ rs[id] \in ExecutionOf(rs[id].pb) BY <1>1, ExecutionIs
  <1>3. Closed(rs, id, status) = [rs EXCEPT ![id] = r] BY DEF Closed
  <1>4. r \in ExecutionOf(rs[id].pb) /\ r.pb = rs[id].pb /\ r.status = status /\ r.steps = rs[id].steps
    BY <1>2 DEF ExecutionOf
  <1>5. r \in Executions BY <1>2, <1>4 DEF Executions
  <1> HIDE DEF r
  <1>6. [rs EXCEPT ![id] = r] \in Seq(Executions) /\ Len([rs EXCEPT ![id] = r]) = Len(rs)
        /\ DOMAIN [rs EXCEPT ![id] = r] = DOMAIN rs
    BY <1>5
  <1>7. [rs EXCEPT ![id] = r][id] = r /\ \A i \in DOMAIN rs \ {id} : [rs EXCEPT ![id] = r][i] = rs[i]
    OBVIOUS
  <1> QED BY <1>3, <1>4, <1>6, <1>7

(* The steps of the two long playbooks.                                      *)
LEMMA StepsAre ==
    /\ ToSet(StepsOf["triage"]) = {"intake", "enrich", "ai", "verdict", "notify"}
    /\ ToSet(StepsOf["malware"]) = {"intake", "hash", "vt", "verdict", "handoff"}
    /\ {"triage", "malware", "exfil", "autoBlock", "brute", "honeypot", "scanner", "ioc", "correlated"} \subseteq Playbooks
  <1>1. StepsOf["triage"] = <<"intake", "enrich", "ai", "verdict", "notify">> BY DEF StepsOf
  <1>2. StepsOf["malware"] = <<"intake", "hash", "vt", "verdict", "handoff">> BY DEF StepsOf
  <1>3. DOMAIN StepsOf["triage"] = 1 .. 5 /\ DOMAIN StepsOf["malware"] = 1 .. 5 BY <1>1, <1>2
  <1>4. ToSet(StepsOf["triage"]) = {"intake", "enrich", "ai", "verdict", "notify"}
    BY <1>1, <1>3 DEF ToSet
  <1>5. ToSet(StepsOf["malware"]) = {"intake", "hash", "vt", "verdict", "handoff"}
    BY <1>2, <1>3 DEF ToSet
  <1> QED BY <1>4, <1>5 DEF Playbooks, StepsOf

\* What marking does to the steps: those it names get what it says.
LEMMA SteppedSettles ==
    ASSUME NEW rs \in Seq(Executions), NEW id \in DOMAIN rs, NEW marks,
           \A k \in DOMAIN marks : marks[k] \in StepMarks, NEW k
    PROVE  /\ k \in DOMAIN marks /\ marks[k] \notin {"pending", "running"} => Settled(Stepped(rs, id, marks)[id], k)
           /\ k \notin DOMAIN marks /\ Settled(rs[id], k) => Settled(Stepped(rs, id, marks)[id], k)
  <1>1. /\ DOMAIN Stepped(rs, id, marks)[id].steps = DOMAIN rs[id].steps
        /\ \A j \in DOMAIN rs[id].steps :
              Stepped(rs, id, marks)[id].steps[j] = IF j \in DOMAIN marks THEN marks[j] ELSE rs[id].steps[j]
    BY SteppedIs
  <1> QED BY <1>1 DEF Settled

-----------------------------------------------------------------------------
\* An execution is the worker's from the look-up or the verdict to its record.
Deciding == work.pc = "record" \/ (work.pc \in {"block", "log"} /\ work.then = "record")
AtRun == work.pc \in {"lookup", "ai", "apply", "gates"} \/ Deciding
OnAlert == work.pc # "idle" /\ ~(work.pc \in {"block", "log"} /\ work.then = "idle")
QueuedIn(q, a) == \E i \in DOMAIN q : q[i].kind = "alert" /\ q[i].what = a
AlertsOnce(q) ==
    \A i, j \in DOMAIN q : q[i].kind = "alert" /\ q[j].kind = "alert" /\ q[i].what = q[j].what => i = j

(* The worker is at an execution only where its stage says so, and on an     *)
(* alert until it is back at rest.                                           *)
WorkIs ==
    /\ DOMAIN work = WorkFields
    /\ work.pc \in Stages /\ work.then \in {"idle", "triage", "record"}
    /\ work.pc = "record" => work.then = "record"
    /\ ~AtRun => work.run = 0
    /\ work.run \in Nat
    /\ work.pc \in {"block", "log"} /\ work.then = "idle" => work.alert = None
    /\ OnAlert => work.alert \in Alerts
    /\ work.pc = "log" => work.outcome = "blocked"

(* An execution that waits for a file to be looked up.                       *)
LookedUp(r) == r.status = "running" /\ r.pb = "malware" /\ Settled(r, "intake") /\ Settled(r, "hash")
(* Every running execution has an owner, and every completed one has no step *)
(* that waits.                                                               *)
RunsOk(rs, owners) ==
    /\ rs \in Seq(Executions)
    /\ \A id \in DOMAIN rs : rs[id].status = "running" => id \in owners
    /\ \A id \in DOMAIN rs : rs[id].status = "completed" => \A k : Settled(rs[id], k)
\* The worker's execution, as far as the worker has come with it.
AtWork(r) ==
    /\ r.status = "running"
    /\ IF work.pc = "lookup" THEN LookedUp(r)
       ELSE r.pb = "triage" /\ Settled(r, "intake") /\ Settled(r, "enrich")
    /\ work.pc \in {"apply", "gates"} \/ Deciding => Settled(r, "ai")
    /\ work.pc = "gates" \/ Deciding => Settled(r, "verdict")
(* Executions belong to the worker, to a retry, or to what an exception left *)
(* behind; an execution is in one hand at a time.                            *)
RunsAre ==
    /\ RunsOk(runs, {work.run} \cup retries \cup raised)
    /\ retries \subseteq DOMAIN runs
    /\ \A id \in retries : LookedUp(runs[id])
    /\ AtRun => work.run \in DOMAIN runs /\ work.run \notin retries /\ AtWork(runs[work.run])

(* An alert is given once: it is in the queue, with the worker, or behind    *)
(* it.                                                                       *)
HandedOnce ==
    /\ queue \in Seq(Items) /\ AlertsOnce(queue)
    /\ \A a : QueuedIn(queue, a) => a \in given
    /\ OnAlert => work.alert \in given /\ ~QueuedIn(queue, work.alert)
    /\ \A m \in made : m[3] = "record" => m[1] \in given /\ ~QueuedIn(queue, m[1])
    /\ \A d \in decisions : d.alert \in given /\ ~QueuedIn(queue, d.alert) /\ (OnAlert => d.alert # work.alert)

\* What the gates were asked, whoever switches the playbook since.
Asked(on) ==
    [enabled |-> on, auto |-> config.auto,
     critical |-> AlertOf[work.alert].level = "CRITICAL", verdict |-> work.verdict,
     confidence |-> work.confidence, min |-> MinConfidence, evidence |-> work.evidence,
     corroborate |-> config.corroborate, demo |-> AlertOf[work.alert].demo,
     external |-> work.ip \in External]
(* The block of this decision was made.                                      *)
DoneBy == work.then = "record" /\ work.pc \in {"log", "record"} /\ work.outcome = "blocked"
(* Blocks and decisions tell of each other, and what is decided replays.     *)
DecisionsAre ==
    /\ OnAlert => \A m \in made : m[3] = "record" /\ m[1] = work.alert => DoneBy /\ m[2] = work.ip
    /\ DoneBy => <<work.alert, work.ip, "record">> \in made
    /\ Deciding => \E on \in BOOLEAN : work.gates = EvaluateGates(Asked(on))
    /\ Deciding => (Passed(work.gates) <=> work.pc = "block" \/ work.outcome # "gates_not_met")
    /\ \A d \in decisions :
          /\ d.blocked <=> <<d.alert, d.ip, "record">> \in made
          /\ d.outcome # "gates_not_met" <=> d.passed
          /\ ReplayAsRecorded(d) = d.gates
    /\ \A m \in made : m[3] = "record" =>
          \/ m[1] \in raised
          \/ OnAlert /\ work.alert = m[1]
          \/ \E d \in decisions : d.alert = m[1] /\ d.blocked

(* The invariant of triage.                                                  *)
TrIInv == WorkIs /\ RunsAre /\ HandedOnce /\ DecisionsAre

-----------------------------------------------------------------------------

(* The worker at rest.                                                       *)
LEMMA IdleIs ==
    /\ DOMAIN IdleWorker = WorkFields
    /\ IdleWorker.pc = "idle" /\ IdleWorker.run = 0 /\ IdleWorker.then = "idle"
    /\ IdleWorker.alert = None /\ IdleWorker.outcome = "gates_not_met"
  BY DEF IdleWorker, WorkFields

\* The worker's own actions, whatever they do to the rest.
LEMMA WorkKeeps ==
    ASSUME TrIInv, [TriageNext]_triageVars PROVE WorkIs'
  <1> USE DEF Stages, AtRun, OnAlert, Deciding
  <1>0. WorkIs BY DEF TrIInv
  <1>1. CASE UNCHANGED work BY <1>0, <1>1 DEF WorkIs
  <1>2. CASE work' = IdleWorker BY <1>2, IdleIs DEF WorkIs
  <1>3. CASE TakeAlert
    <2>1. Head(queue).what \in Alerts
      <3>1. queue \in Seq(Items) /\ queue # <<>> BY <1>3 DEF TrIInv, HandedOnce, TakeAlert
      <3>2. Head(queue) \in Items BY <3>1
      <3> QED BY <3>2, <1>3 DEF Items, TakeAlert
    <2>2. /\ DOMAIN work' = WorkFields /\ work'.pc = "enrich" /\ work'.alert = Head(queue).what
          /\ work'.run = 0 /\ work'.then = "idle"
      BY <1>3 DEF TakeAlert, IdleWorker, WorkFields
    <2> QED BY <2>1, <2>2 DEF WorkIs
  <1>4. CASE TakeProbe \/ TakeMatch
    <2>1. CASE UNCHANGED work BY <1>1, <2>1
    <2>2. CASE ~UNCHANGED work
      <3>1. PICK h : work' = [IdleWorker EXCEPT !.pc = "block", !.ip = h]
        BY <1>4, <2>2 DEF TakeProbe, TakeMatch
      <3>2. /\ DOMAIN work' = WorkFields /\ work'.pc = "block" /\ work'.alert = None
            /\ work'.run = 0 /\ work'.then = "idle"
        BY <3>1 DEF IdleWorker, WorkFields
      <3> QED BY <3>2 DEF WorkIs
    <2> QED BY <2>1, <2>2
  <1>5. CASE Enrich
    <2> DEFINE id == Len(Started(runs, "malware", work.alert, 0))
    <2>1. CASE work' = [work EXCEPT !.pc = "exfil"]
      <3>1. /\ DOMAIN work' = WorkFields /\ work'.pc = "exfil" /\ work'.alert = work.alert
            /\ work'.run = work.run /\ work'.then = work.then
        BY <1>0, <2>1 DEF WorkIs, WorkFields
      <3> QED BY <1>0, <1>5, <3>1 DEF WorkIs, Enrich, At1
    <2>2. CASE work' = [work EXCEPT !.pc = "lookup", !.run = id]
      <3>0. id \in Nat
        <4>1. runs \in Seq(Executions) BY DEF TrIInv, RunsAre, RunsOk
        <4>2. "malware" \in Playbooks /\ work.alert \in Alerts BY <1>0, <1>5, StepsAre DEF WorkIs, Enrich, At1
        <4>3. PICK r \in ExecutionOf("malware") : Started(runs, "malware", work.alert, 0) = Append(runs, r)
          BY <4>1, <4>2, BegunIs
        <4> QED BY <4>1, <4>2, <4>3, AppendIs
      <3> HIDE DEF id
      <3>1. /\ DOMAIN work' = WorkFields /\ work'.pc = "lookup" /\ work'.alert = work.alert
            /\ work'.run = id /\ work'.then = work.then
        BY <1>0, <2>2 DEF WorkIs, WorkFields
      <3> QED BY <1>0, <1>5, <3>0, <3>1 DEF WorkIs, Enrich, At1
    <2> QED BY <1>5, <2>1, <2>2 DEF Enrich
  <1>6. CASE LookupAnswer
    <2>1. PICK x : work' = [work EXCEPT !.pc = "exfil", !.run = 0, !.evidence = x] BY <1>6 DEF LookupAnswer
    <2>2. /\ DOMAIN work' = WorkFields /\ work'.pc = "exfil" /\ work'.alert = work.alert
          /\ work'.run = 0 /\ work'.then = work.then
      BY <1>0, <2>1 DEF WorkIs, WorkFields
    <2> QED BY <1>0, <1>6, <2>2 DEF WorkIs, LookupAnswer, At1
  <1>7. CASE Exfil
    <2>1. /\ DOMAIN work' = WorkFields /\ work'.pc = "contain" /\ work'.alert = work.alert
          /\ work'.run = work.run /\ work'.then = work.then
      BY <1>0, <1>7 DEF WorkIs, WorkFields, Exfil
    <2> QED BY <1>0, <1>7, <2>1 DEF WorkIs, Exfil, At1
  <1>8. CASE Contain
    <2>1. \/ work' = [work EXCEPT !.pc = "block", !.then = "triage"]
          \/ work' = [work EXCEPT !.pc = "triage"]
      BY <1>8 DEF Contain
    <2>2. /\ DOMAIN work' = WorkFields /\ work'.alert = work.alert /\ work'.run = work.run
          /\ \/ work'.pc = "block" /\ work'.then = "triage"
             \/ work'.pc = "triage" /\ work'.then = work.then
      BY <1>0, <2>1 DEF WorkIs, WorkFields
    <2> QED BY <1>0, <1>8, <2>2 DEF WorkIs, Contain, At1
  <1>9. CASE Block
    <2>1. PICK outcome : work' = [work EXCEPT !.outcome = outcome, !.pc = IF outcome = "blocked" THEN "log" ELSE work.then]
      BY <1>9 DEF Block
    <2>2. /\ DOMAIN work' = WorkFields /\ work'.alert = work.alert /\ work'.run = work.run /\ work'.then = work.then
          /\ work'.outcome = outcome /\ work'.pc = IF outcome = "blocked" THEN "log" ELSE work.then
      BY <1>0, <2>1 DEF WorkIs, WorkFields
    <2> QED BY <1>0, <1>9, <2>2 DEF WorkIs, Block, At1
  <1>10. CASE LogBlock
    <2>1. CASE work' = [work EXCEPT !.pc = work.then]
      <3>1. /\ DOMAIN work' = WorkFields /\ work'.alert = work.alert /\ work'.run = work.run
            /\ work'.then = work.then /\ work'.pc = work.then
        BY <1>0, <2>1 DEF WorkIs, WorkFields
      <3> QED BY <1>0, <1>10, <3>1 DEF WorkIs, LogBlock, At1
    <2> QED BY <1>2, <1>10, <2>1 DEF LogBlock, CutShort
  <1>11. CASE AskVerdict
    <2> DEFINE id == Len(Started(runs, "triage", work.alert, 0))
    <2>0. id \in Nat
      <3>1. runs \in Seq(Executions) BY DEF TrIInv, RunsAre, RunsOk
      <3>2. "triage" \in Playbooks /\ work.alert \in Alerts BY <1>0, <1>11, StepsAre DEF WorkIs, AskVerdict, At1
      <3>3. PICK r \in ExecutionOf("triage") : Started(runs, "triage", work.alert, 0) = Append(runs, r)
        BY <3>1, <3>2, BegunIs
      <3> QED BY <3>1, <3>2, <3>3, AppendIs
    <2>1. PICK v, c, b : \/ work' = [work EXCEPT !.pc = "ai", !.run = id]
                        \/ work' = [work EXCEPT !.pc = "apply", !.run = id, !.verdict = v, !.confidence = c, !.by = b]
      BY <1>11 DEF AskVerdict
    <2> HIDE DEF id
    <2>2. /\ DOMAIN work' = WorkFields /\ work'.alert = work.alert /\ work'.run = id
          /\ work'.then = work.then /\ work'.pc \in {"ai", "apply"}
      BY <1>0, <2>1 DEF WorkIs, WorkFields
    <2> QED BY <1>0, <1>11, <2>0, <2>2 DEF WorkIs, AskVerdict, At1
  <1>12. CASE AiAnswer
    <2>1. PICK v \in AiVerdicts : work' = IF v.verdict = None THEN IdleWorker
                       ELSE [work EXCEPT !.pc = "apply", !.verdict = v.verdict,
                                         !.confidence = v.confidence, !.by = v.by]
      BY <1>12 DEF AiAnswer
    <2>2. CASE work' = IdleWorker BY <1>2, <2>2
    <2>3. CASE work' # IdleWorker
      <3>1. /\ DOMAIN work' = WorkFields /\ work'.alert = work.alert /\ work'.run = work.run
            /\ work'.then = work.then /\ work'.pc = "apply"
        BY <1>0, <2>1, <2>3 DEF WorkIs, WorkFields
      <3> QED BY <1>0, <1>12, <3>1 DEF WorkIs, AiAnswer, At1
    <2> QED BY <2>2, <2>3
  <1>13. CASE Apply
    <2>1. work' = IdleWorker \/ work' = [work EXCEPT !.pc = "gates"] BY <1>13 DEF Apply
    <2>2. CASE work' = [work EXCEPT !.pc = "gates"]
      <3>1. /\ DOMAIN work' = WorkFields /\ work'.alert = work.alert /\ work'.run = work.run
            /\ work'.then = work.then /\ work'.pc = "gates"
        BY <1>0, <2>2 DEF WorkIs, WorkFields
      <3> QED BY <1>0, <1>13, <3>1 DEF WorkIs, Apply, At1
    <2> QED BY <1>2, <2>1, <2>2
  <1>14. CASE Gates
    <2>1. PICK g : \/ work' = IdleWorker
                  \/ work' = [work EXCEPT !.pc = IF Passed(g) THEN "block" ELSE "record",
                               !.then = "record", !.outcome = "gates_not_met", !.gates = g]
      BY <1>14 DEF Gates, CutShort
    <2>2. CASE work' # IdleWorker
      <3>1. /\ DOMAIN work' = WorkFields /\ work'.alert = work.alert /\ work'.run = work.run
            /\ work'.then = "record" /\ work'.pc \in {"block", "record"}
        BY <1>0, <2>1, <2>2 DEF WorkIs, WorkFields
      <3> QED BY <1>0, <1>14, <3>1 DEF WorkIs, Gates, At1
    <2> QED BY <1>2, <2>2
  <1>15. CASE NoTriage \/ Record \/ TriageRestart
    BY <1>2, <1>15 DEF NoTriage, Record, TriageRestart
  <1>16. CASE \/ \E item \in Items : Hand(item)
              \/ RetryAnswer \/ TogglePlaybook \/ Unblock \/ Retry \/ TriageTick
    BY <1>1, <1>16 DEF Hand, RetryAnswer, TogglePlaybook, Unblock, Retry, TriageTick
  <1>17. CASE UNCHANGED triageVars BY <1>1, <1>17 DEF triageVars
  <1> QED BY <1>3, <1>4, <1>5, <1>6, <1>7, <1>8, <1>9, <1>10, <1>11, <1>12, <1>13, <1>14, <1>15, <1>16, <1>17
          DEF TriageNext, WorkerStep

-----------------------------------------------------------------------------

(* More owners, or the same of those that count, do no harm.                 *)
LEMMA OwnersMatter ==
    ASSUME NEW rs, NEW O, NEW P, RunsOk(rs, O), \A id \in DOMAIN rs : id \in O => id \in P
    PROVE  RunsOk(rs, P)
  BY DEF RunsOk

(* What each operation on the executions does to their owners.               *)
LEMMA PbRunKeeps ==
    ASSUME NEW rs, NEW O, RunsOk(rs, O), NEW pb \in Playbooks, NEW about \in Alerts \cup Hosts
    PROVE  RunsOk(PbRun(rs, pb, about), O)
  <1>1. rs \in Seq(Executions) BY DEF RunsOk
  <1>2. /\ PbRun(rs, pb, about) \in Seq(Executions)
        /\ DOMAIN PbRun(rs, pb, about) = DOMAIN rs \cup {Len(rs) + 1}
        /\ \A i \in DOMAIN rs : PbRun(rs, pb, about)[i] = rs[i]
        /\ PbRun(rs, pb, about)[Len(rs) + 1].status = "completed"
        /\ \A k : Settled(PbRun(rs, pb, about)[Len(rs) + 1], k)
    BY <1>1, PbRunIs
  <1> QED BY <1>2 DEF RunsOk

LEMMA AppendKeeps ==
    ASSUME NEW rs, NEW O, RunsOk(rs, O), NEW pb \in Playbooks, NEW r \in ExecutionOf(pb), r.status = "running"
    PROVE  RunsOk(Append(rs, r), O \cup {Len(rs) + 1})
  <1>1. rs \in Seq(Executions) BY DEF RunsOk
  <1>2. /\ Append(rs, r) \in Seq(Executions)
        /\ DOMAIN Append(rs, r) = DOMAIN rs \cup {Len(rs) + 1}
        /\ \A i \in DOMAIN rs : Append(rs, r)[i] = rs[i]
        /\ Append(rs, r)[Len(rs) + 1] = r
    BY <1>1, AppendIs
  <1> QED BY <1>2 DEF RunsOk

LEMMA SteppedKeeps ==
    ASSUME NEW rs, NEW O, RunsOk(rs, O), NEW id \in DOMAIN rs, rs[id].status # "completed", NEW marks,
           \A k \in DOMAIN marks : marks[k] \in StepMarks
    PROVE  RunsOk(Stepped(rs, id, marks), O)
  <1>1. rs \in Seq(Executions) BY DEF RunsOk
  <1>0. \A k \in DOMAIN marks : marks[k] \in StepMarks OBVIOUS
  <1>2. /\ Stepped(rs, id, marks) \in Seq(Executions)
        /\ DOMAIN Stepped(rs, id, marks) = DOMAIN rs
        /\ \A i \in DOMAIN rs \ {id} : Stepped(rs, id, marks)[i] = rs[i]
    BY <1>1, SteppedIs
  <1>3. Stepped(rs, id, marks)[id].status = rs[id].status
    BY <1>0, <1>1, SteppedIs
  <1> QED BY <1>2, <1>3 DEF RunsOk

LEMMA ClosedKeeps ==
    ASSUME NEW rs, NEW O, RunsOk(rs, O), NEW id \in DOMAIN rs, NEW status \in Statuses, status # "running",
           status = "completed" => \A k : Settled(rs[id], k)
    PROVE  RunsOk(Closed(rs, id, status), O \ {id})
  <1>1. rs \in Seq(Executions) BY DEF RunsOk
  <1>2. /\ Closed(rs, id, status) \in Seq(Executions)
        /\ DOMAIN Closed(rs, id, status) = DOMAIN rs
        /\ \A i \in DOMAIN rs \ {id} : Closed(rs, id, status)[i] = rs[i]
        /\ Closed(rs, id, status)[id].status = status
        /\ Closed(rs, id, status)[id].steps = rs[id].steps
    BY <1>1, ClosedIs
  <1>3. \A k : Settled(rs[id], k) => Settled(Closed(rs, id, status)[id], k) BY <1>2 DEF Settled
  <1>4. \A i \in DOMAIN rs : Closed(rs, id, status)[i].status = "running" => i \in O \ {id}
    BY <1>2 DEF RunsOk
  <1>5. \A i \in DOMAIN rs : Closed(rs, id, status)[i].status = "completed" => \A k : Settled(Closed(rs, id, status)[i], k)
    BY <1>2, <1>3 DEF RunsOk
  <1> QED BY <1>2, <1>4, <1>5 DEF RunsOk

\* The rest of a look-up closes the execution with every step settled, or as failed.
LEMMA AnsweredIs ==
    ASSUME NEW rs, NEW O, RunsOk(rs, O), NEW id \in DOMAIN rs, LookedUp(rs[id]),
           rs[id].status # "completed", NEW answer \in Answers
    PROVE  /\ RunsOk(Answered(rs, id, answer), O \ {id})
           /\ DOMAIN Answered(rs, id, answer) = DOMAIN rs
           /\ \A i \in DOMAIN rs \ {id} : Answered(rs, id, answer)[i] = rs[i]
  <1>1. rs \in Seq(Executions) /\ rs[id] \in Executions BY DEF RunsOk
  <1>2. DOMAIN rs[id].steps = {"intake", "hash", "vt", "verdict", "handoff"}
    BY <1>1, ExecutionIs, StepsAre DEF LookedUp
  <1>3. ASSUME NEW x \in StepMarks, NEW y \in StepMarks, NEW z \in StepMarks, NEW status \in Statuses,
               status # "running",
               status = "completed" => {x, y, z} \cap {"pending", "running"} = {}
        PROVE  LET to == Closed(Stepped(rs, id, [vt |-> x, verdict |-> y, handoff |-> z]), id, status)
               IN RunsOk(to, O \ {id}) /\ DOMAIN to = DOMAIN rs /\ \A i \in DOMAIN rs \ {id} : to[i] = rs[i]
    <2> DEFINE marks == [vt |-> x, verdict |-> y, handoff |-> z]
               mid == Stepped(rs, id, marks)
    <2>1. DOMAIN marks = {"vt", "verdict", "handoff"} /\ marks["vt"] = x /\ marks["verdict"] = y /\ marks["handoff"] = z
      OBVIOUS
    <2> HIDE DEF marks
    <2>2. \A k \in DOMAIN marks : marks[k] \in StepMarks BY <2>1
    <2>3. RunsOk(mid, O) BY <2>2, SteppedKeeps
    <2>4. /\ mid \in Seq(Executions)
          /\ DOMAIN mid = DOMAIN rs
          /\ \A i \in DOMAIN rs \ {id} : mid[i] = rs[i]
          /\ DOMAIN mid[id].steps = DOMAIN rs[id].steps
          /\ \A k \in DOMAIN rs[id].steps :
                mid[id].steps[k] = IF k \in DOMAIN marks THEN marks[k] ELSE rs[id].steps[k]
      BY <1>1, <2>2, SteppedIs
    <2> HIDE DEF mid
    <2>5. ASSUME status = "completed", NEW k PROVE Settled(mid[id], k)
      <3>1. CASE k \in {"vt", "verdict", "handoff"}
        <4>1. marks[k] \notin {"pending", "running"} BY <1>3, <2>1, <2>5, <3>1
        <4> QED BY <2>1, <2>4, <3>1, <4>1 DEF Settled
      <3>2. CASE k \in {"intake", "hash"}
        <4>1. Settled(rs[id], k) BY <3>2 DEF LookedUp
        <4> QED BY <2>1, <2>4, <3>2, <4>1 DEF Settled
      <3>3. CASE k \notin DOMAIN rs[id].steps BY <2>4, <3>3 DEF Settled
      <3> QED BY <1>2, <3>1, <3>2, <3>3
    <2>6. id \in DOMAIN mid BY <2>4
    <2>7. RunsOk(Closed(mid, id, status), O \ {id}) BY <1>3, <2>3, <2>5, <2>6, ClosedKeeps
    <2>8. DOMAIN Closed(mid, id, status) = DOMAIN mid /\ \A i \in DOMAIN mid \ {id} : Closed(mid, id, status)[i] = mid[i]
      BY <2>4, <2>6, ClosedIs
    <2> QED BY <2>4, <2>7, <2>8 DEF mid, marks
  <1>4. {"completed", "failed"} \subseteq Statuses /\ {"completed", "skipped", "failed"} \subseteq StepMarks
    BY DEF Statuses, StepMarks
  <1>5. CASE answer \in {"harmless", "malicious"}
    <2>1. Answered(rs, id, answer) = Closed(Stepped(rs, id, [vt |-> "completed", verdict |-> "completed", handoff |-> "completed"]), id, "completed")
      BY <1>5 DEF Answered
    <2> QED BY <1>3, <1>4, <2>1
  <1>6. CASE answer = "not_configured"
    <2>1. Answered(rs, id, answer) = Closed(Stepped(rs, id, [vt |-> "skipped", verdict |-> "skipped", handoff |-> "completed"]), id, "completed")
      BY <1>6 DEF Answered
    <2> QED BY <1>3, <1>4, <2>1
  <1>7. CASE answer = "error"
    <2>1. Answered(rs, id, answer) = Closed(Stepped(rs, id, [vt |-> "failed", verdict |-> "skipped", handoff |-> "skipped"]), id, "failed")
      BY <1>7 DEF Answered
    <2> QED BY <1>3, <1>4, <2>1
  <1> QED BY <1>5, <1>6, <1>7 DEF Answers

\* The worker is at no execution; a short playbook may have been recorded.
LEMMA ShortRunKeeps ==
    ASSUME TrIInv, UNCHANGED <<retries, raised>>, ~AtRun, ~AtRun', work'.run = 0,
           runs' = runs \/ \E pb \in Playbooks, about \in Alerts \cup Hosts : runs' = PbRun(runs, pb, about)
    PROVE  RunsAre'
  <1> DEFINE O == {work.run} \cup retries \cup raised
  <1>1. RunsOk(runs, O) /\ runs \in Seq(Executions) BY DEF TrIInv, RunsAre, RunsOk
  <1>2. RunsOk(runs', O) /\ DOMAIN runs \subseteq DOMAIN runs' /\ \A i \in DOMAIN runs : runs'[i] = runs[i]
    <2>1. CASE runs' = runs BY <1>1, <2>1
    <2>2. CASE runs' # runs
      <3> HIDE DEF O
      <3>1. PICK pb \in Playbooks, about \in Alerts \cup Hosts : runs' = PbRun(runs, pb, about) BY <2>2
      <3>2. RunsOk(PbRun(runs, pb, about), O) BY <1>1, PbRunKeeps
      <3>3. /\ DOMAIN PbRun(runs, pb, about) = DOMAIN runs \cup {Len(runs) + 1}
            /\ \A i \in DOMAIN runs : PbRun(runs, pb, about)[i] = runs[i]
        BY <1>1, PbRunIs
      <3> QED BY <3>1, <3>2, <3>3
    <2> QED BY <2>1, <2>2
  <1>3. O = {work'.run} \cup retries' \cup raised' BY DEF TrIInv, WorkIs
  <1>4. RunsOk(runs', {work'.run} \cup retries' \cup raised') BY <1>2, <1>3
  <1>5. retries' \subseteq DOMAIN runs' /\ \A id \in retries' : LookedUp(runs'[id])
    BY <1>2 DEF TrIInv, RunsAre
  <1> QED BY <1>4, <1>5 DEF RunsAre

(* Nothing changed.                                                          *)
LEMMA UntouchedKeeps == ASSUME TrIInv, UNCHANGED <<runs, work, retries, raised>> PROVE RunsAre'
  BY DEF TrIInv, RunsAre, RunsOk, AtWork, AtRun, Deciding, LookedUp, Settled

(* A start is well owned by whoever gets its number.                         *)
LEMMA BegunKeeps ==
    ASSUME NEW rs, NEW O, RunsOk(rs, O), NEW pb \in Playbooks, NEW about \in Alerts \cup Hosts,
           NEW retryOf \in {0} \cup DOMAIN rs
    PROVE  /\ Started(rs, pb, about, retryOf) \in Seq(Executions)
           /\ Len(Started(rs, pb, about, retryOf)) = Len(rs) + 1 /\ Len(rs) \in Nat
           /\ DOMAIN rs = 1 .. Len(rs)
           /\ DOMAIN Started(rs, pb, about, retryOf) = DOMAIN rs \cup {Len(rs) + 1}
           /\ \A i \in DOMAIN rs : Started(rs, pb, about, retryOf)[i] = rs[i]
           /\ Started(rs, pb, about, retryOf)[Len(rs) + 1] \in ExecutionOf(pb)
           /\ Started(rs, pb, about, retryOf)[Len(rs) + 1].status = "running"
           /\ RunsOk(Started(rs, pb, about, retryOf), O \cup {Len(rs) + 1})
  <1>1. rs \in Seq(Executions) BY DEF RunsOk
  <1>2. PICK r \in ExecutionOf(pb) : r.status = "running" /\ Started(rs, pb, about, retryOf) = Append(rs, r)
    BY <1>1, StartedIs
  <1>3. /\ Append(rs, r) \in Seq(Executions)
        /\ Len(Append(rs, r)) = Len(rs) + 1
        /\ DOMAIN Append(rs, r) = DOMAIN rs \cup {Len(rs) + 1}
        /\ \A i \in DOMAIN rs : Append(rs, r)[i] = rs[i]
        /\ Append(rs, r)[Len(rs) + 1] = r
    BY <1>1, AppendIs
  <1>4. RunsOk(Append(rs, r), O \cup {Len(rs) + 1}) BY <1>2, AppendKeeps
  <1>5. Len(rs) \in Nat /\ DOMAIN rs = 1 .. Len(rs) BY <1>1
  <1> QED BY <1>2, <1>3, <1>4, <1>5

\* The same for the worker's start, which is no retry.
LEMMA BegunNow ==
    ASSUME TrIInv, work.alert \in Alerts, NEW pb \in Playbooks
    PROVE  LET O == {work.run} \cup retries \cup raised
               begun == Started(runs, pb, work.alert, 0)
               id == Len(begun)
           IN  /\ begun \in Seq(Executions) /\ id = Len(runs) + 1 /\ id \in Nat /\ id # 0
               /\ DOMAIN begun = DOMAIN runs \cup {id} /\ id \notin DOMAIN runs
               /\ \A i \in DOMAIN runs : begun[i] = runs[i]
               /\ begun[id] \in Executions /\ begun[id].pb = pb /\ begun[id].status = "running"
               /\ DOMAIN begun[id].steps = ToSet(StepsOf[pb])
               /\ RunsOk(begun, O \cup {id})
  <1> DEFINE O == {work.run} \cup retries \cup raised
             begun == Started(runs, pb, work.alert, 0)
             id == Len(begun)
  <1>1. RunsOk(runs, O) BY DEF TrIInv, RunsAre
  <1>2. 0 \in {0} \cup DOMAIN runs /\ work.alert \in Alerts \cup Hosts OBVIOUS
  <1> HIDE DEF O
  <1>3. /\ begun \in Seq(Executions)
        /\ Len(begun) = Len(runs) + 1 /\ Len(runs) \in Nat
        /\ DOMAIN runs = 1 .. Len(runs)
        /\ DOMAIN begun = DOMAIN runs \cup {Len(runs) + 1}
        /\ \A i \in DOMAIN runs : begun[i] = runs[i]
        /\ begun[Len(runs) + 1] \in ExecutionOf(pb)
        /\ begun[Len(runs) + 1].status = "running"
        /\ RunsOk(begun, O \cup {Len(runs) + 1})
    BY <1>1, <1>2, BegunKeeps
  <1> HIDE DEF begun
  <1>4. id = Len(runs) + 1 BY <1>3
  <1> HIDE DEF id
  <1>5. begun[id] \in ExecutionOf(pb) BY <1>3, <1>4
  <1>6. begun[id].pb = pb /\ begun[id].steps \in [ToSet(StepsOf[pb]) -> StepMarks] BY <1>5 DEF ExecutionOf
  <1>7. begun[id] \in Executions BY <1>5 DEF Executions
  <1>8. DOMAIN begun[id].steps = ToSet(StepsOf[pb]) BY <1>6
  <1>9. /\ begun \in Seq(Executions) /\ id = Len(runs) + 1 /\ id \in Nat /\ id # 0
        /\ DOMAIN begun = DOMAIN runs \cup {id} /\ id \notin DOMAIN runs
        /\ \A i \in DOMAIN runs : begun[i] = runs[i]
        /\ begun[id].status = "running"
        /\ RunsOk(begun, O \cup {id})
    BY <1>3, <1>4
  <1> QED BY <1>6, <1>7, <1>8, <1>9 DEF O, id, begun

(* One lemma for each step of the worker: what it does to the executions.    *)
LEMMA EnrichKeeps == ASSUME TrIInv, Enrich, WorkIs' PROVE RunsAre'
  <1> USE DEF Enrich, At1
  <1> DEFINE O == {work.run} \cup retries \cup raised
             a == work.alert
             begun == Started(runs, "malware", a, 0)
             id == Len(begun)
  <1>1. RunsOk(runs, O) /\ runs \in Seq(Executions) /\ retries \subseteq DOMAIN runs
    BY DEF TrIInv, RunsAre, RunsOk
  <1>2. /\ ~AtRun /\ work.run = 0 /\ a \in Alerts /\ DOMAIN work = WorkFields /\ UNCHANGED <<retries, raised>>
        /\ work.pc = "enrich"
    BY DEF TrIInv, WorkIs, AtRun, Deciding, OnAlert, requests
  <1>3. CASE work' = [work EXCEPT !.pc = "exfil"] /\ UNCHANGED runs
    <2>1. work'.run = 0 /\ ~AtRun' BY <1>2, <1>3 DEF WorkFields, AtRun, Deciding
    <2> QED BY <1>2, <1>3, <2>1, ShortRunKeeps
  <1>4. "malware" \in Playbooks BY StepsAre
  <1>5. /\ begun \in Seq(Executions) /\ id = Len(runs) + 1 /\ id \in Nat /\ id # 0
        /\ DOMAIN begun = DOMAIN runs \cup {id} /\ id \notin DOMAIN runs
        /\ \A i \in DOMAIN runs : begun[i] = runs[i]
        /\ begun[id].pb = "malware" /\ begun[id].status = "running"
        /\ DOMAIN begun[id].steps = ToSet(StepsOf["malware"])
        /\ RunsOk(begun, O \cup {id})
    BY <1>2, <1>4, BegunNow
  <1>6. RunsOk(begun, O \cup {id}) BY <1>5
  <1>7. DOMAIN begun[id].steps = {"intake", "hash", "vt", "verdict", "handoff"} BY <1>5, StepsAre
  <1> HIDE DEF begun, id, O
  <1>8. CASE /\ runs' = Closed(Stepped(begun, id, NoHashMarks), id, "completed")
             /\ work' = [work EXCEPT !.pc = "exfil"]
    <2> DEFINE mid == Stepped(begun, id, NoHashMarks)
    <2>1. /\ DOMAIN NoHashMarks = {"intake", "hash", "vt", "verdict", "handoff"}
          /\ \A k \in DOMAIN NoHashMarks : NoHashMarks[k] \in {"completed", "skipped"}
      BY DEF NoHashMarks
    <2>2. \A k \in DOMAIN NoHashMarks : NoHashMarks[k] \in StepMarks BY <2>1 DEF StepMarks
    <2>3. id \in DOMAIN begun BY <1>5
    <2>4. RunsOk(mid, O \cup {id}) BY <1>5, <1>6, <2>2, <2>3, SteppedKeeps
    <2>5. /\ mid \in Seq(Executions) /\ DOMAIN mid = DOMAIN begun
          /\ \A i \in DOMAIN begun \ {id} : mid[i] = begun[i]
          /\ DOMAIN mid[id].steps = DOMAIN begun[id].steps
          /\ \A k \in DOMAIN begun[id].steps :
                mid[id].steps[k] = IF k \in DOMAIN NoHashMarks THEN NoHashMarks[k] ELSE begun[id].steps[k]
      BY <1>5, <2>2, <2>3, SteppedIs
    <2> HIDE DEF mid
    <2>6. \A k : Settled(mid[id], k) BY <1>7, <2>1, <2>5 DEF Settled
    <2>7. "completed" \in Statuses BY DEF Statuses
    <2>8. RunsOk(Closed(mid, id, "completed"), (O \cup {id}) \ {id}) BY <2>3, <2>4, <2>5, <2>6, <2>7, ClosedKeeps
    <2>9. /\ DOMAIN Closed(mid, id, "completed") = DOMAIN mid
          /\ \A i \in DOMAIN mid \ {id} : Closed(mid, id, "completed")[i] = mid[i]
      BY <2>3, <2>5, <2>7, ClosedIs
    <2>10. runs' = Closed(mid, id, "completed") BY <1>8 DEF mid
    <2>11. work'.run = 0 /\ ~AtRun' BY <1>2, <1>8 DEF WorkFields, AtRun, Deciding
    <2>12. RunsOk(runs', {work'.run} \cup retries' \cup raised')
      <3>1. {work'.run} \cup retries' \cup raised' = O BY <1>2, <2>11 DEF O
      <3> QED BY <2>8, <2>10, <3>1, OwnersMatter
    <2>13. \A i \in DOMAIN runs : i \in DOMAIN runs' /\ runs'[i] = runs[i] BY <1>5, <2>5, <2>9, <2>10
    <2>14. retries' \subseteq DOMAIN runs' /\ \A i \in retries' : LookedUp(runs'[i])
      BY <1>1, <1>2, <2>13 DEF TrIInv, RunsAre
    <2> QED BY <2>11, <2>12, <2>14 DEF RunsAre
  <1>9. CASE runs' = Stepped(begun, id, LookupMarks) /\ work' = [work EXCEPT !.pc = "lookup", !.run = id]
    <2>1. /\ DOMAIN LookupMarks = {"intake", "hash", "vt"}
          /\ LookupMarks["intake"] = "completed" /\ LookupMarks["hash"] = "completed" /\ LookupMarks["vt"] = "running"
      BY DEF LookupMarks
    <2>2. \A k \in DOMAIN LookupMarks : LookupMarks[k] \in StepMarks BY <2>1 DEF StepMarks
    <2>3. id \in DOMAIN begun BY <1>5
    <2>4. RunsOk(runs', O \cup {id}) BY <1>5, <1>6, <1>9, <2>2, <2>3, SteppedKeeps
    <2>5. /\ DOMAIN runs' = DOMAIN begun
          /\ \A i \in DOMAIN begun \ {id} : runs'[i] = begun[i]
          /\ runs'[id].pb = "malware" /\ runs'[id].status = "running"
      BY <1>5, <1>9, <2>2, <2>3, SteppedIs
    <2>6. Settled(runs'[id], "intake") /\ Settled(runs'[id], "hash")
      BY <1>5, <1>9, <2>1, <2>2, <2>3, SteppedSettles
    <2>7. LookedUp(runs'[id]) BY <2>5, <2>6 DEF LookedUp
    <2>8. work'.run = id /\ work'.pc = "lookup" BY <1>2, <1>9 DEF WorkFields
    <2>9. RunsOk(runs', {work'.run} \cup retries' \cup raised')
      <3>1. \A i \in DOMAIN runs' : i \in O \cup {id} => i \in {work'.run} \cup retries' \cup raised'
        BY <1>2, <1>5, <2>5, <2>8, <1>1 DEF O
      <3> QED BY <2>4, <3>1, OwnersMatter
    <2>10. \A i \in DOMAIN runs : i \in DOMAIN runs' /\ runs'[i] = runs[i] BY <1>5, <2>5
    <2>11. retries' \subseteq DOMAIN runs' /\ \A i \in retries' : LookedUp(runs'[i])
      BY <1>1, <1>2, <2>10 DEF TrIInv, RunsAre
    <2>12. AtWork(runs[work.run])' BY <2>5, <2>7, <2>8 DEF AtWork, Deciding
    <2>13. work'.run \in DOMAIN runs' /\ work'.run \notin retries'
      BY <1>1, <1>2, <1>5, <2>5, <2>8
    <2> QED BY <2>9, <2>11, <2>12, <2>13 DEF RunsAre
  <1> QED BY <1>3, <1>8, <1>9 DEF id, begun

\* One execution changed hands or state, the others are as they were.
LEMMA OneChanged ==
    ASSUME TrIInv, retries' = retries, NEW id, id \notin retries,
           \A i \in DOMAIN runs : i \in DOMAIN runs' /\ (i # id => runs'[i] = runs[i]),
           NEW P, RunsOk(runs', P),
           \A i \in DOMAIN runs' : i \in P => i \in {work'.run} \cup retries' \cup raised',
           AtRun' => work'.run \in DOMAIN runs' /\ work'.run \notin retries' /\ AtWork(runs[work.run])'
    PROVE  RunsAre'
  <1>1. RunsOk(runs', {work'.run} \cup retries' \cup raised') BY OwnersMatter
  <1>2. retries' \subseteq DOMAIN runs' /\ \A i \in retries' : LookedUp(runs'[i]) BY DEF TrIInv, RunsAre
  <1> QED BY <1>1, <1>2 DEF RunsAre

LEMMA LookupAnswerKeeps == ASSUME TrIInv, LookupAnswer PROVE RunsAre'
  <1> DEFINE O == {work.run} \cup retries \cup raised
  <1>1. PICK answer \in Answers : \E x :
           /\ runs' = Answered(runs, work.run, answer)
           /\ work' = [work EXCEPT !.pc = "exfil", !.run = 0, !.evidence = x]
    BY DEF LookupAnswer
  <1>2. /\ RunsOk(runs, O) /\ work.run \in DOMAIN runs /\ work.run \notin retries /\ LookedUp(runs[work.run])
        /\ runs[work.run].status = "running" /\ UNCHANGED <<retries, raised>>
        /\ DOMAIN work = WorkFields
    BY DEF LookupAnswer, At1, TrIInv, WorkIs, RunsAre, AtRun, AtWork, requests
  <1> HIDE DEF O
  <1>3. /\ RunsOk(Answered(runs, work.run, answer), O \ {work.run})
        /\ DOMAIN Answered(runs, work.run, answer) = DOMAIN runs
        /\ \A i \in DOMAIN runs \ {work.run} : Answered(runs, work.run, answer)[i] = runs[i]
    BY <1>2, AnsweredIs
  <1>4. work'.pc = "exfil" /\ ~AtRun' BY <1>1, <1>2 DEF WorkFields, AtRun, Deciding
  <1>5. \A i \in DOMAIN runs' : i \in O \ {work.run} => i \in {work'.run} \cup retries' \cup raised'
    BY <1>2 DEF O
  <1>6. \A i \in DOMAIN runs : i \in DOMAIN runs' /\ (i # work.run => runs'[i] = runs[i]) BY <1>1, <1>3
  <1>7. RunsOk(runs', O \ {work.run}) BY <1>1, <1>3
  <1> QED BY <1>2, <1>4, <1>5, <1>6, <1>7, OneChanged

LEMMA ExfilKeeps == ASSUME TrIInv, Exfil PROVE RunsAre'
  <1> DEFINE O == {work.run} \cup retries \cup raised
             a == work.alert
             begun == Started(runs, "exfil", a, 0)
             id == Len(begun)
             marks == [k \in ToSet(StepsOf.exfil) |-> IF k = "contain" THEN "skipped" ELSE "completed"]
             mid == Stepped(begun, id, marks)
  <1>1. /\ ~AtRun /\ work.run = 0 /\ a \in Alerts /\ DOMAIN work = WorkFields /\ UNCHANGED <<retries, raised>>
        /\ retries \subseteq DOMAIN runs
    BY DEF Exfil, At1, TrIInv, WorkIs, RunsAre, AtRun, Deciding, OnAlert, requests
  <1>2. work'.run = 0 /\ ~AtRun' BY <1>1 DEF Exfil, WorkFields, AtRun, Deciding
  <1>3. runs' = runs \/ runs' = Closed(mid, id, "completed") BY DEF Exfil
  <1>4. "exfil" \in Playbooks BY StepsAre
  <1>5. /\ begun \in Seq(Executions) /\ id \in Nat /\ id # 0
        /\ DOMAIN begun = DOMAIN runs \cup {id} /\ id \notin DOMAIN runs
        /\ \A i \in DOMAIN runs : begun[i] = runs[i]
        /\ begun[id].status = "running"
        /\ DOMAIN begun[id].steps = ToSet(StepsOf["exfil"])
        /\ RunsOk(begun, O \cup {id})
    BY <1>1, <1>4, BegunNow
  <1> HIDE DEF begun, id
  <1>6. /\ DOMAIN marks = ToSet(StepsOf["exfil"])
        /\ \A k \in DOMAIN marks : marks[k] \in {"skipped", "completed"}
    OBVIOUS
  <1> HIDE DEF marks
  <1>7. \A k \in DOMAIN marks : marks[k] \in StepMarks BY <1>6 DEF StepMarks
  <1>8. id \in DOMAIN begun BY <1>5
  <1> HIDE DEF O
  <1>9. RunsOk(mid, O \cup {id}) BY <1>5, <1>7, <1>8, SteppedKeeps
  <1>10. /\ mid \in Seq(Executions) /\ DOMAIN mid = DOMAIN begun
         /\ \A i \in DOMAIN begun \ {id} : mid[i] = begun[i]
         /\ DOMAIN mid[id].steps = DOMAIN begun[id].steps
         /\ \A k \in DOMAIN begun[id].steps :
                mid[id].steps[k] = IF k \in DOMAIN marks THEN marks[k] ELSE begun[id].steps[k]
    BY <1>5, <1>7, <1>8, SteppedIs
  <1> HIDE DEF mid
  <1>11. \A k : Settled(mid[id], k) BY <1>5, <1>6, <1>10 DEF Settled
  <1>12. "completed" \in Statuses /\ id \in DOMAIN mid BY <1>8, <1>10 DEF Statuses
  <1>13. RunsOk(Closed(mid, id, "completed"), (O \cup {id}) \ {id}) BY <1>9, <1>11, <1>12, ClosedKeeps
  <1>14. /\ DOMAIN Closed(mid, id, "completed") = DOMAIN mid
         /\ \A i \in DOMAIN mid \ {id} : Closed(mid, id, "completed")[i] = mid[i]
    BY <1>10, <1>12, ClosedIs
  <1>15. CASE runs' = runs BY <1>1, <1>2, <1>15, ShortRunKeeps
  <1>16. CASE runs' = Closed(mid, id, "completed")
    <2>1. \A i \in DOMAIN runs : i \in DOMAIN runs' /\ (i # id => runs'[i] = runs[i])
      BY <1>5, <1>10, <1>14, <1>16
    <2>2. RunsOk(runs', (O \cup {id}) \ {id}) BY <1>13, <1>16
    <2>3. \A i \in DOMAIN runs' : i \in (O \cup {id}) \ {id} => i \in {work'.run} \cup retries' \cup raised'
      BY <1>1, <1>2 DEF O
    <2>4. id \notin retries BY <1>1, <1>5
    <2> QED BY <1>1, <1>2, <2>1, <2>2, <2>3, <2>4, OneChanged
  <1> QED BY <1>3, <1>15, <1>16

LEMMA ContainKeeps == ASSUME TrIInv, Contain PROVE RunsAre'
  <1>1. /\ ~AtRun /\ work.run = 0 /\ work.alert \in Alerts /\ DOMAIN work = WorkFields /\ UNCHANGED <<retries, raised>>
    BY DEF Contain, At1, TrIInv, WorkIs, AtRun, Deciding, OnAlert, requests
  <1>2. \/ work' = [work EXCEPT !.pc = "block", !.then = "triage"]
        \/ work' = [work EXCEPT !.pc = "triage"]
    BY DEF Contain
  <1>3. work'.run = 0 /\ ~AtRun' BY <1>1, <1>2 DEF WorkFields, AtRun, Deciding
  <1>4. runs' = runs \/ \E pb \in Playbooks, about \in Alerts \cup Hosts : runs' = PbRun(runs, pb, about)
    <2> DEFINE pb == PlaybookOf(AlertOf[work.alert].type)
    <2>1. CASE runs' = PbRun(runs, pb, work.alert) /\ pb \in {"brute", "honeypot", "correlated"}
      <3>1. pb \in Playbooks BY <2>1, StepsAre
      <3> HIDE DEF pb
      <3> QED BY <1>1, <2>1, <3>1
    <2>2. CASE runs' = runs BY <2>2
    <2> QED BY <2>1, <2>2 DEF Contain
  <1> QED BY <1>1, <1>3, <1>4, ShortRunKeeps

LEMMA TakesKeep == ASSUME TrIInv, TakeAlert \/ TakeProbe \/ TakeMatch \/ NoTriage PROVE RunsAre'
  <1>1. /\ ~AtRun /\ work.run = 0 /\ UNCHANGED <<retries, raised>> /\ work.pc \in {"idle", "triage"}
    BY DEF TakeAlert, TakeProbe, TakeMatch, NoTriage, At1, TrIInv, WorkIs, AtRun, Deciding, requests
  <1>2. work'.run = 0 /\ ~AtRun'
    <2>1. CASE work' = work \/ work' = IdleWorker BY <1>1, <2>1, IdleIs DEF AtRun, Deciding
    <2>2. CASE TakeAlert BY <2>2 DEF TakeAlert, IdleWorker, AtRun, Deciding
    <2>3. CASE \E h : work' = [IdleWorker EXCEPT !.pc = "block", !.ip = h]
      BY <2>3 DEF IdleWorker, AtRun, Deciding
    <2> QED BY <2>1, <2>2, <2>3 DEF TakeProbe, TakeMatch, NoTriage
  <1>3. runs' = runs \/ \E pb \in Playbooks, about \in Alerts \cup Hosts : runs' = PbRun(runs, pb, about)
    <2>1. CASE runs' = runs BY <2>1
    <2>2. CASE runs' # runs
      <3>1. \E pb \in {"scanner", "ioc"} : runs' = PbRun(runs, pb, Head(queue).what)
        BY <2>2 DEF TakeAlert, TakeProbe, TakeMatch, NoTriage
      <3>2. Head(queue).what \in Hosts
        <4>1. queue \in Seq(Items) /\ queue # <<>> /\ Head(queue).kind \in {"siem", "ti"}
          BY <2>2 DEF TrIInv, HandedOnce, TakeAlert, TakeProbe, TakeMatch, NoTriage
        <4>2. Head(queue) \in Items BY <4>1
        <4> QED BY <4>1, <4>2 DEF Items
      <3> QED BY <3>1, <3>2, StepsAre
    <2> QED BY <2>1, <2>2
  <1> QED BY <1>1, <1>2, <1>3, ShortRunKeeps

LEMMA BlockKeeps == ASSUME TrIInv, Block \/ LogBlock PROVE RunsAre'
  <1>1. /\ UNCHANGED <<runs, retries>> /\ DOMAIN work = WorkFields /\ work.pc \in {"block", "log"}
        /\ work.then \in {"idle", "triage", "record"} /\ (work.then # "record" => work.run = 0)
    BY DEF Block, LogBlock, At1, TrIInv, WorkIs, AtRun, Deciding, requests
  <1>2. CASE Block \/ (LogBlock /\ work' # IdleWorker)
    <2>1. work'.run = work.run /\ work'.then = work.then /\ work'.pc \in {"log", work.then} /\ UNCHANGED raised
      <3>1. CASE Block
        <4>1. PICK outcome : work' = [work EXCEPT !.outcome = outcome, !.pc = IF outcome = "blocked" THEN "log" ELSE work.then]
          BY <3>1 DEF Block
        <4> QED BY <1>1, <3>1, <4>1 DEF WorkFields, Block
      <3>2. CASE LogBlock /\ work' # IdleWorker
        <4>1. work' = [work EXCEPT !.pc = work.then] /\ UNCHANGED raised BY <3>2 DEF LogBlock, CutShort
        <4> QED BY <1>1, <4>1 DEF WorkFields
      <3> QED BY <1>2, <3>1, <3>2
    <2>2. CASE work.then # "record"
      <3>1. ~AtRun /\ ~AtRun' /\ work'.run = 0 BY <1>1, <2>1, <2>2 DEF AtRun, Deciding
      <3> QED BY <1>1, <2>1, <3>1, ShortRunKeeps
    <2>3. CASE work.then = "record"
      <3>1. AtRun /\ Deciding /\ Deciding' /\ AtRun' /\ work.pc # "lookup" /\ work'.pc # "lookup"
        BY <1>1, <2>1, <2>3 DEF AtRun, Deciding
      <3> QED BY <1>1, <2>1, <3>1 DEF TrIInv, RunsAre, AtWork
    <2> QED BY <2>2, <2>3
  <1>3. CASE LogBlock /\ work' = IdleWorker
    <2>1. raised' = raised \cup {work.run, work.alert} \/ (raised' = raised /\ work' = [work EXCEPT !.pc = work.then])
      BY <1>3 DEF LogBlock, CutShort
    <2>2. work'.run = 0 /\ ~AtRun' BY <1>3, IdleIs DEF AtRun, Deciding
    <2>3. RunsOk(runs', {work'.run} \cup retries' \cup raised')
      <3>1. RunsOk(runs, {work.run} \cup retries \cup raised) BY DEF TrIInv, RunsAre
      <3>2. CASE raised' = raised \cup {work.run, work.alert} BY <1>1, <3>1, <3>2, OwnersMatter
      <3>3. CASE raised' = raised /\ work' = [work EXCEPT !.pc = work.then]
        <4>1. work'.run = work.run BY <1>1, <3>3 DEF WorkFields
        <4> QED BY <1>1, <3>1, <3>3, <4>1
      <3> QED BY <2>1, <3>2, <3>3
    <2> QED BY <1>1, <2>2, <2>3 DEF TrIInv, RunsAre
  <1> QED BY <1>2, <1>3

LEMMA AskVerdictKeeps == ASSUME TrIInv, AskVerdict PROVE RunsAre'
  <1> DEFINE O == {work.run} \cup retries \cup raised
             begun == Started(runs, "triage", work.alert, 0)
             id == Len(begun)
             asks == Cardinality(RecentCalls(now)) < Budget
             marks == [intake |-> "completed", enrich |-> "completed", ai |-> IF asks THEN "running" ELSE "skipped"]
  <1>1. /\ ~AtRun /\ work.run = 0 /\ work.alert \in Alerts /\ DOMAIN work = WorkFields /\ UNCHANGED <<retries, raised>>
        /\ work.then \in {"idle", "triage", "record"}
        /\ retries \subseteq DOMAIN runs /\ runs \in Seq(Executions)
    BY DEF AskVerdict, At1, TrIInv, WorkIs, RunsAre, RunsOk, AtRun, Deciding, OnAlert, requests
  <1>2. runs' = Stepped(begun, id, marks) BY DEF AskVerdict
  <1>3. PICK v, c : \/ asks /\ work' = [work EXCEPT !.pc = "ai", !.run = id]
                    \/ ~asks /\ work' = [work EXCEPT !.pc = "apply", !.run = id, !.verdict = v, !.confidence = c, !.by = "rule"]
    BY DEF AskVerdict
  <1>4. "triage" \in Playbooks BY StepsAre
  <1>5. /\ begun \in Seq(Executions) /\ id \in Nat /\ id # 0
        /\ DOMAIN begun = DOMAIN runs \cup {id} /\ id \notin DOMAIN runs
        /\ \A i \in DOMAIN runs : begun[i] = runs[i]
        /\ begun[id].pb = "triage" /\ begun[id].status = "running"
        /\ RunsOk(begun, O \cup {id})
    BY <1>1, <1>4, BegunNow
  <1> HIDE DEF begun, id, asks
  <1>6. /\ work'.run = id /\ work'.then = work.then
        /\ (asks /\ work'.pc = "ai") \/ (~asks /\ work'.pc = "apply")
    <2>1. CASE asks BY <1>1, <1>3, <2>1 DEF WorkFields
    <2>2. CASE ~asks BY <1>1, <1>3, <2>2 DEF WorkFields
    <2> QED BY <2>1, <2>2
  <1>7. /\ DOMAIN marks = {"intake", "enrich", "ai"}
        /\ marks["intake"] = "completed" /\ marks["enrich"] = "completed"
        /\ marks["ai"] = IF asks THEN "running" ELSE "skipped"
    OBVIOUS
  <1> HIDE DEF marks, O
  <1>8. \A k \in DOMAIN marks : marks[k] \in StepMarks BY <1>7 DEF StepMarks
  <1>9. id \in DOMAIN begun BY <1>5
  <1>10. RunsOk(runs', O \cup {id}) BY <1>2, <1>5, <1>8, <1>9, SteppedKeeps
  <1>11. /\ DOMAIN runs' = DOMAIN begun
         /\ \A i \in DOMAIN begun \ {id} : runs'[i] = begun[i]
         /\ runs'[id].pb = "triage" /\ runs'[id].status = "running"
    BY <1>2, <1>5, <1>8, <1>9, SteppedIs
  <1>12. Settled(runs'[id], "intake") /\ Settled(runs'[id], "enrich") BY <1>2, <1>5, <1>7, <1>8, <1>9, SteppedSettles
  <1>13. ~asks => Settled(runs'[id], "ai") BY <1>2, <1>5, <1>7, <1>8, <1>9, SteppedSettles
  <1>14. AtWork(runs[work.run])' BY <1>6, <1>11, <1>12, <1>13 DEF AtWork, Deciding
  <1>15. work'.run \in DOMAIN runs' /\ work'.run \notin retries' BY <1>1, <1>5, <1>6, <1>11
  <1>16. \A i \in DOMAIN runs : i \in DOMAIN runs' /\ (i # id => runs'[i] = runs[i]) BY <1>5, <1>11
  <1>17. \A i \in DOMAIN runs' : i \in O \cup {id} => i \in {work'.run} \cup retries' \cup raised'
    BY <1>1, <1>5, <1>6, <1>11 DEF O
  <1>18. id \notin retries BY <1>1, <1>5
  <1> QED BY <1>1, <1>10, <1>14, <1>15, <1>16, <1>17, <1>18, OneChanged

\* The worker's execution where there is one.
LEMMA ItsRun ==
    ASSUME TrIInv, AtRun
    PROVE  /\ RunsOk(runs, {work.run} \cup retries \cup raised) /\ runs \in Seq(Executions)
           /\ work.run \in DOMAIN runs /\ work.run \notin retries /\ AtWork(runs[work.run])
           /\ runs[work.run].status = "running" /\ runs[work.run].status # "completed"
           /\ DOMAIN work = WorkFields
  BY DEF TrIInv, RunsAre, RunsOk, AtWork, WorkIs

LEMMA AiAnswerKeeps == ASSUME TrIInv, AiAnswer PROVE RunsAre'
  <1> DEFINE O == {work.run} \cup retries \cup raised
             id == work.run
  <1>1. AtRun /\ work.pc = "ai" /\ UNCHANGED <<retries, raised>> BY DEF AiAnswer, At1, AtRun, requests
  <1>2. /\ RunsOk(runs, O) /\ runs \in Seq(Executions) /\ id \in DOMAIN runs /\ id \notin retries
        /\ runs[id].status = "running" /\ runs[id].status # "completed" /\ DOMAIN work = WorkFields
        /\ runs[id].pb = "triage" /\ Settled(runs[id], "intake") /\ Settled(runs[id], "enrich")
    BY <1>1, ItsRun DEF AtWork
  <1>3. PICK v \in AiVerdicts :
           /\ runs' = IF v.verdict = None THEN Inconclusive(runs, work.run)
                      ELSE Stepped(runs, work.run, [ai |-> "completed"])
           /\ work' = IF v.verdict = None THEN IdleWorker
                      ELSE [work EXCEPT !.pc = "apply", !.verdict = v.verdict,
                                        !.confidence = v.confidence, !.by = v.by]
    BY DEF AiAnswer
  <1> HIDE DEF O
  <1>4. ASSUME NEW x \in {"failed", "completed"}
        PROVE  LET mid == Stepped(runs, id, [ai |-> x]) IN
               /\ RunsOk(mid, O) /\ mid \in Seq(Executions) /\ DOMAIN mid = DOMAIN runs
               /\ \A i \in DOMAIN runs \ {id} : mid[i] = runs[i]
               /\ mid[id].pb = runs[id].pb /\ mid[id].status = runs[id].status
               /\ Settled(mid[id], "intake") /\ Settled(mid[id], "enrich") /\ Settled(mid[id], "ai")
    <2> DEFINE marks == [ai |-> x]
               mid == Stepped(runs, id, marks)
    <2>1. DOMAIN marks = {"ai"} /\ marks["ai"] = x OBVIOUS
    <2> HIDE DEF marks
    <2>2. \A k \in DOMAIN marks : marks[k] \in StepMarks BY <2>1 DEF StepMarks
    <2>3. RunsOk(mid, O) BY <1>2, <2>2, SteppedKeeps
    <2>4. /\ mid \in Seq(Executions) /\ DOMAIN mid = DOMAIN runs
          /\ \A i \in DOMAIN runs \ {id} : mid[i] = runs[i]
          /\ mid[id].pb = runs[id].pb /\ mid[id].status = runs[id].status
      BY <1>2, <2>2, SteppedIs
    <2>5. Settled(mid[id], "intake") /\ Settled(mid[id], "enrich") BY <1>2, <2>1, <2>2, SteppedSettles
    <2>6. Settled(mid[id], "ai") BY <1>2, <2>1, <2>2, SteppedSettles
    <2> QED BY <2>3, <2>4, <2>5, <2>6 DEF marks
  <1>5. CASE v.verdict = None
    <2> DEFINE mid == Stepped(runs, id, [ai |-> "failed"])
    <2>1. runs' = Closed(mid, id, "failed") /\ work' = IdleWorker BY <1>3, <1>5 DEF Inconclusive
    <2>2. RunsOk(mid, O) /\ mid \in Seq(Executions) /\ DOMAIN mid = DOMAIN runs /\ \A i \in DOMAIN runs \ {id} : mid[i] = runs[i]
      BY <1>4
    <2> HIDE DEF mid
    <2>3. "failed" \in Statuses BY DEF Statuses
    <2>4. RunsOk(Closed(mid, id, "failed"), O \ {id}) BY <1>2, <2>2, <2>3, ClosedKeeps
    <2>5. DOMAIN Closed(mid, id, "failed") = DOMAIN mid /\ \A i \in DOMAIN mid \ {id} : Closed(mid, id, "failed")[i] = mid[i]
      BY <1>2, <2>2, <2>3, ClosedIs
    <2>6. ~AtRun' BY <2>1, IdleIs DEF AtRun, Deciding
    <2>7. \A i \in DOMAIN runs : i \in DOMAIN runs' /\ (i # id => runs'[i] = runs[i]) BY <2>1, <2>2, <2>5
    <2>8. \A i \in DOMAIN runs' : i \in O \ {id} => i \in {work'.run} \cup retries' \cup raised' BY <1>1 DEF O
    <2>9. RunsOk(runs', O \ {id}) BY <2>1, <2>4
    <2> QED BY <1>1, <1>2, <2>6, <2>7, <2>8, <2>9, OneChanged
  <1>6. CASE v.verdict # None
    <2>1. runs' = Stepped(runs, id, [ai |-> "completed"]) BY <1>3, <1>6
    <2>2. work' = [work EXCEPT !.pc = "apply", !.verdict = v.verdict, !.confidence = v.confidence, !.by = v.by]
      BY <1>3, <1>6
    <2>3. work'.pc = "apply" /\ work'.run = id /\ work'.then = work.then BY <1>2, <2>2 DEF WorkFields
    <2>4. /\ RunsOk(runs', O) /\ DOMAIN runs' = DOMAIN runs
          /\ \A i \in DOMAIN runs \ {id} : runs'[i] = runs[i]
          /\ runs'[id].pb = "triage" /\ runs'[id].status = "running"
          /\ Settled(runs'[id], "intake") /\ Settled(runs'[id], "enrich") /\ Settled(runs'[id], "ai")
      BY <1>2, <1>4, <2>1
    <2>5. AtWork(runs[work.run])' BY <2>3, <2>4 DEF AtWork, Deciding
    <2>6. work'.run \in DOMAIN runs' /\ work'.run \notin retries' BY <1>1, <1>2, <2>3, <2>4
    <2>7. \A i \in DOMAIN runs : i \in DOMAIN runs' /\ (i # id => runs'[i] = runs[i]) BY <2>4
    <2>8. \A i \in DOMAIN runs' : i \in O => i \in {work'.run} \cup retries' \cup raised' BY <1>1, <2>3 DEF O
    <2> QED BY <1>1, <1>2, <2>4, <2>5, <2>6, <2>7, <2>8, OneChanged
  <1> QED BY <1>5, <1>6

(* Marks that end a step, and marks that end all that is left.               *)
Endings(marks) == \A k \in DOMAIN marks : marks[k] \in {"completed", "skipped"}
NoneLeft(r, marks) == \A k \in DOMAIN r.steps : k \in DOMAIN marks \/ Settled(r, k)
\* An execution whose last steps are marked so that none is left is complete.
LEMMA CompletedIs ==
    ASSUME NEW rs, NEW O, RunsOk(rs, O), NEW id \in DOMAIN rs, rs[id].status # "completed", NEW marks,
           Endings(marks), NoneLeft(rs[id], marks),
           NEW to, to = Closed(Stepped(rs, id, marks), id, "completed")
    PROVE  /\ RunsOk(to, O \ {id}) /\ DOMAIN to = DOMAIN rs
           /\ \A i \in DOMAIN rs : i # id => to[i] = rs[i]
  <1> DEFINE mid == Stepped(rs, id, marks)
  <1>1. rs \in Seq(Executions) BY DEF RunsOk
  <1>2. \A k \in DOMAIN marks : marks[k] \in StepMarks BY DEF StepMarks, Endings
  <1>3. RunsOk(mid, O) BY <1>2, SteppedKeeps
  <1>4. /\ mid \in Seq(Executions) /\ DOMAIN mid = DOMAIN rs
        /\ \A i \in DOMAIN rs \ {id} : mid[i] = rs[i]
        /\ DOMAIN mid[id].steps = DOMAIN rs[id].steps
        /\ \A k \in DOMAIN rs[id].steps :
               mid[id].steps[k] = IF k \in DOMAIN marks THEN marks[k] ELSE rs[id].steps[k]
    BY <1>1, <1>2, SteppedIs
  <1> HIDE DEF mid
  <1>5. \A k : Settled(mid[id], k) BY <1>4 DEF Settled, Endings, NoneLeft
  <1>6. "completed" \in Statuses /\ id \in DOMAIN mid BY <1>4 DEF Statuses
  <1>7. RunsOk(Closed(mid, id, "completed"), O \ {id}) BY <1>3, <1>5, <1>6, ClosedKeeps
  <1>8. /\ DOMAIN Closed(mid, id, "completed") = DOMAIN mid
        /\ \A i \in DOMAIN mid \ {id} : Closed(mid, id, "completed")[i] = mid[i]
    BY <1>4, <1>6, ClosedIs
  <1> QED BY <1>4, <1>7, <1>8 DEF mid

(* The execution of the verdict has the steps of the triage playbook.        *)
LEMMA TriageSteps ==
    ASSUME TrIInv, AtRun, work.pc # "lookup"
    PROVE  DOMAIN runs[work.run].steps = {"intake", "enrich", "ai", "verdict", "notify"}
  <1>1. runs[work.run] \in Executions /\ runs[work.run].pb = "triage"
    BY ItsRun DEF AtWork
  <1> QED BY <1>1, ExecutionIs, StepsAre

LEMMA ApplyKeeps == ASSUME TrIInv, Apply PROVE RunsAre'
  <1> DEFINE O == {work.run} \cup retries \cup raised
             id == work.run
  <1>1. AtRun /\ work.pc = "apply" /\ work.pc # "lookup" /\ UNCHANGED <<retries, raised>>
    BY DEF Apply, At1, AtRun, requests
  <1>2. /\ RunsOk(runs, O) /\ runs \in Seq(Executions) /\ id \in DOMAIN runs /\ id \notin retries
        /\ runs[id].status = "running" /\ runs[id].status # "completed" /\ DOMAIN work = WorkFields
        /\ runs[id].pb = "triage" /\ Settled(runs[id], "intake") /\ Settled(runs[id], "enrich")
        /\ Settled(runs[id], "ai")
    BY <1>1, ItsRun DEF AtWork
  <1>3. DOMAIN runs[id].steps = {"intake", "enrich", "ai", "verdict", "notify"} BY <1>1, TriageSteps
  <1> HIDE DEF O
  <1>4. CASE work.verdict
    <2> DEFINE marks == [verdict |-> "completed", notify |-> "running"]
    <2>1. runs' = Stepped(runs, id, marks) /\ work' = [work EXCEPT !.pc = "gates"] BY <1>4 DEF Apply
    <2>2. DOMAIN marks = {"verdict", "notify"} /\ marks["verdict"] = "completed" /\ marks["notify"] = "running" OBVIOUS
    <2> HIDE DEF marks
    <2>3. \A k \in DOMAIN marks : marks[k] \in StepMarks BY <2>2 DEF StepMarks
    <2>4. RunsOk(runs', O) BY <1>2, <2>1, <2>3, SteppedKeeps
    <2>5. /\ DOMAIN runs' = DOMAIN runs /\ \A i \in DOMAIN runs \ {id} : runs'[i] = runs[i]
          /\ runs'[id].pb = "triage" /\ runs'[id].status = "running"
      BY <1>2, <2>1, <2>3, SteppedIs
    <2>6. Settled(runs'[id], "intake") /\ Settled(runs'[id], "enrich") BY <1>2, <2>1, <2>2, <2>3, SteppedSettles
    <2>7. Settled(runs'[id], "ai") BY <1>2, <2>1, <2>2, <2>3, SteppedSettles
    <2>8. Settled(runs'[id], "verdict") BY <1>2, <2>1, <2>2, <2>3, SteppedSettles
    <2>9. work'.pc = "gates" /\ work'.run = id /\ work'.then = work.then BY <1>2, <2>1 DEF WorkFields
    <2>10. AtWork(runs[work.run])' BY <2>5, <2>6, <2>7, <2>8, <2>9 DEF AtWork, Deciding
    <2>11. work'.run \in DOMAIN runs' /\ work'.run \notin retries' BY <1>1, <1>2, <2>5, <2>9
    <2>12. \A i \in DOMAIN runs : i \in DOMAIN runs' /\ (i # id => runs'[i] = runs[i]) BY <2>5
    <2>13. \A i \in DOMAIN runs' : i \in O => i \in {work'.run} \cup retries' \cup raised' BY <1>1, <2>9 DEF O
    <2> QED BY <1>1, <1>2, <2>4, <2>10, <2>11, <2>12, <2>13, OneChanged
  <1>5. CASE ~work.verdict
    <2> DEFINE marks == [verdict |-> "completed", notify |-> "skipped"]
               to == Closed(Stepped(runs, id, marks), id, "completed")
    <2>1. runs' = to /\ work' = IdleWorker BY <1>5 DEF Apply
    <2>2. DOMAIN marks = {"verdict", "notify"} /\ Endings(marks) BY DEF Endings
    <2> HIDE DEF marks
    <2>3. NoneLeft(runs[id], marks) BY <1>2, <1>3, <2>2 DEF NoneLeft
    <2>9. RunsOk(runs, O) /\ id \in DOMAIN runs /\ runs[id].status # "completed" /\ Endings(marks) BY <1>2, <2>2
    <2>4. /\ RunsOk(to, O \ {id}) /\ DOMAIN to = DOMAIN runs /\ \A i \in DOMAIN runs : i # id => to[i] = runs[i]
      BY <2>3, <2>9, CompletedIs
    <2> HIDE DEF to
    <2>5. ~AtRun' BY <2>1, IdleIs DEF AtRun, Deciding
    <2>6. \A i \in DOMAIN runs : i \in DOMAIN runs' /\ (i # id => runs'[i] = runs[i]) BY <2>1, <2>4
    <2>7. \A i \in DOMAIN runs' : i \in O \ {id} => i \in {work'.run} \cup retries' \cup raised' BY <1>1 DEF O
    <2>8. RunsOk(runs', O \ {id}) BY <2>1, <2>4
    <2> QED BY <1>1, <1>2, <2>5, <2>6, <2>7, <2>8, OneChanged
  <1> QED BY <1>4, <1>5

LEMMA GatesKeeps == ASSUME TrIInv, Gates PROVE RunsAre'
  <1> DEFINE O == {work.run} \cup retries \cup raised
             id == work.run
  <1>1. AtRun /\ work.pc = "gates" /\ work.pc # "lookup" /\ UNCHANGED retries
    BY DEF Gates, At1, AtRun, requests
  <1>2. /\ RunsOk(runs, O) /\ runs \in Seq(Executions) /\ id \in DOMAIN runs /\ id \notin retries
        /\ AtWork(runs[id]) /\ DOMAIN work = WorkFields /\ work.alert \in Alerts
        /\ retries \subseteq DOMAIN runs
    BY <1>1, ItsRun DEF TrIInv, WorkIs, RunsAre, OnAlert
  <1> HIDE DEF O
  <1>3. CASE work' = IdleWorker /\ raised' = raised \cup {work.run, work.alert} /\ UNCHANGED runs
    <2>1. ~AtRun' BY <1>3, IdleIs DEF AtRun, Deciding
    <2>2. \A i \in DOMAIN runs' : i \in O => i \in {work'.run} \cup retries' \cup raised' BY <1>1, <1>3 DEF O
    <2>3. \A i \in DOMAIN runs : i \in DOMAIN runs' /\ (i # id => runs'[i] = runs[i]) BY <1>3
    <2>4. RunsOk(runs', O) BY <1>2, <1>3
    <2> QED BY <1>1, <1>2, <2>1, <2>2, <2>3, <2>4, OneChanged
  <1>4. ASSUME NEW g, work' = [work EXCEPT !.pc = IF Passed(g) THEN "block" ELSE "record",
                               !.then = "record", !.outcome = "gates_not_met", !.gates = g],
               UNCHANGED raised, runs' = runs \/ runs' = PbRun(runs, "autoBlock", work.alert)
        PROVE  RunsAre'
    <2>1. work'.run = id /\ work'.then = "record" /\ work'.pc \in {"block", "record"} BY <1>2, <1>4 DEF WorkFields
    <2>2. Deciding' /\ AtRun' /\ work'.pc # "lookup" BY <2>1 DEF AtRun, Deciding
    <2>3. RunsOk(runs', O) /\ \A i \in DOMAIN runs : i \in DOMAIN runs' /\ runs'[i] = runs[i]
      <3>1. CASE runs' = runs BY <1>2, <3>1
      <3>2. CASE runs' = PbRun(runs, "autoBlock", work.alert)
        <4>1. "autoBlock" \in Playbooks /\ work.alert \in Alerts \cup Hosts BY <1>2, StepsAre
        <4>2. RunsOk(runs', O) BY <1>2, <3>2, <4>1, PbRunKeeps
        <4>3. DOMAIN runs' = DOMAIN runs \cup {Len(runs) + 1} /\ \A i \in DOMAIN runs : runs'[i] = runs[i]
          BY <1>2, <3>2, <4>1, PbRunIs
        <4> QED BY <4>2, <4>3
      <3> QED BY <1>4, <3>1, <3>2
    <2>4. AtWork(runs[work.run])'
      <3>1. runs'[work'.run] = runs[id] BY <1>2, <2>1, <2>3
      <3>2. AtWork(runs[id]) BY <1>2
      <3> QED BY <1>1, <2>1, <2>2, <3>1, <3>2 DEF AtWork
    <2>5. work'.run \in DOMAIN runs' /\ work'.run \notin retries' BY <1>1, <1>2, <2>1, <2>3
    <2>6. \A i \in DOMAIN runs' : i \in O => i \in {work'.run} \cup retries' \cup raised' BY <1>1, <1>4, <2>1 DEF O
    <2> QED BY <1>1, <1>2, <2>3, <2>4, <2>5, <2>6, OneChanged
  <1>5. CASE work.confidence = None BY <1>3, <1>5 DEF Gates, CutShort
  <1>6. CASE work.confidence # None
    <2> DEFINE g == EvaluateGates(GateInput)
    <2>1. /\ work' = [work EXCEPT !.pc = IF Passed(g) THEN "block" ELSE "record",
                               !.then = "record", !.outcome = "gates_not_met", !.gates = g]
          /\ UNCHANGED raised /\ (runs' = runs \/ runs' = PbRun(runs, "autoBlock", work.alert))
      BY <1>6 DEF Gates
    <2> HIDE DEF g
    <2> QED BY <1>4, <2>1
  <1> QED BY <1>5, <1>6

LEMMA RecordKeeps == ASSUME TrIInv, Record PROVE RunsAre'
  <1> DEFINE O == {work.run} \cup retries \cup raised
             id == work.run
             marks == [notify |-> "completed"]
             to == Closed(Stepped(runs, id, marks), id, "completed")
  <1>1. AtRun /\ Deciding /\ work.pc = "record" /\ work.pc # "lookup" /\ UNCHANGED <<retries, raised>>
        /\ work' = IdleWorker /\ runs' = to
    BY DEF Record, At1, AtRun, Deciding, requests
  <1>2. /\ RunsOk(runs, O) /\ id \in DOMAIN runs /\ id \notin retries /\ runs[id].status # "completed"
        /\ Settled(runs[id], "intake") /\ Settled(runs[id], "enrich")
        /\ Settled(runs[id], "ai") /\ Settled(runs[id], "verdict")
    BY <1>1, ItsRun DEF AtWork
  <1>3. DOMAIN runs[id].steps = {"intake", "enrich", "ai", "verdict", "notify"} BY <1>1, TriageSteps
  <1>4. DOMAIN marks = {"notify"} /\ Endings(marks) BY DEF Endings
  <1> HIDE DEF marks, O
  <1>5. NoneLeft(runs[id], marks) BY <1>2, <1>3, <1>4 DEF NoneLeft
  <1>6. /\ RunsOk(to, O \ {id}) /\ DOMAIN to = DOMAIN runs /\ \A i \in DOMAIN runs : i # id => to[i] = runs[i]
    BY <1>2, <1>4, <1>5, CompletedIs
  <1> HIDE DEF to
  <1>7. ~AtRun' BY <1>1, IdleIs DEF AtRun, Deciding
  <1>8. \A i \in DOMAIN runs : i \in DOMAIN runs' /\ (i # id => runs'[i] = runs[i]) BY <1>1, <1>6
  <1>9. \A i \in DOMAIN runs' : i \in O \ {id} => i \in {work'.run} \cup retries' \cup raised' BY <1>1 DEF O
  <1>10. RunsOk(runs', O \ {id}) BY <1>1, <1>6
  <1> QED BY <1>1, <1>2, <1>7, <1>8, <1>9, <1>10, OneChanged

(* A retry takes a failed execution up again, in one hand.                   *)
LEMMA RetryKeeps == ASSUME TrIInv, Retry PROVE RunsAre'
  <1> DEFINE O == {work.run} \cup retries \cup raised
  <1>0. UNCHANGED <<work, raised>> /\ RunsOk(runs, O) /\ runs \in Seq(Executions) /\ retries \subseteq DOMAIN runs
    BY DEF Retry, TrIInv, RunsAre, RunsOk
  <1>1. PICK old \in DOMAIN runs :
           LET begun == Started(runs, "malware", runs[old].about, old) IN
           runs' = Stepped(begun, Len(begun), LookupMarks) /\ retries' = retries \cup {Len(begun)}
    BY DEF Retry
  <1> DEFINE about == runs[old].about
             begun == Started(runs, "malware", about, old)
             id == Len(begun)
  <1>2. about \in Alerts \cup Hosts /\ old \in {0} \cup DOMAIN runs /\ "malware" \in Playbooks
    <2>1. runs[old] \in Executions BY <1>0
    <2> QED BY <2>1, ExecutionIs, StepsAre
  <1> HIDE DEF O, about
  <1>3. /\ begun \in Seq(Executions)
        /\ Len(begun) = Len(runs) + 1 /\ Len(runs) \in Nat
        /\ DOMAIN runs = 1 .. Len(runs)
        /\ DOMAIN begun = DOMAIN runs \cup {Len(runs) + 1}
        /\ \A i \in DOMAIN runs : begun[i] = runs[i]
        /\ begun[Len(runs) + 1] \in ExecutionOf("malware")
        /\ begun[Len(runs) + 1].status = "running"
        /\ RunsOk(begun, O \cup {Len(runs) + 1})
    BY <1>0, <1>2, BegunKeeps
  <1>4. runs' = Stepped(begun, id, LookupMarks) /\ retries' = retries \cup {id} BY <1>1 DEF about
  <1> HIDE DEF begun
  <1>5. id = Len(runs) + 1 BY <1>3
  <1> HIDE DEF id
  <1>6. /\ DOMAIN LookupMarks = {"intake", "hash", "vt"}
        /\ LookupMarks["intake"] = "completed" /\ LookupMarks["hash"] = "completed" /\ LookupMarks["vt"] = "running"
    BY DEF LookupMarks
  <1>7. \A k \in DOMAIN LookupMarks : LookupMarks[k] \in StepMarks BY <1>6 DEF StepMarks
  <1>8. id \in DOMAIN begun /\ begun[id].status # "completed" /\ begun[id].pb = "malware" BY <1>3, <1>5 DEF ExecutionOf
  <1>9. RunsOk(runs', O \cup {id}) BY <1>3, <1>4, <1>5, <1>7, <1>8, SteppedKeeps
  <1>10. /\ DOMAIN runs' = DOMAIN begun
         /\ \A i \in DOMAIN begun \ {id} : runs'[i] = begun[i]
         /\ runs'[id].pb = "malware" /\ runs'[id].status = "running"
    BY <1>3, <1>4, <1>5, <1>7, <1>8, SteppedIs
  <1>11. Settled(runs'[id], "intake") /\ Settled(runs'[id], "hash") BY <1>3, <1>4, <1>6, <1>7, <1>8, SteppedSettles
  <1>12. LookedUp(runs'[id]) BY <1>10, <1>11 DEF LookedUp
  <1>13. \A i \in DOMAIN runs : i \in DOMAIN runs' /\ i # id /\ runs'[i] = runs[i] BY <1>3, <1>5, <1>10
  <1>14. RunsOk(runs', {work'.run} \cup retries' \cup raised')
    <2>1. \A i \in DOMAIN runs' : i \in O \cup {id} => i \in {work'.run} \cup retries' \cup raised'
      BY <1>0, <1>4 DEF O
    <2> QED BY <1>9, <2>1, OwnersMatter
  <1>15. retries' \subseteq DOMAIN runs' /\ \A i \in retries' : LookedUp(runs'[i])
    BY <1>0, <1>4, <1>8, <1>10, <1>12, <1>13 DEF TrIInv, RunsAre
  <1>16. AtRun' => work'.run \in DOMAIN runs' /\ work'.run \notin retries' /\ AtWork(runs[work.run])'
    <2>1. AtRun' <=> AtRun BY <1>0 DEF AtRun, Deciding
    <2>2. ASSUME AtRun PROVE work'.run \in DOMAIN runs' /\ work'.run \notin retries' /\ AtWork(runs[work.run])'
      <3>1. work.run \in DOMAIN runs /\ work.run \notin retries /\ AtWork(runs[work.run]) BY <2>2, ItsRun
      <3>2. runs'[work'.run] = runs[work.run] BY <1>0, <1>13, <3>1
      <3>3. AtWork(runs[work.run])' BY <1>0, <3>1, <3>2 DEF AtWork, Deciding
      <3> QED BY <1>0, <1>4, <1>13, <3>1, <3>3
    <2> QED BY <2>1, <2>2
  <1> QED BY <1>14, <1>15, <1>16 DEF RunsAre

(* A retry is answered and lets its execution go.                            *)
LEMMA RetryAnswerKeeps == ASSUME TrIInv, RetryAnswer PROVE RunsAre'
  <1> DEFINE O == {work.run} \cup retries \cup raised
  <1>0. UNCHANGED <<work, raised>> /\ RunsOk(runs, O) /\ retries \subseteq DOMAIN runs
    BY DEF RetryAnswer, TrIInv, RunsAre
  <1>1. PICK id \in retries, answer \in Answers : runs' = Answered(runs, id, answer) /\ retries' = retries \ {id}
    BY DEF RetryAnswer
  <1>2. id \in DOMAIN runs /\ LookedUp(runs[id]) BY <1>0 DEF TrIInv, RunsAre
  <1> HIDE DEF O
  <1>3. runs[id].status # "completed" BY <1>2 DEF LookedUp
  <1>4. /\ RunsOk(runs', O \ {id}) /\ DOMAIN runs' = DOMAIN runs /\ \A i \in DOMAIN runs \ {id} : runs'[i] = runs[i]
    BY <1>0, <1>1, <1>2, <1>3, AnsweredIs
  <1>5. RunsOk(runs', {work'.run} \cup retries' \cup raised')
    <2>1. \A i \in DOMAIN runs' : i \in O \ {id} => i \in {work'.run} \cup retries' \cup raised' BY <1>0, <1>1 DEF O
    <2> QED BY <1>4, <2>1, OwnersMatter
  <1>6. retries' \subseteq DOMAIN runs' /\ \A i \in retries' : LookedUp(runs'[i])
    BY <1>0, <1>1, <1>4 DEF TrIInv, RunsAre
  <1>7. AtRun' => work'.run \in DOMAIN runs' /\ work'.run \notin retries' /\ AtWork(runs[work.run])'
    <2>1. AtRun' <=> AtRun BY <1>0 DEF AtRun, Deciding
    <2>2. ASSUME AtRun PROVE work'.run \in DOMAIN runs' /\ work'.run \notin retries' /\ AtWork(runs[work.run])'
      <3>1. work.run \in DOMAIN runs /\ work.run \notin retries /\ AtWork(runs[work.run]) BY <2>2, ItsRun
      <3>2. runs'[work'.run] = runs[work.run] BY <1>0, <1>4, <3>1
      <3>3. AtWork(runs[work.run])' BY <1>0, <3>1, <3>2 DEF AtWork, Deciding
      <3> QED BY <1>0, <1>1, <1>4, <3>1, <3>3
    <2> QED BY <2>1, <2>2
  <1> QED BY <1>5, <1>6, <1>7 DEF RunsAre

(* After a restart no execution runs: what ran is interrupted.               *)
LEMMA RestartKeeps == ASSUME TrIInv, TriageRestart PROVE RunsAre'
  <1> DEFINE New(id) == IF runs[id].status # "running" THEN runs[id] ELSE [runs[id] EXCEPT !.status = "interrupted"]
  <1>1. /\ runs \in Seq(Executions) /\ work' = IdleWorker /\ retries' = {}
        /\ \A id \in DOMAIN runs : runs[id].status = "completed" => \A k : Settled(runs[id], k)
    BY DEF TrIInv, RunsAre, RunsOk, TriageRestart
  <1>2. ASSUME NEW id \in DOMAIN runs
        PROVE  /\ New(id) \in Executions /\ New(id).status # "running"
               /\ New(id).status = "completed" => \A k : Settled(New(id), k)
    <2>1. runs[id] \in Executions BY <1>1
    <2>2. runs[id].pb \in Playbooks /\ runs[id] \in ExecutionOf(runs[id].pb) BY <2>1, ExecutionIs
    <2>3. CASE runs[id].status # "running" BY <1>1, <2>1, <2>3
    <2>4. CASE runs[id].status = "running"
      <3> DEFINE r == [runs[id] EXCEPT !.status = "interrupted"]
      <3>1. r \in ExecutionOf(runs[id].pb) /\ r.status = "interrupted" BY <2>2 DEF ExecutionOf, Statuses
      <3>2. New(id) = r BY <2>4
      <3> HIDE DEF r, New
      <3>3. r \in Executions BY <2>2, <3>1 DEF Executions
      <3> QED BY <3>1, <3>2, <3>3
    <2> QED BY <2>3, <2>4
  <1>3. runs' = [id \in DOMAIN runs |-> New(id)] BY DEF TriageRestart
  <1> HIDE DEF New
  <1>4. /\ DOMAIN runs' = DOMAIN runs /\ \A id \in DOMAIN runs : runs'[id] = New(id) /\ runs' \in Seq(Executions)
    <2>1. PICK n \in Nat : DOMAIN runs = 1 .. n BY <1>1
    <2>2. runs' \in [1 .. n -> Executions] BY <1>2, <1>3, <2>1
    <2> QED BY <1>3, <2>1, <2>2
  <1>5. runs' \in Seq(Executions)
    <2>1. PICK n \in Nat : DOMAIN runs = 1 .. n BY <1>1
    <2>2. runs' \in [1 .. n -> Executions] BY <1>2, <1>3, <2>1
    <2> QED BY <2>1, <2>2
  <1>6. RunsOk(runs', {work'.run} \cup retries' \cup raised') BY <1>2, <1>4, <1>5 DEF RunsOk
  <1>7. ~AtRun' BY <1>1, IdleIs DEF AtRun, Deciding
  <1> QED BY <1>1, <1>6, <1>7 DEF RunsAre

(* Executions through every step.                                            *)
LEMMA RunsKeep == ASSUME TrIInv, [TriageNext]_triageVars, WorkIs' PROVE RunsAre'
  <1>1. CASE \/ \E item \in Items : Hand(item)
             \/ TogglePlaybook \/ Unblock \/ TriageTick \/ UNCHANGED triageVars
    <2>1. UNCHANGED <<runs, work, retries, raised>>
      BY <1>1 DEF Hand, TogglePlaybook, Unblock, TriageTick, triageVars, requests
    <2> QED BY <2>1, UntouchedKeeps
  <1>2. CASE WorkerStep
    BY <1>2, TakesKeep, EnrichKeeps, LookupAnswerKeeps, ExfilKeeps, ContainKeeps, BlockKeeps, AskVerdictKeeps,
       AiAnswerKeeps, ApplyKeeps, GatesKeeps, RecordKeeps DEF WorkerStep
  <1>3. CASE RetryAnswer BY <1>3, RetryAnswerKeeps
  <1>4. CASE Retry BY <1>4, RetryKeeps
  <1>5. CASE TriageRestart BY <1>5, RestartKeeps
  <1> QED BY <1>1, <1>2, <1>3, <1>4, <1>5 DEF TriageNext

-----------------------------------------------------------------------------

(* Taking an alert from the queue leaves the others, once each.              *)
LEMMA TailOfQueue ==
    ASSUME NEW q \in Seq(Items), q # <<>>
    PROVE  /\ Tail(q) \in Seq(Items) /\ \A a : QueuedIn(Tail(q), a) => QueuedIn(q, a)
           /\ AlertsOnce(q) => AlertsOnce(Tail(q))
           /\ AlertsOnce(q) /\ Head(q).kind = "alert" => ~QueuedIn(Tail(q), Head(q).what)
           /\ Head(q).kind = "alert" => QueuedIn(q, Head(q).what)
  <1>1. /\ Tail(q) \in Seq(Items) /\ 1 \in DOMAIN q /\ Head(q) = q[1]
        /\ \A i \in DOMAIN Tail(q) : i \in Nat /\ i > 0 /\ i + 1 \in DOMAIN q /\ Tail(q)[i] = q[i + 1]
    OBVIOUS
  <1>2. \A a : QueuedIn(Tail(q), a) => QueuedIn(q, a) BY <1>1 DEF QueuedIn
  <1>3. ASSUME AlertsOnce(q), NEW i \in DOMAIN Tail(q), NEW j \in DOMAIN Tail(q),
               Tail(q)[i].kind = "alert", Tail(q)[j].kind = "alert", Tail(q)[i].what = Tail(q)[j].what
        PROVE  i = j
    <2>1. i + 1 = j + 1 BY <1>1, <1>3 DEF AlertsOnce
    <2> QED BY <1>1, <2>1
  <1>4. ASSUME AlertsOnce(q), Head(q).kind = "alert", NEW i \in DOMAIN Tail(q),
               Tail(q)[i].kind = "alert", Tail(q)[i].what = Head(q).what
        PROVE  FALSE
    <2>1. i + 1 = 1 BY <1>1, <1>4 DEF AlertsOnce
    <2> QED BY <1>1, <2>1
  <1> QED BY <1>1, <1>2, <1>3, <1>4 DEF AlertsOnce, QueuedIn

(* Handing over an alert that is not in the queue leaves it there once.      *)
LEMMA AppendedQueue ==
    ASSUME NEW q \in Seq(Items), AlertsOnce(q), NEW item \in Items, item.kind = "alert" => ~QueuedIn(q, item.what)
    PROVE  /\ Append(q, item) \in Seq(Items) /\ AlertsOnce(Append(q, item))
           /\ \A a : QueuedIn(Append(q, item), a) => QueuedIn(q, a) \/ (item.kind = "alert" /\ item.what = a)
  <1>1. /\ Append(q, item) \in Seq(Items) /\ Len(q) \in Nat /\ DOMAIN q = 1 .. Len(q)
        /\ DOMAIN Append(q, item) = 1 .. Len(q) + 1
        /\ \A i \in 1 .. Len(q) : Append(q, item)[i] = q[i]
        /\ Append(q, item)[Len(q) + 1] = item
    OBVIOUS
  <1> DEFINE p == Append(q, item)
  <1> HIDE DEF p
  <1>2. ASSUME NEW i \in DOMAIN p, NEW j \in DOMAIN p, p[i].kind = "alert", p[j].kind = "alert", p[i].what = p[j].what
        PROVE  i = j
    <2>1. CASE i \in 1 .. Len(q) /\ j \in 1 .. Len(q)
      <3>1. p[i] = q[i] /\ p[j] = q[j] BY <1>1, <2>1 DEF p
      <3> QED BY <1>1, <1>2, <2>1, <3>1 DEF AlertsOnce
    <2>2. CASE i \in 1 .. Len(q) /\ j = Len(q) + 1
      <3>1. p[i] = q[i] /\ p[j] = item BY <1>1, <2>2 DEF p
      <3> QED BY <1>1, <1>2, <2>2, <3>1 DEF QueuedIn
    <2>3. CASE j \in 1 .. Len(q) /\ i = Len(q) + 1
      <3>1. p[j] = q[j] /\ p[i] = item BY <1>1, <2>3 DEF p
      <3> QED BY <1>1, <1>2, <2>3, <3>1 DEF QueuedIn
    <2>4. CASE i = Len(q) + 1 /\ j = Len(q) + 1 BY <2>4
    <2> QED BY <1>1, <1>2, <2>1, <2>2, <2>3, <2>4 DEF p
  <1>3. AlertsOnce(p) BY <1>2 DEF AlertsOnce
  <1>4. \A a : QueuedIn(p, a) => QueuedIn(q, a) \/ (item.kind = "alert" /\ item.what = a)
    BY <1>1 DEF QueuedIn, p
  <1> QED BY <1>1, <1>3, <1>4 DEF p

\* Up to the gates the worker stays with its alert or lets go of it.
LEMMA QuietWorker ==
    ASSUME TrIInv, Enrich \/ LookupAnswer \/ Exfil \/ Contain \/ NoTriage \/ AskVerdict \/ AiAnswer \/ Apply
    PROVE  /\ ~Deciding /\ ~Deciding' /\ UNCHANGED <<queue, given, made, decisions, config, raised>>
           /\ OnAlert' => OnAlert /\ work'.alert = work.alert
  <1> USE DEF input, effects, memo, requests, At1
  <1>1. UNCHANGED <<queue, given, made, decisions, config, raised>>
    BY DEF Enrich, LookupAnswer, Exfil, Contain, NoTriage, AskVerdict, AiAnswer, Apply
  <1>2. work.pc \in {"enrich", "lookup", "exfil", "contain", "triage", "ai", "apply"}
    BY DEF Enrich, LookupAnswer, Exfil, Contain, NoTriage, AskVerdict, AiAnswer, Apply
  <1>3. ~Deciding /\ OnAlert BY <1>2 DEF Deciding, OnAlert
  <1>4. DOMAIN work = WorkFields BY DEF TrIInv, WorkIs
  <1>5. CASE work' = IdleWorker
    BY <1>1, <1>3, <1>5, IdleIs DEF Deciding, OnAlert
  <1>6. ASSUME work'.alert = work.alert,
               work'.pc \in {"enrich", "lookup", "exfil", "contain", "triage", "ai", "apply", "gates"}
               \/ (work'.pc = "block" /\ work'.then = "triage")
        PROVE  /\ ~Deciding /\ ~Deciding' /\ UNCHANGED <<queue, given, made, decisions, config, raised>>
               /\ OnAlert' => OnAlert /\ work'.alert = work.alert
    BY <1>1, <1>3, <1>6 DEF Deciding
  <1>7. CASE Enrich
    <2>1. PICK id : work' = [work EXCEPT !.pc = "exfil"] \/ work' = [work EXCEPT !.pc = "lookup", !.run = id]
      BY <1>7 DEF Enrich
    <2>2. work'.alert = work.alert /\ work'.pc \in {"exfil", "lookup"} BY <1>4, <2>1 DEF WorkFields
    <2> QED BY <1>6, <2>2
  <1>8. CASE LookupAnswer
    <2>1. PICK x : work' = [work EXCEPT !.pc = "exfil", !.run = 0, !.evidence = x] BY <1>8 DEF LookupAnswer
    <2>2. work'.alert = work.alert /\ work'.pc = "exfil" BY <1>4, <2>1 DEF WorkFields
    <2> QED BY <1>6, <2>2
  <1>9. CASE Exfil
    <2>1. work' = [work EXCEPT !.pc = "contain"] BY <1>9 DEF Exfil
    <2>2. work'.alert = work.alert /\ work'.pc = "contain" BY <1>4, <2>1 DEF WorkFields
    <2> QED BY <1>6, <2>2
  <1>10. CASE Contain
    <2>1. \/ work' = [work EXCEPT !.pc = "block", !.then = "triage"]
          \/ work' = [work EXCEPT !.pc = "triage"]
      BY <1>10 DEF Contain
    <2>2. work'.alert = work.alert /\ (work'.pc = "triage" \/ (work'.pc = "block" /\ work'.then = "triage"))
      BY <1>4, <2>1 DEF WorkFields
    <2> QED BY <1>6, <2>2
  <1>11. CASE AskVerdict
    <2>1. PICK id, v, c, b : \/ work' = [work EXCEPT !.pc = "ai", !.run = id]
                            \/ work' = [work EXCEPT !.pc = "apply", !.run = id, !.verdict = v, !.confidence = c, !.by = b]
      BY <1>11 DEF AskVerdict
    <2>2. work'.alert = work.alert /\ work'.pc \in {"ai", "apply"} BY <1>4, <2>1 DEF WorkFields
    <2> QED BY <1>6, <2>2
  <1>12. CASE AiAnswer
    <2>1. PICK v, c, b : \/ work' = IdleWorker
                        \/ work' = [work EXCEPT !.pc = "apply", !.verdict = v, !.confidence = c, !.by = b]
      BY <1>12 DEF AiAnswer
    <2>2. CASE work' # IdleWorker
      <3>1. work'.alert = work.alert /\ work'.pc = "apply" BY <1>4, <2>1, <2>2 DEF WorkFields
      <3> QED BY <1>6, <3>1
    <2> QED BY <1>5, <2>2
  <1>13. CASE Apply
    <2>1. work' = IdleWorker \/ work' = [work EXCEPT !.pc = "gates"] BY <1>13 DEF Apply
    <2>2. CASE work' # IdleWorker
      <3>1. work'.alert = work.alert /\ work'.pc = "gates" BY <1>4, <2>1, <2>2 DEF WorkFields
      <3> QED BY <1>6, <3>1
    <2> QED BY <1>5, <2>2
  <1>14. CASE NoTriage BY <1>5, <1>14 DEF NoTriage
  <1> QED BY <1>7, <1>8, <1>9, <1>10, <1>11, <1>12, <1>13, <1>14

(* Steps that hand nothing over.                                             *)
LEMMA QuietHanding ==
    ASSUME TrIInv, UNCHANGED <<queue, given, decisions>>,
           \A m \in made' : m \in made \/ (m[3] = "record" => OnAlert /\ m[1] = work.alert),
           OnAlert' => OnAlert /\ work'.alert = work.alert
    PROVE  HandedOnce'
  <1>1. HandedOnce BY DEF TrIInv
  <1>2. queue' \in Seq(Items) /\ AlertsOnce(queue') /\ \A a : QueuedIn(queue', a) => a \in given' BY <1>1 DEF HandedOnce
  <1>3. OnAlert' => work'.alert \in given' /\ ~QueuedIn(queue', work'.alert) BY <1>1 DEF HandedOnce
  <1>4. \A m \in made' : m[3] = "record" => m[1] \in given' /\ ~QueuedIn(queue', m[1]) BY <1>1 DEF HandedOnce
  <1>5. \A d \in decisions' : d.alert \in given' /\ ~QueuedIn(queue', d.alert) /\ (OnAlert' => d.alert # work'.alert)
    BY <1>1 DEF HandedOnce
  <1> QED BY <1>2, <1>3, <1>4, <1>5 DEF HandedOnce

(* A hand-over, which may push the oldest out of the full queue.             *)
LEMMA HandKeepsOnce == ASSUME TrIInv, NEW item \in Items, Hand(item) PROVE HandedOnce'
  <1> DEFINE q == IF Len(queue) = QueueCap THEN Tail(queue) ELSE queue
  <1>1. HandedOnce /\ UNCHANGED <<work, made, decisions>> /\ queue' = Append(q, item)
        /\ given' = (IF item.kind = "alert" THEN given \cup {item.what} ELSE given)
        /\ (item.kind = "alert" => item.what \notin given)
    BY DEF TrIInv, Hand, effects
  <1>2. q \in Seq(Items) /\ AlertsOnce(q) /\ \A a : QueuedIn(q, a) => QueuedIn(queue, a)
    <2>1. CASE Len(queue) = QueueCap
      <3>1. queue # <<>> BY <2>1, TriageNumbers
      <3> QED BY <1>1, <2>1, <3>1, TailOfQueue DEF HandedOnce
    <2>2. CASE Len(queue) # QueueCap BY <1>1, <2>2 DEF HandedOnce
    <2> QED BY <2>1, <2>2
  <1> HIDE DEF q
  <1>3. item.kind = "alert" => ~QueuedIn(q, item.what) BY <1>1, <1>2 DEF HandedOnce
  <1>4. /\ queue' \in Seq(Items) /\ AlertsOnce(queue')
        /\ \A a : QueuedIn(queue', a) => QueuedIn(queue, a) \/ (item.kind = "alert" /\ item.what = a)
    BY <1>1, <1>2, <1>3, AppendedQueue
  <1>5. \A a : a \in given => a \in given' /\ (QueuedIn(queue', a) => QueuedIn(queue, a)) BY <1>1, <1>4
  <1>6. \A a : QueuedIn(queue', a) => a \in given' BY <1>1, <1>4 DEF HandedOnce
  <1>7. OnAlert' <=> OnAlert BY <1>1 DEF OnAlert
  <1>8. OnAlert => work.alert \in given' /\ ~QueuedIn(queue', work.alert) BY <1>1, <1>5 DEF HandedOnce
  <1>9. \A m \in made : m[3] = "record" => m[1] \in given' /\ ~QueuedIn(queue', m[1]) BY <1>1, <1>5 DEF HandedOnce
  <1>10. \A d \in decisions : d.alert \in given' /\ ~QueuedIn(queue', d.alert) /\ (OnAlert => d.alert # work.alert)
    BY <1>1, <1>5 DEF HandedOnce
  <1> QED BY <1>1, <1>4, <1>6, <1>7, <1>8, <1>9, <1>10 DEF HandedOnce

(* The worker takes the next item.                                           *)
LEMMA TakesKeepOnce == ASSUME TrIInv, TakeAlert \/ TakeProbe \/ TakeMatch PROVE HandedOnce'
  <1>1. /\ HandedOnce /\ UNCHANGED <<given, made, decisions>> /\ queue' = Tail(queue) /\ queue # <<>>
        /\ queue \in Seq(Items) /\ AlertsOnce(queue)
    BY DEF TrIInv, HandedOnce, TakeAlert, TakeProbe, TakeMatch, effects
  <1>2. /\ queue' \in Seq(Items) /\ AlertsOnce(queue') /\ \A a : QueuedIn(queue', a) => QueuedIn(queue, a)
        /\ Head(queue).kind = "alert" => ~QueuedIn(queue', Head(queue).what) /\ QueuedIn(queue, Head(queue).what)
    BY <1>1, TailOfQueue
  <1>3. OnAlert' => Head(queue).kind = "alert" /\ work'.alert = Head(queue).what
    <2>1. CASE TakeAlert
      <3>1. work'.alert = Head(queue).what BY <2>1 DEF TakeAlert, IdleWorker
      <3> QED BY <2>1, <3>1 DEF TakeAlert
    <2>2. CASE TakeProbe \/ TakeMatch
      <3>1. work.pc = "idle" BY <2>2 DEF TakeProbe, TakeMatch, At1
      <3>2. CASE work' = work BY <3>1, <3>2 DEF OnAlert
      <3>3. CASE work' # work
        <4>1. PICK h : work' = [IdleWorker EXCEPT !.pc = "block", !.ip = h]
          BY <2>2, <3>3 DEF TakeProbe, TakeMatch
        <4>2. work'.pc = "block" /\ work'.then = "idle" BY <4>1 DEF IdleWorker
        <4> QED BY <4>2 DEF OnAlert
      <3> QED BY <3>2, <3>3
    <2> QED BY <2>1, <2>2
  <1>4. \A a : QueuedIn(queue', a) => a \in given BY <1>1, <1>2 DEF HandedOnce
  <1>5. OnAlert' => work'.alert \in given /\ ~QueuedIn(queue', work'.alert) BY <1>1, <1>2, <1>3 DEF HandedOnce
  <1>6. \A m \in made : m[3] = "record" => m[1] \in given /\ ~QueuedIn(queue', m[1]) BY <1>1, <1>2 DEF HandedOnce
  <1>7. \A d \in decisions : d.alert \in given /\ ~QueuedIn(queue', d.alert) /\ (OnAlert' => d.alert # work'.alert)
    BY <1>1, <1>2, <1>3 DEF HandedOnce
  <1> QED BY <1>1, <1>2, <1>4, <1>5, <1>6, <1>7 DEF HandedOnce

\* Block and its log line: what becomes of the worker and of the blocks made.
LEMMA BlockMoves ==
    ASSUME TrIInv, Block
    PROVE  /\ work'.alert = work.alert /\ work'.ip = work.ip /\ work'.then = work.then
           /\ work'.verdict = work.verdict /\ work'.confidence = work.confidence
           /\ work'.evidence = work.evidence /\ work'.gates = work.gates
           /\ work'.outcome \in {"prevented_by_safety", "already_blocked", "queued_for_approval", "blocked"}
           /\ work'.pc = (IF work'.outcome = "blocked" THEN "log" ELSE work.then)
           /\ made' = (IF work'.outcome = "blocked" THEN made \cup {<<work.alert, work.ip, work.then>>} ELSE made)
           /\ UNCHANGED <<queue, given, decisions, config, raised>>
  <1> DEFINE outcome == CASE ~Blockable(work.ip) -> "prevented_by_safety"
                          [] Blockable(work.ip) /\ work.ip \in blocked -> "already_blocked"
                          [] Blockable(work.ip) /\ work.ip \notin blocked /\ config.approval -> "queued_for_approval"
                          [] OTHER -> "blocked"
  <1>1. outcome \in {"prevented_by_safety", "already_blocked", "queued_for_approval", "blocked"} OBVIOUS
  <1>2. /\ work' = [work EXCEPT !.outcome = outcome, !.pc = IF outcome = "blocked" THEN "log" ELSE work.then]
        /\ made' = IF outcome = "blocked" THEN made \cup {<<work.alert, work.ip, work.then>>} ELSE made
    BY DEF Block
  <1> HIDE DEF outcome
  <1>3. DOMAIN work = WorkFields BY DEF TrIInv, WorkIs
  <1>4. /\ work'.alert = work.alert /\ work'.ip = work.ip /\ work'.then = work.then
        /\ work'.verdict = work.verdict /\ work'.confidence = work.confidence
        /\ work'.evidence = work.evidence /\ work'.gates = work.gates
        /\ work'.outcome = outcome /\ work'.pc = (IF outcome = "blocked" THEN "log" ELSE work.then)
    BY <1>2, <1>3 DEF WorkFields
  <1>5. UNCHANGED <<queue, given, decisions, config, raised>> BY DEF Block, input
  <1> QED BY <1>1, <1>2, <1>4, <1>5

(* What the log line of a block does to the worker.                          *)
LEMMA LogMoves ==
    ASSUME TrIInv, LogBlock
    PROVE  /\ UNCHANGED <<queue, given, decisions, config, made>>
           /\ \/ work' = IdleWorker /\ raised' = raised \cup {work.run, work.alert}
              \/ /\ raised' = raised /\ work'.pc = work.then
                 /\ work'.alert = work.alert /\ work'.ip = work.ip /\ work'.then = work.then
                 /\ work'.verdict = work.verdict /\ work'.confidence = work.confidence
                 /\ work'.evidence = work.evidence /\ work'.gates = work.gates /\ work'.outcome = work.outcome
  <1>1. UNCHANGED <<queue, given, decisions, config, made>> BY DEF LogBlock, input, effects
  <1>2. \/ work' = IdleWorker /\ raised' = raised \cup {work.run, work.alert}
        \/ work' = [work EXCEPT !.pc = work.then] /\ raised' = raised
    BY DEF LogBlock, CutShort
  <1>3. DOMAIN work = WorkFields BY DEF TrIInv, WorkIs
  <1>4. CASE work' = [work EXCEPT !.pc = work.then] /\ raised' = raised BY <1>1, <1>3, <1>4 DEF WorkFields
  <1> QED BY <1>1, <1>2, <1>4

(* What the gates do to the worker.                                          *)
LEMMA GatesMoves ==
    ASSUME TrIInv, Gates
    PROVE  /\ UNCHANGED <<queue, given, decisions, config, made>>
           /\ \/ work' = IdleWorker /\ raised' = raised \cup {work.run, work.alert}
              \/ /\ raised' = raised /\ work'.then = "record" /\ work'.outcome = "gates_not_met"
                 /\ work'.gates = EvaluateGates(GateInput)
                 /\ work'.pc = (IF Passed(work'.gates) THEN "block" ELSE "record")
                 /\ work'.alert = work.alert /\ work'.ip = work.ip /\ work'.verdict = work.verdict
                 /\ work'.confidence = work.confidence /\ work'.evidence = work.evidence
  <1>1. UNCHANGED <<queue, given, decisions, config, made>> BY DEF Gates, input, effects
  <1>2. DOMAIN work = WorkFields BY DEF TrIInv, WorkIs
  <1>3. CASE work.confidence = None BY <1>1, <1>3 DEF Gates, CutShort
  <1>4. CASE work.confidence # None
    <2> DEFINE g == EvaluateGates(GateInput)
    <2>1. /\ work' = [work EXCEPT !.pc = IF Passed(g) THEN "block" ELSE "record",
                               !.then = "record", !.outcome = "gates_not_met", !.gates = g]
          /\ UNCHANGED raised
      BY <1>4 DEF Gates
    <2> HIDE DEF g
    <2>2. /\ work'.then = "record" /\ work'.outcome = "gates_not_met" /\ work'.gates = g
          /\ work'.pc = (IF Passed(g) THEN "block" ELSE "record")
          /\ work'.alert = work.alert /\ work'.ip = work.ip /\ work'.verdict = work.verdict
          /\ work'.confidence = work.confidence /\ work'.evidence = work.evidence
      BY <1>2, <2>1 DEF WorkFields
    <2> QED BY <1>1, <2>1, <2>2 DEF g
  <1> QED BY <1>3, <1>4

(* Hand-overs through every step.                                            *)
LEMMA HandedKeeps == ASSUME TrIInv, [TriageNext]_triageVars, WorkIs' PROVE HandedOnce'
  <1>1. CASE \E item \in Items : Hand(item) BY <1>1, HandKeepsOnce
  <1>2. CASE TakeAlert \/ TakeProbe \/ TakeMatch BY <1>2, TakesKeepOnce
  <1>3. CASE Enrich \/ LookupAnswer \/ Exfil \/ Contain \/ NoTriage \/ AskVerdict \/ AiAnswer \/ Apply
    <2>1. /\ UNCHANGED <<queue, given, made, decisions>> /\ (OnAlert' => OnAlert /\ work'.alert = work.alert)
      BY <1>3, QuietWorker
    <2> QED BY <2>1, QuietHanding
  <1>4. CASE Block
    <2>1. /\ UNCHANGED <<queue, given, decisions>> /\ work'.alert = work.alert /\ work'.then = work.then
          /\ work.pc = "block" /\ work.then \in {"idle", "triage", "record"}
          /\ \A m \in made' : m \in made \/ m = <<work.alert, work.ip, work.then>>
          /\ work'.pc \in {"log", work.then}
      BY <1>4, BlockMoves DEF Block, At1, TrIInv, WorkIs
    <2>2. \A m \in made' : m \in made \/ (m[3] = "record" => OnAlert /\ m[1] = work.alert) BY <2>1 DEF OnAlert
    <2>3. OnAlert' => OnAlert /\ work'.alert = work.alert BY <2>1 DEF OnAlert
    <2> QED BY <2>1, <2>2, <2>3, QuietHanding
  <1>5. CASE LogBlock
    <2>1. UNCHANGED <<queue, given, decisions, made>> /\ work.pc = "log" /\ work.then \in {"idle", "triage", "record"}
          /\ (work' = IdleWorker \/ (work'.pc = work.then /\ work'.then = work.then /\ work'.alert = work.alert))
      BY <1>5, LogMoves DEF LogBlock, At1, TrIInv, WorkIs
    <2>2. OnAlert' => OnAlert /\ work'.alert = work.alert BY <2>1, IdleIs DEF OnAlert
    <2> QED BY <2>1, <2>2, QuietHanding
  <1>6. CASE Gates
    <2>1. UNCHANGED <<queue, given, decisions, made>> /\ OnAlert /\ (work' = IdleWorker \/ work'.alert = work.alert)
      BY <1>6, GatesMoves DEF Gates, At1, OnAlert
    <2>2. OnAlert' => OnAlert /\ work'.alert = work.alert BY <2>1, IdleIs DEF OnAlert
    <2> QED BY <2>1, <2>2, QuietHanding
  <1>7. CASE Record
    <2>1. /\ UNCHANGED <<queue, given, made>> /\ work' = IdleWorker /\ decisions' = decisions \cup {Decision}
          /\ Decision.alert = work.alert /\ OnAlert
      BY <1>7 DEF Record, input, Decision, DecisionOf, At1, OnAlert
    <2>2. ~OnAlert' BY <2>1, IdleIs DEF OnAlert
    <2> QED BY <2>1, <2>2 DEF TrIInv, HandedOnce
  <1>8. CASE TriageRestart
    <2>1. UNCHANGED <<given, made, decisions>> /\ queue' = <<>> /\ work' = IdleWorker BY <1>8 DEF TriageRestart, effects
    <2>2. ~OnAlert' BY <2>1, IdleIs DEF OnAlert
    <2>3. \A a : ~QueuedIn(queue', a) BY <2>1 DEF QueuedIn
    <2>4. queue' \in Seq(Items) /\ AlertsOnce(queue') BY <2>1 DEF AlertsOnce
    <2> QED BY <2>1, <2>2, <2>3, <2>4 DEF TrIInv, HandedOnce
  <1>9. CASE RetryAnswer \/ TogglePlaybook \/ Unblock \/ Retry \/ TriageTick \/ UNCHANGED triageVars
    <2>1. UNCHANGED <<queue, given, made, decisions, work>>
      BY <1>9 DEF RetryAnswer, TogglePlaybook, Unblock, Retry, TriageTick, triageVars, input, effects
    <2>2. OnAlert' => OnAlert /\ work'.alert = work.alert BY <2>1 DEF OnAlert
    <2> QED BY <2>1, <2>2, QuietHanding
  <1> QED BY <1>1, <1>2, <1>3, <1>4, <1>5, <1>6, <1>7, <1>8, <1>9 DEF TriageNext, WorkerStep

-----------------------------------------------------------------------------
\* What a gate was judged by can be read off it.
LEMMA GatesSay ==
    ASSUME NEW in
    PROVE  /\ EvaluateGates(in)["playbook_enabled"].actual = in.enabled
           /\ EvaluateGates(in)["severity_critical"].actual = in.critical
           /\ EvaluateGates(in)["verdict_true_positive"].actual = in.verdict
           /\ EvaluateGates(in)["external_ip"].actual = in.external
  BY DEF EvaluateGates, GateIds

\* The record of a decision replays to the gates that made it.
LEMMA ReplaysTheSame ==
    ASSUME NEW on, work.gates = EvaluateGates(Asked(on))
    PROVE  ReplayAsRecorded(Decision) = Decision.gates
  <1> DEFINE g == EvaluateGates(Asked(on))
             d == Decision
             in == Asked(on)
  <1>1. /\ d.gates = g
        /\ d.signals.confidence = work.confidence /\ d.signals.evidence = work.evidence
        /\ d.signals.demo = AlertOf[work.alert].demo
        /\ d.thresholds.min = MinConfidence /\ d.thresholds.corroborate = config.corroborate
        /\ d.thresholds.auto = config.auto
    BY DEF Decision, DecisionOf, GateInput
  <1>2. /\ g["playbook_enabled"].actual = on
        /\ g["severity_critical"].actual = (AlertOf[work.alert].level = "CRITICAL")
        /\ g["verdict_true_positive"].actual = work.verdict
        /\ g["external_ip"].actual = (work.ip \in External)
    <2>1. /\ in.enabled = on /\ in.critical = (AlertOf[work.alert].level = "CRITICAL")
          /\ in.verdict = work.verdict /\ in.external = (work.ip \in External)
      BY DEF Asked
    <2> HIDE DEF in
    <2>2. /\ EvaluateGates(in)["playbook_enabled"].actual = in.enabled
          /\ EvaluateGates(in)["severity_critical"].actual = in.critical
          /\ EvaluateGates(in)["verdict_true_positive"].actual = in.verdict
          /\ EvaluateGates(in)["external_ip"].actual = in.external
      BY GatesSay
    <2> QED BY <2>1, <2>2 DEF in
  <1> HIDE DEF g, d
  <1>3. work.evidence \ {} = work.evidence OBVIOUS
  <1>4. ReplayAsRecorded(d) =
          EvaluateGates(
            [enabled |-> d.gates["playbook_enabled"].actual, auto |-> d.thresholds.auto,
             critical |-> d.gates["severity_critical"].actual,
             verdict |-> d.gates["verdict_true_positive"].actual,
             confidence |-> d.signals.confidence, min |-> d.thresholds.min,
             evidence |-> d.signals.evidence \ {}, corroborate |-> d.thresholds.corroborate,
             demo |-> d.signals.demo, external |-> d.gates["external_ip"].actual])
    BY DEF ReplayAsRecorded, Replay
  <1>5. [enabled |-> d.gates["playbook_enabled"].actual, auto |-> d.thresholds.auto,
             critical |-> d.gates["severity_critical"].actual,
             verdict |-> d.gates["verdict_true_positive"].actual,
             confidence |-> d.signals.confidence, min |-> d.thresholds.min,
             evidence |-> d.signals.evidence \ {}, corroborate |-> d.thresholds.corroborate,
             demo |-> d.signals.demo, external |-> d.gates["external_ip"].actual] = Asked(on)
    BY <1>1, <1>2, <1>3, Zenon DEF Asked
  <1> QED BY <1>1, <1>4, <1>5 DEF g, d

\* Nothing is being decided: what is on record stays true.
LEMMA QuietDecisions ==
    ASSUME TrIInv, ~Deciding, ~Deciding', UNCHANGED <<decisions>>, raised \subseteq raised',
           made \subseteq made', \A m \in made' : m \in made \/ m[3] \in {"idle", "triage"},
           OnAlert' => \/ OnAlert /\ work'.alert = work.alert
                       \/ \A m \in made : m[3] = "record" => m[1] # work'.alert
    PROVE  DecisionsAre'
  <1>1. DecisionsAre BY DEF TrIInv
  <1>2. ~DoneBy /\ ~DoneBy' BY DEF DoneBy, Deciding
  <1>3. OnAlert => \A m \in made : m[3] = "record" => m[1] # work.alert BY <1>1, <1>2 DEF DecisionsAre
  <1>4. \A m \in made' : m[3] = "record" => m \in made OBVIOUS
  <1>5. OnAlert' => \A m \in made' : m[3] = "record" => m[1] # work'.alert BY <1>3, <1>4
  <1>6. \A d \in decisions : <<d.alert, d.ip, "record">> \in made <=> <<d.alert, d.ip, "record">> \in made'
    <2>1. ASSUME NEW d \in decisions, <<d.alert, d.ip, "record">> \in made' PROVE <<d.alert, d.ip, "record">> \in made
      <3>1. <<d.alert, d.ip, "record">>[3] = "record" OBVIOUS
      <3> QED BY <2>1, <3>1, <1>4
    <2> QED BY <2>1
  <1>7. \A d \in decisions' :
            /\ d.blocked <=> <<d.alert, d.ip, "record">> \in made'
            /\ d.outcome # "gates_not_met" <=> d.passed
            /\ ReplayAsRecorded(d) = d.gates
    BY <1>1, <1>6 DEF DecisionsAre
  <1>8. \A m \in made' : m[3] = "record" =>
            \/ m[1] \in raised'
            \/ OnAlert' /\ work'.alert = m[1]
            \/ \E d \in decisions' : d.alert = m[1] /\ d.blocked
    BY <1>1, <1>3, <1>4 DEF DecisionsAre
  <1> QED BY <1>2, <1>5, <1>7, <1>8 DEF DecisionsAre

(* What is decided through each step that matters to it.                     *)
LEMMA BlockDecides == ASSUME TrIInv, Block PROVE DecisionsAre'
  <1>1. /\ work'.alert = work.alert /\ work'.ip = work.ip /\ work'.then = work.then
        /\ work'.verdict = work.verdict /\ work'.confidence = work.confidence
        /\ work'.evidence = work.evidence /\ work'.gates = work.gates
        /\ work'.outcome \in {"prevented_by_safety", "already_blocked", "queued_for_approval", "blocked"}
        /\ work'.pc = (IF work'.outcome = "blocked" THEN "log" ELSE work.then)
        /\ made' = (IF work'.outcome = "blocked" THEN made \cup {<<work.alert, work.ip, work.then>>} ELSE made)
        /\ UNCHANGED <<decisions, config, raised>> /\ work.pc = "block"
        /\ work.then \in {"idle", "triage", "record"}
    BY BlockMoves DEF Block, At1, TrIInv, WorkIs
  <1>2. CASE work.then # "record"
    <2>1. ~Deciding /\ ~Deciding' BY <1>1, <1>2 DEF Deciding
    <2>2. \A m \in made' : m \in made \/ m[3] \in {"idle", "triage"} BY <1>1, <1>2
    <2>3. OnAlert' => OnAlert /\ work'.alert = work.alert BY <1>1 DEF OnAlert
    <2>4. made \subseteq made' /\ raised \subseteq raised' BY <1>1
    <2> QED BY <1>1, <2>1, <2>2, <2>3, <2>4, QuietDecisions
  <1>3. CASE work.then = "record"
    <2> DEFINE new == <<work.alert, work.ip, "record">>
    <2>0. DecisionsAre /\ HandedOnce BY DEF TrIInv
    <2>1. OnAlert /\ OnAlert' /\ Deciding /\ Deciding' /\ ~DoneBy BY <1>1, <1>3 DEF OnAlert, Deciding, DoneBy
    <2>2. DoneBy' <=> work'.outcome = "blocked" BY <1>1, <1>3 DEF DoneBy
    <2>3. \A m \in made : m[3] = "record" => m[1] # work.alert BY <2>0, <2>1 DEF DecisionsAre
    <2>4. \A m \in made' : m \in made \/ (work'.outcome = "blocked" /\ m = new) BY <1>1, <1>3
    <2>5. \A m \in made' : m[3] = "record" /\ m[1] = work'.alert => DoneBy' /\ m[2] = work'.ip
      BY <1>1, <2>2, <2>3, <2>4
    <2>6. DoneBy' => <<work'.alert, work'.ip, "record">> \in made' BY <1>1, <1>3, <2>2
    <2>7. \E on \in BOOLEAN : work'.gates = EvaluateGates(Asked(on))'
      <3>1. PICK on \in BOOLEAN : work.gates = EvaluateGates(Asked(on)) BY <2>0, <2>1 DEF DecisionsAre
      <3>2. Asked(on)' = Asked(on) BY <1>1 DEF Asked
      <3>3. EvaluateGates(Asked(on))' = EvaluateGates(Asked(on)) BY <3>2
      <3> QED BY <1>1, <3>1, <3>3
    <2>8. Passed(work.gates) BY <1>1, <2>0, <2>1 DEF DecisionsAre
    <2>9. Passed(work'.gates) /\ work'.outcome # "gates_not_met" BY <1>1, <2>8
    <2>10. \A d \in decisions : d.alert # work.alert BY <2>0, <2>1 DEF HandedOnce
    <2>11. \A d \in decisions : <<d.alert, d.ip, "record">> \in made <=> <<d.alert, d.ip, "record">> \in made'
      BY <1>1, <1>3, <2>10
    <2>12. \A d \in decisions' :
            /\ d.blocked <=> <<d.alert, d.ip, "record">> \in made'
            /\ d.outcome # "gates_not_met" <=> d.passed
            /\ ReplayAsRecorded(d) = d.gates
      BY <1>1, <2>0, <2>11 DEF DecisionsAre
    <2>13. \A m \in made' : m[3] = "record" =>
            \/ m[1] \in raised'
            \/ OnAlert' /\ work'.alert = m[1]
            \/ \E d \in decisions' : d.alert = m[1] /\ d.blocked
      <3>1. \A m \in made : m[3] = "record" => m[1] \in raised \/ \E d \in decisions : d.alert = m[1] /\ d.blocked
        BY <2>0, <2>3 DEF DecisionsAre
      <3>2. new[1] = work.alert OBVIOUS
      <3> HIDE DEF new
      <3> QED BY <1>1, <2>1, <2>4, <3>1, <3>2
    <2> QED BY <2>1, <2>5, <2>6, <2>7, <2>9, <2>12, <2>13 DEF DecisionsAre
  <1> QED BY <1>2, <1>3

\* The worker is stopped by an exception or a restart: its alert is among raised.
LEMMA CutDecides ==
    ASSUME TrIInv, work' = IdleWorker, UNCHANGED <<decisions, made>>, raised \subseteq raised', work.alert \in raised'
    PROVE  DecisionsAre'
  <1>1. DecisionsAre BY DEF TrIInv
  <1>2. ~OnAlert' /\ ~Deciding' /\ ~DoneBy' BY IdleIs DEF OnAlert, Deciding, DoneBy
  <1> QED BY <1>1, <1>2 DEF DecisionsAre

LEMMA LogDecides == ASSUME TrIInv, LogBlock PROVE DecisionsAre'
  <1>0. /\ UNCHANGED <<decisions, config, made>> /\ work.pc = "log" /\ work.then \in {"idle", "triage", "record"}
        /\ work.outcome = "blocked"
    BY LogMoves DEF LogBlock, At1, TrIInv, WorkIs
  <1>1. CASE work' = IdleWorker /\ raised' = raised \cup {work.run, work.alert}
    BY <1>0, <1>1, CutDecides
  <1>2. CASE /\ raised' = raised /\ work'.pc = work.then
             /\ work'.alert = work.alert /\ work'.ip = work.ip /\ work'.then = work.then
             /\ work'.verdict = work.verdict /\ work'.confidence = work.confidence
             /\ work'.evidence = work.evidence /\ work'.gates = work.gates /\ work'.outcome = work.outcome
    <2>1. CASE work.then # "record"
      <3>1. ~Deciding /\ ~Deciding' BY <1>0, <1>2, <2>1 DEF Deciding
      <3>2. OnAlert' => OnAlert /\ work'.alert = work.alert BY <1>0, <1>2 DEF OnAlert
      <3>3. made \subseteq made' /\ raised \subseteq raised' BY <1>0, <1>2
      <3> QED BY <1>0, <3>1, <3>2, <3>3, QuietDecisions
    <2>2. CASE work.then = "record"
      <3>0. DecisionsAre BY DEF TrIInv
      <3>1. OnAlert /\ OnAlert' /\ Deciding /\ Deciding' /\ DoneBy /\ DoneBy'
        BY <1>0, <1>2, <2>2 DEF OnAlert, Deciding, DoneBy
      <3>2. \E on \in BOOLEAN : work'.gates = EvaluateGates(Asked(on))'
        <4>1. PICK on \in BOOLEAN : work.gates = EvaluateGates(Asked(on)) BY <3>0, <3>1 DEF DecisionsAre
        <4>2. Asked(on)' = Asked(on) BY <1>0, <1>2 DEF Asked
        <4>3. EvaluateGates(Asked(on))' = EvaluateGates(Asked(on)) BY <4>2
        <4> QED BY <1>2, <4>1, <4>3
      <3>3. Passed(work'.gates) BY <1>0, <1>2, <3>0, <3>1 DEF DecisionsAre
      <3>4. work'.outcome # "gates_not_met" BY <1>0, <1>2
      <3>5. \A m \in made' : m[3] = "record" /\ m[1] = work'.alert => m[2] = work'.ip
        BY <1>0, <1>2, <3>0, <3>1 DEF DecisionsAre
      <3>6. <<work'.alert, work'.ip, "record">> \in made' BY <1>0, <1>2, <3>0, <3>1 DEF DecisionsAre
      <3>7. \A d \in decisions' :
            /\ d.blocked <=> <<d.alert, d.ip, "record">> \in made'
            /\ d.outcome # "gates_not_met" <=> d.passed
            /\ ReplayAsRecorded(d) = d.gates
        BY <1>0, <3>0 DEF DecisionsAre
      <3>8. \A m \in made' : m[3] = "record" =>
            \/ m[1] \in raised'
            \/ OnAlert' /\ work'.alert = m[1]
            \/ \E d \in decisions' : d.alert = m[1] /\ d.blocked
        BY <1>0, <1>2, <3>0, <3>1 DEF DecisionsAre
      <3> QED BY <3>1, <3>2, <3>3, <3>4, <3>5, <3>6, <3>7, <3>8 DEF DecisionsAre
    <2> QED BY <2>1, <2>2
  <1> QED BY <1>1, <1>2, LogMoves

LEMMA GatesDecide == ASSUME TrIInv, Gates PROVE DecisionsAre'
  <1>0. UNCHANGED <<decisions, config, made>> /\ work.pc = "gates" BY GatesMoves DEF Gates, At1
  <1>1. CASE work' = IdleWorker /\ raised' = raised \cup {work.run, work.alert}
    BY <1>0, <1>1, CutDecides
  <1>2. CASE /\ raised' = raised /\ work'.then = "record" /\ work'.outcome = "gates_not_met"
             /\ work'.gates = EvaluateGates(GateInput)
             /\ work'.pc = (IF Passed(work'.gates) THEN "block" ELSE "record")
             /\ work'.alert = work.alert /\ work'.ip = work.ip /\ work'.verdict = work.verdict
             /\ work'.confidence = work.confidence /\ work'.evidence = work.evidence
    <2>0. DecisionsAre BY DEF TrIInv
    <2>1. OnAlert /\ OnAlert' /\ ~DoneBy /\ ~DoneBy' /\ work'.pc \in {"block", "record"}
      BY <1>0, <1>2 DEF OnAlert, DoneBy
    <2>2. \A m \in made : m[3] = "record" => m[1] # work.alert BY <2>0, <2>1 DEF DecisionsAre
    <2>3. \E on \in BOOLEAN : work'.gates = EvaluateGates(Asked(on))'
      <3>1. \E on \in BOOLEAN : on = ("autoBlock" \in enabled)
        <4>1. ("autoBlock" \in enabled) \in BOOLEAN OBVIOUS
        <4> QED BY <4>1, Zenon
      <3>4. PICK on \in BOOLEAN : on = ("autoBlock" \in enabled) BY <3>1
      <3>2. Asked(on)' = GateInput BY <1>0, <1>2, <3>4 DEF Asked, GateInput
      <3>3. EvaluateGates(Asked(on))' = EvaluateGates(GateInput) BY <3>2
      <3> QED BY <1>2, <3>3
    <2>4. Passed(work'.gates) <=> work'.pc = "block" \/ work'.outcome # "gates_not_met" BY <1>2
    <2>5. \A d \in decisions' :
            /\ d.blocked <=> <<d.alert, d.ip, "record">> \in made'
            /\ d.outcome # "gates_not_met" <=> d.passed
            /\ ReplayAsRecorded(d) = d.gates
      BY <1>0, <2>0 DEF DecisionsAre
    <2>6. \A m \in made' : m[3] = "record" =>
            \/ m[1] \in raised'
            \/ OnAlert' /\ work'.alert = m[1]
            \/ \E d \in decisions' : d.alert = m[1] /\ d.blocked
      BY <1>0, <1>2, <2>0, <2>2 DEF DecisionsAre
    <2>7. \A m \in made' : m[3] = "record" => m[1] # work'.alert BY <1>0, <1>2, <2>2
    <2> QED BY <2>1, <2>3, <2>4, <2>5, <2>6, <2>7 DEF DecisionsAre
  <1> QED BY <1>1, <1>2, GatesMoves

LEMMA RecordDecides == ASSUME TrIInv, Record PROVE DecisionsAre'
  <1> DEFINE d0 == Decision
  <1>0. /\ UNCHANGED <<config, made, raised>> /\ work.pc = "record" /\ work' = IdleWorker
        /\ decisions' = decisions \cup {d0}
    BY DEF Record, At1
  <1>1. DecisionsAre /\ HandedOnce /\ OnAlert /\ Deciding BY <1>0 DEF TrIInv, OnAlert, Deciding
  <1>2. ~OnAlert' /\ ~Deciding' /\ ~DoneBy' BY <1>0, IdleIs DEF OnAlert, Deciding, DoneBy
  <1>3. work.then = "record" BY <1>0 DEF TrIInv, WorkIs
  <1>4. DoneBy <=> work.outcome = "blocked" BY <1>0, <1>3 DEF DoneBy
  <1>5. <<work.alert, work.ip, "record">> \in made <=> work.outcome = "blocked"
    <2>1. <<work.alert, work.ip, "record">>[3] = "record" /\ <<work.alert, work.ip, "record">>[1] = work.alert OBVIOUS
    <2>2. <<work.alert, work.ip, "record">> \in made => DoneBy BY <1>1, <2>1 DEF DecisionsAre
    <2> QED BY <1>1, <1>4, <2>2 DEF DecisionsAre
  <1>6. /\ d0.alert = work.alert /\ d0.ip = work.ip /\ d0.blocked = (work.outcome = "blocked")
        /\ d0.outcome = work.outcome /\ d0.passed = Passed(work.gates)
    BY DEF Decision, DecisionOf
  <1>7. d0.blocked <=> <<d0.alert, d0.ip, "record">> \in made BY <1>5, <1>6
  <1>8. d0.outcome # "gates_not_met" <=> d0.passed BY <1>0, <1>1, <1>6 DEF DecisionsAre
  <1>9. ReplayAsRecorded(d0) = d0.gates
    <2>1. PICK on \in BOOLEAN : work.gates = EvaluateGates(Asked(on)) BY <1>1 DEF DecisionsAre
    <2> QED BY <2>1, ReplaysTheSame
  <1> HIDE DEF d0
  <1>10. \A d \in decisions' :
            /\ d.blocked <=> <<d.alert, d.ip, "record">> \in made'
            /\ d.outcome # "gates_not_met" <=> d.passed
            /\ ReplayAsRecorded(d) = d.gates
    BY <1>0, <1>1, <1>7, <1>8, <1>9 DEF DecisionsAre
  <1>11. \A m \in made' : m[3] = "record" =>
            \/ m[1] \in raised'
            \/ OnAlert' /\ work'.alert = m[1]
            \/ \E d \in decisions' : d.alert = m[1] /\ d.blocked
    <2>1. ASSUME NEW m \in made, m[3] = "record"
          PROVE  m[1] \in raised \/ \E d \in decisions' : d.alert = m[1] /\ d.blocked
      <3>1. CASE m[1] = work.alert
        <4>1. DoneBy BY <1>1, <2>1, <3>1 DEF DecisionsAre
        <4>2. d0.alert = m[1] /\ d0.blocked BY <1>4, <1>6, <3>1, <4>1
        <4> QED BY <1>0, <4>2
      <3>2. CASE m[1] # work.alert BY <1>0, <1>1, <2>1, <3>2 DEF DecisionsAre
      <3> QED BY <3>1, <3>2
    <2> QED BY <1>0, <2>1
  <1> QED BY <1>2, <1>10, <1>11 DEF DecisionsAre

(* Decisions through every step.                                             *)
LEMMA DecisionsKeep == ASSUME TrIInv, [TriageNext]_triageVars PROVE DecisionsAre'
  <1>1. CASE Enrich \/ LookupAnswer \/ Exfil \/ Contain \/ NoTriage \/ AskVerdict \/ AiAnswer \/ Apply
    <2>1. /\ ~Deciding /\ ~Deciding' /\ UNCHANGED <<made, decisions, config, raised>>
          /\ OnAlert' => OnAlert /\ work'.alert = work.alert
      BY <1>1, QuietWorker
    <2> QED BY <2>1, QuietDecisions
  <1>2. CASE TakeAlert \/ TakeProbe \/ TakeMatch
    <2>1. /\ UNCHANGED <<made, decisions, config, raised>> /\ work.pc = "idle" /\ ~Deciding
      BY <1>2 DEF TakeAlert, TakeProbe, TakeMatch, effects, memo, At1, Deciding
    <2>2. ~Deciding' /\ (OnAlert' => TakeAlert /\ work'.alert = Head(queue).what)
      <3>1. CASE TakeAlert
        <4>1. work'.pc = "enrich" /\ work'.alert = Head(queue).what BY <3>1 DEF TakeAlert, IdleWorker
        <4> QED BY <3>1, <4>1 DEF Deciding
      <3>2. CASE TakeProbe \/ TakeMatch
        <4>1. CASE work' = work BY <2>1, <4>1 DEF Deciding, OnAlert
        <4>2. CASE work' # work
          <5>1. PICK h : work' = [IdleWorker EXCEPT !.pc = "block", !.ip = h] BY <3>2, <4>2 DEF TakeProbe, TakeMatch
          <5>2. work'.pc = "block" /\ work'.then = "idle" BY <5>1 DEF IdleWorker
          <5> QED BY <5>2 DEF Deciding, OnAlert
        <4> QED BY <4>1, <4>2
      <3> QED BY <1>2, <3>1, <3>2
    <2>3. OnAlert' => \A m \in made : m[3] = "record" => m[1] # work'.alert
      <3>1. ASSUME TakeAlert PROVE QueuedIn(queue, Head(queue).what)
        <4>1. queue \in Seq(Items) /\ queue # <<>> /\ Head(queue).kind = "alert"
          BY <3>1 DEF TakeAlert, TrIInv, HandedOnce
        <4> QED BY <4>1, TailOfQueue
      <3> QED BY <2>2, <3>1 DEF TrIInv, HandedOnce
    <2> QED BY <2>1, <2>2, <2>3, QuietDecisions
  <1>3. CASE Block BY <1>3, BlockDecides
  <1>4. CASE LogBlock BY <1>4, LogDecides
  <1>5. CASE Gates BY <1>5, GatesDecide
  <1>6. CASE Record BY <1>6, RecordDecides
  <1>7. CASE TriageRestart
    <2>1. work' = IdleWorker /\ UNCHANGED <<decisions, made>> /\ raised' = raised \cup {work.alert}
      BY <1>7 DEF TriageRestart, effects
    <2> QED BY <2>1, CutDecides
  <1>8. CASE \/ \E item \in Items : Hand(item)
             \/ RetryAnswer \/ TogglePlaybook \/ Unblock \/ Retry \/ TriageTick \/ UNCHANGED triageVars
    <2>1. UNCHANGED <<made, decisions, config, raised, work>>
      BY <1>8 DEF Hand, RetryAnswer, TogglePlaybook, Unblock, Retry, TriageTick, triageVars, effects
    <2> QED BY <2>1 DEF TrIInv, DecisionsAre, OnAlert, Deciding, DoneBy, Asked
  <1> QED BY <1>1, <1>2, <1>3, <1>4, <1>5, <1>6, <1>7, <1>8 DEF TriageNext, WorkerStep

-----------------------------------------------------------------------------

(* At the start nothing runs and nothing is decided.                         *)
LEMMA TriageInitHolds == TriageInit => TrIInv
  <1> SUFFICES ASSUME TriageInit PROVE TrIInv OBVIOUS
  <1>1. /\ work = IdleWorker /\ queue = <<>> /\ runs = <<>> /\ retries = {} /\ made = {} /\ decisions = {}
    BY DEF TriageInit
  <1>2. ~OnAlert /\ ~Deciding /\ ~AtRun /\ ~DoneBy BY <1>1, IdleIs DEF OnAlert, Deciding, AtRun, DoneBy
  <1>3. WorkIs BY <1>1, <1>2, IdleIs DEF WorkIs, Stages
  <1>4. runs \in Seq(Executions) /\ DOMAIN runs = {} BY <1>1
  <1>5. RunsAre BY <1>1, <1>2, <1>4 DEF RunsAre, RunsOk
  <1>6. queue \in Seq(Items) /\ AlertsOnce(queue) /\ \A a : ~QueuedIn(queue, a) BY <1>1 DEF AlertsOnce, QueuedIn
  <1>7. HandedOnce BY <1>1, <1>2, <1>6 DEF HandedOnce
  <1>8. DecisionsAre BY <1>1, <1>2 DEF DecisionsAre
  <1> QED BY <1>3, <1>5, <1>7, <1>8 DEF TrIInv

(* The invariant through every step.                                         *)
LEMMA TriageStepKeeps == TrIInv /\ [TriageNext]_triageVars => TrIInv'
  <1> SUFFICES ASSUME TrIInv, [TriageNext]_triageVars PROVE TrIInv' OBVIOUS
  <1>1. WorkIs' BY WorkKeeps
  <1>2. RunsAre' BY <1>1, RunsKeep
  <1>3. HandedOnce' BY <1>1, HandedKeeps
  <1>4. DecisionsAre' BY DecisionsKeep
  <1> QED BY <1>1, <1>2, <1>3, <1>4 DEF TrIInv

(* Through exceptions in the middle of a step, retries that cross the        *)
(* worker, and restarts: an execution that is recorded as running is the     *)
(* worker's, a retry's or left by an exception that was raised, and one that *)
(* is recorded as completed has no step that waits.                          *)
THEOREM ExecutionsAreOwned == TriageSpec => []RunningHasOwner
  <1>1. TrIInv => RunningHasOwner BY DEF TrIInv, RunsAre, RunsOk, Settled, RunningHasOwner
  <1> QED BY <1>1, TriageInitHolds, TriageStepKeeps, PTL DEF TriageSpec

(* What a decision records is what happened: the block is there exactly when *)
(* it says so, the gates passed exactly when the outcome says so, and        *)
(* replaying it yields the gates that it was made by, whatever was switched  *)
(* or blocked by others in between.                                          *)
THEOREM DecisionsAreTrue == TriageSpec => []DecisionTellsTruth
  <1>1. TrIInv => DecisionTellsTruth BY DEF TrIInv, DecisionsAre, DecisionTellsTruth
  <1> QED BY <1>1, TriageInitHolds, TriageStepKeeps, PTL DEF TriageSpec
===============================================================================
