------------------------------ MODULE AiBreaker -----------------------------
(* modules/ai_analyst.py: the client of the language model.  Its own worker,   *)
(* the response engine and chat requests call it from several threads; calls   *)
(* that fail in a row open a breaker, and while it is open a stand-in answers. *)
(*                                                                             *)
(* An operator that stands right above another one with the same parameters    *)
(* and is used nowhere is a faulty variant of it (PROJECT.json, "mutants").    *)
EXTENDS SocClock, Integers, Sequences

CONSTANTS
    Callers,                \* threads that ask the model
    BreakerThreshold, BreakerCooldown,
    TaskCap,                \* length of the deque of tasks
    Available,              \* whether a key is configured and the client was made
    MaxAsked, BreakerEnd    \* bounds

ASSUME BreakerNumbers ==
    /\ {BreakerThreshold, BreakerCooldown, TaskCap, MaxAsked, BreakerEnd} \subseteq Nat
    /\ BreakerThreshold > 0 /\ TaskCap > 0 /\ Available \in BOOLEAN

VARIABLES
    asking,     \* what each thread is at
    tasks,      \* _queue, filled by analyze_alert and analyze_packet_summary
    streak,     \* _fail_streak
    openUntil,  \* _breaker_until
    callStats,  \* call_stats
    rewards,    \* verdicts fed back to the ML analyst
    answers,    \* outcomes of the calls, in the order they were recorded (history)
    asked

breakerVars == <<now, asking, tasks, streak, openUntil, callStats, rewards, answers, asked>>

Kinds == {"alert", "packet", "chat", "report"}
Quiet == [pc |-> "idle", kind |-> "alert"]

BreakerInit ==
    /\ now = 0 /\ asked = 0
    /\ asking = [c \in Callers |-> Quiet]
    /\ tasks = <<>> /\ streak = 0 /\ openUntil = 0
    /\ callStats = [ok |-> 0, failed |-> 0, skipped |-> 0]
    /\ rewards = 0 /\ answers = <<>>

BreakerOpen == now < openUntil

\* _mock_analysis: for an alert it always holds a verdict, which _feedback_to_ml rewards.
StandIn(kind) == rewards' = IF kind = "alert" THEN rewards + 1 ELSE rewards

\* analyze_alert and analyze_packet_summary, asynchronous: a full deque drops its oldest.
QueueTask(kind) ==
    /\ asked < MaxAsked /\ asked' = asked + 1
    /\ tasks' = Append(IF Len(tasks) = TaskCap THEN Tail(tasks) ELSE tasks, kind)
    /\ UNCHANGED <<now, asking, streak, openUntil, callStats, rewards, answers>>

\* The head of _call_claude, chat and generate_text: who may not call is
\* answered by the stand-in (a report simply is not written).
Begin(c, kind) ==
    /\ \/ /\ Available /\ ~BreakerOpen
          /\ asking' = [asking EXCEPT ![c] = [pc |-> "calling", kind |-> kind]]
          /\ UNCHANGED <<callStats, rewards>>
       \/ /\ Available /\ BreakerOpen
          /\ callStats' = IF kind = "chat" THEN callStats ELSE [callStats EXCEPT !.skipped = @ + 1]
          /\ StandIn(kind) /\ UNCHANGED asking
       \/ ~Available /\ StandIn(kind) /\ UNCHANGED <<asking, callStats>>
    /\ UNCHANGED <<now, streak, openUntil, answers>>

\* A synchronous call: SOAR's triage, a chat, the daily report.
Ask(c, kind) ==
    /\ asking[c].pc = "idle" /\ asked < MaxAsked /\ asked' = asked + 1
    /\ Begin(c, kind) /\ UNCHANGED tasks

\* _worker_loop takes a task.
TakeTask(c) ==
    /\ asking[c].pc = "idle" /\ tasks # <<>>
    /\ tasks' = Tail(tasks) /\ Begin(c, Head(tasks)) /\ UNCHANGED asked

AfterFailure == streak + 1

\* _record_success, after the history and the feedback.
CallSucceeds(c) ==
    /\ asking[c].pc = "calling"
    /\ streak' = 0 /\ openUntil' = 0
    /\ callStats' = [callStats EXCEPT !.ok = @ + 1]
    /\ \/ rewards' = rewards
       \/ asking[c].kind = "alert" /\ rewards' = rewards + 1
    /\ answers' = Append(answers, [ok |-> TRUE, at |-> now])
    /\ asking' = [asking EXCEPT ![c] = Quiet]
    /\ UNCHANGED <<now, tasks, asked>>

OpenedLate == IF AfterFailure > BreakerThreshold THEN now + BreakerCooldown ELSE openUntil
\* Counted before it is compared.
Opened == IF AfterFailure >= BreakerThreshold THEN now + BreakerCooldown ELSE openUntil

\* _record_failure and the stand-in's answer; _describe_error only words it.
CallFails(c) ==
    /\ asking[c].pc = "calling"
    /\ streak' = AfterFailure /\ openUntil' = Opened
    /\ callStats' = [callStats EXCEPT !.failed = @ + 1]
    /\ StandIn(asking[c].kind)
    /\ answers' = Append(answers, [ok |-> FALSE, at |-> now])
    /\ asking' = [asking EXCEPT ![c] = Quiet]
    /\ UNCHANGED <<now, tasks, asked>>

BreakerTick ==
    /\ now < BreakerEnd /\ now' = now + 1
    /\ UNCHANGED <<asking, tasks, streak, openUntil, callStats, rewards, answers, asked>>

BreakerNext ==
    \/ \E kind \in {"alert", "packet"} : QueueTask(kind)
    \/ \E c \in Callers :
          \/ \E kind \in {"alert", "chat", "report"} : Ask(c, kind)
          \/ TakeTask(c) \/ CallSucceeds(c) \/ CallFails(c)
    \/ BreakerTick

BreakerSpec == BreakerInit /\ [][BreakerNext]_breakerVars

-----------------------------------------------------------------------------
BreakerTypeOK ==
    /\ streak \in Nat /\ openUntil \in Nat /\ Len(tasks) <= TaskCap
    /\ \A c \in Callers : asking[c].pc \in {"idle", "calling"} /\ asking[c].kind \in Kinds

(* A service that is down is left alone: when the last BreakerThreshold calls  *)
(* to be recorded all failed, whatever threads made them and however they      *)
(* crossed, the breaker is open for BreakerCooldown from the last of them; and *)
(* it is never open after a success (no answer is withheld for failures of     *)
(* before it).                                                                 *)
DeadServiceIsLeftAlone ==
    LET n == Len(answers)
        dead == n >= BreakerThreshold
                /\ \A i \in (n - BreakerThreshold + 1)..n : ~answers[i].ok
    IN openUntil = IF dead THEN answers[n].at + BreakerCooldown ELSE 0
=============================================================================
