---------------------------- MODULE Guards_proofs -----------------------------
(* Theorems about what limits the program: the breaker before the language   *)
(* model, the distance of pushes, the throttle of logins, and the gates of   *)
(* the engines.                                                              *)
EXTENDS AiBreaker, PushNotices, LoginThrottle, ScanJobs, FiniteSetTheorems,
        WellFoundedInduction, TLAPS

-------------------------------------------------------------------------------
(* Numbers: a set of them that is not empty has a least one, and a greatest  *)
(* one where it is bounded.                                                  *)

(* A set of numbers that is not empty has a least one.                       *)
LEMMA LeastNatural == \A T \in SUBSET Nat : T # {} => \E x \in T : \A y \in T : x <= y
  <1> SUFFICES ASSUME NEW T \in SUBSET Nat, T # {} PROVE \E x \in T : \A y \in T : x <= y
    OBVIOUS
  <1>1. PICK x \in T : \A y \in T : ~(<<y, x>> \in OpToRel(<, Nat))
    BY NatLessThanWellFounded, WFMin, Zenon
  <1>2. \A y \in T : ~(y < x)
    <2>1. SUFFICES ASSUME NEW y \in T, y < x PROVE FALSE
      OBVIOUS
    <2>2. <<y, x>> \in OpToRel(<, Nat)
      BY <2>1 DEF OpToRel
    <2> QED  BY <1>1, <2>2
  <1> QED  BY <1>2

(* A set of numbers up to n that is not empty has a greatest one.            *)
LEMMA GreatestBelow ==
    ASSUME NEW n \in Nat, NEW S \in SUBSET (1..n), S # {}
    PROVE  \E m \in S : \A x \in S : x <= m
  <1> DEFINE T == {n - x : x \in S}
  <1>1. T \in SUBSET Nat /\ T # {}
    OBVIOUS
  <1>2. PICK least \in T : \A y \in T : least <= y
    BY <1>1, LeastNatural
  <1>3. PICK m \in S : least = n - m
    BY <1>2
  <1>4. ASSUME NEW x \in S PROVE x <= m
    <2>1. n - m <= n - x
      BY <1>2, <1>3
    <2> QED  BY <2>1
  <1> QED  BY <1>4


-------------------------------------------------------------------------------
(* The breaker before the language model. It opens in time and closes on a   *)
(* success for any number of threads and calls, any threshold above zero and *)
(* any cool-down.                                                            *)

AnswerRows == [ok : BOOLEAN, at : Nat]
(* Numbers are numbers, and each answer has its time.                        *)
BreakerTypes == now \in Nat /\ streak \in Nat /\ openUntil \in Nat /\ answers \in Seq(AnswerRows)

\* The streak is the length of the row of failures the answers end in.
StreakCounts ==
    /\ streak <= Len(answers)
    /\ \A i \in (Len(answers) - streak + 1)..Len(answers) : ~answers[i].ok
    /\ streak < Len(answers) => answers[Len(answers) - streak].ok

\* Open since the last answer, when the row is long enough.
OpenByStreak ==
    openUntil = IF streak >= BreakerThreshold THEN answers[Len(answers)].at + BreakerCooldown ELSE 0

BreakerIInv == BreakerTypes /\ StreakCounts /\ OpenByStreak

LEMMA BreakerInitHolds == BreakerInit => BreakerIInv
  BY BreakerNumbers DEF BreakerInit, BreakerIInv, BreakerTypes, StreakCounts, OpenByStreak

(* What records no answer.                                                     *)
LEMMA NoAnswerKeeps ==
    ASSUME BreakerIInv, now' \in Nat, UNCHANGED <<streak, openUntil, answers>>
    PROVE  BreakerIInv'
  BY DEF BreakerIInv, BreakerTypes, StreakCounts, OpenByStreak

LEMMA Appended ==
    ASSUME BreakerIInv, NEW ok \in BOOLEAN, answers' = Append(answers, [ok |-> ok, at |-> now])
    PROVE  /\ answers' \in Seq(AnswerRows) /\ Len(answers') = Len(answers) + 1
           /\ answers'[Len(answers) + 1] = [ok |-> ok, at |-> now]
           /\ \A i \in 1..Len(answers) : answers'[i] = answers[i]
  <1>1. answers \in Seq(AnswerRows) /\ [ok |-> ok, at |-> now] \in AnswerRows
    BY DEF BreakerIInv, BreakerTypes, AnswerRows
  <1> QED  BY <1>1

LEMMA SuccessKeeps ==
    ASSUME BreakerIInv, NEW c \in Callers, CallSucceeds(c)
    PROVE  BreakerIInv'
  <1>1. /\ streak' = 0 /\ openUntil' = 0 /\ now' = now
        /\ answers' = Append(answers, [ok |-> TRUE, at |-> now])
    BY DEF CallSucceeds
  <1>2. BreakerTypes'
    BY <1>1, Appended DEF BreakerIInv, BreakerTypes
  <1>3. StreakCounts'
    <2>1. Len(answers) \in Nat /\ Len(answers') = Len(answers) + 1 /\ answers'[Len(answers')].ok
      BY <1>1, Appended DEF BreakerIInv, BreakerTypes
    <2> QED  BY <1>1, <2>1 DEF StreakCounts
  <1>4. OpenByStreak'
    BY <1>1, BreakerNumbers DEF OpenByStreak
  <1> QED  BY <1>2, <1>3, <1>4 DEF BreakerIInv

LEMMA FailureKeeps ==
    ASSUME BreakerIInv, NEW c \in Callers, CallFails(c)
    PROVE  BreakerIInv'
  <1>1. /\ streak' = streak + 1 /\ openUntil' = Opened /\ now' = now
        /\ answers' = Append(answers, [ok |-> FALSE, at |-> now])
    BY DEF CallFails, AfterFailure
  <1>2. /\ Len(answers) \in Nat /\ streak \in Nat /\ now \in Nat
        /\ Len(answers') = Len(answers) + 1 /\ answers' \in Seq(AnswerRows)
        /\ answers'[Len(answers) + 1] = [ok |-> FALSE, at |-> now]
        /\ \A i \in 1..Len(answers) : answers'[i] = answers[i]
    <2>1. Len(answers) \in Nat /\ streak \in Nat /\ now \in Nat
      BY DEF BreakerIInv, BreakerTypes
    <2> QED  BY <1>1, <2>1, Appended
  <1>3. BreakerTypes'
    BY <1>1, <1>2, BreakerNumbers DEF BreakerIInv, BreakerTypes, Opened, AfterFailure
  <1>4. StreakCounts'
    <2>1. streak' <= Len(answers')
      BY <1>1, <1>2 DEF BreakerIInv, StreakCounts
    <2>2. ASSUME NEW i \in (Len(answers') - streak' + 1)..Len(answers') PROVE ~answers'[i].ok
      <3>1. CASE i = Len(answers) + 1
        BY <1>2, <3>1
      <3>2. CASE i # Len(answers) + 1
        <4>1. i \in (Len(answers) - streak + 1)..Len(answers) /\ i \in 1..Len(answers)
          BY <1>1, <1>2, <3>2 DEF BreakerIInv, StreakCounts
        <4> QED  BY <1>2, <4>1 DEF BreakerIInv, StreakCounts
      <3> QED  BY <3>1, <3>2
    <2>3. ASSUME streak' < Len(answers') PROVE answers'[Len(answers') - streak'].ok
      <3>0. /\ streak \in Nat /\ streak' = streak + 1
            /\ Len(answers) \in Nat /\ Len(answers') = Len(answers) + 1
        BY <1>1, <1>2
      <3>1. streak < Len(answers) /\ Len(answers') - streak' = Len(answers) - streak
        BY <3>0, <2>3
      <3>2. Len(answers) - streak \in 1..Len(answers)
        BY <1>2, <3>1
      <3> QED  BY <1>2, <3>1, <3>2 DEF BreakerIInv, StreakCounts
    <2> QED  BY <2>1, <2>2, <2>3 DEF StreakCounts
  <1>5. OpenByStreak'
    <2>1. CASE streak + 1 >= BreakerThreshold
      <3>1. openUntil' = now + BreakerCooldown /\ answers'[Len(answers')].at = now
        BY <1>1, <1>2, <2>1 DEF Opened, AfterFailure
      <3> QED  BY <1>1, <2>1, <3>1 DEF OpenByStreak
    <2>2. CASE ~(streak + 1 >= BreakerThreshold)
      <3>1. openUntil' = 0
        BY <1>1, <1>2, <2>2, BreakerNumbers DEF Opened, AfterFailure, BreakerIInv, OpenByStreak
      <3> QED  BY <1>1, <2>2, <3>1 DEF OpenByStreak
    <2> QED  BY <2>1, <2>2
  <1> QED  BY <1>3, <1>4, <1>5 DEF BreakerIInv

LEMMA BreakerStepKeeps == BreakerIInv /\ [BreakerNext]_breakerVars => BreakerIInv'
  <1> SUFFICES ASSUME BreakerIInv, [BreakerNext]_breakerVars PROVE BreakerIInv'
    OBVIOUS
  <1>0. now \in Nat
    BY DEF BreakerIInv, BreakerTypes
  <1>1. ASSUME NEW kind, QueueTask(kind) PROVE BreakerIInv'
    BY <1>0, <1>1, NoAnswerKeeps DEF QueueTask
  <1>2. ASSUME NEW c \in Callers, NEW kind, Ask(c, kind) PROVE BreakerIInv'
    BY <1>0, <1>2, NoAnswerKeeps DEF Ask, Begin
  <1>3. ASSUME NEW c \in Callers, TakeTask(c) PROVE BreakerIInv'
    BY <1>0, <1>3, NoAnswerKeeps DEF TakeTask, Begin
  <1>4. ASSUME NEW c \in Callers, CallSucceeds(c) PROVE BreakerIInv'
    BY <1>4, SuccessKeeps
  <1>5. ASSUME NEW c \in Callers, CallFails(c) PROVE BreakerIInv'
    BY <1>5, FailureKeeps
  <1>6. CASE BreakerTick
    BY <1>0, <1>6, NoAnswerKeeps DEF BreakerTick
  <1>7. CASE UNCHANGED breakerVars
    BY <1>0, <1>7, NoAnswerKeeps DEF breakerVars
  <1> QED  BY <1>1, <1>2, <1>3, <1>4, <1>5, <1>6, <1>7 DEF BreakerNext

(* The row of failures is at least as long as the threshold exactly when the   *)
(* last answers, that many, all failed.                                        *)
LEMMA StreakTellsDeath == BreakerIInv => DeadServiceIsLeftAlone
  <1> SUFFICES ASSUME BreakerIInv PROVE DeadServiceIsLeftAlone
    OBVIOUS
  <1> DEFINE n == Len(answers)
             dead == n >= BreakerThreshold
                     /\ \A i \in (n - BreakerThreshold + 1)..n : ~answers[i].ok
  <1>1. n \in Nat /\ streak \in Nat /\ BreakerThreshold \in Nat /\ BreakerThreshold > 0
    BY BreakerNumbers DEF BreakerIInv, BreakerTypes
  <1>2. streak >= BreakerThreshold => dead
    BY <1>1 DEF BreakerIInv, StreakCounts
  <1>3. ASSUME streak < BreakerThreshold, n >= BreakerThreshold PROVE ~dead
    <2>1. n - streak \in (n - BreakerThreshold + 1)..n /\ answers[n - streak].ok
      BY <1>1, <1>3 DEF BreakerIInv, StreakCounts
    <2> QED  BY <2>1
  <1>4. dead <=> streak >= BreakerThreshold
    BY <1>1, <1>2, <1>3
  <1> QED  BY <1>4 DEF BreakerIInv, OpenByStreak, DeadServiceIsLeftAlone

(* However calls and answers of several threads cross, a service that failed   *)
(* the threshold's number of times in a row is left alone for the cool-down,   *)
(* and one that answered is asked again at once.                               *)
THEOREM DeadServiceRests == BreakerSpec => []DeadServiceIsLeftAlone
  BY BreakerInitHolds, BreakerStepKeeps, StreakTellsDeath, PTL DEF BreakerSpec

-------------------------------------------------------------------------------
(* Pushes keep their distance for any number of threads and keys, any        *)
(* cool-down and any number of pushes.                                       *)

PushTasks == [pc : {"idle", "locked", "send"}, key : PushKeys \cup {None}, at : Nat]
Pushes == [key : PushKeys, at : Nat, by : Senders]

\* What the argument needs of the types.
PushTypes ==
    /\ now \in Nat
    /\ sending \in [Senders -> PushTasks]
    /\ \A s \in Senders : sending[s].pc # "idle" => sending[s].key \in PushKeys
    /\ lastSent \in [PushKeys -> Nat \cup {None}]
    /\ sent \subseteq Pushes

\* A push that has its turn, made or about to be made, is on record with its time
\* or a later one.
TurnRecorded(key, at) == key # TestKey => lastSent[key] \in Nat /\ at <= lastSent[key]
TurnsAreRecorded ==
    /\ \A p \in sent : TurnRecorded(p.key, p.at)
    /\ \A s \in Senders : sending[s].pc = "send" => TurnRecorded(sending[s].key, sending[s].at)

Apart(a, b) == a - b >= PushCooldown \/ b - a >= PushCooldown

\* Who is about to push keeps the distance from the pushes made and from the others
\* about to be made.
TurnsAreSpaced ==
    \A s \in Senders : sending[s].pc = "send" /\ sending[s].key # TestKey =>
        /\ \A p \in sent : p.key = sending[s].key => Apart(p.at, sending[s].at)
        /\ \A t \in Senders \ {s} :
              sending[t].pc = "send" /\ sending[t].key = sending[s].key => Apart(sending[t].at, sending[s].at)

PushIInv == PushTypes /\ TurnsAreRecorded /\ TurnsAreSpaced /\ PushesAreSpaced

LEMMA PushInitHolds == PushInit => PushIInv
  BY PushNumbers, NeverIsNoTime
     DEF PushInit, PushIInv, PushTypes, TurnsAreRecorded, TurnsAreSpaced, PushesAreSpaced, AtRest, PushTasks, Pushes

(* Whoever keeps what was promised and takes no turn keeps the invariant.      *)
LEMMA NoNewTurn ==
    ASSUME PushIInv, UNCHANGED <<lastSent, sent>>, PushTypes',
           \A s \in Senders : sending'[s].pc = "send" => sending'[s] = sending[s]
    PROVE  PushIInv'
  <1>1. TurnsAreRecorded'
    BY DEF PushIInv, PushTypes, TurnsAreRecorded, TurnRecorded
  <1>2. TurnsAreSpaced'
    BY DEF PushIInv, PushTypes, TurnsAreSpaced, Apart
  <1>3. PushesAreSpaced'
    BY DEF PushIInv, PushesAreSpaced
  <1> QED  BY <1>1, <1>2, <1>3 DEF PushIInv

LEMMA NotifyKeeps ==
    ASSUME PushIInv, NEW s \in Senders, NEW key \in PushKeys, NEW level, Notify(s, key, level)
    PROVE  PushIInv'
  <1>1. [pc |-> "locked", key |-> key, at |-> now] \in PushTasks
    BY DEF PushIInv, PushTypes, PushTasks
  <1>2. PushTypes'
    BY <1>1 DEF PushIInv, PushTypes, Notify
  <1>3. \A t \in Senders : sending'[t].pc = "send" => sending'[t] = sending[t]
    BY DEF PushIInv, PushTypes, Notify
  <1> QED  BY <1>2, <1>3, NoNewTurn DEF Notify

(* The one place where a push gets its turn: its time is a cool-down after the *)
(* last one of its key, hence after all of them.                               *)
LEMMA ReserveKeeps ==
    ASSUME PushIInv, NEW s \in Senders, Reserve(s)
    PROVE  PushIInv'
  <1> DEFINE k == sending[s].key
             at == sending[s].at
  <1>1. k \in PushKeys /\ at \in Nat /\ sending[s] \in PushTasks /\ sending[s].pc = "locked"
    BY DEF PushIInv, PushTypes, PushTasks, Reserve
  <1>2. CASE CoolingDown(s)
    <2>1. AtRest \in PushTasks
      BY DEF AtRest, PushTasks
    <2>2. sending' = [sending EXCEPT ![s] = AtRest] /\ UNCHANGED <<now, lastSent, sent>>
      BY <1>2 DEF Reserve
    <2>3. PushTypes'
      BY <2>1, <2>2 DEF PushIInv, PushTypes, AtRest
    <2>4. \A t \in Senders : sending'[t].pc = "send" => sending'[t] = sending[t]
      BY <2>2 DEF PushIInv, PushTypes, AtRest
    <2> QED  BY <2>2, <2>3, <2>4, NoNewTurn
  <1>3. CASE ~CoolingDown(s)
    <2>1. /\ lastSent' = [lastSent EXCEPT ![k] = at]
          /\ sending' = [sending EXCEPT ![s].pc = "send"]
          /\ UNCHANGED <<now, sent>>
      BY <1>3 DEF Reserve
    <2>2. [sending[s] EXCEPT !.pc = "send"] \in PushTasks
      BY <1>1 DEF PushTasks
    <2>3. /\ sending'[s].pc = "send" /\ sending'[s].key = k /\ sending'[s].at = at
          /\ \A t \in Senders \ {s} : sending'[t] = sending[t]
      BY <1>1, <2>1 DEF PushIInv, PushTypes, PushTasks
    <2>4. PushTypes'
      <3>1. sending' \in [Senders -> PushTasks]
        BY <2>1, <2>2 DEF PushIInv, PushTypes
      <3>2. lastSent' \in [PushKeys -> Nat \cup {None}]
        BY <1>1, <2>1 DEF PushIInv, PushTypes
      <3>3. \A t \in Senders : sending'[t].pc # "idle" => sending'[t].key \in PushKeys
        BY <1>1, <2>3 DEF PushIInv, PushTypes
      <3> QED  BY <2>1, <3>1, <3>2, <3>3 DEF PushIInv, PushTypes
    <2>5. lastSent'[k] = at /\ \A j \in PushKeys \ {k} : lastSent'[j] = lastSent[j]
      BY <1>1, <2>1 DEF PushIInv, PushTypes
    <2>6. k # TestKey /\ lastSent[k] \in Nat => at - lastSent[k] >= PushCooldown
      BY <1>1, <1>3, PushNumbers, NeverIsNoTime DEF CoolingDown
    <2>7. \A j \in PushKeys, a \in Nat : TurnRecorded(j, a) =>
             /\ TurnRecorded(j, a)'
             /\ j = k /\ k # TestKey => at - a >= PushCooldown
      BY <1>1, <2>5, <2>6, PushNumbers DEF TurnRecorded
    <2>8. \A p \in sent : p.key \in PushKeys /\ p.at \in Nat /\ TurnRecorded(p.key, p.at)
      BY DEF PushIInv, PushTypes, Pushes, TurnsAreRecorded
    <2>9. \A t \in Senders : sending[t].pc = "send" =>
             sending[t].key \in PushKeys /\ sending[t].at \in Nat /\ TurnRecorded(sending[t].key, sending[t].at)
      BY DEF PushIInv, PushTypes, PushTasks, TurnsAreRecorded
    <2>10. TurnsAreRecorded'
      <3>1. ASSUME NEW p \in sent PROVE TurnRecorded(p.key, p.at)'
        BY <2>7, <2>8
      <3>2. ASSUME NEW t \in Senders, sending'[t].pc = "send"
            PROVE  TurnRecorded(sending[t].key, sending[t].at)'
        <4>1. CASE t = s
          BY <4>1, <1>1, <2>3, <2>5 DEF TurnRecorded
        <4>2. CASE t # s
          <5>1. sending'[t] = sending[t]
            BY <4>2, <2>3
          <5>2. LET key == sending[t].key  a == sending[t].at IN key # TestKey => lastSent'[key] \in Nat /\ a <= lastSent'[key]
            BY <5>1, <2>7, <2>9, <3>2 DEF TurnRecorded
          <5> QED  BY <5>1, <5>2 DEF TurnRecorded
        <4> QED  BY <4>1, <4>2
      <3> QED  BY <2>1, <3>1, <3>2 DEF TurnsAreRecorded
    <2>11. TurnsAreSpaced'
      <3>1. \A p \in sent : p.key = k /\ k # TestKey => Apart(p.at, at)
        BY <2>7, <2>8 DEF Apart
      <3>2. \A t \in Senders \ {s} : sending[t].pc = "send" /\ sending[t].key = k /\ k # TestKey =>
               Apart(sending[t].at, at) /\ Apart(at, sending[t].at)
        BY <2>7, <2>9 DEF Apart
      <3> QED  BY <2>1, <2>3, <3>1, <3>2 DEF PushIInv, TurnsAreSpaced, Apart
    <2>12. PushesAreSpaced'
      BY <2>1 DEF PushIInv, PushesAreSpaced
    <2> QED  BY <2>4, <2>10, <2>11, <2>12 DEF PushIInv
  <1> QED  BY <1>2, <1>3

(* A push that is made had its turn: it joins the others at its distance.      *)
LEMMA SendKeeps ==
    ASSUME PushIInv, NEW s \in Senders, Send(s)
    PROVE  PushIInv'
  <1> DEFINE push == [key |-> sending[s].key, at |-> sending[s].at, by |-> s]
  <1>1. sending[s].pc = "send" /\ push \in Pushes
    BY DEF PushIInv, PushTypes, PushTasks, Pushes, Send
  <1>2. sending' = [sending EXCEPT ![s] = AtRest] /\ UNCHANGED <<now, lastSent>>
    BY DEF Send
  <1>3. sent' = sent \/ sent' = sent \cup {push}
    BY DEF Send
  <1>4. AtRest \in PushTasks /\ AtRest.pc = "idle"
    BY DEF AtRest, PushTasks
  <1>5. PushTypes'
    BY <1>1, <1>2, <1>3, <1>4 DEF PushIInv, PushTypes
  <1>6. \A t \in Senders : sending'[t].pc = "send" => t # s /\ sending'[t] = sending[t]
    BY <1>2, <1>4 DEF PushIInv, PushTypes
  <1>7. TurnsAreRecorded'
    BY <1>1, <1>2, <1>3, <1>6 DEF PushIInv, TurnsAreRecorded, TurnRecorded
  <1>8. TurnsAreSpaced'
    BY <1>1, <1>3, <1>6 DEF PushIInv, TurnsAreSpaced, Apart
  <1>9. PushesAreSpaced'
    <2>1. \A p \in sent : p.key = push.key /\ push.key # TestKey => Apart(p.at, push.at)
      BY <1>1 DEF PushIInv, TurnsAreSpaced
    <2>2. \A p \in sent : p.at \in Nat
      BY DEF PushIInv, PushTypes, Pushes
    <2>3. push.at \in Nat
      BY <1>1 DEF Pushes
    <2> QED  BY <1>3, <2>1, <2>2, <2>3, PushNumbers DEF PushIInv, PushesAreSpaced, Apart
  <1> QED  BY <1>5, <1>7, <1>8, <1>9 DEF PushIInv

LEMMA PushStepKeeps == PushIInv /\ [PushNext]_pushVars => PushIInv'
  <1> SUFFICES ASSUME PushIInv, [PushNext]_pushVars PROVE PushIInv'
    OBVIOUS
  <1>1. ASSUME NEW s \in Senders, NEW key \in PushKeys, NEW level \in {MinLevel - 1, MinLevel},
               Notify(s, key, level)
        PROVE  PushIInv'
    BY <1>1, NotifyKeeps
  <1>2. ASSUME NEW s \in Senders, Reserve(s) PROVE PushIInv'
    BY <1>2, ReserveKeeps
  <1>3. ASSUME NEW s \in Senders, Send(s) PROVE PushIInv'
    BY <1>3, SendKeeps
  <1>4. CASE PushTick
    <2>1. PushTypes' /\ UNCHANGED <<lastSent, sent, sending>>
      BY <1>4 DEF PushTick, PushIInv, PushTypes
    <2> QED  BY <2>1, NoNewTurn
  <1>5. CASE UNCHANGED pushVars
    <2>1. PushTypes' /\ UNCHANGED <<lastSent, sent, sending>>
      BY <1>5 DEF pushVars, PushIInv, PushTypes
    <2> QED  BY <2>1, NoNewTurn
  <1> QED  BY <1>1, <1>2, <1>3, <1>4, <1>5 DEF PushNext

(* However the threads cross between clock and lock of notify, two pushes of   *)
(* one key are a cool-down apart.                                              *)
THEOREM PushesKeepDistance == PushSpec => []PushesAreSpaced
  <1>1. PushIInv => PushesAreSpaced
    BY DEF PushIInv
  <1> QED  BY PushInitHolds, PushStepKeeps, <1>1, PTL DEF PushSpec

-------------------------------------------------------------------------------
(* The login throttle. Guesses are bounded for any number of threads and     *)
(* addresses, any number of attempts, and any span that is no longer than    *)
(* the lock-out.                                                             *)

(* A checked password.                                                       *)
Guess == [peer : Peers, at : Nat, right : BOOLEAN]
(* What is counted of an address is a set of its guesses, and too few to     *)
(* lock it.                                                                  *)
CountedEntry(entry) ==
    /\ entry.since \in Nat /\ entry.times \in SUBSET [n : Nat, at : Nat] /\ IsFiniteSet(entry.times) /\ Cardinality(entry.times) < MaxAttempts
    /\ \A t \in entry.times : t.n \in DOMAIN guesses /\ t.at = guesses[t.n].at

(* What the variables hold; guesses are in the order of their times.         *)
ThrottleTypes ==
    /\ now \in Nat /\ guesses \in Seq(Guess)
    /\ door \in [Doors -> Peers \cup {None, "ok"}] /\ lockedUntil \in [Peers -> Nat]
    /\ fails = [p \in Peers |-> fails[p]] /\ \A p \in Recorded : CountedEntry(fails[p])
    /\ \A i, j \in DOMAIN guesses : i <= j => guesses[i].at <= guesses[j].at
    /\ \A i \in DOMAIN guesses : guesses[i].at <= now

(* No right password of that address from one guess to another; the run of   *)
(* wrong ones from a guess on; and who is past the lock.                     *)
Clean(seq, p, i, j) == \A k \in i..j : seq[k].peer = p => ~seq[k].right
RunIn(seq, p, i) ==
    {j \in i..Len(seq) : seq[j].peer = p /\ seq[j].at - seq[i].at < FailSpan /\ Clean(seq, p, i, j)}
Past(p) == {d \in Doors : door[d] = p}

\* The failures of a window that is open are all counted, or the address is locked
\* until the window is over and what is past the lock is few enough.
CalmOrLocked(p, i) ==
    \/ \A j \in RunIn(guesses, p, i) : \E t \in TimesOf(p) : t.n = j
    \/ /\ lockedUntil[p] >= guesses[i].at + FailSpan
       /\ Cardinality(RunIn(guesses, p, i)) + Cardinality(Past(p)) <= MaxAttempts + Cardinality(Doors) - 1

(* The bound, with what makes it last while the window is open.              *)
WindowIs(p, i) ==
    /\ Cardinality(RunIn(guesses, p, i)) <= MaxAttempts + Cardinality(Doors) - 1
    /\ now - guesses[i].at < FailSpan /\ Clean(guesses, p, i, Len(guesses)) => CalmOrLocked(p, i)

ThrottleIInv == ThrottleTypes /\ \A p \in Peers \ forgotten, i \in DOMAIN guesses : WindowIs(p, i)

(* What is known of a guess.                                                 *)
LEMMA GuessIs == ASSUME NEW seq \in Seq(Guess), NEW i \in DOMAIN seq PROVE seq[i] \in Guess /\ seq[i].at \in Nat
  <1>1. seq[i] \in Guess
    OBVIOUS
  <1> QED  BY <1>1 DEF Guess

(* Threads can be counted, and so can the guesses of a run.                  *)
LEMMA DoorsAre == ASSUME NEW S \in SUBSET Doors PROVE IsFiniteSet(S) /\ Cardinality(S) \in Nat /\ Cardinality(S) <= Cardinality(Doors) /\ Cardinality(Doors) \in Nat
  BY ThrottleSets, FS_Subset, FS_CardinalityType

LEMMA RunIsFinite ==
    ASSUME NEW seq \in Seq(Guess), NEW p, NEW i \in Nat
    PROVE  IsFiniteSet(RunIn(seq, p, i)) /\ Cardinality(RunIn(seq, p, i)) \in Nat
  <1>1. IsFiniteSet(i..Len(seq))
    BY FS_Interval
  <1>2. RunIn(seq, p, i) \subseteq i..Len(seq)
    BY DEF RunIn
  <1> QED  BY <1>1, <1>2, FS_Subset, FS_CardinalityType

\* A set of things whose numbers cover a set is no smaller than it.
LEMMA NumbersCount ==
    ASSUME NEW times, IsFiniteSet(times), NEW S, \A j \in S : \E t \in times : t.n = j
    PROVE  IsFiniteSet(S) /\ Cardinality(S) <= Cardinality(times)
  <1> DEFINE numbers == {t.n : t \in times}
             F == [t \in times |-> t.n]
  <1>1. F \in Surjection(times, numbers)
    BY DEF Surjection
  <1>2. IsFiniteSet(numbers) /\ Cardinality(numbers) <= Cardinality(times)
    <2> HIDE DEF F
    <2> QED  BY <1>1, FS_Surjection
  <1>3. S \subseteq numbers
    OBVIOUS
  <1> HIDE DEF numbers
  <1>4. IsFiniteSet(S) /\ Cardinality(S) <= Cardinality(numbers)
    BY <1>2, <1>3, FS_Subset
  <1>5. Cardinality(S) \in Nat /\ Cardinality(numbers) \in Nat /\ Cardinality(times) \in Nat
    BY <1>2, <1>4, FS_CardinalityType
  <1> QED  BY <1>2, <1>4, <1>5

\* One more guess, of the same address or of another.
Grows(seq, more, g, p, i) ==
    /\ RunIn(more, p, i) \subseteq RunIn(seq, p, i) \cup {Len(seq) + 1}
    /\ RunIn(seq, p, i) \subseteq RunIn(more, p, i)
    /\ Len(seq) + 1 \in RunIn(more, p, i) =>
          g.peer = p /\ g.right = FALSE /\ g.at - seq[i].at < FailSpan /\ Clean(seq, p, i, Len(seq))
    /\ Clean(more, p, i, Len(more)) => Clean(seq, p, i, Len(seq)) /\ (g.peer = p => g.right = FALSE)

(* The run from an earlier guess on grows by one at the most.                *)
LEMMA RunGrows ==
    ASSUME NEW seq \in Seq(Guess), NEW g \in Guess, NEW p, NEW i \in DOMAIN seq,
           NEW more, more = Append(seq, g)
    PROVE  Grows(seq, more, g, p, i)
  <1>1. /\ Len(seq) \in Nat /\ Len(more) = Len(seq) + 1 /\ DOMAIN seq = 1..Len(seq) /\ i \in 1..Len(seq)
        /\ \A k \in 1..Len(seq) : more[k] = seq[k]
        /\ more[Len(seq) + 1] = g
    OBVIOUS
  <1>2. \A j \in i..Len(seq) : Clean(more, p, i, j) <=> Clean(seq, p, i, j)
    BY <1>1 DEF Clean
  <1>3. Clean(more, p, i, Len(seq) + 1) => Clean(seq, p, i, Len(seq)) /\ (g.peer = p => g.right = FALSE)
    <2>1. \A k \in i..Len(seq) : k \in i..(Len(seq) + 1) /\ more[k] = seq[k]
      BY <1>1
    <2>2. Len(seq) + 1 \in i..(Len(seq) + 1)
      BY <1>1
    <2> QED  BY <1>1, <2>1, <2>2 DEF Clean
  <1>4. \A j \in i..Len(seq) : j \in RunIn(more, p, i) <=> j \in RunIn(seq, p, i)
    <2>1. \A j \in i..Len(seq) : more[j] = seq[j] /\ j \in i..Len(more)
      BY <1>1
    <2> QED  BY <1>1, <1>2, <2>1 DEF RunIn
  <1>5. \A j \in RunIn(more, p, i) : j \in i..Len(seq) \/ j = Len(seq) + 1
    BY <1>1 DEF RunIn
  <1>6. \A j \in RunIn(seq, p, i) : j \in i..Len(seq)
    BY DEF RunIn
  <1>7. Len(seq) + 1 \in RunIn(more, p, i) =>
                 g.peer = p /\ g.right = FALSE /\ g.at - seq[i].at < FailSpan /\ Clean(seq, p, i, Len(seq))
    BY <1>1, <1>3 DEF RunIn
  <1> QED  BY <1>1, <1>3, <1>4, <1>5, <1>6, <1>7 DEF Grows

\* A run that starts with the newest guess.
LEMMA RunStarts ==
    ASSUME NEW seq \in Seq(Guess), NEW g \in Guess, NEW p, NEW more, more = Append(seq, g)
    PROVE  /\ RunIn(more, p, Len(more)) \subseteq {Len(seq) + 1}
           /\ Len(seq) + 1 \in RunIn(more, p, Len(more)) => g.peer = p /\ g.right = FALSE
  <1>1. Len(seq) \in Nat /\ Len(more) = Len(seq) + 1 /\ more[Len(seq) + 1] = g
    OBVIOUS
  <1>2. Len(seq) + 1 \in (Len(seq) + 1)..(Len(seq) + 1)
    BY <1>1
  <1> QED  BY <1>1, <1>2 DEF RunIn, Clean

(* Nothing is guessed: time passes, or a thread knocks at an address that is *)
(* not locked.                                                               *)
LEMMA WindowUntouched ==
    ASSUME ThrottleTypes, ThrottleTypes', NEW p \in Peers, NEW i \in DOMAIN guesses, WindowIs(p, i),
           guesses' = guesses, now' >= now, TimesOf(p)' = TimesOf(p), lockedUntil'[p] = lockedUntil[p],
           Past(p)' \subseteq Past(p) \/ ~Locked(p)
    PROVE  WindowIs(p, i)'
  <1>1. PICK run : run = RunIn(guesses, p, i) /\ RunIn(guesses, p, i)' = run
    BY DEF RunIn, Clean
  <1>2. PICK at \in Nat : at = guesses[i].at /\ guesses'[i].at = at
    BY GuessIs DEF ThrottleTypes
  <1>3. now \in Nat /\ now' \in Nat /\ lockedUntil[p] \in Nat /\ FailSpan \in Nat
    BY ThrottleNumbers DEF ThrottleTypes
  <1>4. Clean(guesses, p, i, Len(guesses))' <=> Clean(guesses, p, i, Len(guesses))
    BY DEF Clean
  <1>5. Cardinality(run) <= MaxAttempts + Cardinality(Doors) - 1
    BY <1>1 DEF WindowIs
  <1>6. ASSUME now' - at < FailSpan, Clean(guesses, p, i, Len(guesses)) PROVE CalmOrLocked(p, i)'
    <2>1. CalmOrLocked(p, i)
      BY <1>2, <1>3, <1>6 DEF WindowIs
    <2>2. CASE \A j \in run : \E t \in TimesOf(p) : t.n = j
      BY <1>1, <2>2 DEF CalmOrLocked
    <2>3. CASE /\ lockedUntil[p] >= at + FailSpan
               /\ Cardinality(run) + Cardinality(Past(p)) <= MaxAttempts + Cardinality(Doors) - 1
      <3>1. Locked(p)
        BY <1>2, <1>3, <1>6, <2>3 DEF Locked
      <3>2. Past(p)' \subseteq Past(p) /\ Past(p) \subseteq Doors
        BY <3>1 DEF Past
      <3>3. PICK few, before \in SUBSET Doors : few = Past(p)' /\ before = Past(p) /\ few \subseteq before
        BY <3>2
      <3>4. Cardinality(few) <= Cardinality(before) /\ Cardinality(few) \in Nat /\ Cardinality(before) \in Nat
        BY <3>3, DoorsAre, FS_Subset
      <3>5. Cardinality(run) \in Nat /\ Cardinality(Doors) \in Nat /\ MaxAttempts \in Nat
        BY <1>1, RunIsFinite, DoorsAre, ThrottleNumbers DEF ThrottleTypes
      <3>6. Cardinality(run) + Cardinality(few) <= MaxAttempts + Cardinality(Doors) - 1
        BY <2>3, <3>3, <3>4, <3>5
      <3> QED  BY <1>1, <1>2, <2>3, <3>3, <3>6 DEF CalmOrLocked
    <2> QED  BY <1>1, <1>2, <2>1, <2>2, <2>3 DEF CalmOrLocked
  <1> QED  BY <1>1, <1>2, <1>4, <1>5, <1>6 DEF WindowIs

\* A guess of another address, or a right one.
LEMMA OtherGuess ==
    ASSUME ThrottleTypes, ThrottleTypes', NEW p \in Peers, \A i \in DOMAIN guesses : WindowIs(p, i),
           NEW g \in Guess, guesses' = Append(guesses, g), now' = now, g.peer # p \/ g.right = TRUE,
           g.peer # p => TimesOf(p)' = TimesOf(p) /\ lockedUntil'[p] = lockedUntil[p],
           Past(p)' \subseteq Past(p), NEW i \in DOMAIN guesses'
    PROVE  WindowIs(p, i)'
  <1>1. PICK seq \in Seq(Guess), more \in Seq(Guess) : seq = guesses /\ more = Append(seq, g) /\ more = guesses'
    BY DEF ThrottleTypes
  <1>2. Len(seq) \in Nat /\ Len(more) = Len(seq) + 1 /\ DOMAIN seq = 1..Len(seq) /\ DOMAIN more = 1..Len(more) /\ i \in 1..Len(more)
    BY <1>1
  <1>3. Cardinality(Doors) \in Nat /\ MaxAttempts \in Nat /\ MaxAttempts > 0
    BY DoorsAre, ThrottleNumbers
  <1>4. CASE i \in DOMAIN seq
    <2>0. Grows(seq, more, g, p, i)
      BY <1>1, <1>4, RunGrows
    <2>1. PICK run : run = RunIn(seq, p, i) /\ RunIn(more, p, i) = run
      <3>1. Len(seq) + 1 \notin RunIn(more, p, i)
        BY <2>0 DEF Grows
      <3>2. RunIn(more, p, i) = RunIn(seq, p, i)
        BY <2>0, <3>1 DEF Grows
      <3> QED  BY <3>2
    <2>2. Clean(more, p, i, Len(more)) => Clean(seq, p, i, Len(seq)) /\ (g.peer = p => g.right = FALSE)
      BY <2>0 DEF Grows
    <2>3. more[i] = seq[i]
      BY <1>1, <1>2, <1>4
    <2>4. WindowIs(p, i)
      BY <1>1, <1>4
    <2>5. Cardinality(run) <= MaxAttempts + Cardinality(Doors) - 1
      BY <1>1, <2>1, <2>4 DEF WindowIs
    <2>6. ASSUME now - more[i].at < FailSpan, Clean(more, p, i, Len(more)) PROVE CalmOrLocked(p, i)'
      <3>1. CalmOrLocked(p, i) /\ g.peer # p
        BY <1>1, <2>2, <2>3, <2>4, <2>6 DEF WindowIs
      <3>2. TimesOf(p)' = TimesOf(p) /\ lockedUntil'[p] = lockedUntil[p]
        BY <3>1
      <3>3. CASE \A j \in run : \E t \in TimesOf(p) : t.n = j
        BY <1>1, <2>1, <3>2, <3>3 DEF CalmOrLocked
      <3>4. CASE /\ lockedUntil[p] >= seq[i].at + FailSpan
                 /\ Cardinality(run) + Cardinality(Past(p)) <= MaxAttempts + Cardinality(Doors) - 1
        <4>1. PICK few, before \in SUBSET Doors : few = Past(p)' /\ before = Past(p) /\ few \subseteq before
          BY DEF Past
        <4>2. Cardinality(few) <= Cardinality(before) /\ Cardinality(few) \in Nat /\ Cardinality(before) \in Nat
          BY <4>1, DoorsAre, FS_Subset
        <4>3. Cardinality(run) \in Nat
          BY <1>2, <1>4, <2>1, RunIsFinite
        <4>4. Cardinality(run) + Cardinality(few) <= MaxAttempts + Cardinality(Doors) - 1
          BY <1>3, <3>4, <4>1, <4>2, <4>3
        <4> QED  BY <1>1, <2>1, <2>3, <3>2, <3>4, <4>1, <4>4 DEF CalmOrLocked
      <3> QED  BY <1>1, <2>1, <3>1, <3>3, <3>4 DEF CalmOrLocked
    <2> QED  BY <1>1, <2>1, <2>5, <2>6 DEF WindowIs
  <1>5. CASE i \notin DOMAIN seq
    <2>1. i = Len(more)
      BY <1>2, <1>5
    <2>2. RunIn(more, p, i) = {}
      <3>1. /\ RunIn(more, p, Len(more)) \subseteq {Len(seq) + 1}
            /\ Len(seq) + 1 \in RunIn(more, p, Len(more)) => g.peer = p /\ g.right = FALSE
        BY <1>1, RunStarts
      <3> QED  BY <2>1, <3>1
    <2>3. Cardinality({}) = 0
      BY FS_EmptySet
    <2>4. 0 <= MaxAttempts + Cardinality(Doors) - 1
      BY <1>3
    <2>5. CalmOrLocked(p, i)'
      BY <1>1, <2>2 DEF CalmOrLocked
    <2> QED  BY <1>1, <2>2, <2>3, <2>4, <2>5 DEF WindowIs
  <1> QED  BY <1>4, <1>5

\* A wrong one of this address: it is counted, or locks the address, or was past
\* the lock when that closed.
LEMMA WrongGuess ==
    ASSUME ThrottleTypes, ThrottleTypes', NEW p \in Peers, \A i \in DOMAIN guesses : WindowIs(p, i),
           NEW g \in Guess, g.peer = p, g.at = now, g.right = FALSE, guesses' = Append(guesses, g), now' = now,
           NEW d \in Doors, d \in Past(p), Past(p)' = Past(p) \ {d},
           NEW times, times = Recent(TimesOf(p)) \cup {[n |-> Len(guesses) + 1, at |-> now]},
           TimesOf(p)' = (IF TooMany(times) THEN {} ELSE times),
           lockedUntil'[p] = (IF TooMany(times) THEN now + Lockout ELSE lockedUntil[p]),
           NEW i \in DOMAIN guesses'
    PROVE  WindowIs(p, i)'
  <1>1. PICK seq \in Seq(Guess), more \in Seq(Guess) : seq = guesses /\ more = Append(seq, g) /\ more = guesses'
    BY DEF ThrottleTypes
  <1>2. /\ Len(seq) \in Nat /\ Len(more) = Len(seq) + 1 /\ DOMAIN seq = 1..Len(seq) /\ DOMAIN more = 1..Len(more) /\ i \in 1..Len(more)
        /\ \A k \in 1..Len(seq) : more[k] = seq[k]
        /\ more[Len(seq) + 1] = g
    BY <1>1
  <1>3. /\ Cardinality(Doors) \in Nat /\ MaxAttempts \in Nat /\ MaxAttempts > 0 /\ now \in Nat /\ lockedUntil[p] \in Nat
        /\ FailSpan \in Nat /\ Lockout \in Nat /\ Lockout >= FailSpan
    BY DoorsAre, ThrottleNumbers DEF ThrottleTypes
  <1>4. PICK few, before \in SUBSET Doors : few = Past(p)' /\ before = Past(p) /\ few = before \ {d} /\ d \in before
    BY DEF Past
  <1>5. /\ Cardinality(few) = Cardinality(before) - 1 /\ Cardinality(few) \in Nat
        /\ Cardinality(before) \in Nat /\ Cardinality(before) <= Cardinality(Doors)
    <2>1. /\ IsFiniteSet(before) /\ Cardinality(few) \in Nat
          /\ Cardinality(before) \in Nat /\ Cardinality(before) <= Cardinality(Doors)
      BY DoorsAre
    <2>2. Cardinality(before \ {d}) = Cardinality(before) - 1
      BY <1>4, <2>1, FS_RemoveElement
    <2> QED  BY <1>4, <2>1, <2>2
  <1>6. /\ IsFiniteSet(TimesOf(p)) /\ Cardinality(TimesOf(p)) \in Nat /\ Cardinality(TimesOf(p)) < MaxAttempts
        /\ \A t \in TimesOf(p) : t.n \in DOMAIN seq /\ t.at = seq[t.n].at
    <2>1. CASE p \in Recorded
      BY <1>1, <2>1, FS_CardinalityType DEF TimesOf, ThrottleTypes, CountedEntry
    <2>2. CASE p \notin Recorded
      <3>1. TimesOf(p) = {} /\ IsFiniteSet({}) /\ Cardinality({}) = 0
        BY <2>2, FS_EmptySet DEF TimesOf
      <3> QED  BY <1>3, <3>1
    <2> QED  BY <2>1, <2>2
  <1>7. IsFiniteSet(times) /\ Cardinality(times) \in Nat /\ Cardinality(times) <= MaxAttempts
    <2>1. PICK recent : recent = Recent(TimesOf(p)) /\ recent \subseteq TimesOf(p)
      BY DEF Recent
    <2>2. IsFiniteSet(recent) /\ Cardinality(recent) <= Cardinality(TimesOf(p)) /\ Cardinality(recent) \in Nat
      BY <1>6, <2>1, FS_Subset, FS_CardinalityType
    <2>3. /\ IsFiniteSet(recent \cup {[n |-> Len(guesses) + 1, at |-> now]})
          /\ \/ Cardinality(recent \cup {[n |-> Len(guesses) + 1, at |-> now]}) = Cardinality(recent) + 1
             \/ Cardinality(recent \cup {[n |-> Len(guesses) + 1, at |-> now]}) = Cardinality(recent)
      BY <2>2, FS_AddElement
    <2> QED  BY <1>3, <1>6, <2>1, <2>2, <2>3
  <1>8. PICK run : run = RunIn(more, p, i)
    OBVIOUS
  <1>9. IsFiniteSet(run) /\ Cardinality(run) \in Nat
    BY <1>2, <1>8, RunIsFinite
  <1>10. CASE i \in DOMAIN seq /\ ~(now - seq[i].at < FailSpan /\ Clean(seq, p, i, Len(seq)))
    <2>0. Grows(seq, more, g, p, i)
      <3>1. i \in DOMAIN seq
        BY <1>10
      <3>2. more = Append(seq, g)
        BY <1>1
      <3> QED  BY <3>1, <3>2, RunGrows
    <2>1. run = RunIn(seq, p, i) /\ more[i] = seq[i]
      <3>1. Len(seq) + 1 \notin RunIn(more, p, i)
        BY <1>10, <2>0 DEF Grows
      <3>2. RunIn(more, p, i) = RunIn(seq, p, i)
        BY <2>0, <3>1 DEF Grows
      <3> QED  BY <1>2, <1>8, <1>10, <3>2
    <2>2. Clean(more, p, i, Len(more)) => Clean(seq, p, i, Len(seq))
      BY <2>0 DEF Grows
    <2>3. Cardinality(run) <= MaxAttempts + Cardinality(Doors) - 1
      BY <1>1, <1>10, <2>1 DEF WindowIs
    <2> QED  BY <1>1, <1>8, <1>10, <2>1, <2>2, <2>3 DEF WindowIs
  <1>11. CASE \A j \in run : \E t \in times : t.n = j
    <2>1. Cardinality(run) <= Cardinality(times)
      BY <1>7, <1>11, NumbersCount
    <2>2. CASE TooMany(times)
      <3>1. more[i].at <= now /\ more[i].at \in Nat
        BY <1>1, <1>2, GuessIs DEF ThrottleTypes
      <3>2. lockedUntil'[p] >= more[i].at + FailSpan
        BY <1>3, <2>2, <3>1
      <3>3. Cardinality(run) + Cardinality(few) <= MaxAttempts + Cardinality(Doors) - 1
        BY <1>3, <1>5, <1>7, <1>9, <2>1
      <3>4. Cardinality(run) <= MaxAttempts + Cardinality(Doors) - 1
        BY <1>3, <1>5, <1>9, <3>3
      <3> QED  BY <1>1, <1>4, <1>8, <3>2, <3>3, <3>4 DEF WindowIs, CalmOrLocked
    <2>3. CASE ~TooMany(times)
      <3>1. Cardinality(run) <= MaxAttempts + Cardinality(Doors) - 1
        BY <1>3, <1>5, <1>7, <1>9, <2>1
      <3>2. TimesOf(p)' = times
        BY <2>3
      <3> QED  BY <1>1, <1>8, <1>11, <3>1, <3>2 DEF WindowIs, CalmOrLocked
    <2> QED  BY <2>2, <2>3
  <1>12. CASE i = Len(seq) + 1
    <2>1. run \subseteq {Len(seq) + 1}
      <3>1. RunIn(more, p, Len(more)) \subseteq {Len(seq) + 1}
        BY <1>1, RunStarts
      <3> QED  BY <1>2, <1>8, <1>12, <3>1
    <2>2. [n |-> Len(guesses) + 1, at |-> now] \in times
      OBVIOUS
    <2>3. \A j \in run : \E t \in times : t.n = j
      BY <1>1, <2>1, <2>2
    <2> QED  BY <1>11, <2>3
  <1>13. CASE i \in DOMAIN seq /\ now - seq[i].at < FailSpan /\ Clean(seq, p, i, Len(seq))
    <2>1. PICK old : old = RunIn(seq, p, i) /\ run \subseteq old \cup {Len(seq) + 1} /\ old \subseteq run
      <3>0. more = Append(seq, g)
        BY <1>1
      <3>1. Grows(seq, more, g, p, i)
        BY <3>0, <1>13, RunGrows
      <3>2. PICK old : old = RunIn(seq, p, i)
        OBVIOUS
      <3> QED  BY <1>8, <3>1, <3>2 DEF Grows
    <2>2. more[i] = seq[i] /\ seq[i].at \in Nat
      BY <1>2, <1>13, GuessIs
    <2>3. CalmOrLocked(p, i)
      BY <1>1, <1>13 DEF WindowIs
    <2>4. CASE \A j \in old : \E t \in TimesOf(p) : t.n = j
      <3>1. ASSUME NEW j \in old PROVE \E t \in times : t.n = j
        <4>1. PICK t \in TimesOf(p) : t.n = j
          BY <2>4, <3>1
        <4>2. t.at = seq[j].at /\ j \in DOMAIN seq /\ seq[j].at \in Nat
          BY <1>6, <4>1, GuessIs
        <4>3. i <= j
          BY <1>2, <1>13, <2>1, <3>1, <4>2 DEF RunIn
        <4>4. seq[i].at <= seq[j].at
          BY <1>1, <1>13, <4>2, <4>3 DEF ThrottleTypes
        <4>5. now - t.at < FailSpan
          BY <1>3, <1>13, <2>2, <4>2, <4>4
        <4> QED  BY <4>1, <4>5 DEF Recent
      <3>2. \E t \in times : t.n = Len(seq) + 1
        <4>1. [n |-> Len(guesses) + 1, at |-> now] \in times
          OBVIOUS
        <4> QED  BY <1>1, <4>1
      <3> QED  BY <1>11, <2>1, <3>1, <3>2
    <2>5. CASE /\ lockedUntil[p] >= seq[i].at + FailSpan
               /\ Cardinality(old) + Cardinality(before) <= MaxAttempts + Cardinality(Doors) - 1
      <3>1. IsFiniteSet(old) /\ Cardinality(old) \in Nat
        BY <1>2, <1>13, <2>1, RunIsFinite
      <3>2. Cardinality(run) <= Cardinality(old) + 1
        <4>1. /\ IsFiniteSet(old \cup {Len(seq) + 1})
              /\ Cardinality(old \cup {Len(seq) + 1}) \in {Cardinality(old), Cardinality(old) + 1}
          BY <3>1, FS_AddElement
        <4>2. Cardinality(run) <= Cardinality(old \cup {Len(seq) + 1})
          BY <2>1, <4>1, FS_Subset
        <4> QED  BY <1>9, <3>1, <4>1, <4>2
      <3>3. Cardinality(run) + Cardinality(few) <= MaxAttempts + Cardinality(Doors) - 1
        BY <1>3, <1>5, <1>9, <2>5, <3>1, <3>2
      <3>4. Cardinality(run) <= MaxAttempts + Cardinality(Doors) - 1
        BY <1>3, <1>5, <1>9, <3>3
      <3>5. lockedUntil'[p] >= more[i].at + FailSpan
        <4>1. seq[i].at <= now
          BY <1>1, <1>13 DEF ThrottleTypes
        <4>2. CASE TooMany(times)
          BY <1>3, <2>2, <4>1, <4>2
        <4>3. CASE ~TooMany(times)
          BY <2>2, <2>5, <4>3
        <4> QED  BY <4>2, <4>3
      <3> QED  BY <1>1, <1>4, <1>8, <3>3, <3>4, <3>5 DEF WindowIs, CalmOrLocked
    <2> QED  BY <1>1, <1>4, <2>1, <2>3, <2>4, <2>5 DEF CalmOrLocked
  <1>14. i = Len(seq) + 1 \/ i \in DOMAIN seq
    BY <1>2
  <1> QED  BY <1>10, <1>12, <1>13, <1>14

\* The guesses stay in the order of their times, and what is counted stays true.
LEMMA GuessAdded ==
    ASSUME ThrottleTypes, NEW g \in Guess, g.at = now, guesses' = Append(guesses, g), now' = now
    PROVE  /\ guesses' \in Seq(Guess)
           /\ \A i, j \in DOMAIN guesses' : i <= j => guesses'[i].at <= guesses'[j].at
           /\ \A i \in DOMAIN guesses' : guesses'[i].at <= now'
           /\ \A n \in DOMAIN guesses : n \in DOMAIN guesses' /\ guesses'[n] = guesses[n]
           /\ Len(guesses) + 1 \in DOMAIN guesses' /\ guesses'[Len(guesses) + 1] = g
           /\ \A entry : CountedEntry(entry) => CountedEntry(entry)'
  <1>1. guesses \in Seq(Guess) /\ Len(guesses) \in Nat /\ DOMAIN guesses = 1..Len(guesses) /\ now \in Nat
    BY DEF ThrottleTypes
  <1>2. /\ guesses' \in Seq(Guess) /\ DOMAIN guesses' = 1..(Len(guesses) + 1)
        /\ \A n \in 1..Len(guesses) : guesses'[n] = guesses[n]
        /\ guesses'[Len(guesses) + 1] = g
    BY <1>1
  <1>3. \A i \in DOMAIN guesses' : i \in DOMAIN guesses \/ i = Len(guesses) + 1
    BY <1>1, <1>2
  <1>4. \A i \in DOMAIN guesses : guesses'[i] = guesses[i] /\ i <= Len(guesses) /\ guesses[i].at \in Nat /\ guesses[i].at <= now
    BY <1>1, <1>2, GuessIs DEF ThrottleTypes
  <1>5. \A i \in DOMAIN guesses' : guesses'[i].at <= now'
    BY <1>1, <1>2, <1>3, <1>4
  <1>6. ASSUME NEW i \in DOMAIN guesses', NEW j \in DOMAIN guesses', i <= j PROVE guesses'[i].at <= guesses'[j].at
    <2>1. CASE j \in DOMAIN guesses
      <3>1. i \in DOMAIN guesses
        BY <1>1, <1>2, <1>3, <1>6, <2>1
      <3> QED  BY <1>4, <1>6, <2>1, <3>1 DEF ThrottleTypes
    <2>2. CASE j = Len(guesses) + 1
      BY <1>2, <1>5, <2>2
    <2> QED  BY <1>3, <2>1, <2>2
  <1>7. ASSUME NEW entry, CountedEntry(entry) PROVE CountedEntry(entry)'
    <2>1. \A t \in entry.times : t.n \in DOMAIN guesses' /\ t.at = guesses'[t.n].at
      BY <1>1, <1>2, <1>7 DEF CountedEntry
    <2> QED  BY <1>7, <2>1 DEF CountedEntry
  <1> QED  BY <1>1, <1>2, <1>5, <1>6, <1>7

(* Steps without a guess.                                                    *)
LEMMA QuietKeeps ==
    ASSUME ThrottleIInv, ThrottleTypes', UNCHANGED <<guesses, fails, lockedUntil, forgotten>>, now' >= now,
           \A p \in Peers : Past(p)' \subseteq Past(p) \/ ~Locked(p)
    PROVE  ThrottleIInv'
  <1>1. \A p \in Peers : TimesOf(p)' = TimesOf(p)
    BY DEF TimesOf, Recorded
  <1>2. ASSUME NEW p \in Peers \ forgotten', NEW i \in DOMAIN guesses' PROVE WindowIs(p, i)'
    <2>1. ThrottleTypes /\ WindowIs(p, i) /\ TimesOf(p)' = TimesOf(p) /\ (Past(p)' \subseteq Past(p) \/ ~Locked(p))
      BY <1>1 DEF ThrottleIInv
    <2>2. p \in Peers /\ i \in DOMAIN guesses /\ lockedUntil'[p] = lockedUntil[p]
      OBVIOUS
    <2> QED  BY <2>1, <2>2, WindowUntouched
  <1> QED  BY <1>2 DEF ThrottleIInv

(* One lemma for each step: a knock, a right password, a wrong one.          *)
LEMMA KnockKeeps == ASSUME ThrottleIInv, NEW d \in Doors, NEW p \in Peers, Knock(d, p) PROVE ThrottleIInv'
  <1>1. /\ UNCHANGED <<now, guesses, fails, lockedUntil, forgotten>> /\ door[d] = None
        /\ door' = (IF Locked(p) THEN door ELSE [door EXCEPT ![d] = p])
    BY DEF Knock
  <1>2. ThrottleTypes'
    BY <1>1 DEF ThrottleIInv, ThrottleTypes, Recorded, CountedEntry
  <1>3. ASSUME NEW q \in Peers PROVE Past(q)' \subseteq Past(q) \/ ~Locked(q)
    BY <1>1 DEF Past, ThrottleIInv, ThrottleTypes
  <1>4. now' >= now
    BY <1>1 DEF ThrottleIInv, ThrottleTypes
  <1> QED  BY <1>1, <1>2, <1>3, <1>4, QuietKeeps

LEMMA LetInKeeps == ASSUME ThrottleIInv, NEW d \in Doors, LetIn(d) PROVE ThrottleIInv'
  <1>1. PICK p \in Peers : p = door[d]
    BY DEF LetIn
  <1>2. PICK g \in Guess : g = [peer |-> p, at |-> now, right |-> TRUE]
    BY DEF Guess, ThrottleIInv, ThrottleTypes
  <1>3. g.at = now /\ g.peer = p /\ g.right = TRUE
    BY <1>2
  <1>4. /\ fails' = [fails EXCEPT ![p] = None] /\ lockedUntil' = [lockedUntil EXCEPT ![p] = 0]
        /\ guesses' = Append(guesses, g) /\ door' = [door EXCEPT ![d] = "ok"] /\ UNCHANGED <<now, forgotten>>
    BY <1>1, <1>2 DEF LetIn
  <1>5. ThrottleTypes
    BY DEF ThrottleIInv
  <1>6. /\ guesses' \in Seq(Guess)
        /\ \A i, j \in DOMAIN guesses' : i <= j => guesses'[i].at <= guesses'[j].at
        /\ \A i \in DOMAIN guesses' : guesses'[i].at <= now'
        /\ \A entry : CountedEntry(entry) => CountedEntry(entry)'
    BY <1>3, <1>4, <1>5, GuessAdded
  <1>7. \A q \in Peers : fails'[q] = IF q = p THEN None ELSE fails[q]
    BY <1>4, <1>5 DEF ThrottleTypes
  <1>8. ThrottleTypes'
    <2>1. ASSUME NEW q \in Recorded' PROVE CountedEntry(fails[q])'
      <3>1. q \in Recorded /\ fails'[q] = fails[q]
        BY <1>7, <2>1 DEF Recorded
      <3>2. CountedEntry(fails[q])
        BY <1>5, <3>1 DEF ThrottleTypes
      <3>3. PICK entry : entry = fails[q]
        OBVIOUS
      <3>4. CountedEntry(entry)'
        BY <1>6, <3>2, <3>3
      <3> QED  BY <3>1, <3>3, <3>4 DEF CountedEntry
    <2>2. door' \in [Doors -> Peers \cup {None, "ok"}] /\ lockedUntil' \in [Peers -> Nat] /\ fails' = [q \in Peers |-> fails'[q]] /\ now' \in Nat
      BY <1>4, <1>5 DEF ThrottleTypes
    <2> QED  BY <1>6, <2>1, <2>2 DEF ThrottleTypes
  <1>9. ASSUME NEW q \in Peers \ forgotten', NEW i \in DOMAIN guesses' PROVE WindowIs(q, i)'
    <2>1. \A k \in DOMAIN guesses : WindowIs(q, k)
      BY <1>4 DEF ThrottleIInv
    <2>2. g.peer # q \/ g.right = TRUE
      BY <1>3
    <2>3. g.peer # q => TimesOf(q)' = TimesOf(q) /\ lockedUntil'[q] = lockedUntil[q]
      BY <1>3, <1>4, <1>5, <1>7 DEF TimesOf, Recorded, ThrottleTypes
    <2>4. Past(q)' \subseteq Past(q)
      BY <1>4, <1>5, ThrottleSets DEF Past, ThrottleTypes
    <2>5. guesses' = Append(guesses, g) /\ now' = now
      BY <1>4
    <2> QED  BY <1>5, <1>8, <2>1, <2>2, <2>3, <2>4, <2>5, OtherGuess
  <1> QED  BY <1>8, <1>9 DEF ThrottleIInv

\* What turning away changes: the address, its guess, what is counted of it, and who is pushed out.
TurnedAway(d, p, g, times, entry, gone) ==
    /\ p = door[d] /\ g.peer = p /\ g.at = now /\ g.right = FALSE /\ p \notin gone
    /\ times = Recent(TimesOf(p)) \cup {[n |-> Len(guesses) + 1, at |-> now]}
    /\ entry.times = (IF TooMany(times) THEN {} ELSE times) /\ entry.since \in Nat /\ entry # None
    /\ forgotten' = forgotten \cup gone
    /\ fails' = [q \in Peers |-> IF q = p THEN entry ELSE IF q \in gone THEN None ELSE fails[q]]
    /\ lockedUntil' = [q \in Peers |-> IF q = p THEN IF TooMany(times) THEN now + Lockout ELSE lockedUntil[p]
                                      ELSE IF q \in gone THEN 0 ELSE lockedUntil[q]]
    /\ guesses' = Append(guesses, g) /\ door' = [door EXCEPT ![d] = None] /\ now' = now

(* Turning away is of that form; who is pushed out is another address.       *)
LEMMA TurnAwayIs ==
    ASSUME ThrottleTypes, NEW d \in Doors, TurnAway(d)
    PROVE  \E p \in Peers, g \in Guess, gone \in SUBSET Peers : \E times, entry :
             TurnedAway(d, p, g, times, entry, gone)
  <1>1. PICK p \in Peers : p = door[d]
    BY DEF TurnAway
  <1>2. PICK g \in Guess : g = [peer |-> p, at |-> now, right |-> FALSE]
    BY DEF Guess, ThrottleTypes
  <1>3. PICK full \in BOOLEAN : full = (Cardinality(Recorded) >= FailCap /\ p \notin Recorded)
    OBVIOUS
  <1>4. PICK times : times = Recent(TimesOf(p)) \cup {[n |-> Len(guesses) + 1, at |-> now]}
    OBVIOUS
  <1>5. PICK entry : entry = [since |-> IF p \in Recorded THEN fails[p].since ELSE Len(guesses) + 1,
                              times |-> IF TooMany(times) THEN {} ELSE times]
    OBVIOUS
  <1>6. PICK old : old = Oldest
    OBVIOUS
  <1>7. full => old \in Recorded
    <2> SUFFICES ASSUME full = TRUE PROVE old \in Recorded
      OBVIOUS
    <2>1. Recorded # {}
      <3>1. Cardinality({}) = 0 /\ FailCap > 0 /\ FailCap \in Nat
        BY ThrottleNumbers, FS_EmptySet
      <3>2. Cardinality(Recorded) >= FailCap
        BY <1>3
      <3> QED  BY <3>1, <3>2
    <2>2. PICK places \in SUBSET Nat : places = {fails[q].since : q \in Recorded}
      BY DEF ThrottleTypes, CountedEntry
    <2>3. PICK first \in places : \A place \in places : first <= place
      <3>1. places # {}
        BY <2>1, <2>2
      <3> QED  BY <3>1, LeastNatural
    <2>4. PICK q \in Recorded : first = fails[q].since
      BY <2>2
    <2>5. \A r \in Recorded : fails[q].since <= fails[r].since
      BY <2>2, <2>3, <2>4
    <2> QED  BY <1>6, <2>5 DEF Oldest
  <1>8. PICK gone : gone = IF full THEN {old} ELSE {}
    OBVIOUS
  <1>9. gone \in SUBSET Peers /\ p \notin gone
    BY <1>3, <1>7, <1>8 DEF Recorded
  <1>10. PICK room, unlocked : /\ room = (IF full THEN [fails EXCEPT ![old] = None] ELSE fails)
                               /\ unlocked = (IF full THEN [lockedUntil EXCEPT ![old] = 0] ELSE lockedUntil)
    OBVIOUS
  <1>11. /\ forgotten' = (IF full THEN forgotten \cup {old} ELSE forgotten)
         /\ fails' = [room EXCEPT ![p] = entry]
         /\ lockedUntil' = (IF TooMany(times) THEN [unlocked EXCEPT ![p] = now + Lockout] ELSE unlocked)
         /\ guesses' = Append(guesses, g) /\ door' = [door EXCEPT ![d] = None] /\ now' = now
    BY <1>1, <1>2, <1>3, <1>4, <1>5, <1>6, <1>10 DEF TurnAway
  <1>12. room = [q \in Peers |-> IF q \in gone THEN None ELSE fails[q]]
    <2>1. fails = [q \in Peers |-> fails[q]]
      BY DEF ThrottleTypes
    <2> QED  BY <1>8, <1>10, <2>1
  <1>13. unlocked = [q \in Peers |-> IF q \in gone THEN 0 ELSE lockedUntil[q]]
    BY <1>8, <1>10 DEF ThrottleTypes
  <1>14. fails' = [q \in Peers |-> IF q = p THEN entry ELSE IF q \in gone THEN None ELSE fails[q]]
    BY <1>11, <1>12
  <1>15. lockedUntil' = [q \in Peers |-> IF q = p THEN IF TooMany(times) THEN now + Lockout ELSE lockedUntil[p]
                                        ELSE IF q \in gone THEN 0 ELSE lockedUntil[q]]
    BY <1>9, <1>11, <1>13
  <1>16. forgotten' = forgotten \cup gone
    BY <1>8, <1>11
  <1>17. times \in SUBSET [n : Nat, at : Nat]
    <2>1. TimesOf(p) \in SUBSET [n : Nat, at : Nat]
      BY DEF TimesOf, ThrottleTypes, CountedEntry
    <2>2. Len(guesses) + 1 \in Nat /\ now \in Nat
      BY DEF ThrottleTypes
    <2> QED  BY <1>4, <2>1, <2>2 DEF Recent
  <1>18. entry.times = (IF TooMany(times) THEN {} ELSE times) /\ entry.since \in Nat
    <2>1. p \in Recorded => fails[p].since \in Nat
      BY DEF ThrottleTypes, CountedEntry
    <2>2. Len(guesses) + 1 \in Nat
      BY DEF ThrottleTypes
    <2> QED  BY <1>5, <2>1, <2>2
  <1>19. entry \in [since : Nat, times : SUBSET [n : Nat, at : Nat]]
    <2>1. (IF TooMany(times) THEN {} ELSE times) \in SUBSET [n : Nat, at : Nat]
      BY <1>17
    <2>2. (IF p \in Recorded THEN fails[p].since ELSE Len(guesses) + 1) \in Nat
      BY <1>5, <1>18
    <2> QED  BY <1>5, <2>1, <2>2
  <1>20. entry # None
    BY <1>19, ThrottleSets
  <1>21. g.peer = p /\ g.at = now /\ g.right = FALSE
    BY <1>2
  <1>22. TurnedAway(d, p, g, times, entry, gone)
    BY <1>1, <1>4, <1>9, <1>11, <1>14, <1>15, <1>16, <1>18, <1>20, <1>21 DEF TurnedAway
  <1> QED  BY <1>9, <1>22

LEMMA TurnAwayKeeps == ASSUME ThrottleIInv, NEW d \in Doors, TurnAway(d) PROVE ThrottleIInv'
  <1>1. ThrottleTypes
    BY DEF ThrottleIInv
  <1>0. PICK p \in Peers, g \in Guess, gone \in SUBSET Peers : \E times, entry : TurnedAway(d, p, g, times, entry, gone)
    BY <1>1, TurnAwayIs
  <1>2. PICK times, entry :
             /\ p = door[d] /\ g.peer = p /\ g.at = now /\ g.right = FALSE /\ p \notin gone
             /\ times = Recent(TimesOf(p)) \cup {[n |-> Len(guesses) + 1, at |-> now]}
             /\ entry.times = (IF TooMany(times) THEN {} ELSE times) /\ entry.since \in Nat /\ entry # None
             /\ forgotten' = forgotten \cup gone
             /\ fails' = [q \in Peers |-> IF q = p THEN entry ELSE IF q \in gone THEN None ELSE fails[q]]
             /\ lockedUntil' = [q \in Peers |-> IF q = p THEN IF TooMany(times) THEN now + Lockout ELSE lockedUntil[p]
                                               ELSE IF q \in gone THEN 0 ELSE lockedUntil[q]]
             /\ guesses' = Append(guesses, g) /\ door' = [door EXCEPT ![d] = None] /\ now' = now
    BY <1>0 DEF TurnedAway
  <1>3. /\ guesses' \in Seq(Guess)
        /\ \A i, j \in DOMAIN guesses' : i <= j => guesses'[i].at <= guesses'[j].at
        /\ \A i \in DOMAIN guesses' : guesses'[i].at <= now'
        /\ \A n \in DOMAIN guesses : n \in DOMAIN guesses' /\ guesses'[n] = guesses[n]
        /\ Len(guesses) + 1 \in DOMAIN guesses' /\ guesses'[Len(guesses) + 1] = g
        /\ \A e : CountedEntry(e) => CountedEntry(e)'
    BY <1>1, <1>2, GuessAdded
  <1>4. CountedEntry(entry)'
    <2>1. /\ IsFiniteSet(TimesOf(p)) /\ TimesOf(p) \in SUBSET [n : Nat, at : Nat]
          /\ \A t \in TimesOf(p) : t.n \in DOMAIN guesses /\ t.at = guesses[t.n].at
      BY <1>1, FS_EmptySet DEF TimesOf, ThrottleTypes, CountedEntry
    <2>2. Len(guesses) + 1 \in Nat /\ now \in Nat
      BY <1>1 DEF ThrottleTypes
    <2>3. PICK latest \in [n : Nat, at : Nat] : latest = [n |-> Len(guesses) + 1, at |-> now]
      BY <2>2
    <2>4. PICK recent : recent = Recent(TimesOf(p)) /\ recent \subseteq TimesOf(p)
      BY DEF Recent
    <2>5. times = recent \cup {latest}
      BY <1>2, <2>3, <2>4
    <2>6. IsFiniteSet(recent)
      BY <2>1, <2>4, FS_Subset
    <2>7. IsFiniteSet(times)
      BY <2>5, <2>6, FS_AddElement
    <2>8. \A t \in times : t.n \in DOMAIN guesses' /\ t.at = guesses'[t.n].at
      BY <1>2, <1>3, <2>1, <2>3, <2>4, <2>5
    <2>9. times \in SUBSET [n : Nat, at : Nat]
      BY <2>1, <2>4, <2>5
    <2>10. CASE TooMany(times)
      <3>1. entry.times = {} /\ Cardinality({}) = 0 /\ IsFiniteSet({}) /\ MaxAttempts > 0
        BY <1>2, <2>10, FS_EmptySet, ThrottleNumbers
      <3> QED  BY <1>2, <3>1 DEF CountedEntry
    <2>11. CASE ~TooMany(times)
      <3>1. entry.times = times
        BY <1>2, <2>11
      <3>2. Cardinality(times) \in Nat /\ MaxAttempts \in Nat
        BY <2>7, FS_CardinalityType, ThrottleNumbers
      <3>3. Cardinality(times) < MaxAttempts
        BY <2>11, <3>2 DEF TooMany
      <3> QED  BY <1>2, <2>7, <2>8, <2>9, <3>1, <3>3 DEF CountedEntry
    <2> QED  BY <2>10, <2>11
  <1>5. \A q \in Peers : fails'[q] = IF q = p THEN entry ELSE IF q \in gone THEN None ELSE fails[q]
    BY <1>2
  <1>6. ThrottleTypes'
    <2>1. ASSUME NEW q \in Recorded' PROVE CountedEntry(fails[q])'
      <3>1. CASE q = p
        <4>1. fails'[q] = entry
          BY <1>5, <3>1
        <4> QED  BY <1>4, <4>1 DEF CountedEntry
      <3>2. CASE q # p
        <4>1. q \in Recorded /\ fails'[q] = fails[q]
          BY <1>5, <2>1, <3>2 DEF Recorded
        <4>2. PICK e : e = fails[q] /\ CountedEntry(e)
          BY <1>1, <4>1 DEF ThrottleTypes
        <4>3. CountedEntry(e)'
          BY <1>3, <4>2
        <4> QED  BY <4>1, <4>2, <4>3 DEF CountedEntry
      <3> QED  BY <3>1, <3>2
    <2>2. now + Lockout \in Nat /\ now \in Nat
      BY <1>1, ThrottleNumbers DEF ThrottleTypes
    <2>3. lockedUntil' \in [Peers -> Nat]
      BY <1>1, <1>2, <2>2 DEF ThrottleTypes
    <2>4. door' \in [Doors -> Peers \cup {None, "ok"}] /\ fails' = [q \in Peers |-> fails'[q]] /\ now' \in Nat
      BY <1>1, <1>2, <2>2 DEF ThrottleTypes
    <2> QED  BY <1>3, <2>1, <2>3, <2>4 DEF ThrottleTypes
  <1>7. ASSUME NEW q \in Peers \ forgotten', NEW i \in DOMAIN guesses' PROVE WindowIs(q, i)'
    <2>1. (\A k \in DOMAIN guesses : WindowIs(q, k)) /\ q \notin gone
      BY <1>2 DEF ThrottleIInv
    <2>2. CASE q # p
      <3>1. TimesOf(q)' = TimesOf(q) /\ lockedUntil'[q] = lockedUntil[q]
        BY <1>2, <1>5, <2>1, <2>2 DEF TimesOf, Recorded
      <3>2. Past(q)' \subseteq Past(q)
        BY <1>1, <1>2, ThrottleSets DEF Past, ThrottleTypes
      <3>3. g.peer # q /\ guesses' = Append(guesses, g) /\ now' = now
        BY <1>2, <2>2
      <3> QED  BY <1>1, <1>6, <2>1, <3>1, <3>2, <3>3, OtherGuess
    <2>3. CASE q = p
      <3>1. d \in Past(p) /\ Past(p)' = Past(p) \ {d}
        BY <1>1, <1>2, ThrottleSets DEF Past, ThrottleTypes
      <3>2. TimesOf(p)' = IF TooMany(times) THEN {} ELSE times
        BY <1>2, <1>5 DEF TimesOf, Recorded
      <3>3. lockedUntil'[p] = IF TooMany(times) THEN now + Lockout ELSE lockedUntil[p]
        BY <1>2
      <3>4. /\ g.peer = p /\ g.at = now /\ g.right = FALSE /\ guesses' = Append(guesses, g) /\ now' = now
            /\ times = Recent(TimesOf(p)) \cup {[n |-> Len(guesses) + 1, at |-> now]}
            /\ \A k \in DOMAIN guesses : WindowIs(p, k)
        BY <1>2, <2>1, <2>3
      <3>5. WindowIs(p, i)'
        BY <1>1, <1>6, <3>1, <3>2, <3>3, <3>4, WrongGuess
      <3> QED  BY <2>3, <3>5
    <2> QED  BY <2>2, <2>3
  <1> QED  BY <1>6, <1>7 DEF ThrottleIInv

LEMMA ThrottleInitHolds == ThrottleInit => ThrottleIInv
  <1> SUFFICES ASSUME ThrottleInit PROVE ThrottleIInv
    OBVIOUS
  <1>1. Recorded = {} /\ DOMAIN guesses = {}
    BY DEF ThrottleInit, Recorded
  <1>2. ThrottleTypes
    BY <1>1 DEF ThrottleInit, ThrottleTypes
  <1> QED  BY <1>1, <1>2 DEF ThrottleIInv

(* The invariant through every step.                                         *)
LEMMA ThrottleStepKeeps == ThrottleIInv /\ [ThrottleNext]_throttleVars => ThrottleIInv'
  <1> SUFFICES ASSUME ThrottleIInv, [ThrottleNext]_throttleVars PROVE ThrottleIInv'
    OBVIOUS
  <1>1. CASE \E d \in Doors : LetIn(d)
    BY <1>1, LetInKeeps
  <1>2. CASE \E d \in Doors : TurnAway(d)
    BY <1>2, TurnAwayKeeps
  <1>3. CASE \E d \in Doors, p \in Peers : Knock(d, p)
    BY <1>3, KnockKeeps
  <1>4. CASE \E d \in Doors : OpenSession(d)
    <2>1. PICK d \in Doors : OpenSession(d)
      BY <1>4
    <2>2. /\ UNCHANGED <<now, guesses, fails, lockedUntil, forgotten>>
          /\ door' = [door EXCEPT ![d] = None] /\ door[d] = "ok"
      BY <2>1 DEF OpenSession
    <2>3. ThrottleTypes' /\ now' >= now
      BY <2>2 DEF ThrottleIInv, ThrottleTypes, Recorded, CountedEntry
    <2>4. \A p \in Peers : Past(p)' \subseteq Past(p)
      BY <2>2, ThrottleSets DEF Past, ThrottleIInv, ThrottleTypes
    <2> QED  BY <2>2, <2>3, <2>4, QuietKeeps
  <1>5. CASE EndSession \/ ThrottleTick \/ UNCHANGED throttleVars
    <2>1. /\ UNCHANGED <<guesses, fails, lockedUntil, forgotten, door>>
          /\ now' = now \/ now' = now + 1
      BY <1>5 DEF EndSession, ThrottleTick, throttleVars
    <2>2. now \in Nat /\ now' \in Nat /\ now' >= now
      BY <2>1 DEF ThrottleIInv, ThrottleTypes
    <2>3. \A i \in DOMAIN guesses : guesses[i].at <= now'
      <3>1. \A i \in DOMAIN guesses : guesses[i].at <= now /\ guesses[i].at \in Nat
        BY GuessIs DEF ThrottleIInv, ThrottleTypes
      <3> QED  BY <2>2, <3>1
    <2>4. ThrottleTypes'
      BY <2>1, <2>2, <2>3 DEF ThrottleIInv, ThrottleTypes, Recorded, CountedEntry
    <2>5. \A p \in Peers : Past(p)' \subseteq Past(p)
      BY <2>1 DEF Past
    <2> QED  BY <2>1, <2>2, <2>4, <2>5, QuietKeeps
  <1> QED  BY <1>1, <1>2, <1>3, <1>4, <1>5 DEF ThrottleNext

(* Between two right passwords of one address, in any span of FailSpan, no   *)
(* more wrong ones are looked at than MaxAttempts and one for each other     *)
(* thread, unless the address was pushed out of the table: parallel guesses  *)
(* pass the lock only while they were past its look already. The argument    *)
(* follows each window: as long as it is open every failure in it is still   *)
(* counted, or the address is locked until the window is over and the        *)
(* guesses so far and the threads past the lock stay within the bound        *)
(* together.                                                                 *)
THEOREM GuessesStayBounded == ThrottleSpec => []GuessesAreBounded
  <1>1. ThrottleIInv => GuessesAreBounded
    BY DEF ThrottleIInv, WindowIs, RunIn, Clean, GuessesAreBounded
  <1> QED  BY <1>1, ThrottleInitHolds, ThrottleStepKeeps, PTL DEF ThrottleSpec

-------------------------------------------------------------------------------
(* The engines. The vulnerability scanner, the web fuzzer and the patch      *)
(* manager side by side: what they show of themselves is what they do, for   *)
(* any hosts, targets, commands and settings.                                *)

\* A flag is up while somebody will lower it.
FlagsAreLowered ==
    /\ vulnScan \in {None} \cup SUBSET (DOMAIN Hosts) /\ vulnBusy \in BOOLEAN /\ vulnStuck \in BOOLEAN
    /\ vulnAsk \in {None} \cup SUBSET (HostIds \cup {None})
    /\ vulnBusy <=> (vulnScan # None \/ vulnAsk # None \/ vulnStuck)
    /\ vulnScan = None \/ (vulnAsk = None /\ ~vulnStuck)
    /\ vulnAsk = None \/ ~vulnStuck
    /\ fuzzAsks \in [Scanners -> {"idle", "passed", "raised"}] /\ fuzzStuck \in BOOLEAN
    /\ fuzzRuns \in [Scanners -> {None} \cup [sent : Nat, found : Nat]]
    /\ fuzzing => fuzzStuck \/ \E c \in Scanners : fuzzRuns[c] # None \/ fuzzAsks[c] = "raised"

(* What is on record of a job.                                               *)
JobRows ==
    [kind : {"patch", "command"}, mode : Modes, command : Commands \cup {None},
     hosts : {TargetsOf(ids) : ids \in {{}, HostIds}}, packages : {None, "none", "sample", "listed"},
     status : {"running", "blocked", "simulated", "success", "failed"}, thread : {"none", "up", "lost"}, dry : BOOLEAN, ran : BOOLEAN]

\* A job reached a host on its thread only, and got its thread at the gate.
SoundJob(job) ==
    /\ job.thread = "up" => Gate(job) = "thread"
    /\ job.ran => job.thread = "up" /\ job.status \in {"success", "failed"}
    /\ job.ran /\ job.kind = "patch" /\ job.mode = "check" => job.dry

(* Every job on record is sound, in the settings of the start.               *)
JobsAreSound ==
    /\ inventory \in {"none", "sample", "listed"} /\ jobRecords \in Seq(JobRows)
    /\ \A i \in DOMAIN jobRecords : SoundJob(jobRecords[i])

EngineIInv == FlagsAreLowered /\ JobsAreSound

LEMMA EngineInitHolds == EngineInit => EngineIInv
  <1> SUFFICES ASSUME EngineInit PROVE EngineIInv
    OBVIOUS
  <1>1. FlagsAreLowered
    BY DEF EngineInit, VulnInit, FuzzInit, FlagsAreLowered
  <1>2. JobsAreSound
    BY DEF EngineInit, PatchInit, JobsAreSound
  <1> QED  BY <1>1, <1>2 DEF EngineIInv

(* A scan goes on: the flag is up from the request to the end, or for good   *)
(* where its start broke off.                                                *)
LEMMA VulnKeeps ==
    ASSUME FlagsAreLowered, VulnNext, UNCHANGED fuzzRest
    PROVE  FlagsAreLowered'
  <1>1. UNCHANGED <<fuzzAsks, fuzzRuns, fuzzing, fuzzStuck>>
    BY DEF fuzzRest
  <1>2. \A places \in SUBSET (DOMAIN Hosts) : places # None
    BY NoneIsNoScan
  <1>3. HostIds = {Hosts[i].id : i \in DOMAIN Hosts}
    BY ScanAssumption DEF HostIds, ToSet
  <1>4. ASSUME NEW ids \in SUBSET (HostIds \cup {None}) PROVE ids # None
    BY <1>3, NoneIsNoIds
  <1>5. CASE \E ids \in SUBSET (HostIds \cup {None}) : StartScan(ids)
    <2>1. PICK ids \in SUBSET (HostIds \cup {None}) : StartScan(ids)
      BY <1>5
    <2> QED  BY <1>1, <1>4, <2>1 DEF StartScan, FlagsAreLowered
  <1>6. CASE SelectHosts
    <2>1. HostsById(vulnAsk) \in SUBSET (DOMAIN Hosts)
      BY DEF HostsById
    <2> QED  BY <1>1, <1>2, <1>6, <2>1 DEF SelectHosts, FlagsAreLowered
  <1>7. CASE BreakStart
    BY <1>1, <1>7 DEF BreakStart, FlagsAreLowered
  <1>8. ASSUME NEW ports, NEW apt, ScanHost(ports, apt)
        PROVE  FlagsAreLowered'
    <2>1. vulnScan # None /\ vulnScan' \in SUBSET (DOMAIN Hosts)
      BY <1>8 DEF ScanHost, FlagsAreLowered
    <2> QED  BY <1>1, <1>2, <1>8, <2>1 DEF ScanHost, FlagsAreLowered
  <1>9. CASE \E ports \in PortsSeen, apt \in AptAnswers : ScanHost(ports, apt)
    BY <1>8, <1>9
  <1>10. CASE \E apt \in AptAnswers : ScanUnreachable(apt)
    <2>1. PICK apt \in AptAnswers : ScanHost({DemoPort(NextHost)}, apt)
      BY <1>10 DEF ScanUnreachable
    <2> QED  BY <1>8, <2>1
  <1>11. CASE EndScan
    <2>1. vulnScan # None
      BY <1>2, <1>11 DEF EndScan
    <2> QED  BY <1>1, <1>11, <2>1 DEF EndScan, FlagsAreLowered
  <1>12. CASE FailScan
    BY <1>1, <1>12 DEF FailScan, FlagsAreLowered
  <1> QED  BY <1>5, <1>6, <1>7, <1>9, <1>10, <1>11, <1>12 DEF VulnNext

(* A run of the fuzzer goes on.                                              *)
LEMMA FuzzKeeps ==
    ASSUME FlagsAreLowered, FuzzNext, UNCHANGED vulnRest
    PROVE  FlagsAreLowered'
  <1>1. UNCHANGED <<vulnScan, vulnBusy, vulnAsk, vulnStuck>>
    BY DEF vulnRest
  <1>2. ASSUME NEW c \in Scanners, NEW run \in [sent : Nat, found : Nat], fuzzRuns' = [fuzzRuns EXCEPT ![c] = run]
        PROVE  fuzzRuns' \in [Scanners -> {None} \cup [sent : Nat, found : Nat]] /\ fuzzRuns'[c] # None
    BY <1>2, NoneIsNoRun DEF FlagsAreLowered
  <1>3. CASE \E c \in Scanners, t \in FuzzTargets, m \in {"GET", "POST"} : AskFuzz(c, t, m)
    <2>1. PICK c \in Scanners : /\ fuzzAsks[c] = "idle" /\ ~fuzzing
                                /\ fuzzAsks' = [fuzzAsks EXCEPT ![c] = "passed"]
                                /\ UNCHANGED <<fuzzRuns, fuzzing, fuzzStuck>>
      BY <1>3 DEF AskFuzz
    <2> QED  BY <1>1, <2>1 DEF FlagsAreLowered
  <1>4. CASE \E c \in Scanners, r \in Replies : SendFuzz(c, Classify(r))
    <2>1. PICK c \in Scanners, verdict \in {Classify(r) : r \in Replies} : SendFuzz(c, verdict)
      BY <1>4
    <2>2. PICK run : run = [sent |-> fuzzRuns[c].sent + 1, found |-> fuzzRuns[c].found + IF verdict = None THEN 0 ELSE 1]
      OBVIOUS
    <2>3. fuzzRuns[c] \in [sent : Nat, found : Nat]
      BY <2>1 DEF SendFuzz, FlagsAreLowered
    <2>4. run \in [sent : Nat, found : Nat] /\ fuzzRuns' = [fuzzRuns EXCEPT ![c] = run]
      BY <2>1, <2>2, <2>3 DEF SendFuzz, FlagsAreLowered
    <2>5. UNCHANGED <<fuzzing, fuzzAsks, fuzzStuck>>
      BY <2>1 DEF SendFuzz
    <2> QED  BY <1>1, <1>2, <2>4, <2>5 DEF FlagsAreLowered
  <1>5. CASE \E c \in Scanners : RaiseFuzz(c)
    <2>1. PICK c \in Scanners : RaiseFuzz(c)
      BY <1>5
    <2>2. fuzzAsks' \in [Scanners -> {"idle", "passed", "raised"}] /\ fuzzAsks'[c] = "raised"
      BY <2>1 DEF RaiseFuzz, FlagsAreLowered
    <2> QED  BY <1>1, <2>1, <2>2 DEF RaiseFuzz, FlagsAreLowered
  <1>6. CASE \E c \in Scanners, starts \in BOOLEAN : StartFuzz(c, starts)
    <2>1. PICK c \in Scanners, starts \in BOOLEAN : StartFuzz(c, starts)
      BY <1>6
    <2>2. PICK run \in [sent : Nat, found : Nat] : run = [sent |-> 0, found |-> 0]
      OBVIOUS
    <2>3. fuzzAsks' \in [Scanners -> {"idle", "passed", "raised"}] /\ fuzzStuck' \in BOOLEAN /\ fuzzing' = fuzzing
      BY <2>1 DEF StartFuzz, FlagsAreLowered
    <2>4. CASE starts
      <3>1. fuzzRuns' = [fuzzRuns EXCEPT ![c] = run]
        BY <2>1, <2>2, <2>4 DEF StartFuzz
      <3> QED  BY <1>1, <1>2, <2>3, <3>1 DEF FlagsAreLowered
    <2>5. CASE ~starts
      <3>1. fuzzRuns' = fuzzRuns /\ (fuzzing => fuzzStuck')
        BY <2>1, <2>5 DEF StartFuzz
      <3> QED  BY <1>1, <2>3, <3>1 DEF FlagsAreLowered
    <2> QED  BY <2>4, <2>5
  <1>7. CASE \E c \in Scanners : EndFuzz(c)
    BY <1>1, <1>7 DEF EndFuzz, FlagsAreLowered
  <1>8. CASE StopFuzz
    BY <1>1, <1>8 DEF StopFuzz, FlagsAreLowered
  <1> QED  BY <1>3, <1>4, <1>5, <1>6, <1>7, <1>8 DEF FuzzNext

(* A job is opened, decided and executed.                                    *)
LEMMA PatchKeeps == ASSUME JobsAreSound, PatchNext PROVE JobsAreSound'
  <1>1. patchSetup' = patchSetup
    BY DEF PatchNext, ScanPackages, OpenJob, DecideJob, ExecuteJob
  <1>2. \A job : Gate(job)' = Gate(job) /\ (SoundJob(job)' <=> SoundJob(job))
    BY <1>1 DEF Gate, SoundJob
  <1>3. ASSUME NEW packages \in {None, "listed"}, ScanPackages(packages) PROVE JobsAreSound'
    BY <1>2, <1>3 DEF ScanPackages, JobsAreSound
  <1>4. ASSUME NEW kind \in {"patch", "command"}, NEW m \in Modes, NEW cmd \in Commands \cup {None},
               NEW ids \in {{}, HostIds}, OpenJob(kind, m, cmd, ids)
        PROVE  JobsAreSound'
    <2>1. PICK job : /\ jobRecords' = Append(jobRecords, job) /\ inventory' = inventory
                     /\ job = [kind |-> kind, mode |-> m, command |-> cmd, hosts |-> TargetsOf(ids),
                               packages |-> IF kind = "patch" THEN inventory ELSE None,
                               status |-> "running", thread |-> "none", dry |-> FALSE, ran |-> FALSE]
      BY <1>4 DEF OpenJob
    <2>2. job \in JobRows
      BY <2>1 DEF JobRows, JobsAreSound
    <2>3. SoundJob(job)
      BY <2>1 DEF SoundJob
    <2>4. /\ jobRecords' \in Seq(JobRows) /\ DOMAIN jobRecords' = 1..(Len(jobRecords) + 1)
          /\ \A i \in 1..(Len(jobRecords) + 1) :
                jobRecords'[i] = IF i <= Len(jobRecords) THEN jobRecords[i] ELSE job
      BY <2>1, <2>2 DEF JobsAreSound
    <2>5. \A i \in DOMAIN jobRecords' : SoundJob(jobRecords'[i])
      BY <2>3, <2>4 DEF JobsAreSound
    <2> QED  BY <1>2, <2>1, <2>4, <2>5 DEF JobsAreSound
  <1>5. ASSUME NEW i \in DOMAIN jobRecords, NEW job \in JobRows, SoundJob(job),
               jobRecords' = [jobRecords EXCEPT ![i] = job], inventory' = inventory
        PROVE  JobsAreSound'
    BY <1>2, <1>5 DEF JobsAreSound
  <1>6. ASSUME NEW i \in DOMAIN jobRecords, NEW starts \in BOOLEAN, DecideJob(i, starts) PROVE JobsAreSound'
    <2>1. PICK old \in JobRows : old = jobRecords[i] /\ SoundJob(old) /\ old.status = "running" /\ old.thread = "none"
      BY <1>6 DEF DecideJob, JobsAreSound
    <2>2. PICK job : job = IF Gate(old) # "thread" THEN [old EXCEPT !.status = Gate(old)]
                           ELSE [old EXCEPT !.thread = IF starts THEN "up" ELSE "lost"]
      OBVIOUS
    <2>3. Gate(old) \in {"thread", "blocked", "simulated"}
      BY DEF Gate
    <2>4. job \in JobRows
      BY <2>2, <2>3 DEF JobRows
    <2>5. job.kind = old.kind /\ job.mode = old.mode /\ job.command = old.command /\ job.ran = old.ran
      BY <2>2 DEF JobRows
    <2>6. Gate(job) = Gate(old)
      BY <2>5 DEF Gate
    <2>7. job.thread = "up" => Gate(old) = "thread"
      BY <2>1, <2>2 DEF JobRows
    <2>8. ~job.ran
      BY <2>1, <2>5 DEF SoundJob
    <2>9. jobRecords' = [jobRecords EXCEPT ![i] = job] /\ inventory' = inventory
      BY <1>6, <2>1, <2>2 DEF DecideJob
    <2> QED  BY <1>5, <2>4, <2>6, <2>7, <2>8, <2>9 DEF SoundJob
  <1>7. ASSUME NEW i \in DOMAIN jobRecords, NEW o \in {"zero", "nonzero", "timeout", "broken"}, ExecuteJob(i, o)
        PROVE  JobsAreSound'
    <2>1. PICK old \in JobRows : old = jobRecords[i] /\ SoundJob(old) /\ old.status = "running" /\ old.thread = "up"
      BY <1>7 DEF ExecuteJob, JobsAreSound
    <2>2. PICK job : job = IF Calls(old) THEN [old EXCEPT !.status = IF o = "zero" THEN "success" ELSE "failed",
                                                            !.dry = old.kind = "patch" /\ old.mode = "check",
                                                            !.ran = o # "broken"]
                           ELSE [old EXCEPT !.status = "simulated"]
      OBVIOUS
    <2>3. job \in JobRows
      BY <2>2 DEF JobRows
    <2>4. job.kind = old.kind /\ job.mode = old.mode /\ job.command = old.command /\ job.thread = old.thread
      BY <2>2 DEF JobRows
    <2>5. Gate(job) = "thread"
      BY <2>1, <2>4 DEF Gate, SoundJob
    <2>6. job.ran => job.status \in {"success", "failed"}
      BY <2>1, <2>2 DEF JobRows, SoundJob
    <2>8. job.ran /\ job.kind = "patch" /\ job.mode = "check" => job.dry
      BY <2>1, <2>2, <2>4 DEF JobRows, SoundJob
    <2>7. jobRecords' = [jobRecords EXCEPT ![i] = job] /\ inventory' = inventory
      BY <1>7, <2>1, <2>2 DEF ExecuteJob
    <2> QED  BY <1>5, <2>1, <2>3, <2>4, <2>5, <2>6, <2>7, <2>8 DEF SoundJob
  <1> QED  BY <1>3, <1>4, <1>6, <1>7 DEF PatchNext

LEMMA EngineStepKeeps == EngineIInv /\ [EngineNext]_engineVars => EngineIInv'
  <1> SUFFICES ASSUME EngineIInv, [EngineNext]_engineVars PROVE EngineIInv'
    OBVIOUS
  <1>1. ASSUME UNCHANGED patchRest PROVE JobsAreSound'
    BY <1>1 DEF patchRest, EngineIInv, JobsAreSound, SoundJob, Gate
  <1>2. CASE VulnNext /\ UNCHANGED <<fuzzRest, patchRest>>
    BY <1>1, <1>2, VulnKeeps DEF EngineIInv
  <1>3. CASE FuzzNext /\ UNCHANGED <<vulnRest, patchRest>>
    BY <1>1, <1>3, FuzzKeeps DEF EngineIInv
  <1>4. CASE PatchNext /\ UNCHANGED <<vulnRest, fuzzRest>>
    <2>1. FlagsAreLowered'
      BY <1>4 DEF vulnRest, fuzzRest, EngineIInv, FlagsAreLowered
    <2> QED  BY <1>4, <2>1, PatchKeeps DEF EngineIInv
  <1>5. CASE UNCHANGED engineVars
    <2>1. FlagsAreLowered'
      BY <1>5 DEF engineVars, vulnRest, fuzzRest, EngineIInv, FlagsAreLowered
    <2> QED  BY <1>1, <1>5, <2>1 DEF engineVars, EngineIInv
  <1> QED  BY <1>2, <1>3, <1>4, <1>5 DEF EngineNext

(* The scanner is busy exactly while a scan starts or runs, or after a start *)
(* that broke off under its flag; the fuzzer that shows itself running has a *)
(* run, a request that starts one, or such a start. A job that is recorded   *)
(* as blocked or simulated has reached no host. A command that reached one   *)
(* was to be applied, with applying allowed, and stood the check; a patch    *)
(* run that reached one was dry or applying is allowed, unless its mode was  *)
(* neither of the two words the gate knows. However jobs, scans and runs     *)
(* cross and whichever of them fail, at the start too.                       *)
THEOREM EnginesAreTrue == EngineSpec => []EnginesTellTruth
  <1>1. EngineIInv => EnginesTellTruth
    <2> SUFFICES ASSUME EngineIInv PROVE EnginesTellTruth
      OBVIOUS
    <2>1. ASSUME NEW i \in DOMAIN jobRecords
          PROVE  LET job == jobRecords[i] IN
                 /\ job.status \in {"blocked", "simulated"} => ~job.ran
                 /\ job.ran /\ job.kind = "command" => job.mode = "apply" /\ patchSetup.apply /\ CheckCommand(job.command)
                 /\ job.ran /\ ~job.dry => patchSetup.apply \/ (job.kind = "patch" /\ job.mode = "other")
      <3>1. SoundJob(jobRecords[i]) /\ jobRecords[i] \in JobRows
        BY DEF EngineIInv, JobsAreSound
      <3>2. jobRecords[i].kind \in {"patch", "command"} /\ jobRecords[i].mode \in {"check", "apply", "other"}
          BY <3>1 DEF JobRows, Modes
      <3> QED  BY <3>1, <3>2 DEF SoundJob, Gate
    <2> QED  BY <2>1 DEF EngineIInv, FlagsAreLowered, EnginesTellTruth
  <1> QED  BY <1>1, EngineInitHolds, EngineStepKeeps, PTL DEF EngineSpec
===============================================================================
