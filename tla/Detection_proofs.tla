--------------------------- MODULE Detection_proofs ---------------------------
(* Theorems about the detection side: the alert pipeline, correlation, the   *)
(* windows over packets, the syslog receiver and the readers of logs.        *)
EXTENDS AlertPipeline, SiemCorrelation, PacketWindows, SyslogReceiver, LogTails,
        SequenceTheorems, FiniteSetTheorems, WellFoundedInduction, TLAPS

-------------------------------------------------------------------------------
(* Numbers: a set of them that is not empty has a least one, and a greatest  *)
(* one where it is bounded.                                                  *)

(* A set of numbers that is not empty has a least one.                       *)
LEMMA LeastNatural == \A T \in SUBSET Nat : T # {} => \E x \in T : \A y \in T : x <= y
  <1> SUFFICES ASSUME NEW T \in SUBSET Nat, T # {} PROVE \E x \in T : \A y \in T : x <= y
    OBVIOUS
  <1>1. PICK x \in T : \A y \in T : ~(<<y, x>> \in OpToRel(<, Nat))
    BY NatLessThanWellFounded, WFMin, Zenon
  <1>2. \A y \in T : ~(y < x)
    <2>1. SUFFICES ASSUME NEW y \in T, y < x PROVE FALSE
      OBVIOUS
    <2>2. <<y, x>> \in OpToRel(<, Nat)
      BY <2>1 DEF OpToRel
    <2> QED  BY <1>1, <2>2
  <1> QED  BY <1>2

(* A set of numbers up to n that is not empty has a greatest one.            *)
LEMMA GreatestBelow ==
    ASSUME NEW n \in Nat, NEW S \in SUBSET (1..n), S # {}
    PROVE  \E m \in S : \A x \in S : x <= m
  <1> DEFINE T == {n - x : x \in S}
  <1>1. T \in SUBSET Nat /\ T # {}
    OBVIOUS
  <1>2. PICK least \in T : \A y \in T : least <= y
    BY <1>1, LeastNatural
  <1>3. PICK m \in S : least = n - m
    BY <1>2
  <1>4. ASSUME NEW x \in S PROVE x <= m
    <2>1. n - m <= n - x
      BY <1>2, <1>3
    <2> QED  BY <2>1
  <1> QED  BY <1>4


-------------------------------------------------------------------------------
(* The alert pipeline. Every event is kept where its call says it was kept,  *)
(* merged events name an alert of their fingerprint, and storms are          *)
(* announced, for any number of reporters, any capacity of the list, failed  *)
(* writes and restarts.                                                      *)

(* What the variables hold.                                                  *)
Labels == {"idle", "rules", "record", "count", "countStored", "append", "save", "note"}
Calls == [pc : Labels, n : Nat, id : Nat, fp : Prints \cup {None}, at : Nat,
          verdict : {"pass", "unjudged", "suppress", "duplicate", "storm"}, parent : Nat \cup {None},
          count : Nat, spoiled : BOOLEAN]
Entries == [alert : Nat \cup {None}, last : Nat, count : Nat, storm : BOOLEAN, summary : Nat]
AlertRows == [id : Nat, n : Nat, fp : Prints, count : Nat, ack : BOOLEAN]

(* Where a call is.                                                          *)
Active(c) == c.pc # "idle"
\* The alert of such a call, if it is to have one, is not written yet.
Unwritten == {"rules", "record", "count", "countStored", "append", "save"}

(* The variables hold what they should.                                      *)
PipelineTypes ==
    /\ now \in Nat /\ lastId \in Nat /\ arrived \in Nat
    /\ call \in [Reporters -> Calls]
    /\ \A t \in Reporters : Active(call[t]) => call[t].fp \in Prints
    /\ state \in [Prints -> Entries \cup {None}]
    /\ memory \in Seq(AlertRows)
    /\ \A i \in DOMAIN store : store[i] \in AlertRows

\* Ids are handed out once, as far as anything still tells of them.
IdsAreOnce ==
    /\ \A i \in DOMAIN store : i \in Nat /\ i <= lastId /\ store[i].id = i
    /\ \A i \in DOMAIN memory : memory[i].id <= lastId
    /\ \A t \in Reporters : Active(call[t]) =>
          /\ call[t].id <= lastId
          /\ \A u \in Reporters : Active(call[u]) /\ call[u].id = call[t].id => u = t
          /\ call[t].pc \in Unwritten => call[t].id \notin DOMAIN store
          /\ \A i \in DOMAIN memory : memory[i].id = call[t].id =>
                memory[i].n = call[t].n /\ memory[i].fp = call[t].fp

\* The alert an event was merged into, or is to be, is one of its fingerprint.
Sound(parent, f) ==
    parent = None \/ parent \in unsaved \/ (parent \in DOMAIN store /\ store[parent].fp = f)
ParentOf(t) ==
    Active(call[t]) =>
        Sound(call[t].parent, call[t].fp) /\ (call[t].pc = "note" => Sound(call[t].id, call[t].fp))
StatesAreSound == \A f \in Prints : state[f] # None => Sound(state[f].alert, f)
EventsAreSound == \A e \in events : Sound(e.parent, e.fp)
ParentsAreSound ==
    StatesAreSound /\ (\A t \in Reporters : ParentOf(t)) /\ EventsAreSound

\* Where an event was kept by the time its call is over.
Kept(n) == (\E i \in DOMAIN store : store[i].n = n) \/ (\E e \in events : e.n = n)
CallsKeep ==
    \A t \in Reporters : call[t].pc \in {"count", "countStored", "note"} /\ ~call[t].spoiled => Kept(call[t].n)

\* Who announced the storm that lasts.
Told(f, at) ==
    \/ \E c \in finished : c.fp = f /\ c.at = at /\ c.verdict = "storm"
    \/ \E t \in Reporters : /\ call[t].pc \in {"append", "save", "note"} /\ call[t].fp = f
                            /\ call[t].at = at /\ call[t].verdict = "storm"
StormsAreTold ==
    \A f \in Prints : state[f] # None /\ state[f].storm =>
        state[f].last - state[f].summary < SummaryEvery /\ Told(f, state[f].summary)

PipelineIInv ==
    PipelineTypes /\ IdsAreOnce /\ ParentsAreSound /\ CallsKeep /\ NothingVanishes /\ StormsAreTold

(* At the start nothing is kept and no call is under way.                    *)
LEMMA PipelineInitHolds == PipelineInit => PipelineIInv
  <1> SUFFICES ASSUME PipelineInit PROVE PipelineIInv
    OBVIOUS
  <1>1. Ended \in Calls
    BY DEF Ended, Calls, Labels
  <1>2. PipelineTypes
    BY <1>1 DEF PipelineInit, PipelineTypes, Active, Ended
  <1> QED
    BY <1>2 DEF PipelineInit, PipelineIInv, IdsAreOnce, ParentsAreSound, StatesAreSound, EventsAreSound, ParentOf, CallsKeep, NothingVanishes,
                StormsAreTold, Active, Ended

\* No step takes a row from the store, nor what it is about.
RecordsStay ==
    /\ \A i \in DOMAIN store : /\ i \in DOMAIN store'
                               /\ store'[i].n = store[i].n /\ store'[i].fp = store[i].fp
    /\ unsaved \subseteq unsaved' /\ events \subseteq events' /\ finished \subseteq finished'

(* An alert once named stays one of that fingerprint.                        *)
LEMMA SoundStays ==
    ASSUME RecordsStay, NEW parent, NEW f, Sound(parent, f)
    PROVE  Sound(parent, f)'
  BY DEF RecordsStay, Sound

(* An event once kept stays kept.                                            *)
LEMMA KeptStays ==
    ASSUME RecordsStay, NEW n, Kept(n)
    PROVE  Kept(n)'
  BY DEF RecordsStay, Kept

\* A thread goes on with its call or ends it.
Goes(t, x) ==
    /\ call' = [call EXCEPT ![t] = x] /\ x \in Calls
    /\ Active(x) =>
          /\ Active(call[t]) /\ x.id = call[t].id /\ x.n = call[t].n /\ x.fp = call[t].fp
          /\ x.pc \in Unwritten => call[t].pc \in Unwritten
\* Rows come from rows, from the call's alert, or are new in the store.
MemoryFrom(t) ==
    \A i \in DOMAIN memory' :
        \/ \E j \in DOMAIN memory : /\ memory'[i].id = memory[j].id /\ memory'[i].n = memory[j].n
                                    /\ memory'[i].fp = memory[j].fp
        \/ memory'[i].id = call[t].id /\ memory'[i].n = call[t].n /\ memory'[i].fp = call[t].fp
StoreFrom(t, x) ==
    \A i \in DOMAIN store' :
        store'[i].id = i /\ (i \in DOMAIN store \/ (i = call[t].id /\ x.pc \notin Unwritten))

(* Only one call has changed.                                                *)
LEMMA GoesTypes ==
    ASSUME PipelineIInv, NEW t \in Reporters, NEW x, Goes(t, x)
    PROVE  /\ call' \in [Reporters -> Calls] /\ call'[t] = x
           /\ \A u \in Reporters : u # t => call'[u] = call[u]
           /\ \A u \in Reporters : Active(call'[u]) => Active(call[u]) /\ call'[u].fp = call[u].fp /\ call'[u].fp \in Prints
  BY DEF PipelineIInv, PipelineTypes, Goes

(* Ids stay unique when one call goes on.                                    *)
LEMMA IdsKept ==
    ASSUME PipelineIInv, NEW t \in Reporters, NEW x, Goes(t, x), Active(call[t]), MemoryFrom(t), StoreFrom(t, x),
           lastId' = lastId
    PROVE  IdsAreOnce'
  <1>1. /\ \A u \in Reporters : u # t => call'[u] = call[u]
        /\ call'[t] = x
        /\ Active(x) => /\ x.id = call[t].id /\ x.n = call[t].n /\ x.fp = call[t].fp
                        /\ x.pc \in Unwritten => call[t].pc \in Unwritten
    BY GoesTypes DEF Goes
  <1>2. IdsAreOnce /\ call[t].id \in Nat
    BY DEF PipelineIInv, PipelineTypes, Calls
  <1>3. ASSUME NEW u \in Reporters, Active(call'[u])
        PROVE  /\ Active(call[u]) /\ call'[u].id = call[u].id /\ call'[u].n = call[u].n /\ call'[u].fp = call[u].fp
               /\ call'[u].pc \in Unwritten => call[u].pc \in Unwritten
    BY <1>1, <1>3
  <1>4. \A i \in DOMAIN store' : i \in Nat /\ i <= lastId' /\ store'[i].id = i
    BY <1>2 DEF StoreFrom, IdsAreOnce
  <1>5. \A i \in DOMAIN memory' : memory'[i].id <= lastId'
    BY <1>2 DEF MemoryFrom, IdsAreOnce
  <1>6. ASSUME NEW u \in Reporters, Active(call'[u])
        PROVE  /\ call'[u].id <= lastId'
               /\ \A v \in Reporters : Active(call'[v]) /\ call'[v].id = call'[u].id => v = u
    BY <1>2, <1>3, <1>6 DEF IdsAreOnce
  <1>7. ASSUME NEW u \in Reporters, Active(call'[u]), call'[u].pc \in Unwritten
        PROVE  call'[u].id \notin DOMAIN store'
    <2>1. call[u].id \notin DOMAIN store /\ Active(call[u]) /\ call'[u].id = call[u].id
      BY <1>2, <1>3, <1>7 DEF IdsAreOnce
    <2>2. u # t => call[u].id # call[t].id
      BY <1>2, <2>1 DEF IdsAreOnce
    <2> QED  BY <1>1, <1>7, <2>1, <2>2 DEF StoreFrom
  <1>8. ASSUME NEW u \in Reporters, Active(call'[u]), NEW i \in DOMAIN memory', memory'[i].id = call'[u].id
        PROVE  memory'[i].n = call'[u].n /\ memory'[i].fp = call'[u].fp
    <2>1. Active(call[u]) /\ call'[u].id = call[u].id /\ call'[u].n = call[u].n /\ call'[u].fp = call[u].fp
      BY <1>3, <1>8
    <2>2. CASE memory'[i].id = call[t].id /\ memory'[i].n = call[t].n /\ memory'[i].fp = call[t].fp
      <3>1. u = t
        BY <1>2, <1>8, <2>1, <2>2 DEF IdsAreOnce
      <3> QED  BY <2>1, <2>2, <3>1
    <2>3. ASSUME NEW j \in DOMAIN memory, memory'[i].id = memory[j].id, memory'[i].n = memory[j].n,
                 memory'[i].fp = memory[j].fp
          PROVE  memory'[i].n = call'[u].n /\ memory'[i].fp = call'[u].fp
      BY <1>2, <1>8, <2>1, <2>3 DEF IdsAreOnce
    <2> QED  BY <2>2, <2>3 DEF MemoryFrom
  <1> QED  BY <1>4, <1>5, <1>6, <1>7, <1>8 DEF IdsAreOnce

\* What is said of the calls, if the one that goes on has it said.
LEMMA CallsKept ==
    ASSUME PipelineIInv, RecordsStay, NEW t \in Reporters, NEW x, Goes(t, x),
           Active(x) => Sound(x.parent, x.fp)',
           x.pc = "note" => Sound(x.id, x.fp)',
           x.pc \in {"count", "countStored", "note"} /\ ~x.spoiled => Kept(x.n)'
    PROVE  (\A u \in Reporters : ParentOf(u)') /\ CallsKeep'
  <1>1. /\ \A u \in Reporters : u # t => call'[u] = call[u]
        /\ call'[t] = x
    BY GoesTypes
  <1>2. ASSUME NEW u \in Reporters
        PROVE  /\ ParentOf(u)'
               /\ (call[u].pc \in {"count", "countStored", "note"} /\ ~call[u].spoiled => Kept(call[u].n))'
    <2>1. PICK c : c = call'[u]
      OBVIOUS
    <2>2. CASE u # t
      <3>1. c = call[u]
        BY <1>1, <2>1, <2>2
      <3>2. /\ Active(c) => Sound(c.parent, c.fp) /\ (c.pc = "note" => Sound(c.id, c.fp))
            /\ c.pc \in {"count", "countStored", "note"} /\ ~c.spoiled => Kept(c.n)
        BY <3>1 DEF PipelineIInv, ParentsAreSound, ParentOf, CallsKeep
      <3>3. /\ Active(c) => Sound(c.parent, c.fp)' /\ (c.pc = "note" => Sound(c.id, c.fp)')
            /\ c.pc \in {"count", "countStored", "note"} /\ ~c.spoiled => Kept(c.n)'
        BY <3>2, SoundStays, KeptStays
      <3> QED  BY <2>1, <3>3 DEF ParentOf
    <2>3. CASE u = t
      <3>1. c = x
        BY <1>1, <2>1, <2>3
      <3>2. x.pc = "note" => Active(x)
        BY DEF Active
      <3> QED  BY <2>1, <3>1, <3>2 DEF ParentOf
    <2> QED  BY <2>2, <2>3
  <1> QED  BY <1>2 DEF CallsKeep

(* From the verdict to its end a call is on its way to announce.             *)
Announcing == {"append", "save", "note"}
Over(c) == [c EXCEPT !.pc = "idle"]
\* Who announces goes on announcing until the call is over and remembered.
Announces(t, x) ==
    call[t].pc \in Announcing =>
        \/ x.pc \in Announcing /\ x.fp = call[t].fp /\ x.at = call[t].at /\ x.verdict = call[t].verdict
        \/ Over(call[t]) \in finished'
FinishedFrom(t) ==
    \/ finished' = finished
    \/ finished' = finished \cup {Over(call[t])} /\ call[t].pc \in {"countStored", "note"}

(* An announcement is not lost when a call goes on or ends.                  *)
LEMMA ToldStays ==
    ASSUME PipelineIInv, RecordsStay, NEW t \in Reporters, NEW x, Goes(t, x), Announces(t, x),
           NEW f, NEW at, Told(f, at)
    PROVE  Told(f, at)'
  <1>1. CASE \E c \in finished : c.fp = f /\ c.at = at /\ c.verdict = "storm"
    BY <1>1 DEF RecordsStay, Told
  <1>2. ASSUME NEW u \in Reporters, call[u].pc \in Announcing, call[u].fp = f, call[u].at = at,
               call[u].verdict = "storm"
        PROVE  Told(f, at)'
    <2>1. CASE u # t
      <3>1. call'[u] = call[u]
        BY <2>1, GoesTypes
      <3> QED  BY <1>2, <3>1 DEF Told, Announcing
    <2>2. CASE u = t
      <3>1. call'[t] = x
        BY GoesTypes
      <3>2. CASE Over(call[t]) \in finished'
        <4>1. call[t] \in Calls
          BY DEF PipelineIInv, PipelineTypes
        <4>2. Over(call[t]).fp = f /\ Over(call[t]).at = at /\ Over(call[t]).verdict = "storm"
          BY <1>2, <2>2, <4>1 DEF Over, Calls
        <4> QED  BY <3>2, <4>2 DEF Told
      <3>3. CASE x.pc \in Announcing /\ x.fp = call[t].fp /\ x.at = call[t].at /\ x.verdict = call[t].verdict
        BY <1>2, <2>2, <3>1, <3>3 DEF Told, Announcing
      <3> QED  BY <1>2, <2>2, <3>2, <3>3 DEF Announces
    <2> QED  BY <2>1, <2>2
  <1> QED  BY <1>1, <1>2 DEF Told, Announcing

(* Storms stay announced where the fingerprint table keeps its times.        *)
LEMMA StormsKept ==
    ASSUME PipelineIInv, RecordsStay, NEW t \in Reporters, NEW x, Goes(t, x), Announces(t, x), state' = state
    PROVE  StatesAreSound' /\ StormsAreTold'
  <1>1. StatesAreSound'
    BY SoundStays DEF PipelineIInv, ParentsAreSound, StatesAreSound
  <1>2. ASSUME NEW f \in Prints, state[f] # None, state[f].storm
        PROVE  state[f].last - state[f].summary < SummaryEvery /\ Told(f, state[f].summary)'
    <2>1. state[f].last - state[f].summary < SummaryEvery /\ Told(f, state[f].summary)
      BY <1>2 DEF PipelineIInv, StormsAreTold
    <2>2. PICK at : at = state[f].summary
      OBVIOUS
    <2>3. Told(f, at)'
      BY <2>1, <2>2, ToldStays
    <2>4. state'[f].summary = at
      BY <2>2
    <2> QED  BY <2>1, <2>3, <2>4
  <1> QED  BY <1>1, <1>2 DEF StormsAreTold

\* An event is either an alert in the store or kept when its call is over.
LEMMA NothingVanishesStill ==
    ASSUME PipelineIInv, RecordsStay, NEW t \in Reporters, FinishedFrom(t)
    PROVE  NothingVanishes'
  <1>1. ASSUME NEW c \in finished', ~c.spoiled PROVE Kept(c.n)'
    <2>1. CASE c \in finished
      <3>1. Kept(c.n)
        BY <1>1, <2>1 DEF PipelineIInv, NothingVanishes, Kept
      <3> QED  BY <3>1, KeptStays
    <2>2. CASE c = Over(call[t]) /\ call[t].pc \in {"countStored", "note"}
      <3>1. call[t] \in Calls
        BY DEF PipelineIInv, PipelineTypes
      <3>2. c.n = call[t].n /\ c.spoiled = call[t].spoiled
        BY <2>2, <3>1 DEF Over, Calls
      <3>3. Kept(c.n)
        BY <1>1, <2>2, <3>2 DEF PipelineIInv, CallsKeep
      <3> QED  BY <3>3, KeptStays
    <2> QED  BY <2>1, <2>2 DEF FinishedFrom
  <1> QED  BY <1>1 DEF NothingVanishes, Kept

\* A call goes on: what each action has to see to.
LEMMA CallGoesOn ==
    ASSUME PipelineIInv, RecordsStay, NEW t \in Reporters, NEW x, Goes(t, x), Active(call[t]),
           MemoryFrom(t), StoreFrom(t, x), FinishedFrom(t),
           UNCHANGED <<now, lastId, arrived>>,
           state' \in [Prints -> Entries \cup {None}], memory' \in Seq(AlertRows),
           \A i \in DOMAIN store' : store'[i] \in AlertRows,
           Active(x) => Sound(x.parent, x.fp)',
           x.pc = "note" => Sound(x.id, x.fp)',
           x.pc \in {"count", "countStored", "note"} /\ ~x.spoiled => Kept(x.n)',
           StatesAreSound', EventsAreSound', StormsAreTold'
    PROVE  PipelineIInv'
  <1>1. PipelineTypes'
    BY GoesTypes DEF PipelineIInv, PipelineTypes
  <1>2. IdsAreOnce'
    BY IdsKept
  <1>3. (\A u \in Reporters : ParentOf(u)') /\ CallsKeep'
    BY CallsKept
  <1>4. NothingVanishes'
    BY NothingVanishesStill
  <1> QED  BY <1>1, <1>2, <1>3, <1>4 DEF PipelineIInv, ParentsAreSound

(* What holds of a step that leaves a part alone.                            *)
LEMMA SameMemory == ASSUME NEW t, memory' = memory PROVE MemoryFrom(t)
  BY DEF MemoryFrom
LEMMA SameStore == ASSUME PipelineIInv, NEW t, NEW x, store' = store PROVE StoreFrom(t, x)
  BY DEF StoreFrom, PipelineIInv, IdsAreOnce
LEMMA SameEvents == ASSUME PipelineIInv, RecordsStay, events' = events PROVE EventsAreSound'
  BY SoundStays DEF PipelineIInv, ParentsAreSound, EventsAreSound
LEMMA NothingWritten ==
    ASSUME UNCHANGED <<store, unsaved>>, events \subseteq events', finished \subseteq finished'
    PROVE  RecordsStay
  BY DEF RecordsStay

\* An event is reported: its id is new.
LEMMA ReportKeeps ==
    ASSUME PipelineIInv, NEW t \in Reporters, NEW f \in Prints, Report(t, f)
    PROVE  PipelineIInv'
  <1>1. PICK x : x = [Ended EXCEPT !.pc = "rules", !.n = arrived + 1, !.id = lastId + 1, !.fp = f, !.at = now]
    OBVIOUS
  <1>2. /\ x \in Calls /\ x.pc = "rules" /\ x.id = lastId + 1 /\ x.fp = f /\ x.parent = None
    <2>1. x = [pc |-> "rules", n |-> arrived + 1, id |-> lastId + 1, fp |-> f, at |-> now,
               verdict |-> "pass", parent |-> None, count |-> 1, spoiled |-> FALSE]
      BY <1>1 DEF Ended
    <2>2. arrived + 1 \in Nat /\ lastId + 1 \in Nat /\ now \in Nat
      BY DEF PipelineIInv, PipelineTypes
    <2> QED  BY <2>1, <2>2 DEF Calls, Labels
  <1>3. /\ call' = [call EXCEPT ![t] = x] /\ lastId' = lastId + 1 /\ arrived' = arrived + 1
        /\ UNCHANGED <<now, state, events, memory, store, finished, unsaved>>
        /\ call[t].pc = "idle"
    BY <1>1 DEF Report, At
  <1>4. call'[t] = x /\ \A u \in Reporters : u # t => call'[u] = call[u]
    BY <1>3 DEF PipelineIInv, PipelineTypes
  <1>5. PipelineTypes'
    BY <1>2, <1>3 DEF PipelineIInv, PipelineTypes, Active
  <1>6. RecordsStay
    BY <1>3, NothingWritten
  <1>7. IdsAreOnce'
    <2>1. IdsAreOnce /\ lastId \in Nat /\ \A u \in Reporters : call[u].id \in Nat
      BY DEF PipelineIInv, PipelineTypes, Calls
    <2>2. \A i \in DOMAIN memory : memory[i].id \in Nat
      <3>1. \A i \in DOMAIN memory : memory[i] \in AlertRows
        BY DEF PipelineIInv, PipelineTypes
      <3> QED  BY <3>1 DEF AlertRows
    <2>3. \A i \in DOMAIN store' : i \in Nat /\ i <= lastId' /\ store'[i].id = i
      BY <1>3, <2>1 DEF IdsAreOnce
    <2>4. \A i \in DOMAIN memory' : memory'[i].id <= lastId'
      BY <1>3, <2>1, <2>2 DEF IdsAreOnce
    <2>5. ASSUME NEW u \in Reporters, Active(call'[u])
          PROVE  /\ call'[u].id <= lastId'
                 /\ \A v \in Reporters : Active(call'[v]) /\ call'[v].id = call'[u].id => v = u
                 /\ call'[u].pc \in Unwritten => call'[u].id \notin DOMAIN store'
                 /\ \A i \in DOMAIN memory' : memory'[i].id = call'[u].id =>
                      memory'[i].n = call'[u].n /\ memory'[i].fp = call'[u].fp
      <3>1. CASE u = t
        <4>1. call'[u].id = lastId + 1
          BY <3>1, <1>2, <1>4
        <4>2. ASSUME NEW v \in Reporters, Active(call'[v]), call'[v].id = lastId + 1 PROVE v = u
          BY <1>4, <4>2, <2>1, <3>1 DEF IdsAreOnce
        <4> QED  BY <1>3, <2>1, <2>2, <4>1, <4>2 DEF IdsAreOnce
      <3>2. CASE u # t
        <4>1. call'[u] = call[u]
          BY <3>2, <1>4
        <4>2. ASSUME NEW v \in Reporters, Active(call'[v]), call'[v].id = call[u].id PROVE v = u
          BY <1>2, <1>4, <4>1, <4>2, <2>1, <2>5 DEF IdsAreOnce
        <4> QED  BY <1>3, <2>1, <2>5, <4>1, <4>2 DEF IdsAreOnce
      <3> QED  BY <3>1, <3>2
    <2> QED  BY <2>3, <2>4, <2>5 DEF IdsAreOnce
  <1>8. ParentsAreSound' /\ CallsKeep' /\ NothingVanishes'
    BY <1>2, <1>3, <1>4 DEF PipelineIInv, ParentsAreSound, ParentOf, StatesAreSound, EventsAreSound, CallsKeep,
       NothingVanishes, Sound, Kept, Active
  <1>9. StormsAreTold'
    <2>1. ASSUME NEW g, NEW at, Told(g, at) PROVE Told(g, at)'
      <3>1. \A u \in Reporters : call[u].pc \in Announcing => call'[u] = call[u]
        BY <1>3, <1>4 DEF Announcing
      <3> QED  BY <1>3, <2>1, <3>1 DEF Told, Announcing
    <2>2. ASSUME NEW g \in Prints, state[g] # None, state[g].storm
          PROVE  state[g].last - state[g].summary < SummaryEvery /\ Told(g, state[g].summary)'
      <3>1. state[g].last - state[g].summary < SummaryEvery /\ Told(g, state[g].summary)
        BY <2>2 DEF PipelineIInv, StormsAreTold
      <3>2. PICK at : at = state[g].summary
        OBVIOUS
      <3>3. Told(g, at)'
        BY <3>1, <3>2, <2>1
      <3>4. state'[g].summary = at
        BY <1>3, <3>2
      <3> QED  BY <3>1, <3>3, <3>4
    <2> QED  BY <1>3, <2>2 DEF StormsAreTold
  <1> QED  BY <1>5, <1>7, <1>8, <1>9 DEF PipelineIInv

\* A call leaves the rules for its next label, with its verdict.
LEMMA LeavesRules ==
    ASSUME PipelineIInv, NEW t \in Reporters, At(t, "rules"),
           NEW pc \in {"record", "append"}, NEW verdict \in {"suppress", "unjudged"},
           call' = [call EXCEPT ![t].pc = pc, ![t].verdict = verdict],
           UNCHANGED <<now, lastId, state, events, memory, store, arrived, finished, unsaved>>
    PROVE  PipelineIInv'
  <1>1. PICK x : x = [call[t] EXCEPT !.pc = pc, !.verdict = verdict]
    OBVIOUS
  <1>2. call[t] \in Calls /\ call[t].pc = "rules" /\ Active(call[t])
    BY DEF At, PipelineIInv, PipelineTypes, Active
  <1>3. /\ x \in Calls /\ x.pc = pc /\ x.id = call[t].id /\ x.n = call[t].n /\ x.fp = call[t].fp
        /\ x.parent = call[t].parent
    BY <1>1, <1>2 DEF Calls, Labels
  <1>4. call' = [call EXCEPT ![t] = x]
    BY <1>1
  <1>5. Goes(t, x)
    BY <1>2, <1>3, <1>4 DEF Goes, Active, Unwritten
  <1>6. RecordsStay /\ MemoryFrom(t) /\ StoreFrom(t, x) /\ FinishedFrom(t)
    BY <1>4, NothingWritten, SameMemory, SameStore DEF FinishedFrom
  <1>7. Announces(t, x)
    BY <1>2 DEF Announces, Announcing
  <1>8. StatesAreSound' /\ StormsAreTold' /\ EventsAreSound'
    BY <1>4, <1>5, <1>6, <1>7, StormsKept, SameEvents
  <1>9. Sound(x.parent, x.fp)'
    <2>1. Sound(x.parent, x.fp)
      BY <1>2, <1>3 DEF PipelineIInv, ParentsAreSound, ParentOf
    <2> QED  BY <1>6, <2>1, SoundStays
  <1>10. /\ state' \in [Prints -> Entries \cup {None}] /\ memory' \in Seq(AlertRows)
         /\ \A i \in DOMAIN store' : store'[i] \in AlertRows
    BY <1>4 DEF PipelineIInv, PipelineTypes
  <1> QED  BY <1>2, <1>3, <1>4, <1>5, <1>6, <1>8, <1>9, <1>10, CallGoesOn

\* A rule silences the event.
LEMMA SuppressKeeps ==
    ASSUME PipelineIInv, NEW t \in Reporters, Suppress(t)
    PROVE  PipelineIInv'
  BY LeavesRules DEF Suppress

\* The judgement fails and the event passes.
LEMMA UnjudgedKeeps ==
    ASSUME PipelineIInv, NEW t \in Reporters, Unjudged(t)
    PROVE  PipelineIInv'
  BY LeavesRules DEF Unjudged

\* The event is kept, or the write fails and the call is spoiled.
LEMMA RecordKeeps ==
    ASSUME PipelineIInv, NEW t \in Reporters, Record(t)
    PROVE  PipelineIInv'
  <1>1. PICK spoiled \in BOOLEAN :
          /\ call' = [call EXCEPT ![t] = [call[t] EXCEPT !.pc = "count", !.spoiled = spoiled]]
          /\ \/ spoiled /\ events' = events
             \/ events' = events \cup {[n |-> call[t].n, fp |-> call[t].fp, parent |-> call[t].parent]}
    <2>1. call[t] \in Calls /\ call[t].spoiled \in BOOLEAN
      BY DEF PipelineIInv, PipelineTypes, Calls
    <2>2. [call[t] EXCEPT !.pc = "count"] = [call[t] EXCEPT !.pc = "count", !.spoiled = call[t].spoiled]
      BY <2>1 DEF Calls
    <2>3. CASE call' = [call EXCEPT ![t].pc = "count", ![t].spoiled = TRUE] /\ events' = events
      BY <2>3
    <2>4. CASE /\ call' = [call EXCEPT ![t].pc = "count"]
               /\ events' = events \cup {[n |-> call[t].n, fp |-> call[t].fp, parent |-> call[t].parent]}
      BY <2>1, <2>2, <2>4
    <2> QED  BY <2>3, <2>4 DEF Record, Goto
  <1>2. PICK x : x = [call[t] EXCEPT !.pc = "count", !.spoiled = spoiled]
    OBVIOUS
  <1>3. call[t] \in Calls /\ call[t].pc = "record" /\ Active(call[t])
    BY DEF Record, At, PipelineIInv, PipelineTypes, Active
  <1>4. /\ x \in Calls /\ x.pc = "count" /\ x.id = call[t].id /\ x.n = call[t].n /\ x.fp = call[t].fp
        /\ x.parent = call[t].parent /\ x.spoiled = spoiled
    BY <1>2, <1>3 DEF Calls, Labels
  <1>5. /\ call' = [call EXCEPT ![t] = x]
        /\ UNCHANGED <<now, lastId, state, memory, store, arrived, finished, unsaved>>
        /\ events \subseteq events'
    BY <1>1, <1>2 DEF Record
  <1>6. Goes(t, x)
    BY <1>3, <1>4, <1>5 DEF Goes, Active, Unwritten
  <1>7. RecordsStay /\ MemoryFrom(t) /\ StoreFrom(t, x) /\ FinishedFrom(t)
    BY <1>5, NothingWritten, SameMemory, SameStore DEF FinishedFrom
  <1>8. Announces(t, x)
    BY <1>3 DEF Announces, Announcing
  <1>9. StatesAreSound' /\ StormsAreTold'
    BY <1>5, <1>6, <1>7, <1>8, StormsKept
  <1>10. Sound(x.parent, x.fp)'
    <2>1. Sound(x.parent, x.fp)
      BY <1>3, <1>4 DEF PipelineIInv, ParentsAreSound, ParentOf
    <2> QED  BY <1>7, <2>1, SoundStays
  <1>11. EventsAreSound'
    <2>1. ASSUME NEW e \in events' PROVE Sound(e.parent, e.fp)'
      <3>1. CASE e \in events
        <4>1. Sound(e.parent, e.fp)
          BY <3>1 DEF PipelineIInv, ParentsAreSound, EventsAreSound
        <4> QED  BY <1>7, <4>1, SoundStays
      <3>2. CASE e = [n |-> call[t].n, fp |-> call[t].fp, parent |-> call[t].parent]
        <4>1. e.parent = x.parent /\ e.fp = x.fp
          BY <1>4, <3>2
        <4> QED  BY <1>10, <4>1
      <3> QED  BY <1>1, <3>1, <3>2
    <2> QED  BY <2>1 DEF EventsAreSound
  <1>12. ~x.spoiled => Kept(x.n)'
    <2>1. ~x.spoiled => \E e \in events' : e.n = x.n
      <3>1. PICK e : e = [n |-> call[t].n, fp |-> call[t].fp, parent |-> call[t].parent]
        OBVIOUS
      <3>2. ~x.spoiled => e \in events'
        BY <1>1, <1>4, <3>1
      <3> QED  BY <1>4, <3>1, <3>2
    <2> QED  BY <2>1 DEF Kept
  <1>13. /\ state' \in [Prints -> Entries \cup {None}] /\ memory' \in Seq(AlertRows)
         /\ \A i \in DOMAIN store' : store'[i] \in AlertRows
    BY <1>5 DEF PipelineIInv, PipelineTypes
  <1> QED  BY <1>3, <1>4, <1>5, <1>6, <1>7, <1>9, <1>10, <1>11, <1>12, <1>13, CallGoesOn

\* The parent in memory has its count raised.
LEMMA CountInMemoryKeeps ==
    ASSUME PipelineIInv, NEW t \in Reporters, CountInMemory(t)
    PROVE  PipelineIInv'
  <1>1. PICK x : x = [call[t] EXCEPT !.pc = "countStored"]
    OBVIOUS
  <1>2. call[t] \in Calls /\ call[t].pc = "count" /\ Active(call[t])
    BY DEF CountInMemory, At, PipelineIInv, PipelineTypes, Active
  <1>3. /\ x \in Calls /\ x.pc = "countStored" /\ x.id = call[t].id /\ x.n = call[t].n /\ x.fp = call[t].fp
        /\ x.parent = call[t].parent /\ x.spoiled = call[t].spoiled
    BY <1>1, <1>2 DEF Calls, Labels
  <1>4. /\ call' = [call EXCEPT ![t] = x]
        /\ UNCHANGED <<now, lastId, state, events, store, arrived, finished, unsaved>>
    BY <1>1 DEF CountInMemory, Goto
  <1>5. Goes(t, x)
    BY <1>2, <1>3, <1>4 DEF Goes, Active, Unwritten
  <1>6. RecordsStay /\ StoreFrom(t, x) /\ FinishedFrom(t)
    BY <1>4, NothingWritten, SameStore DEF FinishedFrom
  <1>7. Announces(t, x)
    BY <1>2 DEF Announces, Announcing
  <1>8. StatesAreSound' /\ StormsAreTold' /\ EventsAreSound'
    BY <1>4, <1>5, <1>6, <1>7, StormsKept, SameEvents
  <1>9. Sound(x.parent, x.fp)'
    <2>1. Sound(x.parent, x.fp)
      BY <1>2, <1>3 DEF PipelineIInv, ParentsAreSound, ParentOf
    <2> QED  BY <1>6, <2>1, SoundStays
  <1>10. ~x.spoiled => Kept(x.n)'
    <2>1. ~x.spoiled => Kept(x.n)
      BY <1>2, <1>3 DEF PipelineIInv, CallsKeep
    <2> QED  BY <1>6, <2>1, KeptStays
  <1>11. /\ DOMAIN memory' = DOMAIN memory
         /\ \A i \in DOMAIN memory : /\ memory'[i] \in AlertRows /\ memory'[i].id = memory[i].id
                                     /\ memory'[i].n = memory[i].n /\ memory'[i].fp = memory[i].fp
    <2>1. \A i \in DOMAIN memory : memory[i] \in AlertRows
      BY DEF PipelineIInv, PipelineTypes
    <2>2. call[t].count \in Nat
      BY <1>2 DEF Calls
    <2>3. /\ DOMAIN memory' = DOMAIN memory
          /\ \A i \in DOMAIN memory : memory'[i] \in {memory[i], [memory[i] EXCEPT !.count = call[t].count]}
      BY DEF CountInMemory
    <2>4. ASSUME NEW row \in AlertRows, NEW new \in {row, [row EXCEPT !.count = call[t].count]}
          PROVE  new \in AlertRows /\ new.id = row.id /\ new.n = row.n /\ new.fp = row.fp
      BY <2>2 DEF AlertRows
    <2> QED  BY <2>1, <2>3, <2>4
  <1>12. MemoryFrom(t)
    BY <1>11 DEF MemoryFrom
  <1>13. memory' \in Seq(AlertRows)
    <2>1. memory \in Seq(AlertRows)
      BY DEF PipelineIInv, PipelineTypes
    <2>2. DOMAIN memory = 1..Len(memory) /\ Len(memory) \in Nat
      BY <2>1
    <2>3. memory' = [i \in 1..Len(memory) |-> memory'[i]]
      BY <2>2 DEF CountInMemory
    <2>4. memory' \in [1..Len(memory) -> AlertRows]
      BY <1>11, <2>2, <2>3
    <2> QED  BY <2>2, <2>4
  <1>14. /\ state' \in [Prints -> Entries \cup {None}]
         /\ \A i \in DOMAIN store' : store'[i] \in AlertRows
    BY <1>4 DEF PipelineIInv, PipelineTypes
  <1> QED  BY <1>2, <1>3, <1>4, <1>5, <1>6, <1>8, <1>9, <1>10, <1>12, <1>13, <1>14, CallGoesOn

\* So has its row in the store; the call is over.
LEMMA CountInStoreKeeps ==
    ASSUME PipelineIInv, NEW t \in Reporters, CountInStore(t)
    PROVE  PipelineIInv'
  <1>1. PICK x : x = Ended
    OBVIOUS
  <1>2. call[t] \in Calls /\ call[t].pc = "countStored" /\ Active(call[t])
    BY DEF CountInStore, At, PipelineIInv, PipelineTypes, Active
  <1>3. x \in Calls /\ x.pc = "idle" /\ ~Active(x)
    BY <1>1 DEF Calls, Labels, Ended, Active
  <1>4. /\ call' = [call EXCEPT ![t] = x]
        /\ UNCHANGED <<now, lastId, state, events, memory, arrived, unsaved>>
        /\ finished' = finished \cup {Over(call[t])}
    BY <1>1 DEF CountInStore, Finished, Over
  <1>5. Goes(t, x)
    BY <1>3, <1>4 DEF Goes
  <1>6. /\ DOMAIN store' = DOMAIN store
        /\ \A i \in DOMAIN store : /\ store'[i] \in AlertRows /\ store'[i].id = store[i].id
                                   /\ store'[i].n = store[i].n /\ store'[i].fp = store[i].fp
    <2>1. \A i \in DOMAIN store : store[i] \in AlertRows
      BY DEF PipelineIInv, PipelineTypes
    <2>2. call[t].count \in Nat
      BY <1>2 DEF Calls
    <2>3. /\ DOMAIN store' = DOMAIN store
          /\ \A i \in DOMAIN store : store'[i] \in {store[i], [store[i] EXCEPT !.count = call[t].count]}
      BY DEF CountInStore
    <2>4. ASSUME NEW row \in AlertRows, NEW new \in {row, [row EXCEPT !.count = call[t].count]}
          PROVE  new \in AlertRows /\ new.id = row.id /\ new.n = row.n /\ new.fp = row.fp
      BY <2>2 DEF AlertRows
    <2> QED  BY <2>1, <2>3, <2>4
  <1>7. RecordsStay
    BY <1>4, <1>6 DEF RecordsStay
  <1>8. StoreFrom(t, x)
    BY <1>6 DEF StoreFrom, PipelineIInv, IdsAreOnce
  <1>9. MemoryFrom(t) /\ FinishedFrom(t)
    BY <1>2, <1>4, SameMemory DEF FinishedFrom
  <1>10. Announces(t, x)
    BY <1>2 DEF Announces, Announcing
  <1>11. StatesAreSound' /\ StormsAreTold' /\ EventsAreSound'
    BY <1>4, <1>5, <1>7, <1>10, StormsKept, SameEvents
  <1>12. /\ state' \in [Prints -> Entries \cup {None}] /\ memory' \in Seq(AlertRows)
    BY <1>4 DEF PipelineIInv, PipelineTypes
  <1> QED  BY <1>2, <1>3, <1>4, <1>5, <1>6, <1>7, <1>8, <1>9, <1>11, <1>12, CallGoesOn

(* Cutting the list to its capacity leaves rows of the list.                 *)
LEMMA LastOfIs ==
    ASSUME NEW S, NEW s \in Seq(S), NEW k \in Nat \ {0}
    PROVE  LastOf(s, k) \in Seq(S) /\ \A i \in DOMAIN LastOf(s, k) : \E j \in DOMAIN s : LastOf(s, k)[i] = s[j]
  <1>1. CASE Len(s) > k
    <2>1. PICK m \in Nat : m = Len(s) - k + 1 /\ m <= Len(s) /\ m > 0
      BY <1>1
    <2>2. LastOf(s, k) = SubSeq(s, m, Len(s))
      BY <1>1, <2>1 DEF LastOf
    <2>3. \A i \in m..Len(s) : s[i] \in S
      BY <2>1
    <2>4. /\ SubSeq(s, m, Len(s)) \in Seq(S) /\ Len(SubSeq(s, m, Len(s))) = Len(s) - m + 1
          /\ \A i \in 1..(Len(s) - m + 1) : SubSeq(s, m, Len(s))[i] = s[m + i - 1]
      BY <2>1, <2>3, SubSeqProperties
    <2>5. DOMAIN SubSeq(s, m, Len(s)) = 1..(Len(s) - m + 1)
      BY <2>4
    <2>6. ASSUME NEW i \in 1..(Len(s) - m + 1)
          PROVE \E j \in DOMAIN s : SubSeq(s, m, Len(s))[i] = s[j]
      <3>1. m + i - 1 \in DOMAIN s
        BY <2>1
      <3> QED  BY <2>4, <3>1
    <2> QED  BY <2>2, <2>4, <2>5, <2>6
  <1>2. CASE ~(Len(s) > k)
    BY <1>2 DEF LastOf
  <1> QED  BY <1>1, <1>2

\* The alert enters the list; the oldest may leave it.
LEMMA AppendAlertKeeps ==
    ASSUME PipelineIInv, NEW t \in Reporters, AppendAlert(t)
    PROVE  PipelineIInv'
  <1>1. PICK x : x = [call[t] EXCEPT !.pc = "save"]
    OBVIOUS
  <1>2. call[t] \in Calls /\ call[t].pc = "append" /\ Active(call[t]) /\ call[t].fp \in Prints
    BY DEF AppendAlert, At, PipelineIInv, PipelineTypes, Active
  <1>3. /\ x \in Calls /\ x.pc = "save" /\ x.id = call[t].id /\ x.n = call[t].n /\ x.fp = call[t].fp
        /\ x.parent = call[t].parent /\ x.at = call[t].at /\ x.verdict = call[t].verdict
    BY <1>1, <1>2 DEF Calls, Labels
  <1>4. /\ call' = [call EXCEPT ![t] = x]
        /\ UNCHANGED <<now, lastId, state, events, store, arrived, finished, unsaved>>
    BY <1>1 DEF AppendAlert, Goto
  <1>5. Goes(t, x)
    BY <1>2, <1>3, <1>4 DEF Goes, Active, Unwritten
  <1>6. RecordsStay /\ StoreFrom(t, x) /\ FinishedFrom(t)
    BY <1>4, NothingWritten, SameStore DEF FinishedFrom
  <1>7. Announces(t, x)
    BY <1>3 DEF Announces, Announcing
  <1>8. StatesAreSound' /\ StormsAreTold' /\ EventsAreSound'
    BY <1>4, <1>5, <1>6, <1>7, StormsKept, SameEvents
  <1>9. Sound(x.parent, x.fp)'
    <2>1. Sound(x.parent, x.fp)
      BY <1>2, <1>3 DEF PipelineIInv, ParentsAreSound, ParentOf
    <2> QED  BY <1>6, <2>1, SoundStays
  <1>10. PICK row : row = Row(call[t])
    OBVIOUS
  <1>11. row \in AlertRows /\ row.id = call[t].id /\ row.n = call[t].n /\ row.fp = call[t].fp
    BY <1>2, <1>10 DEF Row, Calls, AlertRows
  <1>12. memory \in Seq(AlertRows) /\ Cap \in Nat \ {0}
    BY PipelineNumbers DEF PipelineIInv, PipelineTypes
  <1>13. PICK longer : longer = Append(memory, row)
    OBVIOUS
  <1>14. /\ longer \in Seq(AlertRows)
         /\ \A j \in DOMAIN longer : longer[j] = row \/ (j \in DOMAIN memory /\ longer[j] = memory[j])
    BY <1>11, <1>12, <1>13
  <1>15. memory' = LastOf(longer, Cap)
    BY <1>10, <1>13 DEF AppendAlert
  <1>16. memory' \in Seq(AlertRows) /\ \A i \in DOMAIN memory' : \E j \in DOMAIN longer : memory'[i] = longer[j]
    BY <1>12, <1>14, <1>15, LastOfIs
  <1>17. MemoryFrom(t)
    BY <1>11, <1>14, <1>16 DEF MemoryFrom
  <1>18. /\ state' \in [Prints -> Entries \cup {None}]
         /\ \A i \in DOMAIN store' : store'[i] \in AlertRows
    BY <1>4 DEF PipelineIInv, PipelineTypes
  <1> QED  BY <1>2, <1>3, <1>4, <1>5, <1>6, <1>8, <1>9, <1>16, <1>17, <1>18, CallGoesOn

\* The alert is written under an id no row has, or the write fails.
LEMMA SaveKeeps ==
    ASSUME PipelineIInv, NEW t \in Reporters, Save(t)
    PROVE  PipelineIInv'
  <1>1. call[t] \in Calls /\ call[t].pc = "save" /\ Active(call[t]) /\ call[t].fp \in Prints
    BY DEF Save, At, PipelineIInv, PipelineTypes, Active
  <1>2. PICK id, c : id = call[t].id /\ c = call[t]
    OBVIOUS
  <1>3. id \in Nat /\ id \notin DOMAIN store /\ c \in Calls
    BY <1>1, <1>2 DEF PipelineIInv, IdsAreOnce, Unwritten, Calls
  <1>4. PICK spoiled \in BOOLEAN :
          /\ call' = [call EXCEPT ![t] = [c EXCEPT !.pc = "note", !.spoiled = spoiled]]
          /\ \/ /\ unsaved' = unsaved /\ spoiled = c.spoiled
                /\ \E row \in AlertRows :
                      /\ row.id = id /\ row.n = c.n /\ row.fp = c.fp
                      /\ store' = [i \in DOMAIN store \cup {id} |-> IF i = id THEN row ELSE store[i]]
             \/ store' = store /\ unsaved' = unsaved \cup {id} /\ spoiled
    <2>1. c.spoiled \in BOOLEAN
      BY <1>3 DEF Calls
    <2>2. [c EXCEPT !.pc = "note"] = [c EXCEPT !.pc = "note", !.spoiled = c.spoiled]
      BY <1>3 DEF Calls
    <2>3. ASSUME NEW own, own = {i \in DOMAIN memory : memory[i].id = id},
                 NEW row \in IF own = {} THEN {Row(c)} ELSE {memory[i] : i \in own}
          PROVE  row \in AlertRows /\ row.id = id /\ row.n = c.n /\ row.fp = c.fp
      <3>1. CASE own = {}
        <4>1. row = Row(c)
          BY <2>3, <3>1
        <4> QED  BY <1>1, <1>2, <4>1 DEF Row, Calls, AlertRows
      <3>2. CASE own # {}
        <4>1. PICK i \in own : row = memory[i]
          BY <2>3, <3>2
        <4>2. i \in DOMAIN memory /\ memory[i].id = id
          BY <2>3, <4>1
        <4>3. memory[i] \in AlertRows
          BY <4>2 DEF PipelineIInv, PipelineTypes
        <4>4. memory[i].n = c.n /\ memory[i].fp = c.fp
          BY <1>1, <1>2, <4>2 DEF PipelineIInv, IdsAreOnce
        <4> QED  BY <4>1, <4>2, <4>3, <4>4
      <3> QED  BY <3>1, <3>2
    <2>4. CASE /\ call' = [call EXCEPT ![t].pc = "note", ![t].spoiled = TRUE] /\ store' = store
               /\ unsaved' = unsaved \cup {call[t].id}
      BY <1>2, <2>4
    <2>5. ASSUME NEW row \in LET own == {i \in DOMAIN memory : memory[i].id = call[t].id}
                             IN IF own = {} THEN {Row(call[t])} ELSE {memory[i] : i \in own},
                 call' = [call EXCEPT ![t].pc = "note"], unsaved' = unsaved,
                 store' = [i \in DOMAIN store \cup {call[t].id} |-> IF i = call[t].id THEN row ELSE store[i]]
          PROVE  /\ call' = [call EXCEPT ![t] = [c EXCEPT !.pc = "note", !.spoiled = c.spoiled]]
                 /\ unsaved' = unsaved
                 /\ row \in AlertRows /\ row.id = id /\ row.n = c.n /\ row.fp = c.fp
                 /\ store' = [i \in DOMAIN store \cup {id} |-> IF i = id THEN row ELSE store[i]]
      <3>1. PICK own : own = {i \in DOMAIN memory : memory[i].id = id}
        OBVIOUS
      <3>2. row \in IF own = {} THEN {Row(c)} ELSE {memory[i] : i \in own}
        BY <1>2, <2>5, <3>1
      <3>3. row \in AlertRows /\ row.id = id /\ row.n = c.n /\ row.fp = c.fp
        BY <2>3, <3>1, <3>2
      <3>4. call' = [call EXCEPT ![t] = [c EXCEPT !.pc = "note"]]
        BY <1>2, <2>5
      <3> QED  BY <1>2, <2>2, <2>5, <3>3, <3>4
    <2> QED  BY <2>1, <2>4, <2>5 DEF Save, Goto
  <1>5. PICK x : x = [c EXCEPT !.pc = "note", !.spoiled = spoiled]
    OBVIOUS
  <1>6. /\ x \in Calls /\ x.pc = "note" /\ x.id = id /\ x.n = c.n /\ x.fp = c.fp
        /\ x.parent = c.parent /\ x.at = c.at /\ x.verdict = c.verdict /\ x.spoiled = spoiled
    BY <1>2, <1>3, <1>5 DEF Calls, Labels
  <1>7. /\ call' = [call EXCEPT ![t] = x]
        /\ UNCHANGED <<now, lastId, state, events, memory, arrived, finished>>
    BY <1>4, <1>5 DEF Save
  <1>8. Goes(t, x)
    BY <1>1, <1>2, <1>6, <1>7 DEF Goes, Active, Unwritten
  <1>9. \A i \in DOMAIN store : i # id /\ store[i] \in AlertRows /\ store[i].id = i
    BY <1>3 DEF PipelineIInv, PipelineTypes, IdsAreOnce
  <1>10. /\ \A i \in DOMAIN store : i \in DOMAIN store' /\ store'[i] = store[i]
         /\ \A i \in DOMAIN store' : i \in DOMAIN store \/ i = id
         /\ id \in DOMAIN store' => store'[id] \in AlertRows /\ store'[id].id = id /\ store'[id].n = c.n /\ store'[id].fp = c.fp
         /\ id \in DOMAIN store' \/ (id \in unsaved' /\ spoiled)
         /\ unsaved \subseteq unsaved'
    <2>1. CASE store' = store /\ unsaved' = unsaved \cup {id} /\ spoiled
      BY <1>3, <2>1
    <2>2. ASSUME NEW row \in AlertRows, row.id = id, row.n = c.n, row.fp = c.fp, unsaved' = unsaved,
                 store' = [i \in DOMAIN store \cup {id} |-> IF i = id THEN row ELSE store[i]]
          PROVE  /\ \A i \in DOMAIN store : i \in DOMAIN store' /\ store'[i] = store[i]
                 /\ \A i \in DOMAIN store' : i \in DOMAIN store \/ i = id
                 /\ id \in DOMAIN store' /\ store'[id] = row
      BY <1>9, <2>2
    <2> QED  BY <1>4, <2>1, <2>2
  <1>11. RecordsStay
    BY <1>7, <1>10 DEF RecordsStay
  <1>12. StoreFrom(t, x)
    BY <1>2, <1>6, <1>9, <1>10 DEF StoreFrom, Unwritten
  <1>13. MemoryFrom(t) /\ FinishedFrom(t)
    BY <1>7, SameMemory DEF FinishedFrom
  <1>14. Announces(t, x)
    BY <1>2, <1>6 DEF Announces, Announcing
  <1>15. StatesAreSound' /\ StormsAreTold' /\ EventsAreSound'
    BY <1>7, <1>8, <1>11, <1>14, StormsKept, SameEvents
  <1>16. Sound(x.parent, x.fp)'
    <2>1. Sound(x.parent, x.fp)
      BY <1>1, <1>2, <1>6 DEF PipelineIInv, ParentsAreSound, ParentOf
    <2> QED  BY <1>11, <2>1, SoundStays
  <1>17. Sound(x.id, x.fp)'
    BY <1>6, <1>10 DEF Sound
  <1>18. ~x.spoiled => Kept(x.n)'
    BY <1>6, <1>10 DEF Kept
  <1>19. /\ state' \in [Prints -> Entries \cup {None}] /\ memory' \in Seq(AlertRows)
         /\ \A i \in DOMAIN store' : store'[i] \in AlertRows
    BY <1>7, <1>9, <1>10 DEF PipelineIInv, PipelineTypes
  <1> QED  BY <1>1, <1>6, <1>7, <1>8, <1>11, <1>12, <1>13, <1>15, <1>16, <1>17, <1>18, <1>19, CallGoesOn

\* The fingerprint learns the id of its alert, if it has none yet.
LEMMA NoteKeeps ==
    ASSUME PipelineIInv, NEW t \in Reporters, NoteAlertId(t)
    PROVE  PipelineIInv'
  <1>1. PICK x : x = Ended
    OBVIOUS
  <1>2. call[t] \in Calls /\ call[t].pc = "note" /\ Active(call[t]) /\ call[t].fp \in Prints
    BY DEF NoteAlertId, At, PipelineIInv, PipelineTypes, Active
  <1>3. x \in Calls /\ x.pc = "idle" /\ ~Active(x)
    BY <1>1 DEF Calls, Labels, Ended, Active
  <1>4. /\ call' = [call EXCEPT ![t] = x]
        /\ UNCHANGED <<now, lastId, events, memory, store, arrived, unsaved>>
        /\ finished' = finished \cup {Over(call[t])}
    BY <1>1 DEF NoteAlertId, Finished, Over
  <1>5. Goes(t, x)
    BY <1>3, <1>4 DEF Goes
  <1>6. RecordsStay /\ StoreFrom(t, x)
    BY <1>4, NothingWritten, SameStore
  <1>7. MemoryFrom(t) /\ FinishedFrom(t)
    BY <1>2, <1>4, SameMemory DEF FinishedFrom
  <1>8. Announces(t, x)
    BY <1>4 DEF Announces
  <1>9. PICK f, id : f = call[t].fp /\ id = call[t].id /\ f \in Prints /\ id \in Nat
    BY <1>2 DEF Calls
  <1>10. \/ state' = state
         \/ state[f] # None /\ state' = [state EXCEPT ![f] = [state[f] EXCEPT !.alert = id]]
    BY <1>9 DEF NoteAlertId
  <1>11. state \in [Prints -> Entries \cup {None}]
    BY DEF PipelineIInv, PipelineTypes
  <1>12. /\ state' \in [Prints -> Entries \cup {None}]
         /\ \A g \in Prints : state'[g] # None =>
               /\ state[g] # None /\ state'[g].storm = state[g].storm
               /\ state'[g].last = state[g].last /\ state'[g].summary = state[g].summary
               /\ state'[g].alert = state[g].alert \/ (g = f /\ state'[g].alert = id)
    <2>1. CASE state' = state
      BY <1>11, <2>1
    <2>2. CASE state[f] # None /\ state' = [state EXCEPT ![f] = [state[f] EXCEPT !.alert = id]]
      <3>1. PICK row : row = [state[f] EXCEPT !.alert = id]
        OBVIOUS
      <3>2. state[f] \in Entries
        BY <1>9, <1>11, <2>2
      <3>3. row \in Entries /\ row.alert = id /\ row.storm = state[f].storm /\ row.last = state[f].last
            /\ row.summary = state[f].summary
        BY <1>9, <3>1, <3>2 DEF Entries
      <3> QED  BY <1>9, <1>11, <2>2, <3>1, <3>3
    <2> QED  BY <1>10, <2>1, <2>2
  <1>13. Sound(id, f)
    BY <1>2, <1>9 DEF PipelineIInv, ParentsAreSound, ParentOf
  <1>14. StatesAreSound'
    <2>1. ASSUME NEW g \in Prints, state'[g] # None PROVE Sound(state[g].alert, g)'
      <3>1. PICK a : a = state'[g].alert
        OBVIOUS
      <3>2. Sound(a, g)
        BY <1>12, <1>13, <2>1, <3>1 DEF PipelineIInv, ParentsAreSound, StatesAreSound
      <3>3. Sound(a, g)'
        BY <1>6, <3>2, SoundStays
      <3> QED  BY <3>1, <3>3
    <2> QED  BY <2>1 DEF StatesAreSound
  <1>15. StormsAreTold'
    <2>1. ASSUME NEW g \in Prints, state'[g] # None, state'[g].storm
          PROVE  state'[g].last - state'[g].summary < SummaryEvery /\ Told(g, state[g].summary)'
      <3>1. PICK at : at = state'[g].summary
        OBVIOUS
      <3>2. state[g].last - at < SummaryEvery /\ Told(g, at) /\ state[g].last = state'[g].last
        BY <1>12, <2>1, <3>1 DEF PipelineIInv, StormsAreTold
      <3>3. Told(g, at)'
        BY <1>5, <1>6, <1>8, <3>2, ToldStays
      <3> QED  BY <3>1, <3>2, <3>3
    <2> QED  BY <2>1 DEF StormsAreTold
  <1>16. EventsAreSound'
    BY <1>4, <1>6, SameEvents
  <1>17. /\ memory' \in Seq(AlertRows) /\ \A i \in DOMAIN store' : store'[i] \in AlertRows
    BY <1>4 DEF PipelineIInv, PipelineTypes
  <1> QED  BY <1>2, <1>3, <1>4, <1>5, <1>6, <1>7, <1>12, <1>14, <1>15, <1>16, <1>17, CallGoesOn

\* The fingerprint table decides: a new alert, which announces a storm that
\* begins or whose summary is due, or an event merged into the last alert.
LEMMA JudgeKeeps ==
    ASSUME PipelineIInv, NEW t \in Reporters, Judge(t)
    PROVE  PipelineIInv'
  <1>1. call[t] \in Calls /\ call[t].pc = "rules" /\ Active(call[t]) /\ call[t].fp \in Prints
    BY DEF Judge, At, PipelineIInv, PipelineTypes, Active
  <1>2. PICK c, f, at : c = call[t] /\ f = c.fp /\ at = c.at /\ f \in Prints /\ at \in Nat
    BY <1>1 DEF Calls
  <1>3. PICK storm \in BOOLEAN : storm = (Len(Burst(f, at)) > Threshold)
    <2>1. (Len(Burst(f, at)) > Threshold) \in BOOLEAN
      OBVIOUS
    <2> QED  BY <2>1, Zenon
  <1>4. PICK old : old = state[f] /\ old \in Entries \cup {None}
    BY <1>2 DEF PipelineIInv, PipelineTypes
  <1>5. PICK row \in Entries, new \in BOOLEAN :
          /\ state' = [state EXCEPT ![f] = row]
          /\ call' = [call EXCEPT ![t] = [c EXCEPT !.pc = IF new THEN "append" ELSE "record",
                         !.verdict = IF ~new THEN "duplicate" ELSE IF storm THEN "storm" ELSE "pass",
                         !.parent = row.alert, !.count = row.count]]
          /\ row.storm = storm /\ row.last = at
          /\ row.alert = None \/ (old # None /\ row.alert = old.alert)
          /\ storm => IF new THEN row.summary = at
                      ELSE old # None /\ old.storm /\ row.summary = old.summary /\ at - old.summary < SummaryEvery
    <2>1. PICK fresh \in BOOLEAN : fresh = Fresh(f, at)
      <3>1. Fresh(f, at) \in BOOLEAN
        BY DEF Fresh
      <3> QED  BY <3>1, Zenon
    <2>2. PICK new \in BOOLEAN : new = Announce(f, at, storm)
      <3>1. Announce(f, at, storm) \in BOOLEAN
        BY DEF Announce
      <3> QED  BY <3>1, Zenon
    <2>3. PICK row : row = IF fresh
                  THEN [alert |-> None, last |-> at, count |-> 1, storm |-> storm,
                        summary |-> IF storm THEN at ELSE 0]
                  ELSE [state[f] EXCEPT !.last = at, !.count = @ + 1, !.storm = storm,
                            !.summary = IF new THEN at ELSE @]
      OBVIOUS
    <2>4. /\ state' = [state EXCEPT ![f] = row]
          /\ call' = [call EXCEPT ![t] = [c EXCEPT !.pc = IF new THEN "append" ELSE "record",
                         !.verdict = IF ~new THEN "duplicate" ELSE IF storm THEN "storm" ELSE "pass",
                         !.parent = row.alert, !.count = row.count]]
      <3>1. /\ state' = [state EXCEPT ![f] = row]
            /\ call' = [call EXCEPT ![t].pc = IF new THEN "append" ELSE "record",
                           ![t].verdict = IF ~new THEN "duplicate" ELSE IF storm THEN "storm" ELSE "pass",
                           ![t].parent = row.alert, ![t].count = row.count]
        BY <1>2, <1>3, <2>1, <2>2, <2>3 DEF Judge
      <3> QED  BY <1>2, <3>1
    <2>5. fresh => new
      BY <2>1, <2>2 DEF Announce
    <2>6. ~fresh => old # None
      BY <1>4, <2>1 DEF Fresh
    <2>7. ~fresh /\ ~new /\ storm => old.storm /\ ~(at - old.summary >= SummaryEvery)
      BY <1>4, <2>1, <2>2 DEF Announce
    <2>8. CASE fresh
      <3>1. row = [alert |-> None, last |-> at, count |-> 1, storm |-> storm, summary |-> IF storm THEN at ELSE 0]
        BY <2>3, <2>8
      <3>2. row \in Entries /\ row.storm = storm /\ row.last = at /\ row.alert = None /\ (storm => row.summary = at)
        BY <1>2, <3>1 DEF Entries
      <3> QED  BY <2>4, <2>5, <2>8, <3>2
    <2>9. CASE ~fresh
      <3>1. old \in Entries
        BY <1>4, <2>6, <2>9
      <3>2. row = [old EXCEPT !.last = at, !.count = @ + 1, !.storm = storm, !.summary = IF new THEN at ELSE @]
        BY <1>4, <2>3, <2>9
      <3>3. row \in Entries
        <4>1. PICK summary \in Nat : summary = IF new THEN at ELSE old.summary
          BY <1>2, <3>1 DEF Entries
        <4>2. PICK count \in Nat : count = old.count + 1
          BY <3>1 DEF Entries
        <4>3. row = [old EXCEPT !.last = at, !.count = count, !.storm = storm, !.summary = summary]
          BY <3>2, <4>1, <4>2
        <4> QED  BY <1>2, <3>1, <4>3 DEF Entries
      <3>4. row.storm = storm /\ row.last = at /\ row.alert = old.alert
            /\ row.summary = (IF new THEN at ELSE old.summary)
        BY <3>1, <3>2 DEF Entries
      <3>5. old.summary \in Nat /\ SummaryEvery \in Nat
        BY <3>1, PipelineNumbers DEF Entries
      <3>6. storm /\ ~new => old.storm /\ row.summary = old.summary /\ at - old.summary < SummaryEvery
        BY <1>2, <2>7, <2>9, <3>4, <3>5
      <3>7. storm /\ new => row.summary = at
        BY <3>4
      <3> QED  BY <2>4, <2>6, <2>9, <3>3, <3>4, <3>6, <3>7
    <2> QED  BY <2>8, <2>9
  <1>6. PICK pc \in {"append", "record"}, verdict \in {"pass", "duplicate", "storm"} :
          /\ pc = (IF new THEN "append" ELSE "record")
          /\ verdict = (IF ~new THEN "duplicate" ELSE IF storm THEN "storm" ELSE "pass")
    OBVIOUS
  <1>7. PICK x : x = [c EXCEPT !.pc = pc, !.verdict = verdict, !.parent = row.alert, !.count = row.count]
    OBVIOUS
  <1>8. /\ x \in Calls /\ x.pc = pc /\ x.id = c.id /\ x.n = c.n /\ x.fp = f
        /\ x.parent = row.alert /\ x.at = at /\ x.verdict = verdict
    <2>1. row.alert \in Nat \cup {None} /\ row.count \in Nat
      BY <1>5 DEF Entries
    <2>2. c \in Calls
      BY <1>1, <1>2
    <2> QED  BY <1>2, <1>6, <1>7, <2>1, <2>2 DEF Calls, Labels
  <1>9. /\ call' = [call EXCEPT ![t] = x]
        /\ UNCHANGED <<now, lastId, events, memory, store, arrived, finished, unsaved>>
    <2>1. call' = [call EXCEPT ![t] = x]
      BY <1>5, <1>6, <1>7
    <2> QED  BY <2>1 DEF Judge
  <1>10. Goes(t, x)
    BY <1>1, <1>2, <1>6, <1>8, <1>9 DEF Goes, Active, Unwritten
  <1>11. RecordsStay /\ StoreFrom(t, x) /\ MemoryFrom(t) /\ FinishedFrom(t)
    BY <1>9, NothingWritten, SameStore, SameMemory DEF FinishedFrom
  <1>12. Announces(t, x)
    BY <1>1 DEF Announces, Announcing
  <1>13. /\ state' \in [Prints -> Entries \cup {None}] /\ state'[f] = row
         /\ \A g \in Prints : g # f => state'[g] = state[g]
    BY <1>2, <1>5 DEF PipelineIInv, PipelineTypes
  <1>14. Sound(row.alert, f)
    BY <1>2, <1>4, <1>5 DEF PipelineIInv, ParentsAreSound, StatesAreSound, Sound
  <1>15. StatesAreSound'
    <2>1. ASSUME NEW g \in Prints, state'[g] # None PROVE Sound(state[g].alert, g)'
      <3>1. PICK a : a = state'[g].alert
        OBVIOUS
      <3>2. Sound(a, g)
        BY <1>13, <1>14, <2>1, <3>1 DEF PipelineIInv, ParentsAreSound, StatesAreSound
      <3>3. Sound(a, g)'
        BY <1>11, <3>2, SoundStays
      <3> QED  BY <3>1, <3>3
    <2> QED  BY <2>1 DEF StatesAreSound
  <1>16. call'[t] = x
    BY <1>10, GoesTypes
  <1>17. StormsAreTold'
    <2>1. ASSUME NEW g \in Prints, state'[g] # None, state'[g].storm
          PROVE  state'[g].last - state'[g].summary < SummaryEvery /\ Told(g, state[g].summary)'
      <3>1. PICK when : when = state'[g].summary
        OBVIOUS
      <3>2. CASE g = f /\ new
        <4>1. storm /\ when = at /\ state'[g].last = at
          BY <1>5, <1>13, <2>1, <3>1, <3>2
        <4>2. at - at < SummaryEvery
          BY <1>2, PipelineNumbers
        <4>3. x.verdict = "storm" /\ x.pc = "append"
          BY <1>6, <1>8, <3>2, <4>1
        <4>4. Told(g, when)'
          BY <1>8, <1>16, <3>2, <4>1, <4>3 DEF Told
        <4> QED  BY <3>1, <4>1, <4>2, <4>4
      <3>3. CASE g = f /\ ~new
        <4>1. /\ storm /\ when = old.summary /\ old # None /\ old.storm /\ state'[g].last = at
              /\ at - old.summary < SummaryEvery
          BY <1>5, <1>13, <2>1, <3>1, <3>3
        <4>2. Told(g, when)
          BY <1>2, <1>4, <3>3, <4>1 DEF PipelineIInv, StormsAreTold
        <4>3. Told(g, when)'
          BY <1>10, <1>11, <1>12, <4>2, ToldStays
        <4> QED  BY <3>1, <4>1, <4>3
      <3>4. CASE g # f
        <4>1. state'[g] = state[g]
          BY <1>13, <3>4
        <4>2. state[g].last - when < SummaryEvery /\ Told(g, when)
          BY <2>1, <3>1, <4>1 DEF PipelineIInv, StormsAreTold
        <4>3. Told(g, when)'
          BY <1>10, <1>11, <1>12, <4>2, ToldStays
        <4> QED  BY <3>1, <4>1, <4>2, <4>3
      <3> QED  BY <3>2, <3>3, <3>4
    <2> QED  BY <2>1 DEF StormsAreTold
  <1>18. EventsAreSound'
    BY <1>9, <1>11, SameEvents
  <1>19. Sound(x.parent, x.fp)'
    BY <1>8, <1>11, <1>14, SoundStays
  <1>20. /\ memory' \in Seq(AlertRows) /\ \A i \in DOMAIN store' : store'[i] \in AlertRows
    BY <1>9 DEF PipelineIInv, PipelineTypes
  <1>21. x.pc \notin {"note", "count", "countStored"}
    BY <1>6, <1>8
  <1> QED  BY <1>1, <1>9, <1>10, <1>11, <1>13, <1>15, <1>17, <1>18, <1>19, <1>20, <1>21, CallGoesOn

\* A step of no call that leaves the fingerprint table alone.
LEMMA OthersKeep ==
    ASSUME PipelineIInv, RecordsStay, UNCHANGED <<call, state, events, finished>>,
           PipelineTypes', IdsAreOnce'
    PROVE  PipelineIInv'
  <1>1. StatesAreSound' /\ EventsAreSound'
    <2>1. ASSUME NEW f \in Prints, state[f] # None PROVE Sound(state[f].alert, f)'
      <3>1. PICK a : a = state[f].alert
        OBVIOUS
      <3>2. Sound(a, f)'
        BY <2>1, <3>1, SoundStays DEF PipelineIInv, ParentsAreSound, StatesAreSound
      <3> QED  BY <3>1, <3>2
    <2> QED  BY <2>1, SameEvents DEF StatesAreSound
  <1>2. ASSUME NEW t \in Reporters
        PROVE  /\ ParentOf(t)'
               /\ (call[t].pc \in {"count", "countStored", "note"} /\ ~call[t].spoiled => Kept(call[t].n))'
    <2>1. PICK c : c = call[t]
      OBVIOUS
    <2>2. /\ Active(c) => Sound(c.parent, c.fp) /\ (c.pc = "note" => Sound(c.id, c.fp))
          /\ c.pc \in {"count", "countStored", "note"} /\ ~c.spoiled => Kept(c.n)
      BY <2>1 DEF PipelineIInv, ParentsAreSound, ParentOf, CallsKeep
    <2>3. /\ Active(c) => Sound(c.parent, c.fp)' /\ (c.pc = "note" => Sound(c.id, c.fp)')
          /\ c.pc \in {"count", "countStored", "note"} /\ ~c.spoiled => Kept(c.n)'
      BY <2>2, SoundStays, KeptStays
    <2> QED  BY <2>1, <2>3 DEF ParentOf
  <1>3. NothingVanishes'
    <2>1. ASSUME NEW c \in finished, ~c.spoiled PROVE Kept(c.n)'
      BY <2>1, KeptStays DEF PipelineIInv, NothingVanishes, Kept
    <2> QED  BY <2>1 DEF NothingVanishes, Kept
  <1>4. StormsAreTold'
    BY DEF PipelineIInv, StormsAreTold, Told
  <1> QED  BY <1>1, <1>2, <1>3, <1>4 DEF PipelineIInv, ParentsAreSound, CallsKeep

\* A request acknowledges an alert in the store and in memory.
LEMMA AcknowledgeKeeps ==
    ASSUME PipelineIInv, NEW id \in EventIds, Acknowledge(id)
    PROVE  PipelineIInv'
  <1>1. UNCHANGED <<now, lastId, call, state, events, arrived, finished, unsaved>> /\ id \in DOMAIN store
    BY DEF Acknowledge
  <1>2. /\ \A i \in DOMAIN store : store[i] \in AlertRows
        /\ memory \in Seq(AlertRows) /\ \A i \in DOMAIN memory : memory[i] \in AlertRows
    BY DEF PipelineIInv, PipelineTypes
  <1>3. ASSUME NEW row \in AlertRows
        PROVE  /\ Acked(row, id) \in AlertRows /\ Acked(row, id).id = row.id
               /\ Acked(row, id).n = row.n /\ Acked(row, id).fp = row.fp
    BY DEF Acked, AlertRows
  <1>4. \/ UNCHANGED <<store, memory>>
        \/ /\ store' = [store EXCEPT ![id] = Acked(store[id], id)]
           /\ memory' = [i \in DOMAIN memory |-> Acked(memory[i], id)]
    BY DEF Acknowledge
  <1>5. /\ DOMAIN store' = DOMAIN store
        /\ \A i \in DOMAIN store : /\ store'[i] \in AlertRows /\ store'[i].id = store[i].id
                                   /\ store'[i].n = store[i].n /\ store'[i].fp = store[i].fp
    BY <1>1, <1>2, <1>3, <1>4
  <1>6. /\ DOMAIN memory' = DOMAIN memory
        /\ \A i \in DOMAIN memory : /\ memory'[i] \in AlertRows /\ memory'[i].id = memory[i].id
                                    /\ memory'[i].n = memory[i].n /\ memory'[i].fp = memory[i].fp
    BY <1>2, <1>3, <1>4
  <1>7. memory' \in Seq(AlertRows)
    <2>1. DOMAIN memory = 1..Len(memory) /\ Len(memory) \in Nat
      BY <1>2
    <2>2. CASE memory' = [i \in DOMAIN memory |-> Acked(memory[i], id)]
      <3>1. memory' \in [1..Len(memory) -> AlertRows]
        BY <1>2, <1>3, <2>1, <2>2
      <3> QED  BY <2>1, <3>1
    <2> QED  BY <1>2, <1>4, <2>2
  <1>8. RecordsStay
    BY <1>1, <1>5 DEF RecordsStay
  <1>9. PipelineTypes'
    BY <1>1, <1>5, <1>7 DEF PipelineIInv, PipelineTypes
  <1>10. IdsAreOnce'
    BY <1>1, <1>5, <1>6 DEF PipelineIInv, IdsAreOnce
  <1> QED  BY <1>1, <1>8, <1>9, <1>10, OthersKeep

\* A finite set of ids has a highest.
LEMMA HighestIs ==
    ASSUME NEW n \in Nat, NEW S \in SUBSET (0..n), S # {}
    PROVE  \E x \in S : \A y \in S : y <= x
  <1>1. {n - x : x \in S} \in SUBSET Nat /\ {n - x : x \in S} # {}
    <2>1. ASSUME NEW x \in S PROVE n - x \in Nat
      OBVIOUS
    <2> QED  BY <2>1
  <1>2. PICK z \in {n - x : x \in S} : \A y \in {n - x : x \in S} : z <= y
    BY <1>1, LeastNatural
  <1>3. PICK x \in S : z = n - x
    BY <1>2
  <1>4. ASSUME NEW y \in S PROVE y <= x
    <2>1. n - y \in {n - w : w \in S}
      OBVIOUS
    <2>2. z <= n - y
      BY <1>2, <2>1
    <2> QED  BY <1>3, <2>2
  <1> QED  BY <1>4

\* After a restart ids go on from the highest in the store; no call is left.
LEMMA RestartKeepsPipeline ==
    ASSUME PipelineIInv, PipelineRestart
    PROVE  PipelineIInv'
  <1>1. /\ lastId' = HighestId /\ call' = [t \in Reporters |-> Ended] /\ state' = [f \in Prints |-> None]
        /\ UNCHANGED <<now, events, store, arrived, finished, unsaved>>
    BY DEF PipelineRestart
  <1>2. \A i \in DOMAIN store : i \in 0..lastId /\ store[i] \in AlertRows /\ store[i].id = i
    BY DEF PipelineIInv, PipelineTypes, IdsAreOnce
  <1>3. lastId \in Nat /\ DOMAIN store \subseteq 0..lastId
    BY <1>2 DEF PipelineIInv, PipelineTypes
  <1>4. HighestId \in Nat /\ \A i \in DOMAIN store : i <= HighestId
    <2>1. CASE DOMAIN store = {}
      BY <2>1 DEF HighestId
    <2>2. CASE DOMAIN store # {}
      <3>1. \E x \in DOMAIN store : \A y \in DOMAIN store : y <= x
        BY <1>3, <2>2, HighestIs
      <3>2. HighestId \in DOMAIN store /\ \A i \in DOMAIN store : i <= HighestId
        BY <2>2, <3>1 DEF HighestId
      <3> QED  BY <1>3, <3>2
    <2> QED  BY <2>1, <2>2
  <1>5. PICK m \in Nat : m = Min({Cap, Cardinality(DOMAIN store)})
    <2>1. IsFiniteSet(DOMAIN store)
      <3>1. IsFiniteSet(0..lastId)
        BY <1>3, FS_Interval
      <3> QED  BY <1>3, <3>1, FS_Subset
    <2>2. PICK n \in Nat : n = Cardinality(DOMAIN store)
      BY <2>1, FS_CardinalityType
    <2>3. Min({Cap, n}) \in Nat
      <3>1. Cap \in Nat
        BY PipelineNumbers
      <3>2. \E x \in {Cap, n} : \A y \in {Cap, n} : x <= y
        BY <3>1
      <3>3. Min({Cap, n}) \in {Cap, n}
        BY <3>2 DEF Min
      <3> QED  BY <3>1, <3>3
    <2> QED  BY <2>2, <2>3
  <1>6. PICK ids \in [1..m -> DOMAIN store] : memory' = [k \in 1..m |-> store[ids[k]]]
    BY <1>5 DEF PipelineRestart
  <1>7. \A k \in 1..m : ids[k] \in DOMAIN store /\ memory'[k] = store[ids[k]]
    BY <1>6
  <1>8. memory' \in Seq(AlertRows) /\ DOMAIN memory' = 1..m
    <2>1. memory' \in [1..m -> AlertRows]
      BY <1>2, <1>6, <1>7
    <2> QED  BY <2>1
  <1>9. Ended \in Calls /\ ~Active(Ended) /\ Ended.pc = "idle"
    BY DEF Ended, Calls, Labels, Active
  <1>10. \A t \in Reporters : call'[t] = Ended
    BY <1>1
  <1>11. PipelineTypes'
    BY <1>1, <1>4, <1>8, <1>9, <1>10 DEF PipelineIInv, PipelineTypes
  <1>12. IdsAreOnce'
    BY <1>1, <1>2, <1>4, <1>7, <1>8, <1>9, <1>10 DEF IdsAreOnce
  <1>13. RecordsStay
    BY <1>1, NothingWritten
  <1>14. ParentsAreSound'
    <2>1. EventsAreSound'
      BY <1>1, <1>13, SameEvents
    <2> QED  BY <1>1, <1>9, <1>10, <2>1 DEF ParentsAreSound, StatesAreSound, ParentOf
  <1>15. CallsKeep'
    BY <1>9, <1>10 DEF CallsKeep
  <1>16. NothingVanishes'
    BY <1>1 DEF PipelineIInv, NothingVanishes
  <1>17. StormsAreTold'
    BY <1>1 DEF StormsAreTold
  <1> QED  BY <1>11, <1>12, <1>14, <1>15, <1>16, <1>17 DEF PipelineIInv

(* One step per action of the pipeline.                                      *)
LEMMA PipelineStepKeeps == PipelineIInv /\ [PipelineNext]_pipelineVars => PipelineIInv'
  <1> SUFFICES ASSUME PipelineIInv, [PipelineNext]_pipelineVars PROVE PipelineIInv'
    OBVIOUS
  <1>1. ASSUME NEW t \in Reporters, NEW f \in Prints, Report(t, f) PROVE PipelineIInv'
    BY <1>1, ReportKeeps
  <1>2. ASSUME NEW t \in Reporters, Suppress(t) PROVE PipelineIInv'
    BY <1>2, SuppressKeeps
  <1>17. ASSUME NEW t \in Reporters, Unjudged(t) PROVE PipelineIInv'
    BY <1>17, UnjudgedKeeps
  <1>3. ASSUME NEW t \in Reporters, Judge(t) PROVE PipelineIInv'
    BY <1>3, JudgeKeeps
  <1>4. ASSUME NEW t \in Reporters, Record(t) PROVE PipelineIInv'
    BY <1>4, RecordKeeps
  <1>5. ASSUME NEW t \in Reporters, CountInMemory(t) PROVE PipelineIInv'
    BY <1>5, CountInMemoryKeeps
  <1>6. ASSUME NEW t \in Reporters, CountInStore(t) PROVE PipelineIInv'
    BY <1>6, CountInStoreKeeps
  <1>7. ASSUME NEW t \in Reporters, AppendAlert(t) PROVE PipelineIInv'
    BY <1>7, AppendAlertKeeps
  <1>8. ASSUME NEW t \in Reporters, Save(t) PROVE PipelineIInv'
    BY <1>8, SaveKeeps
  <1>9. ASSUME NEW t \in Reporters, NoteAlertId(t) PROVE PipelineIInv'
    BY <1>9, NoteKeeps
  <1>10. ASSUME NEW id \in EventIds, Acknowledge(id) PROVE PipelineIInv'
    BY <1>10, AcknowledgeKeeps
  <1>11. CASE PipelineRestart
    BY <1>11, RestartKeepsPipeline
  <1>12. ASSUME UNCHANGED <<lastId, call, state, events, memory, store, arrived, finished, unsaved>>, now' \in Nat
         PROVE  PipelineIInv'
    <2>1. RecordsStay
      BY <1>12, NothingWritten
    <2>2. PipelineTypes' /\ IdsAreOnce'
      BY <1>12 DEF PipelineIInv, PipelineTypes, IdsAreOnce
    <2> QED  BY <1>12, <2>1, <2>2, OthersKeep
  <1>13. now \in Nat
    BY DEF PipelineIInv, PipelineTypes
  <1>14. CASE ChangeRules
    BY <1>12, <1>13, <1>14 DEF ChangeRules
  <1>15. CASE PipelineTick
    BY <1>12, <1>13, <1>15 DEF PipelineTick
  <1>16. CASE UNCHANGED pipelineVars
    BY <1>12, <1>13, <1>16 DEF pipelineVars
  <1> QED
    BY <1>1, <1>2, <1>3, <1>4, <1>5, <1>6, <1>7, <1>8, <1>9, <1>10, <1>11, <1>14, <1>15, <1>16, <1>17 DEF PipelineNext

(* The invariant holds throughout.                                           *)
LEMMA PipelineIsInvariant == PipelineSpec => []PipelineIInv
  BY PipelineInitHolds, PipelineStepKeeps, PTL DEF PipelineSpec

(* However calls cross and whatever is acknowledged between them, an event   *)
(* whose call is over is an alert in the store or a recorded duplicate,      *)
(* unless a write of that call failed or a restart cut it short.             *)
THEOREM EventsAreKept == PipelineSpec => []NothingVanishes
  <1>1. PipelineIInv => NothingVanishes
    BY DEF PipelineIInv
  <1> QED  BY PipelineIsInvariant, <1>1, PTL

(* A duplicate that is on record with a parent names an alert of the same    *)
(* fingerprint, unless that alert could not be written, across every         *)
(* crossing of the look at the fingerprint table with the writes that follow *)
(* it, and across restarts.                                                  *)
THEOREM MergesAreSound == PipelineSpec => []MergedIntoSame
  <1>1. PipelineIInv => MergedIntoSame
    <2>1. None \notin Nat /\ (PipelineIInv => \A i \in DOMAIN store : i \in Nat)
      BY PipelineNone DEF PipelineIInv, IdsAreOnce
    <2> QED  BY <2>1 DEF PipelineIInv, ParentsAreSound, EventsAreSound, Sound, MergedIntoSame
  <1> QED  BY PipelineIsInvariant, <1>1, PTL

(* A fingerprint that is in a storm has been announced within the time of a  *)
(* summary by a call that is over or about to end: storm after storm, no     *)
(* crossing of calls swallows the announcement.                              *)
THEOREM StormsAreHeard == PipelineSpec => []StormIsAnnounced
  <1>1. PipelineIInv => StormIsAnnounced
    BY DEF PipelineIInv, StormsAreTold, Told, StormIsAnnounced
  <1> QED  BY PipelineIsInvariant, <1>1, PTL

-------------------------------------------------------------------------------
(* Correlation. What an evaluation found is raised or was raised within the  *)
(* cool-down, whichever threads cross between the two locks.                 *)

(* Where a thread is with the alert it hands over.                           *)
FeedFields == [pc : {"idle", "evaluate", "fire", "locked"}, ip : Addresses \cup {None},
               type : ThreatTypes \cup {None}, large : BOOLEAN, n : Nat, at : Nat, hits : SUBSET Hits]

\* The clock only moves on, and who is past the first lock has an alert.
FeedsAre ==
    /\ now \in Nat /\ feeds \in Nat
    /\ fired \in [Hits -> Nat \cup {None}]
    /\ feed \in [Feeders -> FeedFields] /\ DOMAIN due = Feeders
    /\ \A t \in Feeders :
          /\ feed[t].at <= now
          /\ feed[t].pc # "idle" => feed[t].ip \in Addresses /\ feed[t].type \in ThreatTypes
          /\ feed[t].pc \in {"fire", "locked"} => feed[t].hits # {}

(* The hit was raised less than a cool-down before it was found.             *)
Known(d) == fired[d.hit] # None /\ fired[d.hit] > d.at - Cooldown

\* What an evaluation found is still to be fired by its thread or is known.
FoundIsFired ==
    \A t \in Feeders :
        /\ due[t] \subseteq [hit : Hits, at : Nat]
        /\ feed[t].pc # "evaluate" => \A d \in due[t] :
              /\ d.at <= now
              /\ feed[t].pc = "locked" => d.at <= feed[t].at
              /\ \/ feed[t].pc \in {"fire", "locked"} /\ d.hit \in feed[t].hits
                 \/ Known(d)

SiemIInv == FeedsAre /\ FoundIsFired

LEMMA SiemInitHolds == SiemInit => SiemIInv
  BY DEF SiemInit, SiemIInv, FeedsAre, FoundIsFired, NoFeed, FeedFields

\* What is evaluated names an address or a type.
LEMMA HitsAreHits ==
    ASSUME NEW window, NEW ip \in Addresses, NEW type \in ThreatTypes, NEW large
    PROVE  Evaluated(window, ip, type, large) \subseteq Hits
  <1>1. IpHits(window, ip, type, large) \subseteq IpRules
    BY DEF IpHits
  <1>2. SpreadHits(window, type) \subseteq {<<"R-DISTRIBUTED", type>>}
    BY DEF SpreadHits
  <1> QED  BY <1>1, <1>2 DEF Evaluated, Hits

\* A thread hands over an alert.
LEMMA FeedKeeps ==
    ASSUME SiemIInv, NEW t \in Feeders, NEW ip \in Addresses, NEW type \in ThreatTypes,
           NEW large \in BOOLEAN, Feed(t, ip, type, large)
    PROVE  SiemIInv'
  <1> DEFINE x == [pc |-> "evaluate", ip |-> ip, type |-> type, large |-> large,
                   n |-> feeds + 1, at |-> now, hits |-> {}]
  <1>1. x \in FeedFields
    BY DEF SiemIInv, FeedsAre, FeedFields
  <1>2. /\ feed' = [feed EXCEPT ![t] = x] /\ feeds' = feeds + 1
        /\ UNCHANGED <<now, fired, due>>
    BY DEF Feed
  <1>3. /\ x.pc = "evaluate" /\ x.ip = ip /\ x.type = type /\ x.at = now
    OBVIOUS
  <1> HIDE DEF x
  <1>4. FeedsAre'
    BY <1>1, <1>2, <1>3 DEF SiemIInv, FeedsAre
  <1>5. FoundIsFired'
    BY <1>1, <1>2, <1>3 DEF SiemIInv, FeedsAre, FoundIsFired, Known
  <1> QED  BY <1>4, <1>5 DEF SiemIInv

\* The rules are evaluated: all that is due is to be fired.
LEMMA EvaluateKeeps ==
    ASSUME SiemIInv, NEW t \in Feeders, Evaluate(t)
    PROVE  SiemIInv'
  <1>1. PICK hits : /\ hits \subseteq Hits
                    /\ feed' = [feed EXCEPT ![t].pc = IF hits = {} THEN "idle" ELSE "fire", ![t].hits = hits]
                    /\ due' = [due EXCEPT ![t] = {[hit |-> h, at |-> feed[t].at] : h \in hits}]
    <2> DEFINE f == feed[t]
               window == Pruned(seen \cup {[n |-> f.n, at |-> f.at, ip |-> f.ip, type |-> f.type]}, f.at)
    <2>1. Evaluated(window, f.ip, f.type, f.large) \subseteq Hits
      BY HitsAreHits DEF SiemIInv, FeedsAre, Evaluate
    <2> QED  BY <2>1 DEF Evaluate
  <1>2. /\ UNCHANGED <<now, fired, feeds>> /\ feed[t].pc = "evaluate"
    BY DEF Evaluate
  <1>3. PICK pc \in {"idle", "fire"} : pc = (IF hits = {} THEN "idle" ELSE "fire")
    OBVIOUS
  <1>4. /\ feed' = [feed EXCEPT ![t] = [feed[t] EXCEPT !.pc = pc, !.hits = hits]]
    BY <1>1, <1>3
  <1> DEFINE x == [feed[t] EXCEPT !.pc = pc, !.hits = hits]
  <1>5. /\ x \in FeedFields /\ x.pc = pc /\ x.hits = hits /\ x.at = feed[t].at
        /\ x.ip = feed[t].ip /\ x.type = feed[t].type
    BY <1>1, <1>3 DEF SiemIInv, FeedsAre, FeedFields
  <1>6. feed' = [feed EXCEPT ![t] = x]
    BY <1>4
  <1> HIDE DEF x
  <1>7. FeedsAre'
    <2>1. now' \in Nat /\ feeds' \in Nat /\ fired' \in [Hits -> Nat \cup {None}] /\ DOMAIN due' = Feeders
      BY <1>1, <1>2 DEF SiemIInv, FeedsAre
    <2>2. feed' \in [Feeders -> FeedFields] /\ \A u \in Feeders : feed'[u] = IF u = t THEN x ELSE feed[u]
      BY <1>5, <1>6 DEF SiemIInv, FeedsAre
    <2>3. /\ x.at <= now
          /\ x.pc # "idle" => x.ip \in Addresses /\ x.type \in ThreatTypes
          /\ x.pc \in {"fire", "locked"} => x.hits # {}
      BY <1>1, <1>2, <1>3, <1>5 DEF SiemIInv, FeedsAre
    <2> QED  BY <1>2, <2>1, <2>2, <2>3 DEF SiemIInv, FeedsAre
  <1>8. ASSUME NEW u \in Feeders PROVE (FoundIsFired!(u))'
    <2>1. CASE u # t
      BY <2>1, <1>1, <1>2, <1>5, <1>6 DEF SiemIInv, FeedsAre, FoundIsFired, Known
    <2>2. CASE u = t
      <3>1. feed'[t] = x /\ x.at \in Nat /\ x.at <= now
        <4>1. feed[t].at \in Nat /\ feed[t].at <= now /\ t \in DOMAIN feed
          BY DEF SiemIInv, FeedsAre, FeedFields
        <4> QED  BY <4>1, <1>5, <1>6
      <3>2. due'[t] = {[hit |-> h, at |-> x.at] : h \in hits}
        BY <1>1, <1>5 DEF SiemIInv, FeedsAre
      <3>3. ASSUME NEW d \in due'[t]
            PROVE  d \in [hit : Hits, at : Nat] /\ d.at = x.at /\ d.hit \in hits
        BY <3>1, <3>2, <3>3, <1>1
      <3>4. hits # {} => pc = "fire"
        BY <1>3
      <3>5. due'[t] \subseteq [hit : Hits, at : Nat]
        BY <3>3
      <3>6. ASSUME NEW d \in due'[t]
            PROVE  d.at <= now /\ x.pc = "fire" /\ d.hit \in x.hits
        BY <3>1, <3>3, <3>4, <1>5
      <3> QED  BY <3>1, <3>5, <3>6, <1>2, <2>2
    <2> QED  BY <2>1, <2>2
  <1>9. FoundIsFired'
    BY <1>8 DEF FoundIsFired
  <1> QED  BY <1>7, <1>9 DEF SiemIInv

\* The clock is read a second time, later than it was for the evaluation.
LEMMA BeginFireKeeps ==
    ASSUME SiemIInv, NEW t \in Feeders, BeginFire(t)
    PROVE  SiemIInv'
  <1> DEFINE x == [feed[t] EXCEPT !.pc = "locked", !.at = now]
  <1>1. /\ feed' = [feed EXCEPT ![t] = x] /\ feed[t].pc = "fire" /\ UNCHANGED <<now, fired, feeds, due>>
    BY DEF BeginFire
  <1>2. /\ x \in FeedFields /\ x.pc = "locked" /\ x.hits = feed[t].hits /\ x.at = now
        /\ x.ip = feed[t].ip /\ x.type = feed[t].type
    BY DEF SiemIInv, FeedsAre, FeedFields
  <1> HIDE DEF x
  <1>3. FeedsAre'
    BY <1>1, <1>2 DEF SiemIInv, FeedsAre
  <1>4. FoundIsFired'
    BY <1>1, <1>2 DEF SiemIInv, FeedsAre, FoundIsFired, Known
  <1> QED  BY <1>3, <1>4 DEF SiemIInv

\* A hit is fired or swallowed by the cool-down: either way it is known, and
\* what was known before stays so, since a firing never takes the time back.
LEMMA FireKeeps ==
    ASSUME SiemIInv, Cooldown > 0, NEW t \in Feeders, Fire(t)
    PROVE  SiemIInv'
  <1>1. PICK h \in feed[t].hits :
          /\ \/ fired' = [fired EXCEPT ![h] = feed[t].at]
                /\ (fired[h] = None \/ feed[t].at - fired[h] >= Cooldown)
             \/ fired' = fired /\ fired[h] # None /\ ~(feed[t].at - fired[h] >= Cooldown)
          /\ feed' = [feed EXCEPT ![t].hits = @ \ {h}, ![t].pc = IF feed[t].hits = {h} THEN "idle" ELSE "fire"]
    BY DEF Fire, CooldownKey
  <1>2. UNCHANGED <<now, feeds, due>> /\ feed[t].pc = "locked"
    BY DEF Fire
  <1>3. PICK pc \in {"idle", "fire"} : pc = (IF feed[t].hits = {h} THEN "idle" ELSE "fire")
    OBVIOUS
  <1> DEFINE x == [feed[t] EXCEPT !.hits = @ \ {h}, !.pc = pc]
  <1>4. feed' = [feed EXCEPT ![t] = x]
    BY <1>1, <1>3
  <1>5. /\ x \in FeedFields /\ x.pc = pc /\ x.hits = feed[t].hits \ {h} /\ x.at = feed[t].at
        /\ x.ip = feed[t].ip /\ x.type = feed[t].type
    BY <1>3 DEF SiemIInv, FeedsAre, FeedFields
  <1> HIDE DEF x
  <1>6. /\ h \in Hits /\ feed[t].at \in Nat /\ Cooldown \in Nat
    BY CorrelationNumbers DEF SiemIInv, FeedsAre, FeedFields
  <1>7. ASSUME NEW g \in Hits
        PROVE  /\ fired'[g] \in Nat \cup {None}
               /\ fired[g] # None => fired'[g] # None /\ fired'[g] >= fired[g]
    BY <1>1, <1>6, NoneIsNoNumber DEF SiemIInv, FeedsAre
  <1>8. fired'[h] # None /\ fired'[h] \in Nat /\ fired'[h] > feed[t].at - Cooldown
    BY <1>1, <1>6, NoneIsNoNumber DEF SiemIInv, FeedsAre
  <1>9. FeedsAre'
    <2>1. fired' \in [Hits -> Nat \cup {None}]
      BY <1>1, <1>6 DEF SiemIInv, FeedsAre
    <2> QED  BY <2>1, <1>2, <1>3, <1>4, <1>5 DEF SiemIInv, FeedsAre
  <1>10. ASSUME NEW u \in Feeders, NEW d \in due[u] PROVE Known(d) => Known(d)'
    <2>1. d.hit \in Hits /\ d.at \in Nat
      BY DEF SiemIInv, FoundIsFired
    <2>2. fired[d.hit] \in Nat \cup {None}
      BY <2>1 DEF SiemIInv, FeedsAre
    <2> QED  BY <2>1, <2>2, <1>6, <1>7 DEF Known
  <1>11. ASSUME NEW u \in Feeders PROVE (FoundIsFired!(u))'
    <2>1. CASE u # t
      BY <2>1, <1>2, <1>4, <1>10 DEF SiemIInv, FeedsAre, FoundIsFired
    <2>2. CASE u = t
      <3>1. feed'[u] = x
        BY <2>2, <1>4 DEF SiemIInv, FeedsAre
      <3>2. ASSUME NEW d \in due[t] PROVE d.at \in Nat /\ d.at <= now /\ ((x.pc = "fire" /\ d.hit \in x.hits) \/ Known(d)')
        <4>1. d.at \in Nat /\ d.at <= now /\ d.at <= feed[t].at /\ (d.hit \in feed[t].hits \/ Known(d))
          BY <1>2 DEF SiemIInv, FoundIsFired
        <4>2. CASE d.hit = h
          BY <4>1, <4>2, <1>6, <1>8 DEF Known
        <4>3. CASE Known(d)
          BY <4>1, <4>3, <1>10
        <4>4. CASE d.hit \in feed[t].hits \ {h}
          BY <4>1, <4>4, <1>3, <1>5
        <4> QED  BY <4>1, <4>2, <4>3, <4>4
      <3>3. x.pc # "locked"
        BY <1>3, <1>5
      <3> QED  BY <3>1, <3>2, <3>3, <1>2, <2>2 DEF SiemIInv, FoundIsFired
    <2> QED  BY <2>1, <2>2
  <1>12. FoundIsFired'
    BY <1>11 DEF FoundIsFired
  <1> QED  BY <1>9, <1>12 DEF SiemIInv

(* One step per action: an alert, the evaluation, the second look at the     *)
(* clock, the firing, and the clock.                                         *)
LEMMA SiemStepKeeps ==
    ASSUME SiemIInv, Cooldown > 0, [SiemNext]_siemVars
    PROVE  SiemIInv'
  <1>1. ASSUME NEW t \in Feeders, NEW ip \in Addresses, NEW type \in ThreatTypes, NEW large \in BOOLEAN,
               Feed(t, ip, type, large)
        PROVE SiemIInv'
    BY <1>1, FeedKeeps
  <1>2. ASSUME NEW t \in Feeders, Evaluate(t) PROVE SiemIInv'
    BY <1>2, EvaluateKeeps
  <1>3. ASSUME NEW t \in Feeders, BeginFire(t) PROVE SiemIInv'
    BY <1>3, BeginFireKeeps
  <1>4. ASSUME NEW t \in Feeders, Fire(t) PROVE SiemIInv'
    BY <1>4, FireKeeps
  <1>5. CASE SiemTick
    BY <1>5 DEF SiemTick, SiemIInv, FeedsAre, FoundIsFired, FeedFields, Known
  <1>6. CASE UNCHANGED siemVars
    BY <1>6 DEF siemVars, SiemIInv, FeedsAre, FoundIsFired, Known
  <1> QED  BY <1>1, <1>2, <1>3, <1>4, <1>5, <1>6 DEF SiemNext

(* Whatever the order in which threads take the two locks, a hit that an     *)
(* evaluation found is raised by its thread or is known from a raise within  *)
(* the cool-down. With a cool-down of zero the second clause can never hold, *)
(* so that case is left out; the setting is 300 seconds unless it is         *)
(* changed.                                                                  *)
THEOREM HitsAreKnown ==
    ASSUME Cooldown > 0
    PROVE  SiemSpec => []HitIsKnown
  <1>1. SiemIInv => HitIsKnown
    BY DEF SiemIInv, FoundIsFired, HitIsKnown, Known
  <1>2. SiemIInv /\ [SiemNext]_siemVars => SiemIInv'
    BY SiemStepKeeps
  <1> QED  BY SiemInitHolds, <1>1, <1>2, PTL DEF SiemSpec

-------------------------------------------------------------------------------
(* Windows over packets. Trimming while counting and pruning by the emit     *)
(* loop drop nothing that a rule would still count.                          *)

(* What the windows keep of a packet, and what the observer keeps of all of  *)
(* them.                                                                     *)
TimedPackets == [n : Nat, at : Nat]
SizedPackets == [n : Nat, at : Nat, size : Sizes]
Histories == [flood : SUBSET TimedPackets, scan : SUBSET (Ports \X Nat), exfil : SUBSET SizedPackets]

\* Lists are in the order of time, and nothing comes from what is to come.
InOrder(entries) ==
    /\ \A e \in entries : e.n \in Nat /\ e.n < packets /\ e.at \in Nat /\ e.at <= now
    /\ \A e, f \in entries : e.n <= f.n => e.at <= f.at

(* What is kept is part of what was seen, each list in its order.            *)
WindowsAre ==
    /\ now \in Nat /\ packets \in Nat
    /\ packetTimes \in [Sources -> SUBSET TimedPackets]
    /\ portsTried \in [Sources -> SUBSET (Ports \X Nat)]
    /\ bytesSent \in [Sources -> SUBSET SizedPackets]
    /\ history \in [Sources -> Histories]
    /\ \A s \in Sources : InOrder(packetTimes[s]) /\ InOrder(bytesSent[s])

\* What the property says of the bytes, and the last entry kept is the last seen.
BytesAreKept(whole, sent) ==
    /\ sent \subseteq whole
    /\ \A e \in YoungBytes(whole) \ sent : SilentAfter(e, whole)
(* The last entry that is kept is the last that was seen.                    *)
LastIsKept(whole, sent) ==
    /\ \A f \in whole : f.n < packets /\ f.at <= now
    /\ sent # {} => \E last \in sent : \A f \in whole : f.n <= last.n

EndsAreKept == \A s \in Sources : LastIsKept(history[s].exfil, bytesSent[s])

WinIInv == WindowsAre /\ EndsAreKept /\ NothingYoungIsPruned

LEMMA WinInitHolds == WindowsInit => WinIInv
  BY DEF WindowsInit, WinIInv, WindowsAre, InOrder, NoHistory, Histories, EndsAreKept, LastIsKept,
         NothingYoungIsPruned, YoungTimes, YoungPorts, YoungBytes

\* A new entry goes to the end of its list.
LEMMA OrderKept ==
    ASSUME NEW old, InOrder(old), now \in Nat, packets \in Nat, packets' = packets + 1, now' = now,
           NEW e, e.n = packets, e.at = now,
           NEW new \in SUBSET (old \cup {e})
    PROVE  InOrder(new)'
  BY DEF InOrder

(* What is taken out of a list leaves it in order.                           *)
LEMMA OrderStays ==
    ASSUME NEW old, InOrder(old), now \in Nat, packets \in Nat, packets' >= packets, now' >= now,
           packets' \in Nat, now' \in Nat
    PROVE  InOrder(old)'
  BY DEF InOrder

LEMMA NoneInOrder == InOrder({}) /\ InOrder({})'
  BY DEF InOrder

\* A packet changes what is kept of its source, and both sides alike.
LEMMA PacketKeeps ==
    ASSUME WinIInv, NEW s \in Sources, NEW times, NEW tries, NEW sent, NEW h \in Histories,
           now' = now, packets' = packets + 1,
           packetTimes' = [packetTimes EXCEPT ![s] = times],
           portsTried' = [portsTried EXCEPT ![s] = tries],
           bytesSent' = [bytesSent EXCEPT ![s] = sent],
           history' = [history EXCEPT ![s] = h],
           InOrder(times)', InOrder(sent)',
           times \subseteq TimedPackets, tries \subseteq Ports \X Nat, sent \subseteq SizedPackets,
           YoungTimes(h.flood) = YoungTimes(times), YoungPorts(h.scan) = YoungPorts(tries),
           BytesAreKept(h.exfil, sent)', LastIsKept(h.exfil, sent)'
    PROVE  WinIInv'
  <1>1. WindowsAre'
    <2>1. ASSUME NEW r \in Sources \ {s}
          PROVE  InOrder(packetTimes[r])' /\ InOrder(bytesSent[r])'
      <3>1. InOrder(packetTimes[r]) /\ InOrder(bytesSent[r])
        BY DEF WinIInv, WindowsAre
      <3>2. packetTimes'[r] = packetTimes[r] /\ bytesSent'[r] = bytesSent[r]
        BY DEF WinIInv, WindowsAre
      <3> QED  BY <3>1, <3>2 DEF InOrder, WinIInv, WindowsAre
    <2>2. InOrder(packetTimes[s])' /\ InOrder(bytesSent[s])'
      BY DEF InOrder, WinIInv, WindowsAre
    <2> QED  BY <2>1, <2>2 DEF WinIInv, WindowsAre
  <1>2. ASSUME NEW r \in Sources PROVE (NothingYoungIsPruned!(r))' /\ LastIsKept(history[r].exfil, bytesSent[r])'
    <2>1. CASE r = s
      <3>1. history'[r] = h /\ packetTimes'[r] = times /\ portsTried'[r] = tries /\ bytesSent'[r] = sent
        BY <2>1 DEF WinIInv, WindowsAre
      <3> QED  BY <3>1 DEF BytesAreKept, LastIsKept, SilentAfter, YoungTimes, YoungPorts, YoungBytes
    <2>2. CASE r # s
      <3>1. /\ history'[r] = history[r] /\ packetTimes'[r] = packetTimes[r]
            /\ portsTried'[r] = portsTried[r] /\ bytesSent'[r] = bytesSent[r]
        BY <2>2 DEF WinIInv, WindowsAre
      <3>2. (NothingYoungIsPruned!(r))'
        BY <3>1 DEF WinIInv, NothingYoungIsPruned, SilentAfter, YoungTimes, YoungPorts, YoungBytes
      <3>3. LastIsKept(history[r].exfil, bytesSent[r])'
        BY <3>1 DEF WinIInv, WindowsAre, Histories, SizedPackets, EndsAreKept, LastIsKept
      <3> QED  BY <3>2, <3>3
    <2> QED  BY <2>1, <2>2
  <1>3. NothingYoungIsPruned' /\ EndsAreKept'
    BY <1>2 DEF NothingYoungIsPruned, EndsAreKept
  <1> QED  BY <1>1, <1>3 DEF WinIInv

\* Bytes that are left alone stay kept.
LEMMA BytesStay ==
    ASSUME now \in Nat, packets \in Nat, UNCHANGED now, packets' = packets + 1,
           NEW whole \in SUBSET SizedPackets, NEW sent, BytesAreKept(whole, sent), LastIsKept(whole, sent)
    PROVE  BytesAreKept(whole, sent)' /\ LastIsKept(whole, sent)'
  <1>1. BytesAreKept(whole, sent)'
    BY DEF BytesAreKept, SilentAfter, YoungBytes
  <1>2. LastIsKept(whole, sent)'
    BY DEF LastIsKept, SizedPackets
  <1> QED  BY <1>1, <1>2

\* The entry of this packet is young, and a silence it ends was one all the same.
LEMMA BytesGrow ==
    ASSUME now \in Nat, packets \in Nat, UNCHANGED now, packets' = packets + 1,
           NEW whole \in SUBSET SizedPackets, NEW sent, BytesAreKept(whole, sent), LastIsKept(whole, sent),
           NEW entry \in SizedPackets, entry.n = packets, entry.at = now,
           NEW more, more = whole \cup {entry}, NEW left, left = YoungBytes(sent \cup {entry})
    PROVE  BytesAreKept(more, left)' /\ LastIsKept(more, left)'
  <1>1. ExfilSpan \in Nat /\ ExfilSpan > 0 /\ ExfilHorizon \in Nat
    BY WindowNumbers, ExfilSpanIsSet
  <1>2. entry \in left /\ left \subseteq sent \cup {entry} /\ sent \subseteq whole
    BY <1>1 DEF YoungBytes, BytesAreKept
  <1>3. ASSUME NEW e \in YoungBytes(more) \ left PROVE SilentAfter(e, more)
    <2>1. e \in YoungBytes(whole) \ sent
      BY <1>2, <1>3 DEF YoungBytes
    <2>2. SilentAfter(e, whole)
      BY <2>1 DEF BytesAreKept
    <2>3. PICK last \in whole : /\ e.n <= last.n /\ now - last.at > ExfilHorizon
                               /\ \A f \in whole : f.n > last.n => f.at - last.at > ExfilHorizon
      BY <2>2 DEF SilentAfter
    <2>4. \A f \in more : f.n > last.n => f.at - last.at > ExfilHorizon
      BY <2>3
    <2>5. last \in more
      BY <2>3
    <2> QED  BY <2>3, <2>4, <2>5 DEF SilentAfter
  <1>4. BytesAreKept(more, left)'
    <2>1. BytesAreKept(more, left)
      BY <1>2, <1>3 DEF BytesAreKept
    <2> QED  BY <2>1 DEF BytesAreKept, YoungBytes, SilentAfter
  <1>5. LastIsKept(more, left)'
    <2>1. \A f \in more : f.n <= packets /\ f.n < packets' /\ f.at <= now
      BY DEF LastIsKept, SizedPackets
    <2> QED  BY <1>2, <2>1 DEF LastIsKept
  <1> QED  BY <1>4, <1>5

\* What is trimmed while a packet is counted is too old to count.
LEMMA OutsideKeeps ==
    ASSUME WinIInv, NEW s \in Outside, NEW port \in Ports, NEW small \in BOOLEAN, OutsidePacket(s, port, small)
    PROVE  WinIInv'
  <1>1. /\ s \in Sources /\ now \in Nat /\ packets \in Nat /\ packets' = packets + 1
        /\ now' = now /\ bytesSent' = bytesSent
    BY DEF OutsidePacket, Sources, WinIInv, WindowsAre
  <1>2. PICK entry \in TimedPackets : entry = [n |-> packets, at |-> now]
    BY <1>1 DEF TimedPackets
  <1>3. PICK try \in Ports \X Nat : try = <<port, now>>
    BY <1>1
  <1>4. PICK long : long = YoungTimes(packetTimes[s] \cup {entry})
    OBVIOUS
  <1>5. PICK wide : wide = IF small THEN YoungPorts(portsTried[s] \cup {try}) ELSE portsTried[s]
    OBVIOUS
  <1>6. PICK flood \in BOOLEAN, scan \in BOOLEAN :
          /\ packetTimes' = [packetTimes EXCEPT ![s] = IF flood THEN {} ELSE long]
          /\ portsTried' = [portsTried EXCEPT ![s] = IF scan THEN {} ELSE wide]
          /\ history' = [history EXCEPT
                 ![s].flood = IF flood THEN {} ELSE @ \cup {entry},
                 ![s].scan = IF scan THEN {} ELSE IF small THEN @ \cup {try} ELSE @]
    BY <1>2, <1>3, <1>4, <1>5 DEF OutsidePacket
  <1>7. PICK old \in Histories : old = history[s]
    BY <1>1 DEF WinIInv, WindowsAre, Histories
  <1>8. PICK times : times = IF flood THEN {} ELSE long
    OBVIOUS
  <1>9. PICK tries : tries = IF scan THEN {} ELSE wide
    OBVIOUS
  <1>10. PICK flooded : flooded = IF flood THEN {} ELSE old.flood \cup {entry}
    OBVIOUS
  <1>11. PICK scanned : scanned = IF scan THEN {} ELSE IF small THEN old.scan \cup {try} ELSE old.scan
    OBVIOUS
  <1>12. flooded \subseteq TimedPackets /\ scanned \subseteq Ports \X Nat
    BY <1>7, <1>10, <1>11 DEF Histories
  <1>13. PICK h \in Histories : /\ h = [old EXCEPT !.flood = flooded, !.scan = scanned]
                                /\ h.flood = flooded /\ h.scan = scanned /\ h.exfil = old.exfil
    <2>1. [old EXCEPT !.flood = flooded, !.scan = scanned] \in Histories
      BY <1>7, <1>12 DEF Histories
    <2> QED  BY <1>7, <2>1 DEF Histories
  <1>14. history' = [history EXCEPT ![s] = h]
    <2>1. history' = [history EXCEPT ![s] = [history[s] EXCEPT
                 !.flood = IF flood THEN {} ELSE @ \cup {entry},
                 !.scan = IF scan THEN {} ELSE IF small THEN @ \cup {try} ELSE @]]
      BY <1>6
    <2>2. [history[s] EXCEPT
                 !.flood = IF flood THEN {} ELSE @ \cup {entry},
                 !.scan = IF scan THEN {} ELSE IF small THEN @ \cup {try} ELSE @] = h
      BY <1>7, <1>10, <1>11, <1>13 DEF Histories
    <2> QED  BY <2>1, <2>2
  <1>15. /\ packetTimes' = [packetTimes EXCEPT ![s] = times] /\ portsTried' = [portsTried EXCEPT ![s] = tries]
         /\ bytesSent' = [bytesSent EXCEPT ![s] = bytesSent[s]]
    BY <1>1, <1>6, <1>8, <1>9 DEF WinIInv, WindowsAre
  <1>16. /\ InOrder(packetTimes[s]) /\ InOrder(bytesSent[s]) /\ portsTried[s] \subseteq Ports \X Nat
         /\ YoungTimes(old.flood) = YoungTimes(packetTimes[s])
         /\ YoungPorts(old.scan) = YoungPorts(portsTried[s])
         /\ BytesAreKept(old.exfil, bytesSent[s]) /\ LastIsKept(old.exfil, bytesSent[s])
    BY <1>1, <1>7 DEF WinIInv, WindowsAre, NothingYoungIsPruned, BytesAreKept, EndsAreKept
  <1>17. InOrder(times)'
    <2>1. times \in SUBSET (packetTimes[s] \cup {entry})
      BY <1>4, <1>8 DEF YoungTimes
    <2>2. entry.n = packets /\ entry.at = now
      BY <1>2
    <2> QED  BY <1>1, <1>16, <2>1, <2>2, OrderKept
  <1>18. PICK sent : sent = bytesSent[s]
    OBVIOUS
  <1>19. InOrder(sent)'
    BY <1>1, <1>16, <1>18 DEF InOrder
  <1>20. tries \subseteq Ports \X Nat
    BY <1>3, <1>5, <1>9, <1>16 DEF YoungPorts
  <1>21. YoungTimes(h.flood) = YoungTimes(times)
    BY <1>4, <1>8, <1>10, <1>13, <1>16 DEF YoungTimes
  <1>22. YoungPorts(h.scan) = YoungPorts(tries)
    BY <1>5, <1>9, <1>11, <1>13, <1>16 DEF YoungPorts
  <1>23. BytesAreKept(h.exfil, sent)' /\ LastIsKept(h.exfil, sent)'
    <2>1. BytesAreKept(old.exfil, sent)' /\ LastIsKept(old.exfil, sent)'
      BY <1>1, <1>7, <1>16, <1>18, BytesStay DEF Histories
    <2> QED  BY <1>13, <2>1
  <1>24. times \subseteq TimedPackets /\ sent \subseteq SizedPackets
    BY <1>1, <1>4, <1>8, <1>18 DEF WinIInv, WindowsAre, YoungTimes
  <1> QED  BY <1>24, <1>1, <1>14, <1>15, <1>17, <1>18, <1>19, <1>20, <1>21, <1>22, <1>23, PacketKeeps

(* An inside host sends: its list of sizes is trimmed and grows.             *)
LEMMA InternalKeeps ==
    ASSUME WinIInv, NEW s \in Internal, NEW size \in Sizes, InternalPacket(s, size)
    PROVE  WinIInv'
  <1>1. /\ s \in Sources /\ now \in Nat /\ packets \in Nat /\ packets' = packets + 1
        /\ now' = now /\ packetTimes' = packetTimes /\ portsTried' = portsTried
    BY DEF InternalPacket, Sources, WinIInv, WindowsAre
  <1>2. PICK entry \in SizedPackets : entry = [n |-> packets, at |-> now, size |-> size]
    BY <1>1 DEF SizedPackets
  <1>3. PICK much : much = YoungBytes(bytesSent[s] \cup {entry})
    OBVIOUS
  <1>4. PICK exfil \in BOOLEAN :
          /\ bytesSent' = [bytesSent EXCEPT ![s] = IF exfil THEN {} ELSE much]
          /\ history' = [history EXCEPT ![s].exfil = IF exfil THEN {} ELSE @ \cup {entry}]
    BY <1>2, <1>3 DEF InternalPacket
  <1>5. PICK old \in Histories : old = history[s]
    BY <1>1 DEF WinIInv, WindowsAre, Histories
  <1>6. PICK sent : sent = IF exfil THEN {} ELSE much
    OBVIOUS
  <1>7. PICK leaked : leaked = IF exfil THEN {} ELSE old.exfil \cup {entry}
    OBVIOUS
  <1>8. leaked \subseteq SizedPackets
    BY <1>5, <1>7 DEF Histories
  <1>9. PICK h \in Histories : /\ h = [old EXCEPT !.exfil = leaked]
                               /\ h.flood = old.flood /\ h.scan = old.scan /\ h.exfil = leaked
    <2>1. [old EXCEPT !.exfil = leaked] \in Histories
      BY <1>5, <1>8 DEF Histories
    <2> QED  BY <1>5, <2>1 DEF Histories
  <1>10. history' = [history EXCEPT ![s] = h]
    <2>1. history' = [history EXCEPT ![s] = [history[s] EXCEPT !.exfil = IF exfil THEN {} ELSE @ \cup {entry}]]
      BY <1>4
    <2>2. [history[s] EXCEPT !.exfil = IF exfil THEN {} ELSE @ \cup {entry}] = h
      BY <1>5, <1>7, <1>9 DEF Histories
    <2> QED  BY <2>1, <2>2
  <1>11. PICK times, tries : times = packetTimes[s] /\ tries = portsTried[s]
    OBVIOUS
  <1>12. /\ packetTimes' = [packetTimes EXCEPT ![s] = times] /\ portsTried' = [portsTried EXCEPT ![s] = tries]
         /\ bytesSent' = [bytesSent EXCEPT ![s] = sent]
    BY <1>1, <1>4, <1>6, <1>11 DEF WinIInv, WindowsAre
  <1>13. /\ InOrder(packetTimes[s]) /\ InOrder(bytesSent[s]) /\ portsTried[s] \subseteq Ports \X Nat
         /\ YoungTimes(old.flood) = YoungTimes(packetTimes[s])
         /\ YoungPorts(old.scan) = YoungPorts(portsTried[s])
         /\ BytesAreKept(old.exfil, bytesSent[s]) /\ LastIsKept(old.exfil, bytesSent[s])
    BY <1>1, <1>5 DEF WinIInv, WindowsAre, NothingYoungIsPruned, BytesAreKept, EndsAreKept
  <1>14. InOrder(sent)'
    <2>1. sent \in SUBSET (bytesSent[s] \cup {entry})
      BY <1>3, <1>6 DEF YoungBytes
    <2>2. entry.n = packets /\ entry.at = now
      BY <1>2
    <2> QED  BY <1>1, <1>13, <2>1, <2>2, OrderKept
  <1>15. InOrder(times)'
    BY <1>1, <1>11, <1>13 DEF InOrder
  <1>16. tries \subseteq Ports \X Nat
    BY <1>11, <1>13
  <1>17. BytesAreKept(leaked, sent)' /\ LastIsKept(leaked, sent)'
    <2>1. CASE exfil
      BY <2>1, <1>6, <1>7 DEF BytesAreKept, LastIsKept, YoungBytes
    <2>2. CASE ~exfil
      <3>1. leaked = old.exfil \cup {entry} /\ sent = YoungBytes(bytesSent[s] \cup {entry})
        BY <2>2, <1>3, <1>6, <1>7
      <3> QED  BY <1>1, <1>2, <1>5, <1>13, <3>1, BytesGrow DEF Histories
    <2> QED  BY <2>1, <2>2
  <1>18. YoungTimes(h.flood) = YoungTimes(times) /\ YoungPorts(h.scan) = YoungPorts(tries)
    BY <1>9, <1>11, <1>13
  <1>19. times \subseteq TimedPackets /\ sent \subseteq SizedPackets
    BY <1>1, <1>3, <1>6, <1>11 DEF WinIInv, WindowsAre, YoungBytes
  <1>20. BytesAreKept(h.exfil, sent)' /\ LastIsKept(h.exfil, sent)'
    BY <1>9, <1>17
  <1> QED  BY <1>19, <1>1, <1>10, <1>12, <1>14, <1>15, <1>16, <1>18, <1>20, PacketKeeps

\* A list that ends beyond the horizon holds nothing that is young.
LEMMA LongAgoIsOld ==
    ASSUME NEW entries, InOrder(entries), now \in Nat, NEW horizon \in Nat, NEW span \in Nat, span <= horizon,
           LongAgo(entries, horizon), NEW e \in entries
    PROVE  ~(now - e.at < span)
  BY DEF LongAgo, InOrder

\* What the emit loop drops is beyond the span of its rule.
LEMMA PruneKeeps ==
    ASSUME WinIInv, Prune
    PROVE  WinIInv'
  <1>1. UNCHANGED <<now, packets, history>> /\ now \in Nat
    BY DEF Prune, WinIInv, WindowsAre
  <1>2. {FloodSpan, ScanSpan, ExfilSpan, FloodHorizon, ScanHorizon, ExfilHorizon} \subseteq Nat
    BY WindowNumbers
  <1>3. WindowsAre'
    BY <1>1 DEF Prune, WinIInv, WindowsAre, InOrder
  <1>4. ASSUME NEW s \in Sources
        PROVE  (NothingYoungIsPruned!(s))' /\ LastIsKept(history[s].exfil, bytesSent[s])'
    <2>1. InOrder(packetTimes[s]) /\ portsTried[s] \subseteq Ports \X Nat
      BY DEF WinIInv, WindowsAre
    <2>2. YoungTimes(packetTimes'[s]) = YoungTimes(packetTimes[s])
      <3>1. CASE QuietTimes(s)
        <4>1. \A e \in packetTimes[s] : ~(now - e.at < FloodSpan)
          BY <1>1, <1>2, <2>1, <3>1, LongAgoIsOld, SpansBelowHorizons DEF QuietTimes
        <4>2. packetTimes'[s] = {}
          BY <3>1 DEF Prune
        <4> QED  BY <4>1, <4>2 DEF YoungTimes
      <3>2. CASE ~QuietTimes(s)
        BY <3>2 DEF Prune
      <3> QED  BY <3>1, <3>2
    <2>3. BytesAreKept(history[s].exfil, bytesSent[s])' /\ LastIsKept(history[s].exfil, bytesSent[s])'
      <3>1. PICK whole \in SUBSET SizedPackets, sent \in SUBSET SizedPackets :
              whole = history[s].exfil /\ sent = bytesSent[s] /\ BytesAreKept(whole, sent) /\ LastIsKept(whole, sent)
        BY DEF WinIInv, WindowsAre, Histories, NothingYoungIsPruned, BytesAreKept, EndsAreKept
      <3>2. PICK left : left = bytesSent'[s]
        OBVIOUS
      <3>3. BytesAreKept(whole, left) /\ LastIsKept(whole, left)
        <4>1. CASE QuietBytes(s)
          <5>1. left = {} /\ LongAgo(sent, ExfilHorizon)
            BY <3>1, <3>2, <4>1 DEF Prune, QuietBytes
          <5>2. CASE sent = {}
            BY <3>1, <5>1, <5>2
          <5>3. CASE sent # {}
            <6>1. PICK last \in sent : (\A e \in sent : e.n <= last.n) /\ now - last.at > ExfilHorizon
              BY <5>1, <5>3 DEF LongAgo
            <6>2. \A f \in whole : f.n <= last.n
              BY <3>1, <5>3, <6>1 DEF LastIsKept, SizedPackets
            <6>3. \A e \in whole : SilentAfter(e, whole)
              BY <3>1, <6>1, <6>2 DEF SilentAfter, BytesAreKept, SizedPackets
            <6> QED  BY <3>1, <5>1, <6>3 DEF BytesAreKept, LastIsKept, YoungBytes
          <5> QED  BY <5>2, <5>3
        <4>2. CASE ~QuietBytes(s)
          BY <3>1, <3>2, <4>2 DEF Prune
        <4> QED  BY <4>1, <4>2
      <3>4. BytesAreKept(whole, left)' /\ LastIsKept(whole, left)'
        BY <1>1, <3>3 DEF BytesAreKept, LastIsKept, YoungBytes, SilentAfter
      <3>5. history'[s].exfil = whole
        BY <1>1, <3>1
      <3> QED  BY <3>2, <3>4, <3>5 DEF BytesAreKept, LastIsKept, YoungBytes, SilentAfter
    <2>4. YoungPorts(portsTried'[s]) = YoungPorts(portsTried[s])
      <3>1. CASE QuietPorts(s)
        <4>1. \A p \in portsTried[s] : ~(now - p[2] < ScanSpan)
          BY <1>1, <1>2, <2>1, <3>1, SpansBelowHorizons DEF QuietPorts
        <4>2. portsTried'[s] = {}
          BY <3>1 DEF Prune
        <4> QED  BY <4>1, <4>2 DEF YoungPorts
      <3>2. CASE ~QuietPorts(s)
        BY <3>2 DEF Prune
      <3> QED  BY <3>1, <3>2
    <2>5. YoungTimes(history[s].flood)' = YoungTimes(packetTimes[s])'
      BY <1>1, <2>2 DEF WinIInv, NothingYoungIsPruned, YoungTimes
    <2>6. YoungPorts(history[s].scan)' = YoungPorts(portsTried[s])'
      BY <1>1, <2>4 DEF WinIInv, NothingYoungIsPruned, YoungPorts
    <2> QED  BY <2>3, <2>5, <2>6 DEF BytesAreKept
  <1>5. NothingYoungIsPruned' /\ EndsAreKept'
    BY <1>4 DEF NothingYoungIsPruned, EndsAreKept
  <1> QED  BY <1>3, <1>5 DEF WinIInv

\* What is young later is young now.
LEMMA WindowsTickKeeps ==
    ASSUME WinIInv, WindowsTick
    PROVE  WinIInv'
  <1>1. /\ UNCHANGED <<packetTimes, portsTried, bytesSent, packets, history>>
        /\ now' = now + 1 /\ now \in Nat /\ packets \in Nat
    BY DEF WindowsTick, WinIInv, WindowsAre
  <1>2. {FloodSpan, ScanSpan, ExfilSpan} \subseteq Nat
    BY WindowNumbers
  <1>3. WindowsAre'
    BY <1>1 DEF WinIInv, WindowsAre, InOrder
  <1>4. ASSUME NEW s \in Sources
        PROVE  (NothingYoungIsPruned!(s))' /\ LastIsKept(history[s].exfil, bytesSent[s])'
    <2>1. /\ InOrder(packetTimes[s]) /\ InOrder(bytesSent[s]) /\ portsTried[s] \subseteq Ports \X Nat /\ history[s] \in Histories
          /\ history[s].flood \subseteq TimedPackets /\ history[s].scan \subseteq Ports \X Nat
          /\ history[s].exfil \subseteq SizedPackets
      BY DEF WinIInv, WindowsAre, Histories
    <2>2. NothingYoungIsPruned!(s)
      BY DEF WinIInv, NothingYoungIsPruned
    <2>3. ASSUME NEW set, \A e \in set : e.at \in Nat
          PROVE  YoungTimes(set)' = {e \in YoungTimes(set) : now + 1 - e.at < FloodSpan}
      BY <1>1, <1>2, <2>3 DEF YoungTimes
    <2>4. ASSUME NEW set \in SUBSET (Ports \X Nat)
          PROVE  YoungPorts(set)' = {p \in YoungPorts(set) : now + 1 - p[2] < ScanSpan}
      BY <1>1, <1>2 DEF YoungPorts
    <2>5. PICK t, f, b, x, p, q :
            /\ t = packetTimes[s] /\ f = history[s].flood /\ b = bytesSent[s] /\ x = history[s].exfil
            /\ p = portsTried[s] /\ q = history[s].scan
      OBVIOUS
    <2>6. YoungTimes(t)' = YoungTimes(f)'
      BY <2>1, <2>2, <2>3, <2>5 DEF InOrder, TimedPackets
    <2>7. BytesAreKept(x, b)' /\ LastIsKept(x, b)'
      <3>1. x \subseteq SizedPackets /\ BytesAreKept(x, b) /\ LastIsKept(x, b)
        BY <2>1, <2>2, <2>5 DEF WinIInv, BytesAreKept, EndsAreKept
      <3>2. LastIsKept(x, b)'
        BY <1>1, <3>1 DEF LastIsKept, SizedPackets
      <3>3. ASSUME NEW e \in x, SilentAfter(e, x) PROVE SilentAfter(e, x)'
        <4>1. ExfilHorizon \in Nat
          BY WindowNumbers
        <4> QED  BY <1>1, <3>1, <3>3, <4>1 DEF SilentAfter, SizedPackets
      <3>4. YoungBytes(x)' \subseteq YoungBytes(x)
        BY <1>1, <1>2, <3>1 DEF YoungBytes, SizedPackets
      <3>5. YoungBytes(x) \subseteq x
        BY DEF YoungBytes
      <3> QED  BY <3>1, <3>2, <3>3, <3>4, <3>5 DEF BytesAreKept
    <2>8. YoungPorts(p)' = YoungPorts(q)'
      BY <2>1, <2>2, <2>4, <2>5
    <2>9. /\ history'[s] = history[s] /\ packetTimes'[s] = t /\ bytesSent'[s] = b /\ portsTried'[s] = p
          /\ history'[s].flood = f /\ history'[s].exfil = x /\ history'[s].scan = q
      BY <1>1, <2>5
    <2>10. YoungTimes(history[s].flood)' = YoungTimes(packetTimes[s])' /\ YoungPorts(history[s].scan)' = YoungPorts(portsTried[s])'
      BY <2>6, <2>8, <2>9 DEF YoungTimes, YoungPorts
    <2>11. BytesAreKept(history[s].exfil, bytesSent[s])' /\ LastIsKept(history[s].exfil, bytesSent[s])'
      BY <2>7, <2>9 DEF BytesAreKept, LastIsKept, SilentAfter, YoungBytes
    <2> QED  BY <2>10, <2>11 DEF BytesAreKept
  <1>5. NothingYoungIsPruned' /\ EndsAreKept'
    BY <1>4 DEF NothingYoungIsPruned, EndsAreKept
  <1> QED  BY <1>3, <1>5 DEF WinIInv

(* One step per action: packets from either side, pruning, and the clock.    *)
LEMMA WindowsStepKeeps == WinIInv /\ [WindowsNext]_windowVars => WinIInv'
  <1> SUFFICES ASSUME WinIInv, [WindowsNext]_windowVars PROVE WinIInv'
    OBVIOUS
  <1>1. ASSUME NEW s \in Outside, NEW port \in Ports, NEW small \in BOOLEAN, OutsidePacket(s, port, small)
        PROVE WinIInv'
    BY <1>1, OutsideKeeps
  <1>2. ASSUME NEW s \in Internal, NEW size \in Sizes, InternalPacket(s, size) PROVE WinIInv'
    BY <1>2, InternalKeeps
  <1>3. CASE Prune
    BY <1>3, PruneKeeps
  <1>4. CASE WindowsTick
    BY <1>4, WindowsTickKeeps
  <1>5. CASE UNCHANGED windowVars
    BY <1>5 DEF windowVars, WinIInv, WindowsAre, InOrder, EndsAreKept, LastIsKept, NothingYoungIsPruned,
                 SilentAfter, YoungTimes, YoungPorts, YoungBytes
  <1> QED  BY <1>1, <1>2, <1>3, <1>4, <1>5 DEF WindowsNext

(* However packets, the rules that trim as they count and the loop that      *)
(* prunes follow each other, nothing younger than the span of the rule that  *)
(* counts it is gone, except bytes after which their source paused for       *)
(* longer than the pruning waits; the window of the bytes may have any       *)
(* length.                                                                   *)
THEOREM YoungIsKept == WindowsSpec => []NothingYoungIsPruned
  <1>1. WinIInv => NothingYoungIsPruned
    BY DEF WinIInv
  <1> QED  BY WinInitHolds, WindowsStepKeeps, <1>1, PTL DEF WindowsSpec

-------------------------------------------------------------------------------
(* The syslog receiver. Every line of a stream is recorded once and in its   *)
(* order however the stream is cut, and slots and counters agree, for any    *)
(* number of connections, hosts and events, any cap of connections and any   *)
(* text.                                                                     *)

(* Events as they are recorded.                                              *)
EventSet ==
    [origin : Origins, host : LogHosts \cup {None}, demo : BOOLEAN, suspicious : BOOLEAN,
     severity : {"INFO", "MEDIUM", "HIGH", "CRITICAL"},
     threat : {None, "BRUTE_FORCE", "ANOMALY", "WEB_ATTACK", "PORT_SCAN", "MALWARE_BEACON"}]
LinkStates == {"new", "refused", "dropped", "accepted", "open", "lines", "breaks", "closed", "broken"}
(* Connections, of which so far only finitely many have come.                *)
LinkTypes ==
    /\ link \in [Links -> LinkStates]
    /\ slots \in Int /\ logStats.active \in Int /\ logStats.rejected \in Nat
    /\ IsFiniteSet({l \in Links : link[l] # "new"})
(* What a connection has sent and what is left of it.                        *)
TextTypes ==
    /\ buf \in [Links -> Seq(Text)] /\ inbox \in [Links -> Seq(Text)]
    /\ kept \in [Links -> Seq([at : Nat, text : Seq(Text)])]
    /\ ends \in [Links -> SUBSET Nat]
    \* A recv ends where the text does.
    /\ \A l \in Links : ends[l] \subseteq 1..Len(inbox[l]) /\ (inbox[l] = <<>> \/ Len(inbox[l]) \in ends[l])
(* What was recorded, and its counters.                                      *)
EventTypes ==
    /\ heard \in Seq(EventSet) /\ logEvents \in Seq(EventSet)
    /\ originCount \in [Origins -> Nat] /\ hostCount \in [LogHosts -> Nat]
    /\ logStats \in [total : Nat, received : Nat, demo : Nat, suspicious : Nat, rejected : Nat, active : Int]

\* What is left of a connection's text is the end of its stream behind the last
\* newline that was taken, and the lines up to there are the ones recorded.
Upto(text, n) == {r \in LinesOf(text) : r.at <= n}
Unfinished == {"lines", "breaks", "broken"}
TakenIn(l) == Len(Stream(l)) - Len(buf[l])
StreamIs(l) ==
    /\ TakenIn(l) >= 0 /\ (TakenIn(l) = 0 \/ Stream(l)[TakenIn(l)] = NewLine)
    /\ \A i \in DOMAIN buf[l] : buf[l][i] = Stream(l)[TakenIn(l) + i]
    /\ {kept[l][i] : i \in DOMAIN kept[l]} = Upto(Stream(l), TakenIn(l))
    /\ \A i, j \in DOMAIN kept[l] : i < j => kept[l][i].at < kept[l][j].at
    /\ link[l] \notin Unfinished => \A i \in DOMAIN buf[l] : buf[l][i] # NewLine
StreamsAre == \A l \in Links : StreamIs(l)

(* The invariant of the receiver.                                            *)
SyslogIInv == LinkTypes /\ TextTypes /\ EventTypes /\ StreamsAre /\ SlotsAreHeld /\ CountsAgree

-----------------------------------------------------------------------------
\* What a text that was decoded in parts reads as.

LEMMA ReadIs ==
    ASSUME NEW s \in Seq(Text), NEW cuts
    PROVE  /\ Read(s, cuts) \in Seq(Text) /\ Len(Read(s, cuts)) = Len(s) /\ DOMAIN Read(s, cuts) = 1..Len(s)
           /\ \A i \in 1..Len(s) : Read(s, cuts)[i] = IF Whole(s, cuts, i) THEN s[i] ELSE Mark
  <1> DEFINE n == Len(s)
  <1>1. n \in Nat /\ DOMAIN s = 1..n /\ \A i \in 1..n : s[i] \in Text
      OBVIOUS
  <1>2. Mark \in Text
      BY DEF Text
  <1> HIDE DEF n
  <1>3. Read(s, cuts) = [i \in 1..n |-> IF Whole(s, cuts, i) THEN s[i] ELSE Mark]
      BY <1>1 DEF Read
  <1>4. Read(s, cuts) \in [1..n -> Text]
      BY <1>1, <1>2, <1>3
  <1>5. Read(s, cuts) \in Seq(Text) /\ Len(Read(s, cuts)) = n
      BY <1>1, <1>4, SeqDef, LenProperties
  <1> QED BY <1>3, <1>5 DEF n

\* A part is read the same before and after what follows it came.
LEMMA WholeBefore ==
    ASSUME NEW a \in Seq(Text), NEW c \in Seq(Text), c # <<>>, NEW cuts \in SUBSET (1..Len(a)),
           a = <<>> \/ Len(a) \in cuts, NEW i \in 1..Len(a)
    PROVE  Whole(a \o c, cuts \cup {Len(a) + Len(c)}, i) <=> Whole(a, cuts, i)
  <1> DEFINE la == Len(a)
             lc == Len(c)
             s == a \o c
  <1>1. la \in Nat /\ lc \in Nat /\ lc > 0 /\ DOMAIN a = 1..la /\ DOMAIN s = 1..(la + lc)
        /\ \A k \in 1..la : s[k] = a[k]
    <2>1. la \in Nat /\ lc \in Nat /\ lc # 0 /\ DOMAIN a = 1..la
        BY EmptySeq
    <2>2. s \in Seq(Text) /\ Len(s) = la + lc
        BY ConcatProperties
    <2>3. DOMAIN s = 1..(la + lc) /\ \A k \in 1..la : s[k] = a[k]
        BY <2>2, ConcatProperties
    <2> QED BY <2>1, <2>3
  <1>2. la \in cuts
    <2>1. a # <<>>
        BY EmptySeq
    <2> QED BY <2>1
  <1> HIDE DEF la, lc, s
  <1>3. cuts \in SUBSET (1..la) /\ i \in 1..la
      BY DEF la
  <1>4. (i \notin cuts \cup {la + lc} /\ i + 1 \in DOMAIN s /\ s[i + 1] = Trail)
        <=> (i \notin cuts /\ i + 1 \in DOMAIN a /\ a[i + 1] = Trail)
    <2>1. CASE i = la
        BY <2>1, <1>2
    <2>2. CASE i # la
      <3>1. i + 1 \in 1..la /\ i # la + lc /\ i + 1 \in 1..(la + lc)
          BY <2>2, <1>1, <1>3
      <3> QED BY <3>1, <1>1
    <2> QED BY <2>1, <2>2
  <1>5. (i - 1 \notin cuts \cup {la + lc} /\ i - 1 \in DOMAIN s /\ s[i - 1] = Lead)
        <=> (i - 1 \notin cuts /\ i - 1 \in DOMAIN a /\ a[i - 1] = Lead)
    <2>1. i - 1 # la + lc /\ (i - 1 \in 1..la <=> i - 1 \in 1..(la + lc))
        BY <1>1, <1>3
    <2> QED BY <2>1, <1>1
  <1>6. s[i] = a[i]
      BY <1>1, <1>3
  <1>7. Whole(s, cuts \cup {la + lc}, i) <=> Whole(a, cuts, i)
      BY <1>4, <1>5, <1>6 DEF Whole
  <1> QED BY <1>7 DEF la, lc, s

LEMMA WholeBehind ==
    ASSUME NEW a \in Seq(Text), NEW c \in Seq(Text), c # <<>>, NEW cuts \in SUBSET (1..Len(a)),
           a = <<>> \/ Len(a) \in cuts, NEW j \in 1..Len(c)
    PROVE  Whole(a \o c, cuts \cup {Len(a) + Len(c)}, Len(a) + j) <=> Whole(c, {Len(c)}, j)
  <1> DEFINE la == Len(a)
             lc == Len(c)
             s == a \o c
  <1>1. la \in Nat /\ lc \in Nat /\ lc > 0 /\ DOMAIN c = 1..lc /\ DOMAIN s = 1..(la + lc)
        /\ \A k \in 1..lc : s[la + k] = c[k]
    <2>1. la \in Nat /\ lc \in Nat /\ lc # 0 /\ DOMAIN c = 1..lc
        BY EmptySeq
    <2>2. s \in Seq(Text) /\ Len(s) = la + lc
          /\ \A k \in 1..la + lc : s[k] = IF k <= la THEN a[k] ELSE c[k - la]
        BY ConcatProperties
    <2>3. DOMAIN s = 1..(la + lc)
        BY <2>2
    <2> HIDE DEF la, lc, s
    <2>4. ASSUME NEW k \in 1..lc PROVE s[la + k] = c[k]
      <3>1. la + k \in 1..la + lc /\ ~(la + k <= la) /\ (la + k) - la = k
          BY <2>1
      <3> QED BY <3>1, <2>2
    <2> QED BY <2>1, <2>3, <2>4
  <1>2. la = 0 \/ la \in cuts
      BY EmptySeq
  <1> HIDE DEF la, lc, s
  <1>3. cuts \in SUBSET (1..la) /\ j \in 1..lc
      BY DEF la, lc
  <1>4. (la + j \notin cuts \cup {la + lc} /\ (la + j) + 1 \in DOMAIN s /\ s[(la + j) + 1] = Trail)
        <=> (j \notin {lc} /\ j + 1 \in DOMAIN c /\ c[j + 1] = Trail)
    <2>1. /\ la + j \notin cuts /\ (la + j = la + lc <=> j = lc) /\ (la + j) + 1 = la + (j + 1)
          /\ ((la + j) + 1 \in 1..(la + lc) <=> j + 1 \in 1..lc)
        BY <1>1, <1>3
    <2> QED BY <2>1, <1>1
  <1>5. ((la + j) - 1 \notin cuts \cup {la + lc} /\ (la + j) - 1 \in DOMAIN s /\ s[(la + j) - 1] = Lead)
        <=> (j - 1 \notin {lc} /\ j - 1 \in DOMAIN c /\ c[j - 1] = Lead)
    <2>1. CASE j = 1
      <3>1. (la + j) - 1 = la /\ j - 1 = 0 /\ 0 \notin 1..lc /\ 0 \notin 1..(la + lc)
          BY <2>1, <1>1
      <3> QED BY <3>1, <1>1, <1>2
    <2>2. CASE j # 1
      <3>1. /\ (la + j) - 1 \notin cuts /\ (la + j) - 1 # la + lc /\ j - 1 # lc /\ (la + j) - 1 = la + (j - 1)
            /\ (la + j) - 1 \in 1..(la + lc) /\ j - 1 \in 1..lc
          BY <2>2, <1>1, <1>3
      <3> QED BY <3>1, <1>1
    <2> QED BY <2>1, <2>2
  <1>6. s[la + j] = c[j]
      BY <1>1, <1>3
  <1>7. Whole(s, cuts \cup {la + lc}, la + j) <=> Whole(c, {lc}, j)
      BY <1>4, <1>5, <1>6 DEF Whole
  <1> QED BY <1>7 DEF la, lc, s

\* So decoding what comes on its own is decoding all of it, cut where it ends.
LEMMA ReadConcat ==
    ASSUME NEW a \in Seq(Text), NEW c \in Seq(Text), c # <<>>, NEW cuts \in SUBSET (1..Len(a)),
           a = <<>> \/ Len(a) \in cuts
    PROVE  Read(a \o c, cuts \cup {Len(a) + Len(c)}) = Read(a, cuts) \o Read(c, {Len(c)})
  <1> DEFINE la == Len(a)
             lc == Len(c)
             s == a \o c
             all == cuts \cup {la + lc}
             r == Read(a, cuts)
             q == Read(c, {lc})
  <1>1. la \in Nat /\ lc \in Nat
      OBVIOUS
  <1>2. s \in Seq(Text) /\ Len(s) = la + lc
        /\ \A k \in 1..la + lc : s[k] = IF k <= la THEN a[k] ELSE c[k - la]
      BY ConcatProperties
  <1>3. /\ r \in Seq(Text) /\ Len(r) = la /\ q \in Seq(Text) /\ Len(q) = lc
        /\ \A i \in 1..la : r[i] = IF Whole(a, cuts, i) THEN a[i] ELSE Mark
        /\ \A i \in 1..lc : q[i] = IF Whole(c, {lc}, i) THEN c[i] ELSE Mark
      BY ReadIs
  <1>4. /\ Read(s, all) \in Seq(Text) /\ Len(Read(s, all)) = la + lc
        /\ \A i \in 1..la + lc : Read(s, all)[i] = IF Whole(s, all, i) THEN s[i] ELSE Mark
    <2>1. /\ Read(s, all) \in Seq(Text) /\ Len(Read(s, all)) = Len(s)
          /\ \A i \in 1..Len(s) : Read(s, all)[i] = IF Whole(s, all, i) THEN s[i] ELSE Mark
      <3> HIDE DEF s, all
      <3> QED BY <1>2, ReadIs
    <2> QED BY <2>1, <1>2
  <1>5. r \o q \in Seq(Text) /\ Len(r \o q) = la + lc
        /\ \A k \in 1..la + lc : (r \o q)[k] = IF k <= la THEN r[k] ELSE q[k - la]
    <2> HIDE DEF r, q, la, lc
    <2> QED BY <1>3, ConcatProperties
  <1>6. \A i \in 1..la : Whole(s, all, i) <=> Whole(a, cuts, i)
      BY WholeBefore
  <1>7. \A j \in 1..lc : Whole(s, all, la + j) <=> Whole(c, {lc}, j)
      BY WholeBehind
  <1> HIDE DEF la, lc, s, all, r, q
  <1>8. ASSUME NEW k \in 1..la + lc PROVE Read(s, all)[k] = (r \o q)[k]
    <2>1. CASE k <= la
      <3>1. k \in 1..la
          BY <2>1, <1>1
      <3> QED BY <3>1, <2>1, <1>2, <1>3, <1>4, <1>5, <1>6
    <2>2. CASE ~(k <= la)
      <3>1. k - la \in 1..lc /\ la + (k - la) = k
          BY <2>2, <1>1
      <3>2. Whole(s, all, k) <=> Whole(c, {lc}, k - la)
          BY <3>1, <1>7
      <3>3. s[k] = c[k - la] /\ (r \o q)[k] = q[k - la]
          BY <2>2, <1>2, <1>5
      <3> QED BY <3>1, <3>2, <3>3, <1>3, <1>4
    <2> QED BY <2>1, <2>2
  <1>9. Read(s, all) = r \o q
      BY <1>4, <1>5, <1>8, SeqEqual
  <1> QED BY <1>9 DEF la, lc, s, all, r, q

LEMMA StreamTypes ==
    ASSUME TextTypes, NEW l \in Links
    PROVE  Stream(l) \in Seq(Text) /\ Len(Stream(l)) = Len(inbox[l])
  <1>1. inbox[l] \in Seq(Text)
      BY DEF TextTypes
  <1> QED BY <1>1, ReadIs DEF Stream

-----------------------------------------------------------------------------
\* The text: what a chunk adds, and what a turn of the inner loop takes.

(* What a line of a text is: it ends with a newline, starts behind the one   *)
(* before, and holds none.                                                   *)
LEMMA SpansAre ==
    ASSUME NEW S, NEW s \in Seq(S), NEW r
    PROVE  r \in LinesOf(s) <=>
              \E b \in 0..Len(s), e \in 1..Len(s) :
                 /\ r = [at |-> e, text |-> SubSeq(s, b + 1, e - 1)]
                 /\ b + 1 < e /\ s[e] = NewLine /\ (b = 0 \/ s[b] = NewLine)
                 /\ \A i \in (b + 1)..(e - 1) : s[i] # NewLine
  <1>1. ASSUME r \in LinesOf(s)
        PROVE  \E b \in 0..Len(s), e \in 1..Len(s) :
                 /\ r = [at |-> e, text |-> SubSeq(s, b + 1, e - 1)]
                 /\ b + 1 < e /\ s[e] = NewLine /\ (b = 0 \/ s[b] = NewLine)
                 /\ \A i \in (b + 1)..(e - 1) : s[i] # NewLine
    <2>1. PICK q \in Spans(s) : r = [at |-> q[2], text |-> SubSeq(s, q[1] + 1, q[2] - 1)]
        BY <1>1 DEF LinesOf
    <2>2. /\ q[1] \in 0..Len(s) /\ q[2] \in 1..Len(s)
          /\ q[1] + 1 < q[2] /\ s[q[2]] = NewLine /\ (q[1] = 0 \/ s[q[1]] = NewLine)
          /\ \A i \in (q[1] + 1)..(q[2] - 1) : s[i] # NewLine
        BY DEF Spans
    <2> QED BY <2>1, <2>2
  <1>2. ASSUME NEW b \in 0..Len(s), NEW e \in 1..Len(s),
               r = [at |-> e, text |-> SubSeq(s, b + 1, e - 1)],
               b + 1 < e, s[e] = NewLine, b = 0 \/ s[b] = NewLine,
               \A i \in (b + 1)..(e - 1) : s[i] # NewLine
        PROVE  r \in LinesOf(s)
    <2>1. <<b, e>> \in Spans(s)
        BY <1>2 DEF Spans
    <2>2. r = [at |-> <<b, e>>[2], text |-> SubSeq(s, <<b, e>>[1] + 1, <<b, e>>[2] - 1)]
        BY <1>2
    <2> QED BY <2>1, <2>2 DEF LinesOf
  <1> QED BY <1>1, <1>2

\* A line ends within its text.
LEMMA EndsAreIn ==
    ASSUME NEW S, NEW s \in Seq(S), NEW r \in LinesOf(s)
    PROVE  r.at \in 1..Len(s)
  <1>1. PICK q \in Spans(s) : r = [at |-> q[2], text |-> SubSeq(s, q[1] + 1, q[2] - 1)]
      BY DEF LinesOf
  <1>2. q[2] \in 1..Len(s)
      BY DEF Spans
  <1> QED BY <1>1, <1>2

(* What is appended to a text leaves its lines up to its end as they are.    *)
LEMMA UptoOfConcat ==
    ASSUME NEW S, NEW s \in Seq(S), NEW t \in Seq(S), NEW n \in 0..Len(s)
    PROVE  Upto(s \o t, n) = Upto(s, n)
  <1>1. /\ s \o t \in Seq(S) /\ Len(s \o t) = Len(s) + Len(t) /\ Len(s) \in Nat /\ Len(t) \in Nat
        /\ \A i \in 1..Len(s) : (s \o t)[i] = s[i]
      BY ConcatProperties
  <1>2. ASSUME NEW b \in 0..Len(s), NEW e \in 1..Len(s), b + 1 < e
        PROVE  SubSeq(s \o t, b + 1, e - 1) = SubSeq(s, b + 1, e - 1)
    <2>1. b + 1 \in 1..Len(s) /\ e - 1 \in 1..Len(s)
        BY <1>1, <1>2
    <2> QED BY <2>1, SubSeqOfConcat1
  <1>3. ASSUME NEW r \in Upto(s \o t, n) PROVE r \in Upto(s, n)
    <2>1. PICK b \in 0..Len(s \o t), e \in 1..Len(s \o t) :
                 /\ r = [at |-> e, text |-> SubSeq(s \o t, b + 1, e - 1)]
                 /\ b + 1 < e /\ (s \o t)[e] = NewLine /\ (b = 0 \/ (s \o t)[b] = NewLine)
                 /\ \A i \in (b + 1)..(e - 1) : (s \o t)[i] # NewLine
        BY <1>1, SpansAre DEF Upto
    <2>2. r.at = e /\ r.at <= n
        BY <2>1 DEF Upto
    <2>3. b \in 0..Len(s) /\ e \in 1..Len(s) /\ (b # 0 => b \in 1..Len(s))
          /\ \A i \in (b + 1)..(e - 1) : i \in 1..Len(s)
        BY <1>1, <2>1, <2>2
    <2>4. /\ s[e] = NewLine /\ (b = 0 \/ s[b] = NewLine)
          /\ \A i \in (b + 1)..(e - 1) : s[i] # NewLine
        BY <1>1, <2>1, <2>3
    <2>5. r = [at |-> e, text |-> SubSeq(s, b + 1, e - 1)]
        BY <1>2, <2>1, <2>3
    <2>6. r \in LinesOf(s)
        BY <2>1, <2>3, <2>4, <2>5, SpansAre
    <2> QED BY <2>2, <2>6 DEF Upto
  <1>4. ASSUME NEW r \in Upto(s, n) PROVE r \in Upto(s \o t, n)
    <2>1. PICK b \in 0..Len(s), e \in 1..Len(s) :
                 /\ r = [at |-> e, text |-> SubSeq(s, b + 1, e - 1)]
                 /\ b + 1 < e /\ s[e] = NewLine /\ (b = 0 \/ s[b] = NewLine)
                 /\ \A i \in (b + 1)..(e - 1) : s[i] # NewLine
        BY SpansAre DEF Upto
    <2>3. b \in 0..Len(s \o t) /\ e \in 1..Len(s \o t) /\ (b # 0 => b \in 1..Len(s))
          /\ \A i \in (b + 1)..(e - 1) : i \in 1..Len(s)
        BY <1>1, <2>1
    <2>4. /\ (s \o t)[e] = NewLine /\ (b = 0 \/ (s \o t)[b] = NewLine)
          /\ \A i \in (b + 1)..(e - 1) : (s \o t)[i] # NewLine
        BY <1>1, <2>1, <2>3
    <2>5. r = [at |-> e, text |-> SubSeq(s \o t, b + 1, e - 1)]
        BY <1>2, <2>1
    <2>6. r \in LinesOf(s \o t)
        BY <1>1, <2>1, <2>3, <2>4, <2>5, SpansAre
    <2> QED BY <2>6 DEF Upto
  <1> QED BY <1>3, <1>4

\* The next newline behind the end of a line ends the only line that follows,
\* unless it is blank.
EndsNext(s, n, m) ==
    /\ n = 0 \/ s[n] = NewLine
    /\ n < m /\ s[m] = NewLine /\ \A i \in (n + 1)..(m - 1) : s[i] # NewLine
LineBetween(s, n, m) == IF m = n + 1 THEN {} ELSE {[at |-> m, text |-> SubSeq(s, n + 1, m - 1)]}

(* Up to the first newline behind one there is one more line, unless it      *)
(* would be empty.                                                           *)
LEMMA UptoNext ==
    ASSUME NEW s \in Seq(Text), NEW n \in 0..Len(s), NEW m \in 1..Len(s), EndsNext(s, n, m)
    PROVE  Upto(s, m) = Upto(s, n) \cup LineBetween(s, n, m)
  <1>h. /\ n < m /\ (n = 0 \/ s[n] = NewLine) /\ s[m] = NewLine
        /\ \A i \in (n + 1)..(m - 1) : s[i] # NewLine
      BY DEF EndsNext
  <1>0. Len(s) \in Nat
      OBVIOUS
  <1>1. ASSUME NEW r \in Upto(s, m), ~(r.at <= n)
        PROVE  m # n + 1 /\ r = [at |-> m, text |-> SubSeq(s, n + 1, m - 1)]
    <2>1. PICK b \in 0..Len(s), e \in 1..Len(s) :
                 /\ r = [at |-> e, text |-> SubSeq(s, b + 1, e - 1)]
                 /\ b + 1 < e /\ s[e] = NewLine /\ (b = 0 \/ s[b] = NewLine)
                 /\ \A i \in (b + 1)..(e - 1) : s[i] # NewLine
        BY SpansAre DEF Upto
    <2>2. r.at = e /\ e <= m /\ ~(e <= n)
        BY <1>1, <2>1 DEF Upto
    <2>3. e = m
      <3>1. ~(e < m)
        <4> SUFFICES ASSUME e < m PROVE FALSE
            OBVIOUS
        <4>1. e \in (n + 1)..(m - 1)
            BY <1>0, <1>h, <2>2
        <4> QED BY <4>1, <2>1, <1>h
      <3> QED BY <3>1, <2>2, <1>0, <1>h
    <2>4. b = n
      <3>1. ~(b < n)
        <4> SUFFICES ASSUME b < n PROVE FALSE
            OBVIOUS
        <4>1. n \in (b + 1)..(e - 1) /\ n # 0
            BY <1>0, <1>h, <2>3
        <4> QED BY <4>1, <2>1, <1>h
      <3>2. ~(n < b)
        <4> SUFFICES ASSUME n < b PROVE FALSE
            OBVIOUS
        <4>1. b \in (n + 1)..(m - 1) /\ b # 0
            BY <1>0, <1>h, <2>1, <2>3
        <4> QED BY <4>1, <2>1, <1>h
      <3> QED BY <3>1, <3>2, <1>0, <1>h
    <2> QED BY <2>1, <2>3, <2>4, <1>0, <1>h
  <1>2. ASSUME m # n + 1 PROVE [at |-> m, text |-> SubSeq(s, n + 1, m - 1)] \in Upto(s, m)
    <2>1. n + 1 < m
        BY <1>0, <1>h, <1>2
    <2>2. [at |-> m, text |-> SubSeq(s, n + 1, m - 1)] \in LinesOf(s)
        BY <2>1, SpansAre, <1>h
    <2> QED BY <2>2, <1>0, <1>h DEF Upto
  <1>3. \A r \in LinesOf(s) : r.at \in Nat
    <2> SUFFICES ASSUME NEW r \in LinesOf(s) PROVE r.at \in Nat
        OBVIOUS
    <2>1. PICK b \in 0..Len(s), e \in 1..Len(s) : r = [at |-> e, text |-> SubSeq(s, b + 1, e - 1)]
        BY SpansAre
    <2> QED BY <2>1, <1>0, <1>h
  <1>4. \A r \in LinesOf(s) : r.at <= n => r.at <= m
      BY <1>0, <1>h, <1>3
  <1> QED BY <1>1, <1>2, <1>4 DEF Upto, LineBetween

-----------------------------------------------------------------------------
\* Events

(* What is made of a line is an event.                                       *)
LEMMA EventsAreKnown ==
    ASSUME NEW line, NEW origin \in Origins, NEW host \in LogHosts \cup {None}, NEW demo \in BOOLEAN
    PROVE  /\ EventOf(line, origin, host, demo) \in EventSet
           /\ EventOf(line, origin, host, demo).origin = origin
           /\ EventOf(line, origin, host, demo).host = host
           /\ EventOf(line, origin, host, demo).demo = demo
  <1> DEFINE text == UNION {line[i] : i \in DOMAIN line}
             hit == text \cap DOMAIN KeywordRules
  <1>1. DOMAIN KeywordRules = 1..7
      BY DEF KeywordRules
  <1>2. \A i \in 1..7 : /\ KeywordRules[i].severity \in {"MEDIUM", "HIGH", "CRITICAL"}
                        /\ KeywordRules[i].threat \in {"BRUTE_FORCE", "ANOMALY", "WEB_ATTACK", "PORT_SCAN", "MALWARE_BEACON"}
      BY DEF KeywordRules
  <1>3. /\ ClassifySyslog(text).severity \in {"INFO", "MEDIUM", "HIGH", "CRITICAL"}
        /\ ClassifySyslog(text).threat \in {None, "BRUTE_FORCE", "ANOMALY", "WEB_ATTACK", "PORT_SCAN", "MALWARE_BEACON"}
        /\ ClassifySyslog(text).suspicious \in BOOLEAN
    <2> HIDE DEF text
    <2>1. CASE hit = {}
        BY <2>1 DEF ClassifySyslog
    <2>2. CASE hit # {}
      <3>1. hit \in SUBSET Nat
          BY <1>1
      <3>2. \E i \in hit : \A j \in hit : i <= j
          BY <2>2, <3>1, LeastNatural
      <3>3. (CHOOSE i \in hit : \A j \in hit : i <= j) \in 1..7
          BY <1>1, <3>2
      <3> QED BY <1>2, <2>2, <3>3 DEF ClassifySyslog
    <2> QED BY <2>1, <2>2
  <1>4. EventOf(line, origin, host, demo) =
           [origin |-> origin, host |-> host, demo |-> demo, suspicious |-> ClassifySyslog(text).suspicious,
            severity |-> ClassifySyslog(text).severity, threat |-> ClassifySyslog(text).threat]
      BY DEF EventOf
  <1> HIDE DEF text
  <1> QED BY <1>3, <1>4 DEF EventSet

(* A place more at the end of a sequence.                                    *)
LEMMA OneMorePlace ==
    ASSUME NEW n \in Nat, NEW S \in SUBSET (1..n)
    PROVE  Cardinality(S) \in Nat /\ Cardinality(S \cup {n + 1}) = Cardinality(S) + 1
  <1>1. IsFiniteSet(1..n)
      BY FS_Interval
  <1>2. IsFiniteSet(S)
      BY <1>1, FS_Subset
  <1>3. n + 1 \notin S
      OBVIOUS
  <1> QED BY <1>2, <1>3, FS_AddElement, FS_CardinalityType

(* Recording an event keeps the counts in step with the history.             *)
LEMMA HandleKeeps ==
    ASSUME EventTypes, CountsAgree, NEW line, NEW origin \in Origins, NEW host \in LogHosts \cup {None},
           NEW demo \in BOOLEAN, NEW breaks \in BOOLEAN, Handle(line, origin, host, demo, breaks)
    PROVE  /\ EventTypes' /\ CountsAgree'
           /\ logStats'.active = logStats.active /\ logStats'.rejected = logStats.rejected
  <1> DEFINE e == EventOf(line, origin, host, demo)
             n == Len(heard)
  <1>e. /\ e \in EventSet /\ e.origin = origin /\ e.host = host /\ e.demo = demo
        /\ e.suspicious \in BOOLEAN
    <2>1. e \in EventSet /\ e.origin = origin /\ e.host = host /\ e.demo = demo
        BY EventsAreKnown
    <2>2. e.suspicious \in BOOLEAN
        BY <2>1 DEF EventSet
    <2> QED BY <2>1, <2>2
  <1>h. /\ heard' = Append(heard, e)
        /\ logEvents' = Append(IF Len(logEvents) = EventCap THEN Tail(logEvents) ELSE logEvents, e)
        /\ originCount' = [originCount EXCEPT ![origin] = @ + 1]
        /\ hostCount' = IF host = None THEN hostCount ELSE [hostCount EXCEPT ![host] = @ + 1]
        /\ logStats' = [logStats EXCEPT !.total = @ + 1, !.suspicious = IF e.suspicious THEN @ + 1 ELSE @,
                                        !.demo = IF demo THEN @ + 1 ELSE @, !.received = IF demo THEN @ ELSE @ + 1]
      BY DEF Handle
  <1> HIDE DEF e
  <1>t. /\ heard \in Seq(EventSet) /\ logEvents \in Seq(EventSet) /\ n \in Nat /\ Len(logEvents) \in Nat
        /\ originCount \in [Origins -> Nat] /\ hostCount \in [LogHosts -> Nat]
        /\ logStats \in [total : Nat, received : Nat, demo : Nat, suspicious : Nat, rejected : Nat, active : Int]
      BY DEF EventTypes
  <1>1. /\ heard' \in Seq(EventSet) /\ Len(heard') = n + 1 /\ heard'[n + 1] = e
        /\ \A i \in 1..n : heard'[i] = heard[i]
      BY <1>e, <1>h, <1>t, AppendProperties
  <1>d. DOMAIN heard = 1..n /\ DOMAIN heard' = (1..n) \cup {n + 1}
    <2>1. DOMAIN heard = 1..n /\ DOMAIN heard' = 1..(n + 1)
        BY <1>1, <1>t
    <2> QED BY <2>1, <1>t
  <1>2. /\ logStats'.total = logStats.total + 1 /\ logStats'.active = logStats.active /\ logStats'.rejected = logStats.rejected
        /\ logStats'.suspicious = (IF e.suspicious THEN logStats.suspicious + 1 ELSE logStats.suspicious)
        /\ logStats'.demo = (IF demo THEN logStats.demo + 1 ELSE logStats.demo)
        /\ logStats'.received = (IF demo THEN logStats.received ELSE logStats.received + 1)
        /\ logStats' \in [total : Nat, received : Nat, demo : Nat, suspicious : Nat, rejected : Nat, active : Int]
    <2>1. DOMAIN logStats = {"total", "received", "demo", "suspicious", "rejected", "active"}
        BY <1>t
    <2>2. /\ logStats'.total = logStats.total + 1 /\ logStats'.active = logStats.active /\ logStats'.rejected = logStats.rejected
          /\ logStats'.suspicious = (IF e.suspicious THEN logStats.suspicious + 1 ELSE logStats.suspicious)
          /\ logStats'.demo = (IF demo THEN logStats.demo + 1 ELSE logStats.demo)
          /\ logStats'.received = (IF demo THEN logStats.received ELSE logStats.received + 1)
        BY <1>h, <2>1
    <2>3. /\ logStats.total + 1 \in Nat
          /\ (IF e.suspicious THEN logStats.suspicious + 1 ELSE logStats.suspicious) \in Nat
          /\ (IF demo THEN logStats.demo + 1 ELSE logStats.demo) \in Nat
          /\ (IF demo THEN logStats.received ELSE logStats.received + 1) \in Nat
        BY <1>t
    <2>4. logStats' \in [total : Nat, received : Nat, demo : Nat, suspicious : Nat, rejected : Nat, active : Int]
        BY <1>h, <1>t, <2>3
    <2> QED BY <2>2, <2>4
  <1>3. /\ originCount' \in [Origins -> Nat] /\ hostCount' \in [LogHosts -> Nat]
        /\ \A o \in Origins : originCount'[o] = IF o = origin THEN originCount[o] + 1 ELSE originCount[o]
        /\ \A h \in LogHosts : hostCount'[h] = IF h = host THEN hostCount[h] + 1 ELSE hostCount[h]
    <2>1. originCount' \in [Origins -> Nat]
          /\ \A o \in Origins : originCount'[o] = IF o = origin THEN originCount[o] + 1 ELSE originCount[o]
        BY <1>h, <1>t
    <2>2. CASE host = None
        BY <2>1, <2>2, <1>h, <1>t, SyslogSenders
    <2>3. CASE host # None
      <3>1. host \in LogHosts /\ hostCount' = [hostCount EXCEPT ![host] = @ + 1]
          BY <2>3, <1>h
      <3> QED BY <2>1, <3>1, <1>t
    <2> QED BY <2>2, <2>3
  \* The deque
  <1> DEFINE room == IF Len(logEvents) = EventCap THEN Tail(logEvents) ELSE logEvents
  <1>n. EventCap \in Nat /\ EventCap > 0
      BY SyslogNumbers
  <1>4. /\ room \in Seq(EventSet) /\ Len(room) \in Nat
        /\ Len(room) = (IF Len(logEvents) = EventCap THEN Len(logEvents) - 1 ELSE Len(logEvents))
        /\ \A i \in 1..Len(room) : room[i] = heard[n - Len(room) + i]
    <2>c. Len(logEvents) = (IF n < EventCap THEN n ELSE EventCap)
          /\ \A i \in 1..Len(logEvents) : logEvents[i] = heard[n - Len(logEvents) + i]
      <3>1. DOMAIN logEvents = 1..Len(logEvents)
          BY <1>t
      <3> QED BY <3>1 DEF CountsAgree
    <2>1. CASE Len(logEvents) = EventCap
      <3>1. logEvents # <<>>
          BY <2>1, <1>n
      <3>2. /\ Tail(logEvents) \in Seq(EventSet) /\ Len(Tail(logEvents)) = Len(logEvents) - 1
            /\ \A i \in 1..Len(Tail(logEvents)) : Tail(logEvents)[i] = logEvents[i + 1]
          BY <3>1, <1>t, HeadTailProperties
      <3>3. ASSUME NEW i \in 1..Len(Tail(logEvents)) PROVE Tail(logEvents)[i] = heard[n - Len(Tail(logEvents)) + i]
        <4>1. i + 1 \in 1..Len(logEvents) /\ n - Len(logEvents) + (i + 1) = n - Len(Tail(logEvents)) + i
          <5> DEFINE lb == Len(logEvents)
                     lc == Len(Tail(logEvents))
          <5>1. lb \in Nat /\ n \in Nat /\ lc = lb - 1 /\ i \in 1..lc
              BY <3>2, <1>t
          <5> HIDE DEF lb, lc, n
          <5>2. i + 1 \in 1..lb /\ n - lb + (i + 1) = n - lc + i
              BY <5>1
          <5> QED BY <5>2 DEF lb, lc
        <4>2. logEvents[i + 1] = heard[n - Len(logEvents) + (i + 1)]
            BY <4>1, <2>c
        <4> QED BY <4>1, <4>2, <3>2
      <3> QED BY <2>1, <3>2, <3>3, <1>t, <1>n
    <2>2. CASE Len(logEvents) # EventCap
        BY <2>2, <2>c, <1>t
    <2> QED BY <2>1, <2>2
  <1>r. logEvents' = Append(room, e)
      BY <1>h
  <1> HIDE DEF room
  <1>5. /\ logEvents' \in Seq(EventSet) /\ Len(logEvents') = Len(room) + 1 /\ logEvents'[Len(room) + 1] = e
        /\ \A i \in 1..Len(room) : logEvents'[i] = room[i]
      BY <1>e, <1>r, <1>4, AppendProperties
  <1>6. /\ Len(logEvents') = IF Len(heard') < EventCap THEN Len(heard') ELSE EventCap
        /\ \A i \in DOMAIN logEvents' : logEvents'[i] = heard'[Len(heard') - Len(logEvents') + i]
    <2>1. Len(logEvents) = (IF n < EventCap THEN n ELSE EventCap)
        BY DEF CountsAgree
    <2>2. Len(logEvents') = (IF n + 1 < EventCap THEN n + 1 ELSE EventCap) /\ Len(room) <= n
        BY <2>1, <1>4, <1>5, <1>n, <1>t
    <2>3. ASSUME NEW i \in 1..Len(logEvents') PROVE logEvents'[i] = heard'[Len(heard') - Len(logEvents') + i]
      <3>1. CASE i = Len(room) + 1
        <4>1. Len(heard') - Len(logEvents') + i = n + 1
          <5>1. /\ Len(heard') = n + 1 /\ Len(logEvents') = Len(room) + 1 /\ i = Len(room) + 1
                /\ n \in Nat /\ Len(room) \in Nat
              BY <3>1, <1>1, <1>4, <1>5, <1>t
          <5> HIDE DEF n
          <5> QED BY <5>1
        <4> QED BY <4>1, <3>1, <1>1, <1>5
      <3>2. CASE i # Len(room) + 1
        <4>1. i \in 1..Len(room) /\ n - Len(room) + i \in 1..n
              /\ Len(heard') - Len(logEvents') + i = n - Len(room) + i
          <5>1. /\ Len(heard') = n + 1 /\ Len(logEvents') = Len(room) + 1 /\ i # Len(room) + 1
                /\ n \in Nat /\ Len(room) \in Nat /\ Len(room) <= n /\ i \in 1..Len(logEvents')
              BY <3>2, <2>2, <1>1, <1>4, <1>5, <1>t
          <5> HIDE DEF n
          <5> QED BY <5>1
        <4> QED BY <4>1, <1>1, <1>4, <1>5
      <3> QED BY <3>1, <3>2
    <2>4. DOMAIN logEvents' = 1..Len(logEvents')
        BY <1>5
    <2> QED BY <2>2, <2>3, <2>4, <1>1
  \* The counters
  <1>7. \A o \in Origins : originCount'[o] = Cardinality({i \in DOMAIN heard' : heard'[i].origin = o})
    <2> SUFFICES ASSUME NEW o \in Origins
                 PROVE  originCount'[o] = Cardinality({i \in DOMAIN heard' : heard'[i].origin = o})
        OBVIOUS
    <2> DEFINE S == {i \in DOMAIN heard : heard[i].origin = o}
    <2>1. originCount[o] = Cardinality(S) /\ S \in SUBSET (1..n)
        BY <1>d DEF CountsAgree
    <2>2. {i \in DOMAIN heard' : heard'[i].origin = o} = S \cup IF o = origin THEN {n + 1} ELSE {}
        BY <1>d, <1>1, <1>e
    <2> HIDE DEF S
    <2> QED BY <2>1, <2>2, <1>3, <1>t, OneMorePlace
  <1>8. \A h \in LogHosts : hostCount'[h] = Cardinality({i \in DOMAIN heard' : heard'[i].host = h})
    <2> SUFFICES ASSUME NEW h \in LogHosts
                 PROVE  hostCount'[h] = Cardinality({i \in DOMAIN heard' : heard'[i].host = h})
        OBVIOUS
    <2> DEFINE S == {i \in DOMAIN heard : heard[i].host = h}
    <2>1. hostCount[h] = Cardinality(S) /\ S \in SUBSET (1..n)
        BY <1>d DEF CountsAgree
    <2>2. {i \in DOMAIN heard' : heard'[i].host = h} = S \cup IF h = host THEN {n + 1} ELSE {}
        BY <1>d, <1>1, <1>e
    <2> HIDE DEF S
    <2> QED BY <2>1, <2>2, <1>3, <1>t, OneMorePlace
  <1>9. logStats'.suspicious = Cardinality({i \in DOMAIN heard' : heard'[i].suspicious})
    <2> DEFINE S == {i \in DOMAIN heard : heard[i].suspicious}
    <2>1. logStats.suspicious = Cardinality(S) /\ S \in SUBSET (1..n)
        BY <1>d DEF CountsAgree
    <2>2. {i \in DOMAIN heard' : heard'[i].suspicious} = S \cup IF e.suspicious THEN {n + 1} ELSE {}
        BY <1>d, <1>1, <1>e
    <2> HIDE DEF S
    <2>3. Cardinality(S) \in Nat /\ Cardinality(S \cup {n + 1}) = Cardinality(S) + 1
        BY <2>1, <1>t, OneMorePlace
    <2> QED BY <2>1, <2>2, <2>3, <1>2, <1>e
  <1>10. logStats'.demo = Cardinality({i \in DOMAIN heard' : heard'[i].demo})
    <2> DEFINE S == {i \in DOMAIN heard : heard[i].demo}
    <2>1. logStats.demo = Cardinality(S) /\ S \in SUBSET (1..n)
        BY <1>d DEF CountsAgree
    <2>2. {i \in DOMAIN heard' : heard'[i].demo} = S \cup IF demo THEN {n + 1} ELSE {}
        BY <1>d, <1>1, <1>e
    <2> HIDE DEF S
    <2>3. Cardinality(S) \in Nat /\ Cardinality(S \cup {n + 1}) = Cardinality(S) + 1
        BY <2>1, <1>t, OneMorePlace
    <2> QED BY <2>1, <2>2, <2>3, <1>2, <1>e
  <1>11. logStats'.total = Len(heard') /\ logStats'.total = logStats'.received + logStats'.demo
    <2>1. logStats.total = n /\ logStats.total = logStats.received + logStats.demo
        BY DEF CountsAgree
    <2>2. logStats.total \in Nat /\ logStats.received \in Nat /\ logStats.demo \in Nat
        BY <1>t
    <2>3. Len(heard') = n + 1
        BY <1>1
    <2>4. logStats'.total = logStats.total + 1
          /\ logStats'.received + logStats'.demo = logStats.received + logStats.demo + 1
      <3>1. CASE demo
        <4>1. logStats'.received = logStats.received /\ logStats'.demo = logStats.demo + 1
            BY <3>1, <1>2
        <4> QED BY <4>1, <2>2, <1>2
      <3>2. CASE ~demo
        <4>1. logStats'.received = logStats.received + 1 /\ logStats'.demo = logStats.demo
            BY <3>2, <1>2
        <4> QED BY <4>1, <2>2, <1>2
      <3> QED BY <3>1, <3>2
    <2> QED BY <2>1, <2>3, <2>4
  <1>12. EventTypes'
      BY <1>1, <1>2, <1>3, <1>5 DEF EventTypes
  <1> QED BY <1>2, <1>6, <1>7, <1>8, <1>9, <1>10, <1>11, <1>12 DEF CountsAgree

-----------------------------------------------------------------------------
\* The slots

(* A finite set and one more, or one fewer.                                  *)
LEMMA OneMoreLink ==
    ASSUME NEW S, NEW T, IsFiniteSet(S), NEW l, l \notin S, T = S \cup {l}
    PROVE  Cardinality(S) \in Nat /\ Cardinality(T) = Cardinality(S) + 1
  BY FS_AddElement, FS_CardinalityType

\* The connections in some of the states, before and after one of them moves.
InStates(A) == {l \in Links : link[l] \in A}

(* A connection that goes from one state to another changes the numbers in   *)
(* those states by one.                                                      *)
LEMMA OneLinkMoves ==
    ASSUME LinkTypes, NEW l \in Links, NEW to, link' = [link EXCEPT ![l] = to], NEW A, "new" \notin A
    PROVE  /\ Cardinality(InStates(A)) \in Nat
           /\ (link[l] \in A <=> to \in A) => Cardinality(InStates(A)') = Cardinality(InStates(A))
           /\ link[l] \notin A /\ to \in A => Cardinality(InStates(A)') = Cardinality(InStates(A)) + 1
           /\ link[l] \in A /\ to \notin A => Cardinality(InStates(A)') = Cardinality(InStates(A)) - 1
  <1>2. \A m \in Links : link'[m] = IF m = l THEN to ELSE link[m]
      BY DEF LinkTypes
  <1>3. IsFiniteSet(InStates(A)) /\ IsFiniteSet(InStates(A)')
    <2> DEFINE made == {m \in Links : link[m] # "new"}
    <2>1. IsFiniteSet(made) /\ IsFiniteSet(made \cup {l})
        BY FS_AddElement DEF LinkTypes
    <2>2. InStates(A) \subseteq made /\ InStates(A)' \subseteq made \cup {l}
        BY <1>2 DEF InStates
    <2> QED BY <2>1, <2>2, FS_Subset
  <1>4. Cardinality(InStates(A)) \in Nat /\ Cardinality(InStates(A)') \in Nat
      BY <1>3, FS_CardinalityType
  <1>5. ASSUME link[l] \in A <=> to \in A PROVE InStates(A)' = InStates(A)
      BY <1>2, <1>5 DEF InStates
  <1>6. ASSUME link[l] \notin A, to \in A PROVE Cardinality(InStates(A)') = Cardinality(InStates(A)) + 1
    <2>1. l \notin InStates(A) /\ InStates(A)' = InStates(A) \cup {l}
        BY <1>2, <1>6 DEF InStates
    <2> QED BY <2>1, <1>3, OneMoreLink
  <1>7. ASSUME link[l] \in A, to \notin A PROVE Cardinality(InStates(A)') = Cardinality(InStates(A)) - 1
    <2>1. l \notin InStates(A)' /\ InStates(A) = InStates(A)' \cup {l}
        BY <1>2, <1>7 DEF InStates
    <2>2. Cardinality(InStates(A)) = Cardinality(InStates(A)') + 1
        BY <2>1, <1>3, OneMoreLink
    <2> QED BY <2>2, <1>4
  <1> QED BY <1>4, <1>5, <1>6, <1>7

(* The number grows, stays or falls by one.                                  *)
LEMMA OneLinkEnters ==
    ASSUME LinkTypes, NEW l \in Links, NEW to, link' = [link EXCEPT ![l] = to],
           NEW A, "new" \notin A, link[l] \notin A, to \in A
    PROVE  Cardinality(InStates(A)) \in Nat /\ Cardinality(InStates(A)') = Cardinality(InStates(A)) + 1
  <1> QED BY OneLinkMoves

LEMMA OneLinkStays ==
    ASSUME LinkTypes, NEW l \in Links, NEW to, link' = [link EXCEPT ![l] = to],
           NEW A, "new" \notin A, link[l] \in A <=> to \in A
    PROVE  Cardinality(InStates(A)) \in Nat /\ Cardinality(InStates(A)') = Cardinality(InStates(A))
  <1> QED BY OneLinkMoves

LEMMA OneLinkLeaves ==
    ASSUME LinkTypes, NEW l \in Links, NEW to, link' = [link EXCEPT ![l] = to],
           NEW A, "new" \notin A, link[l] \in A, to \notin A
    PROVE  Cardinality(InStates(A)) \in Nat /\ Cardinality(InStates(A)') = Cardinality(InStates(A)) - 1
  <1> QED BY OneLinkMoves

(* Connections that hold a slot, are served, and were refused.               *)
Holding == {"accepted", "open", "lines", "breaks"}
Serving == {"open", "lines", "breaks"}
Refused == {"refused"}
Lost == {"dropped"}
SlotsByState ==
    /\ slots + Cardinality(InStates(Holding)) + Cardinality(InStates(Lost)) = MaxConns
    /\ \A l \in InStates(Lost) : InStates(Lost) = {l} /\ "accept" \notin loops
    /\ logStats.active = Cardinality(InStates(Serving))
    /\ logStats.rejected = Cardinality(InStates(Refused))

(* The property, in these sets.                                              *)
LEMMA SlotsMeanStates == SlotsAreHeld <=> SlotsByState
  <1>1. /\ {l \in Links : link[l] = "refused"} = InStates(Refused)
        /\ {l \in Links : link[l] = "dropped"} = InStates(Lost)
      BY DEF InStates, Refused, Lost
  <1>2. /\ {l \in Links : link[l] \in {"accepted", "open", "lines", "breaks"}} = InStates(Holding)
        /\ {l \in Links : link[l] \in {"open", "lines", "breaks"}} = InStates(Serving)
      BY DEF InStates, Holding, Serving
  <1> QED BY <1>1, <1>2 DEF SlotsAreHeld, SlotsByState
LEMMA SlotsMeanNext == (SlotsAreHeld <=> SlotsByState)'
  BY SlotsMeanStates, PTL

(* A connection that nothing is done to.                                     *)
LEMMA StreamStays ==
    ASSUME NEW m \in Links, StreamIs(m), buf'[m] = buf[m], inbox'[m] = inbox[m], ends'[m] = ends[m], kept'[m] = kept[m],
           link'[m] \notin Unfinished => link[m] \notin Unfinished
    PROVE  StreamIs(m)'
  <1>1. Stream(m)' = Stream(m)
      BY DEF Stream
  <1> QED BY <1>1 DEF StreamIs, TakenIn, Upto

(* Connections are accepted or refused, served, and closed.                  *)
LEMMA ConnectionsKeep ==
    ASSUME SyslogIInv, NEW l \in Links,
           Refuse(l) \/ Serve(l) \/ Hangup(l) \/ \E starts \in BOOLEAN : Accept(l, starts)
    PROVE  SyslogIInv'
  <1>t. LinkTypes /\ TextTypes /\ EventTypes /\ StreamsAre /\ SlotsAreHeld /\ CountsAgree
      BY DEF SyslogIInv
  <1>u. UNCHANGED <<buf, inbox, ends, kept, heard, logEvents, originCount, hostCount>>
      BY DEF Accept, Refuse, Serve, Hangup
  <1>1. /\ logStats \in [total : Nat, received : Nat, demo : Nat, suspicious : Nat, rejected : Nat, active : Int]
        /\ slots \in Int /\ MaxConns \in Nat /\ link \in [Links -> LinkStates]
      BY <1>t, SyslogNumbers DEF EventTypes, LinkTypes
  <1>m. \E to \in LinkStates \ {"new"} :
            link' = [link EXCEPT ![l] = to] /\ (to \notin Unfinished => link[l] \notin Unfinished)
    <2> USE DEF LinkStates, Unfinished
    <2>1. CASE Refuse(l)
        BY <2>1 DEF Refuse
    <2>2. CASE Serve(l)
        BY <2>2 DEF Serve
    <2>3. CASE Hangup(l)
        BY <2>3 DEF Hangup
    <2>4. CASE \E starts \in BOOLEAN : Accept(l, starts)
        BY <2>4 DEF Accept
    <2> QED BY <2>1, <2>2, <2>3, <2>4
  <1>3. /\ logStats' \in [total : Nat, received : Nat, demo : Nat, suspicious : Nat, rejected : Nat, active : Int]
        /\ logStats'.total = logStats.total /\ logStats'.received = logStats.received
        /\ logStats'.demo = logStats.demo /\ logStats'.suspicious = logStats.suspicious
    <2>1. CASE UNCHANGED logStats
        BY <2>1, <1>1
    <2>2. CASE logStats' = [logStats EXCEPT !.rejected = @ + 1]
        BY <2>2, <1>1
    <2>3. CASE logStats' = [logStats EXCEPT !.active = @ + 1] \/ logStats' = [logStats EXCEPT !.active = @ - 1]
        BY <2>3, <1>1
    <2> QED BY <2>1, <2>2, <2>3 DEF Accept, Refuse, Serve, Hangup
  <1>4. SlotsByState
      BY <1>t, SlotsMeanStates
  <1> DEFINE held == Cardinality(InStates(Holding))
             served == Cardinality(InStates(Serving))
             refused == Cardinality(InStates(Refused))
             lost == Cardinality(InStates(Lost))
             LostOne == \A m \in InStates(Lost) : InStates(Lost) = {m} /\ "accept" \notin loops
  <1>c. slots + held + lost = MaxConns /\ LostOne /\ logStats.active = served /\ logStats.rejected = refused
      BY <1>4 DEF SlotsByState
  <1>s. \A A \in {Holding, Serving, Refused, Lost} : "new" \notin A
      BY DEF Holding, Serving, Refused, Lost
  <1>5. slots' \in Int /\ slots' + held' + lost' = MaxConns /\ LostOne' /\ logStats'.active = served' /\ logStats'.rejected = refused'
    <2>1. CASE Refuse(l)
      <3>1. /\ link[l] = "new" /\ link' = [link EXCEPT ![l] = "refused"] /\ slots' = slots
            /\ logStats' = [logStats EXCEPT !.rejected = @ + 1]
          BY <2>1 DEF Refuse
      <3>2. held \in Nat /\ held' = held
        <4>1. "new" \notin Holding /\ ("new" \in Holding <=> "refused" \in Holding)
            BY DEF Holding
        <4> QED BY <4>1, <3>1, <1>t, OneLinkStays
      <3>3. served \in Nat /\ served' = served
        <4>1. "new" \notin Serving /\ ("new" \in Serving <=> "refused" \in Serving)
            BY DEF Serving
        <4> QED BY <4>1, <3>1, <1>t, OneLinkStays
      <3>4. refused \in Nat /\ refused' = refused + 1
        <4>1. "new" \notin Refused /\ ("new" \notin Refused /\ "refused" \in Refused)
            BY DEF Refused
        <4> QED BY <4>1, <3>1, <1>t, OneLinkEnters
      <3>5. lost \in Nat /\ lost' = lost
        <4>1. "new" \notin Lost /\ ("new" \in Lost <=> "refused" \in Lost)
            BY DEF Lost
        <4> QED BY <4>1, <3>1, <1>t, OneLinkStays
      <3>6. LostOne'
        <4>1. InStates(Lost)' = InStates(Lost) /\ loops' = loops
            BY <3>1, <1>1, <2>1 DEF InStates, Lost, Refuse
        <4> QED BY <4>1, <1>c
      <3>7. logStats'.active = logStats.active /\ logStats'.rejected = logStats.rejected + 1
          BY <3>1, <1>1
      <3> HIDE DEF held, served, refused, lost, LostOne
      <3> QED BY <3>1, <3>2, <3>3, <3>4, <3>5, <3>6, <3>7, <1>1, <1>c
    <2>2. CASE Accept(l, TRUE)
      <3>1. /\ link[l] = "new" /\ link' = [link EXCEPT ![l] = "accepted"] /\ slots' = slots - 1
            /\ logStats' = logStats
          BY <2>2 DEF Accept
      <3>2. held \in Nat /\ held' = held + 1
        <4>1. "new" \notin Holding /\ ("new" \notin Holding /\ "accepted" \in Holding)
            BY DEF Holding
        <4> QED BY <4>1, <3>1, <1>t, OneLinkEnters
      <3>3. served \in Nat /\ served' = served
        <4>1. "new" \notin Serving /\ ("new" \in Serving <=> "accepted" \in Serving)
            BY DEF Serving
        <4> QED BY <4>1, <3>1, <1>t, OneLinkStays
      <3>4. refused \in Nat /\ refused' = refused
        <4>1. "new" \notin Refused /\ ("new" \in Refused <=> "accepted" \in Refused)
            BY DEF Refused
        <4> QED BY <4>1, <3>1, <1>t, OneLinkStays
      <3>5. lost \in Nat /\ lost' = lost
        <4>1. "new" \notin Lost /\ ("new" \in Lost <=> "accepted" \in Lost)
            BY DEF Lost
        <4> QED BY <4>1, <3>1, <1>t, OneLinkStays
      <3>6. LostOne'
        <4>1. InStates(Lost)' = InStates(Lost) /\ loops' = loops
            BY <3>1, <1>1, <2>2 DEF InStates, Lost, Accept
        <4> QED BY <4>1, <1>c
      <3>7. logStats'.active = logStats.active /\ logStats'.rejected = logStats.rejected
          BY <3>1, <1>1
      <3> HIDE DEF held, served, refused, lost, LostOne
      <3> QED BY <3>1, <3>2, <3>3, <3>4, <3>5, <3>6, <3>7, <1>1, <1>c
    <2>3. CASE Accept(l, FALSE)
      <3>1. /\ link[l] = "new" /\ link' = [link EXCEPT ![l] = "dropped"] /\ slots' = slots - 1
            /\ logStats' = logStats
          BY <2>3 DEF Accept
      <3>2. held \in Nat /\ held' = held
        <4>1. "new" \notin Holding /\ ("new" \in Holding <=> "dropped" \in Holding)
            BY DEF Holding
        <4> QED BY <4>1, <3>1, <1>t, OneLinkStays
      <3>3. served \in Nat /\ served' = served
        <4>1. "new" \notin Serving /\ ("new" \in Serving <=> "dropped" \in Serving)
            BY DEF Serving
        <4> QED BY <4>1, <3>1, <1>t, OneLinkStays
      <3>4. refused \in Nat /\ refused' = refused
        <4>1. "new" \notin Refused /\ ("new" \in Refused <=> "dropped" \in Refused)
            BY DEF Refused
        <4> QED BY <4>1, <3>1, <1>t, OneLinkStays
      <3>5. lost \in Nat /\ lost' = lost + 1
        <4>1. "new" \notin Lost /\ ("new" \notin Lost /\ "dropped" \in Lost)
            BY DEF Lost
        <4> QED BY <4>1, <3>1, <1>t, OneLinkEnters
      <3>6. LostOne'
        <4>1. InStates(Lost) = {} /\ loops' = loops \ {"accept"}
            BY <1>c, <2>3 DEF Accept
        <4>2. InStates(Lost)' = {l}
            BY <4>1, <3>1, <1>1 DEF InStates, Lost
        <4> QED BY <4>1, <4>2
      <3>7. logStats'.active = logStats.active /\ logStats'.rejected = logStats.rejected
          BY <3>1, <1>1
      <3> HIDE DEF held, served, refused, lost, LostOne
      <3> QED BY <3>1, <3>2, <3>3, <3>4, <3>5, <3>6, <3>7, <1>1, <1>c
    <2>4. CASE Serve(l)
      <3>1. /\ link[l] = "accepted" /\ link' = [link EXCEPT ![l] = "open"] /\ slots' = slots
            /\ logStats' = [logStats EXCEPT !.active = @ + 1]
          BY <2>4 DEF Serve
      <3>2. held \in Nat /\ held' = held
        <4>1. "new" \notin Holding /\ ("accepted" \in Holding <=> "open" \in Holding)
            BY DEF Holding
        <4> QED BY <4>1, <3>1, <1>t, OneLinkStays
      <3>3. served \in Nat /\ served' = served + 1
        <4>1. "new" \notin Serving /\ ("accepted" \notin Serving /\ "open" \in Serving)
            BY DEF Serving
        <4> QED BY <4>1, <3>1, <1>t, OneLinkEnters
      <3>4. refused \in Nat /\ refused' = refused
        <4>1. "new" \notin Refused /\ ("accepted" \in Refused <=> "open" \in Refused)
            BY DEF Refused
        <4> QED BY <4>1, <3>1, <1>t, OneLinkStays
      <3>5. lost \in Nat /\ lost' = lost
        <4>1. "new" \notin Lost /\ ("accepted" \in Lost <=> "open" \in Lost)
            BY DEF Lost
        <4> QED BY <4>1, <3>1, <1>t, OneLinkStays
      <3>6. LostOne'
        <4>1. InStates(Lost)' = InStates(Lost) /\ loops' = loops
            BY <3>1, <1>1, <2>4 DEF InStates, Lost, Serve
        <4> QED BY <4>1, <1>c
      <3>7. logStats'.active = logStats.active + 1 /\ logStats'.rejected = logStats.rejected
          BY <3>1, <1>1
      <3> HIDE DEF held, served, refused, lost, LostOne
      <3> QED BY <3>1, <3>2, <3>3, <3>4, <3>5, <3>6, <3>7, <1>1, <1>c
    <2>5. CASE Hangup(l) /\ link[l] = "open"
      <3>1. /\ link[l] = "open" /\ link' = [link EXCEPT ![l] = "closed"] /\ slots' = slots + 1
            /\ logStats' = [logStats EXCEPT !.active = @ - 1]
          BY <2>5 DEF Hangup
      <3>2. held \in Nat /\ held' = held - 1
        <4>1. "new" \notin Holding /\ ("open" \in Holding /\ "closed" \notin Holding)
            BY DEF Holding
        <4> QED BY <4>1, <3>1, <1>t, OneLinkLeaves
      <3>3. served \in Nat /\ served' = served - 1
        <4>1. "new" \notin Serving /\ ("open" \in Serving /\ "closed" \notin Serving)
            BY DEF Serving
        <4> QED BY <4>1, <3>1, <1>t, OneLinkLeaves
      <3>4. refused \in Nat /\ refused' = refused
        <4>1. "new" \notin Refused /\ ("open" \in Refused <=> "closed" \in Refused)
            BY DEF Refused
        <4> QED BY <4>1, <3>1, <1>t, OneLinkStays
      <3>5. lost \in Nat /\ lost' = lost
        <4>1. "new" \notin Lost /\ ("open" \in Lost <=> "closed" \in Lost)
            BY DEF Lost
        <4> QED BY <4>1, <3>1, <1>t, OneLinkStays
      <3>6. LostOne'
        <4>1. InStates(Lost)' = InStates(Lost) /\ loops' = loops
            BY <3>1, <1>1, <2>5 DEF InStates, Lost, Hangup
        <4> QED BY <4>1, <1>c
      <3>7. logStats'.active = logStats.active - 1 /\ logStats'.rejected = logStats.rejected
          BY <3>1, <1>1
      <3> HIDE DEF held, served, refused, lost, LostOne
      <3> QED BY <3>1, <3>2, <3>3, <3>4, <3>5, <3>6, <3>7, <1>1, <1>c
    <2>6. CASE Hangup(l) /\ link[l] # "open"
      <3>1. /\ link[l] = "breaks" /\ link' = [link EXCEPT ![l] = "broken"] /\ slots' = slots + 1
            /\ logStats' = [logStats EXCEPT !.active = @ - 1]
          BY <2>6 DEF Hangup
      <3>2. held \in Nat /\ held' = held - 1
        <4>1. "new" \notin Holding /\ ("breaks" \in Holding /\ "broken" \notin Holding)
            BY DEF Holding
        <4> QED BY <4>1, <3>1, <1>t, OneLinkLeaves
      <3>3. served \in Nat /\ served' = served - 1
        <4>1. "new" \notin Serving /\ ("breaks" \in Serving /\ "broken" \notin Serving)
            BY DEF Serving
        <4> QED BY <4>1, <3>1, <1>t, OneLinkLeaves
      <3>4. refused \in Nat /\ refused' = refused
        <4>1. "new" \notin Refused /\ ("breaks" \in Refused <=> "broken" \in Refused)
            BY DEF Refused
        <4> QED BY <4>1, <3>1, <1>t, OneLinkStays
      <3>5. lost \in Nat /\ lost' = lost
        <4>1. "new" \notin Lost /\ ("breaks" \in Lost <=> "broken" \in Lost)
            BY DEF Lost
        <4> QED BY <4>1, <3>1, <1>t, OneLinkStays
      <3>6. LostOne'
        <4>1. InStates(Lost)' = InStates(Lost) /\ loops' = loops
            BY <3>1, <1>1, <2>6 DEF InStates, Lost, Hangup
        <4> QED BY <4>1, <1>c
      <3>7. logStats'.active = logStats.active - 1 /\ logStats'.rejected = logStats.rejected
          BY <3>1, <1>1
      <3> HIDE DEF held, served, refused, lost, LostOne
      <3> QED BY <3>1, <3>2, <3>3, <3>4, <3>5, <3>6, <3>7, <1>1, <1>c
    <2>7. \A starts \in BOOLEAN : Accept(l, starts) => Accept(l, TRUE) \/ Accept(l, FALSE)
        OBVIOUS
    <2> QED BY <2>1, <2>2, <2>3, <2>4, <2>5, <2>6, <2>7
  <1>6. LinkTypes'
    <2>1. PICK to \in LinkStates : link' = [link EXCEPT ![l] = to]
        BY <1>m
    <2>2. IsFiniteSet({m \in Links : link[m] # "new"})'
      <3>1. IsFiniteSet({m \in Links : link[m] # "new"} \cup {l})
          BY <1>t, FS_AddElement DEF LinkTypes
      <3>2. {m \in Links : link'[m] # "new"} \subseteq {m \in Links : link[m] # "new"} \cup {l}
          BY <1>1, <2>1
      <3> QED BY <3>1, <3>2, FS_Subset
    <2> QED BY <1>1, <1>3, <1>5, <2>1, <2>2 DEF LinkTypes
  <1>7. TextTypes' /\ EventTypes'
      BY <1>t, <1>u, <1>3 DEF TextTypes, EventTypes
  <1>8. CountsAgree'
      BY <1>t, <1>u, <1>3 DEF CountsAgree
  <1>9. StreamsAre'
    <2> SUFFICES ASSUME NEW m \in Links PROVE StreamIs(m)'
        BY DEF StreamsAre
    <2>1. StreamIs(m)
        BY <1>t DEF StreamsAre
    <2>2. link'[m] \notin Unfinished => link[m] \notin Unfinished
        BY <1>1, <1>m
    <2> QED BY <2>1, <2>2, <1>u, StreamStays
  <1>10. SlotsAreHeld'
    <2>1. SlotsByState'
        BY <1>5 DEF SlotsByState
    <2> QED BY <2>1, SlotsMeanNext
  <1> QED BY <1>6, <1>7, <1>8, <1>9, <1>10 DEF SyslogIInv

(* What is left of a text behind its first newline.                          *)
LEMMA CutOf ==
    ASSUME NEW S, NEW s \in Seq(S), NEW a \in Nat, NEW b \in Nat, a <= b, b <= Len(s)
    PROVE  /\ SubSeq(s, a + 1, b) \in Seq(S) /\ Len(SubSeq(s, a + 1, b)) = b - a
           /\ \A i \in 1..(b - a) : SubSeq(s, a + 1, b)[i] = s[a + i]
  <1>1. a + 1 \in Int /\ b \in Int /\ \A i \in (a + 1)..b : s[i] \in S
      OBVIOUS
  <1>2. /\ SubSeq(s, a + 1, b) \in Seq(S)
        /\ Len(SubSeq(s, a + 1, b)) = IF a + 1 <= b THEN b - (a + 1) + 1 ELSE 0
        /\ \A i \in 1..b - (a + 1) + 1 : SubSeq(s, a + 1, b)[i] = s[(a + 1) + i - 1]
    <2> DEFINE c == a + 1
    <2>1. c \in Int /\ b \in Int /\ \A i \in c..b : s[i] \in S
        BY <1>1
    <2> HIDE DEF c
    <2>2. /\ SubSeq(s, c, b) \in Seq(S)
          /\ Len(SubSeq(s, c, b)) = IF c <= b THEN b - c + 1 ELSE 0
          /\ \A i \in 1..b - c + 1 : SubSeq(s, c, b)[i] = s[c + i - 1]
        BY <2>1, SubSeqProperties
    <2> QED BY <2>2 DEF c
  <1>3. b - (a + 1) + 1 = b - a /\ (~(a + 1 <= b) => b - a = 0) /\ \A i \in 1..(b - a) : (a + 1) + i - 1 = a + i
      OBVIOUS
  <1> QED BY <1>2, <1>3

(* Reading does not touch the slots.                                         *)
LEMMA ReadingKeepsSlots ==
    ASSUME LinkTypes, SlotsAreHeld, NEW l \in Links, link[l] \in Serving,
           NEW to \in Serving, link' = [link EXCEPT ![l] = to],
           slots' = slots, loops' = loops, logStats'.active = logStats.active, logStats'.rejected = logStats.rejected
    PROVE  LinkTypes' /\ SlotsAreHeld'
  <1>s. Serving \subseteq Holding /\ Serving \cap Refused = {} /\ Serving \cap Lost = {} /\ Serving \subseteq LinkStates
      BY DEF Holding, Serving, Refused, Lost, LinkStates
  <1>0. "new" \notin Holding /\ "new" \notin Serving /\ "new" \notin Refused /\ "new" \notin Lost
      BY DEF Holding, Serving, Refused, Lost
  <1>1. (link[l] \in Holding <=> to \in Holding) /\ (link[l] \in Serving <=> to \in Serving)
        /\ (link[l] \in Refused <=> to \in Refused) /\ (link[l] \in Lost <=> to \in Lost)
      BY <1>s
  <1>9. InStates(Lost)' = InStates(Lost)
      BY <1>s, <1>1 DEF InStates, LinkTypes
  <1>2. Cardinality(InStates(Holding)') = Cardinality(InStates(Holding))
      BY <1>0, <1>1, OneLinkStays
  <1>3. Cardinality(InStates(Serving)') = Cardinality(InStates(Serving))
      BY <1>0, <1>1, OneLinkStays
  <1>4. Cardinality(InStates(Refused)') = Cardinality(InStates(Refused))
      BY <1>0, <1>1, OneLinkStays
  <1>5. SlotsByState
      BY SlotsMeanStates
  <1>6. LinkTypes'
    <2>1. \A m \in Links : link'[m] = "new" <=> link[m] = "new"
        BY <1>s, <1>0 DEF LinkTypes
    <2>2. IsFiniteSet({m \in Links : link[m] # "new"})'
        BY <2>1 DEF LinkTypes
    <2> QED BY <1>s, <2>2 DEF LinkTypes
  <1>7. SlotsAreHeld'
    <2>1. SlotsByState'
        BY <1>2, <1>3, <1>4, <1>5, <1>9 DEF SlotsByState
    <2> QED BY <2>1, SlotsMeanNext
  <1> QED BY <1>6, <1>7

(* A datagram is recorded.                                                   *)
LEMMA DatagramKeeps ==
    ASSUME SyslogIInv, NEW demo \in BOOLEAN, NEW breaks \in BOOLEAN, Datagram(demo, breaks)
    PROVE  SyslogIInv'
  <1>t. LinkTypes /\ TextTypes /\ EventTypes /\ StreamsAre /\ SlotsAreHeld /\ CountsAgree
      BY DEF SyslogIInv
  <1>u. UNCHANGED <<link, slots, buf, inbox, ends, kept>> /\ loops' \subseteq loops
      BY DEF Datagram
  <1>1. PICK piece \in Pieces, origin \in Origins, host \in LogHosts \cup {None} :
            Handle(<<piece>>, origin, host, demo, breaks)
      BY DEF Datagram
  <1>2. /\ EventTypes' /\ CountsAgree'
        /\ logStats'.active = logStats.active /\ logStats'.rejected = logStats.rejected
      BY <1>1, <1>t, HandleKeeps
  <1>3. LinkTypes'
      BY <1>t, <1>u, <1>2 DEF LinkTypes
  <1>6. SlotsAreHeld'
    <2>1. SlotsByState
        BY <1>t, SlotsMeanStates
    <2>2. SlotsByState'
        BY <2>1, <1>u, <1>2 DEF SlotsByState, InStates
    <2> QED BY <2>2, SlotsMeanNext
  <1>4. TextTypes'
      BY <1>t, <1>u DEF TextTypes
  <1>5. StreamsAre'
      BY <1>t, <1>u, StreamStays DEF StreamsAre
  <1> QED BY <1>2, <1>3, <1>4, <1>5, <1>6 DEF SyslogIInv

(* The first newline is the first.                                           *)
LEMMA NextStopTells ==
    ASSUME NEW text
    PROVE  NextStop(text) \in Serving /\ (NextStop(text) \notin Unfinished => \A i \in DOMAIN text : text[i] # NewLine)
  BY DEF NextStop, Serving, Unfinished

(* A chunk comes in: what was left of the text grows at its end.             *)
LEMMA ChunkKeeps ==
    ASSUME SyslogIInv, NEW l \in Links, Chunk(l)
    PROVE  SyslogIInv'
  <1>t. LinkTypes /\ TextTypes /\ EventTypes /\ StreamsAre /\ SlotsAreHeld /\ CountsAgree
      BY DEF SyslogIInv
  <1>u. link[l] = "open" /\ UNCHANGED <<loops, slots, kept, heard, logEvents, originCount, hostCount, logStats>>
      BY DEF Chunk
  <1>c. PICK chunk \in Chunks :
          /\ buf' = [buf EXCEPT ![l] = @ \o Read(chunk, {Len(chunk)})]
          /\ inbox' = [inbox EXCEPT ![l] = @ \o chunk]
          /\ ends' = [ends EXCEPT ![l] = @ \cup {Len(inbox'[l])}]
          /\ link' = [link EXCEPT ![l] = NextStop(buf[l] \o Read(chunk, {Len(chunk)}))]
      BY DEF Chunk
  <1> DEFINE text == Read(chunk, {Len(chunk)})
  <1>a. /\ chunk \in Seq(Text) /\ chunk # <<>> /\ inbox[l] \in Seq(Text)
        /\ Len(inbox[l] \o chunk) = Len(inbox[l]) + Len(chunk)
    <2>1. chunk \in Seq(Text \ {Mark}) /\ chunk # <<>>
        BY <1>c, SyslogTexts
    <2>2. chunk \in Seq(Text)
        BY <2>1
    <2>3. inbox[l] \in Seq(Text)
        BY <1>t DEF TextTypes
    <2> QED BY <2>1, <2>2, <2>3, ConcatProperties
  <1>2. text \in Seq(Text) /\ buf[l] \in Seq(Text) /\ Stream(l) \in Seq(Text)
    <2>1. text \in Seq(Text)
        BY <1>a, ReadIs
    <2> QED BY <2>1, <1>t, StreamTypes DEF TextTypes
  <1>1. /\ buf' = [buf EXCEPT ![l] = @ \o text]
        /\ inbox' = [inbox EXCEPT ![l] = @ \o chunk]
        /\ ends' = [ends EXCEPT ![l] = @ \cup {Len(inbox'[l])}]
        /\ link' = [link EXCEPT ![l] = NextStop(buf[l] \o text)]
      BY <1>c
  <1> HIDE DEF text
  <1>3. /\ buf[l] \o text \in Seq(Text) /\ Stream(l) \o text \in Seq(Text)
        /\ Len(buf[l] \o text) = Len(buf[l]) + Len(text) /\ Len(Stream(l) \o text) = Len(Stream(l)) + Len(text)
        /\ \A i \in 1..Len(buf[l]) + Len(text) :
              (buf[l] \o text)[i] = IF i <= Len(buf[l]) THEN buf[l][i] ELSE text[i - Len(buf[l])]
        /\ \A i \in 1..Len(Stream(l)) + Len(text) :
              (Stream(l) \o text)[i] = IF i <= Len(Stream(l)) THEN Stream(l)[i] ELSE text[i - Len(Stream(l))]
      BY <1>2, ConcatProperties
  <1> DEFINE lb == Len(buf[l])
             li == Len(Stream(l))
             lc == Len(text)
             n == TakenIn(l)
  <1>n. lb \in Nat /\ li \in Nat /\ lc \in Nat
      BY <1>2
  <1>4. /\ buf'[l] = buf[l] \o text /\ Stream(l)' = Stream(l) \o text
        /\ link'[l] = NextStop(buf[l] \o text)
        /\ \A m \in Links : m # l => buf'[m] = buf[m] /\ inbox'[m] = inbox[m] /\ ends'[m] = ends[m] /\ link'[m] = link[m]
    <2>1. /\ buf'[l] = buf[l] \o text /\ link'[l] = NextStop(buf[l] \o text)
          /\ \A m \in Links : m # l => buf'[m] = buf[m] /\ inbox'[m] = inbox[m] /\ ends'[m] = ends[m] /\ link'[m] = link[m]
        BY <1>1, <1>t DEF TextTypes, LinkTypes
    <2>2. inbox'[l] = inbox[l] \o chunk /\ ends'[l] = ends[l] \cup {Len(inbox[l]) + Len(chunk)}
        BY <1>1, <1>a, <1>t DEF TextTypes
    <2>3. Read(inbox[l] \o chunk, ends[l] \cup {Len(inbox[l]) + Len(chunk)}) = Stream(l) \o text
      <3>1. ends[l] \in SUBSET (1..Len(inbox[l])) /\ (inbox[l] = <<>> \/ Len(inbox[l]) \in ends[l])
          BY <1>t DEF TextTypes
      <3> QED BY <3>1, <1>a, ReadConcat DEF Stream, text
    <2> QED BY <2>1, <2>2, <2>3 DEF Stream
  <1>5. TextTypes'
    <2>1. /\ Len(inbox[l]) \in Nat /\ Len(chunk) \in Nat /\ Len(chunk) > 0
          /\ inbox'[l] \in Seq(Text) /\ Len(inbox'[l]) = Len(inbox[l]) + Len(chunk)
          /\ ends'[l] = ends[l] \cup {Len(inbox[l]) + Len(chunk)} /\ ends[l] \subseteq 1..Len(inbox[l])
      <3>1. inbox'[l] = inbox[l] \o chunk /\ ends'[l] = ends[l] \cup {Len(inbox[l]) + Len(chunk)}
            /\ ends[l] \subseteq 1..Len(inbox[l])
          BY <1>1, <1>a, <1>t DEF TextTypes
      <3>2. Len(chunk) # 0
          BY <1>a, EmptySeq
      <3> QED BY <3>1, <3>2, <1>a, ConcatProperties
    <2>2. ends'[l] \subseteq 1..Len(inbox'[l]) /\ Len(inbox'[l]) \in ends'[l] /\ ends'[l] \in SUBSET Nat
      <3> DEFINE li1 == Len(inbox[l])
                 lc1 == Len(chunk)
                 all == Len(inbox'[l])
      <3>1. li1 \in Nat /\ lc1 \in Nat /\ lc1 > 0 /\ all = li1 + lc1 /\ ends'[l] = ends[l] \cup {li1 + lc1} /\ ends[l] \subseteq 1..li1
          BY <2>1
      <3> HIDE DEF li1, lc1, all
      <3>2. ends'[l] \subseteq 1..all /\ all \in ends'[l] /\ ends'[l] \in SUBSET Nat
          BY <3>1
      <3> QED BY <3>2 DEF all
    <2>3. ASSUME NEW m \in Links
          PROVE  ends'[m] \subseteq 1..Len(inbox'[m]) /\ (inbox'[m] = <<>> \/ Len(inbox'[m]) \in ends'[m])
      <3>1. CASE m = l
          BY <3>1, <2>2
      <3>2. CASE m # l
        <4>1. inbox'[m] = inbox[m] /\ ends'[m] = ends[m]
            BY <3>2, <1>4
        <4> QED BY <4>1, <1>t DEF TextTypes
      <3> QED BY <3>1, <3>2
    <2>4. buf' \in [Links -> Seq(Text)] /\ inbox' \in [Links -> Seq(Text)] /\ kept' \in [Links -> Seq([at : Nat, text : Seq(Text)])]
      <3>1. inbox[l] \o chunk \in Seq(Text)
          BY <1>a, ConcatProperties
      <3> QED BY <3>1, <1>1, <1>3, <1>t, <1>u DEF TextTypes
    <2>5. ends' \in [Links -> SUBSET Nat]
      <3>1. Len(inbox'[l]) \in Nat
          BY <2>1
      <3>2. ends' = [ends EXCEPT ![l] = @ \cup {Len(inbox'[l])}] /\ ends \in [Links -> SUBSET Nat]
          BY <1>1, <1>t DEF TextTypes
      <3> QED BY <3>1, <3>2
    <2> QED BY <2>3, <2>4, <2>5 DEF TextTypes
  <1>6. EventTypes' /\ CountsAgree'
    <2>1. EventTypes'
        BY <1>t, <1>u DEF EventTypes
    <2>2. CountsAgree'
        BY <1>t, <1>u DEF CountsAgree
    <2> QED BY <2>1, <2>2
  <1>7. LinkTypes' /\ SlotsAreHeld'
    <2>1. link[l] \in Serving /\ NextStop(buf[l] \o text) \in Serving
        BY <1>u, NextStopTells DEF Serving
    <2> QED BY <2>1, <1>1, <1>t, <1>u, ReadingKeepsSlots
  <1>8. StreamIs(l)'
    <2>1. StreamIs(l)
        BY <1>t DEF StreamsAre
    <2>2. TakenIn(l)' = n /\ n \in 0..li /\ n + lb = li
      <3>1. Len(buf'[l]) = lb + lc /\ Len(Stream(l)') = li + lc
          BY <1>3, <1>4
      <3>2. n >= 0 /\ n = li - lb /\ TakenIn(l)' = Len(Stream(l)') - Len(buf'[l])
          BY <2>1 DEF StreamIs, TakenIn
      <3>3. TakenIn(l)' = (li + lc) - (lb + lc)
          BY <3>1, <3>2
      <3> HIDE DEF lb, li, lc, n
      <3>4. n \in Int /\ (li + lc) - (lb + lc) = li - lb
          BY <3>2, <1>n
      <3>5. n \in 0..li /\ n + lb = li
          BY <3>2, <3>4, <1>n
      <3>6. TakenIn(l)' = n
          BY <3>2, <3>3, <3>4
      <3> QED BY <3>5, <3>6
    <2>3. Upto(Stream(l) \o text, TakenIn(l)) = Upto(Stream(l), TakenIn(l))
        BY <1>2, <2>2, UptoOfConcat
    <2>4. TakenIn(l) = 0 \/ Stream(l)'[TakenIn(l)] = NewLine
        BY <2>1, <2>2, <1>3, <1>4, <1>n DEF StreamIs
    <2>5. \A i \in DOMAIN buf'[l] : buf'[l][i] = Stream(l)'[TakenIn(l) + i]
      <3>1. DOMAIN buf'[l] = 1..(Len(buf[l]) + Len(text)) /\ DOMAIN buf[l] = 1..Len(buf[l])
          BY <1>2, <1>3, <1>4
      <3> SUFFICES ASSUME NEW i \in 1..(Len(buf[l]) + Len(text))
                   PROVE  buf'[l][i] = Stream(l)'[TakenIn(l) + i]
          BY <3>1
      <3>2. n + i \in 1..(li + lc) /\ (n + i <= li <=> i <= lb) /\ (n + i) - li = i - lb
        <4>1. i \in 1..(lb + lc)
            OBVIOUS
        <4> HIDE DEF lb, li, lc, n
        <4>2. n \in Nat /\ i \in Nat
            BY <4>1, <2>2, <1>n
        <4> QED BY <4>1, <4>2, <2>2, <1>n
      <3>3. CASE i <= lb
        <4>1. i \in DOMAIN buf[l]
            BY <3>1, <3>3
        <4>2. buf[l][i] = Stream(l)[n + i]
            BY <4>1, <2>1 DEF StreamIs
        <4> QED BY <4>2, <3>2, <3>3, <1>3, <1>4
      <3>4. CASE ~(i <= lb)
        <4>1. buf'[l][i] = text[i - lb]
            BY <3>4, <1>3, <1>4
        <4>2. Stream(l)'[n + i] = text[(n + i) - li]
          <5>1. ~(n + i <= li) /\ n + i \in 1..li + lc
              BY <3>2, <3>4
          <5>2. (Stream(l) \o text)[n + i] = IF n + i <= li THEN Stream(l)[n + i] ELSE text[(n + i) - li]
            <6> DEFINE m == n + i
            <6>1. m \in 1..li + lc
                BY <5>1
            <6> HIDE DEF m
            <6>2. (Stream(l) \o text)[m] = IF m <= li THEN Stream(l)[m] ELSE text[m - li]
                BY <6>1, <1>3
            <6> QED BY <6>2 DEF m
          <5> QED BY <5>1, <5>2, <1>4
        <4> QED BY <4>1, <4>2, <3>2
      <3> QED BY <3>3, <3>4
    <2>6. link'[l] \notin Unfinished => \A i \in DOMAIN buf'[l] : buf'[l][i] # NewLine
        BY <1>4, NextStopTells
    <2>7. {kept[l][i] : i \in DOMAIN kept[l]} = Upto(Stream(l)', TakenIn(l))
        BY <2>1, <2>3, <1>4 DEF StreamIs
    <2>8. (\A i, j \in DOMAIN kept[l] : i < j => kept[l][i].at < kept[l][j].at) /\ TakenIn(l) >= 0
        BY <2>1 DEF StreamIs
    <2>9. Upto(Stream(l), TakenIn(l))' = Upto(Stream(l)', TakenIn(l))
        BY <2>2 DEF Upto
    <2> QED BY <2>2, <2>4, <2>5, <2>6, <2>7, <2>8, <2>9, <1>u DEF StreamIs
  <1>9. StreamsAre'
    <2> SUFFICES ASSUME NEW m \in Links PROVE StreamIs(m)'
        BY DEF StreamsAre
    <2>1. CASE m = l
        BY <2>1, <1>8
    <2>2. CASE m # l
        BY <2>2, <1>4, <1>t, <1>u, StreamStays DEF StreamsAre
    <2> QED BY <2>1, <2>2
  <1> QED BY <1>5, <1>6, <1>7, <1>9 DEF SyslogIInv

(* A line is taken out of what is left and recorded, if it is not empty.     *)
LEMMA TakeLineKeeps ==
    ASSUME SyslogIInv, NEW l \in Links, NEW breaks \in BOOLEAN, TakeLine(l, breaks)
    PROVE  SyslogIInv'
  <1>t. LinkTypes /\ TextTypes /\ EventTypes /\ StreamsAre /\ SlotsAreHeld /\ CountsAgree
      BY DEF SyslogIInv
  <1>u. link[l] = "lines" /\ UNCHANGED <<loops, slots, inbox, ends>>
      BY DEF TakeLine
  <1> DEFINE n == TakenIn(l)
             line(e) == SubSeq(buf[l], 1, e - 1)
             row(e) == [at |-> n + e, text |-> line(e)]
  <1>1. PICK e \in DOMAIN buf[l] :
          /\ FirstEnd(buf[l], e)
          /\ buf' = [buf EXCEPT ![l] = RestAfter(@, e)]
          /\ link' = [link EXCEPT ![l] = IF breaks THEN "breaks" ELSE NextStop(RestAfter(buf[l], e))]
          /\ \/ e = 1 /\ UNCHANGED <<kept, heard, logEvents, originCount, hostCount, logStats>>
             \/ /\ e # 1 /\ kept' = [kept EXCEPT ![l] = Append(@, row(e))]
                /\ \E origin \in Origins, host \in LogHosts \cup {None} : Handle(line(e), origin, host, FALSE, breaks)
    <2>1. Len(Stream(l)) = Len(inbox[l])
        BY <1>t, StreamTypes
    <2> QED BY <2>1 DEF TakeLine, TakenIn
  <1> DEFINE lb == Len(buf[l])
             li == Len(Stream(l))
  <1>2. /\ buf[l] \in Seq(Text) /\ Stream(l) \in Seq(Text) /\ kept[l] \in Seq([at : Nat, text : Seq(Text)])
        /\ lb \in Nat /\ li \in Nat /\ DOMAIN buf[l] = 1..lb
    <2>1. buf[l] \in Seq(Text) /\ Stream(l) \in Seq(Text) /\ kept[l] \in Seq([at : Nat, text : Seq(Text)])
        BY <1>t, StreamTypes DEF TextTypes
    <2> QED BY <2>1
  <1>3. StreamIs(l) /\ n \in 0..li /\ e \in 1..lb /\ n + lb = li
    <2>1. StreamIs(l)
        BY <1>t DEF StreamsAre
    <2>2. n >= 0 /\ n = li - lb
        BY <2>1 DEF StreamIs, TakenIn
    <2>3. e \in 1..lb
        BY <1>1, <1>2
    <2>4. n \in 0..li /\ n + lb = li
      <3>1. lb \in Nat /\ li \in Nat
          BY <1>2
      <3> HIDE DEF lb, li, n
      <3> QED BY <2>2, <3>1
    <2> QED BY <2>1, <2>3, <2>4
  <1>4. buf[l][e] = NewLine /\ \A i \in 1..(e - 1) : buf[l][i] # NewLine
      BY <1>1 DEF FirstEnd
  <1> DEFINE rest == RestAfter(buf[l], e)
  <1>5. /\ rest \in Seq(Text) /\ Len(rest) = Len(buf[l]) - e
        /\ \A i \in 1..Len(rest) : rest[i] = buf[l][e + i]
    <2>1. e \in Nat /\ Len(buf[l]) \in Nat /\ e <= Len(buf[l])
        BY <1>2, <1>3
    <2>2. /\ SubSeq(buf[l], e + 1, Len(buf[l])) \in Seq(Text)
          /\ Len(SubSeq(buf[l], e + 1, Len(buf[l]))) = Len(buf[l]) - e
          /\ \A i \in 1..(Len(buf[l]) - e) : SubSeq(buf[l], e + 1, Len(buf[l]))[i] = buf[l][e + i]
        BY <2>1, <1>2, CutOf
    <2> QED BY <2>2 DEF RestAfter
  <1>s. Stream(l)' = Stream(l)
      BY <1>u DEF Stream
  <1>6. /\ buf'[l] = rest /\ link'[l] = IF breaks THEN "breaks" ELSE NextStop(rest)
        /\ \A m \in Links : m # l => buf'[m] = buf[m] /\ link'[m] = link[m]
      BY <1>1, <1>t DEF TextTypes, LinkTypes
  <1> HIDE DEF rest
  <1>7. /\ Stream(l)[n + e] = NewLine /\ \A i \in (n + 1)..((n + e) - 1) : Stream(l)[i] # NewLine
        /\ n + e \in 1..Len(Stream(l))
    <2>1. \A i \in 1..Len(buf[l]) : buf[l][i] = Stream(l)[n + i]
        BY <1>2, <1>3 DEF StreamIs
    <2>2. ASSUME NEW i \in (n + 1)..((n + e) - 1) PROVE Stream(l)[i] # NewLine
      <3>1. i - n \in 1..(e - 1) /\ i - n \in 1..Len(buf[l]) /\ n + (i - n) = i
          BY <1>2, <1>3
      <3> QED BY <3>1, <2>1, <1>4
    <2>3. n + e \in 1..Len(Stream(l))
        BY <1>2, <1>3
    <2> QED BY <2>1, <2>2, <2>3, <1>3, <1>4
  <1>8. line(e) = SubSeq(Stream(l), n + 1, (n + e) - 1) /\ line(e) \in Seq(Text)
    <2>0. \A i \in 1..(e - 1) : buf[l][i] = Stream(l)[n + i]
      <3>1. \A i \in 1..(e - 1) : i \in DOMAIN buf[l]
          BY <1>2, <1>3
      <3> QED BY <3>1, <1>3 DEF StreamIs
    <2>1. /\ line(e) \in Seq(Text) /\ Len(line(e)) = e - 1
          /\ \A i \in 1..(e - 1) : line(e)[i] = buf[l][i]
      <3>1. 0 \in Nat /\ e - 1 \in Nat /\ 0 <= e - 1 /\ e - 1 <= Len(buf[l])
          BY <1>2, <1>3
      <3>2. /\ SubSeq(buf[l], 0 + 1, e - 1) \in Seq(Text) /\ Len(SubSeq(buf[l], 0 + 1, e - 1)) = e - 1 - 0
            /\ \A i \in 1..(e - 1 - 0) : SubSeq(buf[l], 0 + 1, e - 1)[i] = buf[l][0 + i]
          BY <3>1, <1>2, CutOf
      <3>3. 0 + 1 = 1 /\ e - 1 - 0 = e - 1 /\ \A i \in 1..(e - 1) : 0 + i = i
          BY <3>1
      <3> QED BY <3>2, <3>3
    <2> DEFINE cut == SubSeq(Stream(l), n + 1, (n + e) - 1)
    <2>2. /\ cut \in Seq(Text) /\ Len(cut) = e - 1
          /\ \A i \in 1..(e - 1) : cut[i] = Stream(l)[n + i]
      <3> DEFINE m == (n + e) - 1
      <3>1. n \in Nat /\ m \in Nat /\ n <= m /\ m <= li /\ m - n = e - 1
        <4> HIDE DEF n, lb, li
        <4>1. lb \in Nat /\ li \in Nat /\ n \in Nat /\ e \in Nat /\ e >= 1 /\ e <= lb /\ n + lb = li
            BY <1>2, <1>3
        <4> QED BY <4>1
      <3>m. cut = SubSeq(Stream(l), n + 1, m)
          OBVIOUS
      <3> HIDE DEF n, m, cut
      <3>2. /\ SubSeq(Stream(l), n + 1, m) \in Seq(Text) /\ Len(SubSeq(Stream(l), n + 1, m)) = m - n
            /\ \A i \in 1..(m - n) : SubSeq(Stream(l), n + 1, m)[i] = Stream(l)[n + i]
          BY <3>1, <1>2, CutOf
      <3> QED BY <3>1, <3>2, <3>m
    <2> HIDE DEF cut, line
    <2>3. Len(line(e)) = Len(cut) /\ \A i \in 1..Len(cut) : i \in 1..(e - 1)
        BY <2>1, <2>2, <1>3
    <2>4. \A i \in 1..Len(cut) : line(e)[i] = cut[i]
        BY <2>0, <2>1, <2>2, <2>3
    <2>5. line(e) = cut
        BY <2>1, <2>2, <2>3, <2>4, SeqEqual
    <2> QED BY <2>1, <2>5 DEF cut
  <1>9. Upto(Stream(l), n + e) = Upto(Stream(l), n) \cup IF e = 1 THEN {} ELSE {row(e)}
    <2>1. n < n + e /\ (n + e = n + 1 <=> e = 1)
        BY <1>3
    <2>2. n = 0 \/ Stream(l)[n] = NewLine
        BY <1>3 DEF StreamIs
    <2>3. Upto(Stream(l), n + e) = Upto(Stream(l), n) \cup
              IF n + e = n + 1 THEN {} ELSE {[at |-> n + e, text |-> SubSeq(Stream(l), n + 1, (n + e) - 1)]}
      <3> DEFINE m == n + e
      <3>1. m = n + e
          OBVIOUS
      <3>2. n \in 0..Len(Stream(l)) /\ m \in 1..Len(Stream(l)) /\ n < m /\ Stream(l)[m] = NewLine
            /\ \A i \in (n + 1)..(m - 1) : Stream(l)[i] # NewLine
          BY <2>1, <1>3, <1>7
      <3>4. Stream(l) \in Seq(Text)
          BY <1>2
      <3> HIDE DEF n, m
      <3>5. EndsNext(Stream(l), n, m)
          BY <2>2, <3>2 DEF EndsNext
      <3>3. Upto(Stream(l), m) = Upto(Stream(l), n) \cup LineBetween(Stream(l), n, m)
          BY <3>2, <3>4, <3>5, UptoNext
      <3> QED BY <3>1, <3>3 DEF m, LineBetween
    <2> QED BY <2>1, <2>3, <1>8
  <1>10. row(e) \in [at : Nat, text : Seq(Text)]
    <2>1. n + e \in Nat
        BY <1>7
    <2> HIDE DEF n, line
    <2> QED BY <2>1, <1>8
  <1>11. /\ TextTypes' /\ EventTypes' /\ CountsAgree'
         /\ logStats'.active = logStats.active /\ logStats'.rejected = logStats.rejected
    <2> HIDE DEF row, line, n
    <2>1. CASE e = 1
      <3>1. UNCHANGED <<kept, heard, logEvents, originCount, hostCount, logStats>>
          BY <2>1, <1>1
      <3>2. TextTypes'
          BY <3>1, <1>1, <1>5, <1>t, <1>u DEF TextTypes, rest
      <3> QED BY <3>1, <3>2, <1>t DEF EventTypes, CountsAgree
    <2>2. CASE e # 1
      <3>1. kept' = [kept EXCEPT ![l] = Append(@, row(e))]
          BY <2>2, <1>1
      <3>2. PICK origin \in Origins, host \in LogHosts \cup {None} : Handle(line(e), origin, host, FALSE, breaks)
          BY <2>2, <1>1
      <3>3. /\ EventTypes' /\ CountsAgree'
            /\ logStats'.active = logStats.active /\ logStats'.rejected = logStats.rejected
          BY <3>2, <1>t, HandleKeeps
      <3>4. Append(kept[l], row(e)) \in Seq([at : Nat, text : Seq(Text)])
          BY <1>2, <1>10, AppendProperties
      <3>5. TextTypes'
          BY <3>1, <3>4, <1>1, <1>5, <1>t, <1>u DEF TextTypes, rest
      <3> QED BY <3>3, <3>5
    <2> QED BY <2>1, <2>2
  <1>12. LinkTypes' /\ SlotsAreHeld'
    <2>0. link[l] \in Serving /\ NextStop(RestAfter(buf[l], e)) \in Serving /\ "breaks" \in Serving
        BY <1>u, NextStopTells DEF Serving
    <2>1. link[l] \in Serving /\ (IF breaks THEN "breaks" ELSE NextStop(RestAfter(buf[l], e))) \in Serving
        BY <2>0
    <2> QED BY <2>1, <1>1, <1>t, <1>u, <1>11, ReadingKeepsSlots
  <1>13. StreamIs(l)'
    <2>1. TakenIn(l)' = n + e
      <3>1. Len(buf'[l]) = Len(buf[l]) - e /\ Stream(l)' = Stream(l)
          BY <1>5, <1>6, <1>s
      <3>2. TakenIn(l)' = Len(Stream(l)) - (Len(buf[l]) - e)
          BY <3>1 DEF TakenIn
      <3> QED BY <3>2, <1>2, <1>3
    <2>2. \A i \in DOMAIN buf'[l] : buf'[l][i] = Stream(l)[(n + e) + i]
      <3>1. DOMAIN buf'[l] = 1..Len(rest)
          BY <1>5, <1>6
      <3> SUFFICES ASSUME NEW i \in 1..Len(rest) PROVE rest[i] = Stream(l)[(n + e) + i]
          BY <3>1, <1>6
      <3>2. e + i \in 1..Len(buf[l]) /\ n + (e + i) = (n + e) + i
          BY <1>2, <1>3, <1>5
      <3>3. buf[l][e + i] = Stream(l)[n + (e + i)]
          BY <3>2, <1>2, <1>3 DEF StreamIs
      <3> QED BY <3>2, <3>3, <1>5
    <2>3. link'[l] \notin Unfinished => \A i \in DOMAIN buf'[l] : buf'[l][i] # NewLine
      <3>1. CASE breaks
          BY <3>1, <1>6 DEF Unfinished
      <3>2. CASE ~breaks
          BY <3>2, <1>6, NextStopTells
      <3> QED BY <3>1, <3>2
    <2>k. /\ {kept[l][i] : i \in DOMAIN kept[l]} = Upto(Stream(l), n)
          /\ \A i, j \in DOMAIN kept[l] : i < j => kept[l][i].at < kept[l][j].at
        BY <1>3 DEF StreamIs
    <2>4. /\ {kept'[l][i] : i \in DOMAIN kept'[l]} = Upto(Stream(l), n + e)
          /\ \A i, j \in DOMAIN kept'[l] : i < j => kept'[l][i].at < kept'[l][j].at
      <3>1. CASE e = 1
        <4>1. kept' = kept
            BY <3>1, <1>1
        <4> QED BY <4>1, <3>1, <2>k, <1>9
      <3>2. CASE e # 1
        <4> DEFINE len == Len(kept[l])
        <4>0. len \in Nat /\ DOMAIN kept[l] = 1..len
            BY <1>2
        <4>1. kept'[l] = Append(kept[l], row(e))
            BY <3>2, <1>1, <1>t DEF TextTypes
        <4>2. /\ kept'[l] \in Seq([at : Nat, text : Seq(Text)]) /\ Len(kept'[l]) = len + 1
              /\ \A i \in 1..len : kept'[l][i] = kept[l][i]
              /\ kept'[l][len + 1] = row(e)
            BY <4>1, <1>2, <1>10, AppendProperties
        <4>3. DOMAIN kept'[l] = (1..len) \cup {len + 1}
          <5>1. DOMAIN kept'[l] = 1..(len + 1)
              BY <4>2
          <5> QED BY <5>1, <4>0
        <4>4. \A i \in 1..len : kept[l][i].at \in Nat /\ kept[l][i].at <= n
          <5> SUFFICES ASSUME NEW i \in 1..len PROVE kept[l][i].at \in Nat /\ kept[l][i].at <= n
              OBVIOUS
          <5>0. kept[l][i] \in [at : Nat, text : Seq(Text)]
            <6> DEFINE rows == kept[l]
                       R == [at : Nat, text : Seq(Text)]
            <6>1. rows \in Seq(R) /\ i \in 1..Len(rows)
                BY <1>2
            <6> HIDE DEF rows, R
            <6>2. rows[i] \in R
                BY <6>1
            <6> QED BY <6>2 DEF rows, R
          <5>1. kept[l][i] \in {kept[l][j] : j \in DOMAIN kept[l]}
              BY <4>0
          <5>2. kept[l][i] \in Upto(Stream(l), n)
              BY <5>1, <2>k
          <5> QED BY <5>0, <5>2 DEF Upto
        <4>5. row(e).at = n + e /\ n < n + e
            BY <1>3
        <4> HIDE DEF row, line, n, len
        <4>6. {kept'[l][i] : i \in DOMAIN kept'[l]} = {kept[l][i] : i \in DOMAIN kept[l]} \cup {row(e)}
            BY <4>0, <4>2, <4>3
        <4>7. ASSUME NEW i \in DOMAIN kept'[l], NEW j \in DOMAIN kept'[l], i < j
              PROVE  kept'[l][i].at < kept'[l][j].at
          <5>1. i \in 1..len
              BY <4>0, <4>3, <4>7
          <5>2. CASE j \in 1..len
              BY <5>1, <5>2, <4>0, <4>2, <4>7, <2>k
          <5>3. CASE j = len + 1
            <6>1. kept'[l][i].at \in Nat /\ kept'[l][i].at <= n /\ kept'[l][j].at = n + e
                BY <5>1, <5>3, <4>2, <4>4, <4>5
            <6> QED BY <6>1, <4>5, <1>3
          <5> QED BY <5>2, <5>3, <4>3
        <4> QED BY <4>6, <4>7, <3>2, <2>k, <1>9
      <3> QED BY <3>1, <3>2
    <2>5. n + e >= 0 /\ Stream(l)[n + e] = NewLine
        BY <1>7, <1>2
    <2>6. Upto(Stream(l), TakenIn(l))' = Upto(Stream(l), n + e)
        BY <2>1, <1>s DEF Upto
    <2> HIDE DEF n
    <2> QED BY <2>1, <2>2, <2>3, <2>4, <2>5, <2>6, <1>s DEF StreamIs
  <1>14. StreamsAre'
    <2> SUFFICES ASSUME NEW m \in Links PROVE StreamIs(m)'
        BY DEF StreamsAre
    <2>1. CASE m = l
        BY <2>1, <1>13
    <2>2. CASE m # l
      <3>1. kept'[m] = kept[m]
          BY <2>2, <1>1, <1>t DEF TextTypes
      <3> QED BY <2>2, <3>1, <1>6, <1>t, <1>u, StreamStays DEF StreamsAre
    <2> QED BY <2>1, <2>2
  <1> QED BY <1>11, <1>12, <1>14 DEF SyslogIInv

LEMMA PlaceInRest ==
    ASSUME NEW li \in Nat, NEW lb \in Nat, NEW e \in 1..li, NEW k, k = li - lb, e > k
    PROVE  e - k \in 1..lb /\ k + (e - k) = e
  OBVIOUS

(* At the start nothing has come.                                            *)
LEMMA SyslogStarts == SyslogInit => SyslogIInv
  <1> SUFFICES ASSUME SyslogInit PROVE SyslogIInv
      OBVIOUS
  <1>1. LinkTypes /\ TextTypes /\ EventTypes
    <2>1. {l \in Links : link[l] # "new"} = {} /\ IsFiniteSet({})
        BY FS_EmptySet DEF SyslogInit
    <2>2. link \in [Links -> LinkStates]
        BY DEF SyslogInit, LinkStates
    <2>3. slots \in Int /\ logStats.active \in Int /\ logStats.rejected \in Nat
        BY SyslogNumbers DEF SyslogInit
    <2>4. IsFiniteSet({l \in Links : link[l] # "new"})
        BY <2>1
    <2>5. LinkTypes
        BY <2>2, <2>3, <2>4 DEF LinkTypes
    <2> QED BY <2>5, SyslogNumbers DEF SyslogInit, TextTypes, EventTypes
  <1>2. StreamsAre
    <2> SUFFICES ASSUME NEW l \in Links PROVE StreamIs(l)
        BY DEF StreamsAre
    <2>0. buf[l] = <<>> /\ inbox[l] = <<>> /\ kept[l] = <<>> /\ <<>> \in Seq(Text) /\ Len(<<>>) = 0
        BY DEF SyslogInit
    <2>5. Stream(l) \in Seq(Text) /\ Len(Stream(l)) = 0
        BY <2>0, <1>1, StreamTypes
    <2>1. buf[l] = <<>> /\ Stream(l) = <<>> /\ kept[l] = <<>>
        BY <2>0, <2>5, EmptySeq
    <2>2. \A r \in LinesOf(<<>>) : FALSE
        BY DEF LinesOf, Spans
    <2>3. TakenIn(l) = 0
        BY <2>1 DEF TakenIn
    <2>4. {kept[l][i] : i \in DOMAIN kept[l]} = {} /\ Upto(Stream(l), 0) = {}
        BY <2>1, <2>2 DEF Upto
    <2> QED BY <2>1, <2>3, <2>4 DEF StreamIs
  <1>3. SlotsAreHeld
    <2>2. InStates(Holding) = {} /\ InStates(Serving) = {} /\ InStates(Refused) = {} /\ InStates(Lost) = {}
        BY DEF SyslogInit, InStates, Holding, Serving, Refused, Lost
    <2>3. Cardinality({}) = 0 /\ slots = MaxConns /\ MaxConns \in Nat /\ logStats.active = 0 /\ logStats.rejected = 0
        BY FS_EmptySet, SyslogNumbers DEF SyslogInit
    <2>4. SlotsByState
        BY <2>2, <2>3 DEF SlotsByState
    <2> QED BY <2>4, SlotsMeanStates
  <1>4. CountsAgree
    <2>1. /\ \A o : {i \in DOMAIN heard : heard[i].origin = o} = {}
          /\ \A h : {i \in DOMAIN heard : heard[i].host = h} = {}
          /\ {i \in DOMAIN heard : heard[i].suspicious} = {} /\ {i \in DOMAIN heard : heard[i].demo} = {}
        BY DEF SyslogInit
    <2>2. Len(heard) = 0 /\ Len(logEvents) = 0 /\ DOMAIN logEvents = {}
        BY DEF SyslogInit
    <2> QED BY <2>1, <2>2, FS_EmptySet, SyslogNumbers DEF SyslogInit, CountsAgree
  <1> QED BY <1>1, <1>2, <1>3, <1>4 DEF SyslogIInv

(* The lines recorded of a connection are lines of the stream it sent, as    *)
(* its parts were decoded, once each, in order and without a gap, and all of *)
(* them while the thread waits for more, however the stream was cut into     *)
(* chunks and whichever exceptions end connections; a slot is held by each   *)
(* connection under way and by no other, but for one that is lost when a     *)
(* thread does not start; and the counters agree with what was recorded. The *)
(* argument follows how far into the stream the lines have been taken: what  *)
(* is left in the buffer is the stream behind a newline, and the recorded    *)
(* lines are those up to it; decoding a chunk on its own is decoding the     *)
(* whole, cut where the chunks end.                                          *)
THEOREM LinesAlwaysSurvive == SyslogSpec => []LinesSurviveChunks
  <1>1. SyslogInit => SyslogIInv
      BY SyslogStarts
  <1>2. SyslogIInv /\ [SyslogNext]_syslogVars => SyslogIInv'
    <2> SUFFICES ASSUME SyslogIInv, [SyslogNext]_syslogVars PROVE SyslogIInv'
        OBVIOUS
    <2>1. CASE SyslogNext
        BY <2>1, DatagramKeeps, ConnectionsKeep, ChunkKeeps, TakeLineKeeps DEF SyslogNext
    <2>2. CASE UNCHANGED syslogVars
      <3>1. UNCHANGED <<loops, link, slots, buf, inbox, ends, kept, heard, logEvents, originCount, hostCount, logStats>>
          BY <2>2 DEF syslogVars
      <3>2. LinkTypes' /\ TextTypes' /\ EventTypes'
          BY <3>1 DEF SyslogIInv, LinkTypes, TextTypes, EventTypes
      <3>3. StreamsAre'
          BY <3>1, StreamStays DEF SyslogIInv, StreamsAre
      <3>4. SlotsAreHeld'
          BY <3>1 DEF SyslogIInv, SlotsAreHeld
      <3>5. CountsAgree'
          BY <3>1 DEF SyslogIInv, CountsAgree
      <3> QED BY <3>2, <3>3, <3>4, <3>5 DEF SyslogIInv
    <2> QED BY <2>1, <2>2
  <1>3. SyslogIInv => LinesSurviveChunks
    <2> SUFFICES ASSUME SyslogIInv PROVE LinesSurviveChunks
        OBVIOUS
    <2>1. LinesAreTheStreams
      <3> SUFFICES ASSUME NEW l \in Links
                   PROVE  /\ {kept[l][i] : i \in DOMAIN kept[l]} \subseteq LinesOf(Stream(l))
                          /\ \A i, j \in DOMAIN kept[l] : i < j => kept[l][i].at < kept[l][j].at
                          /\ \A line \in LinesOf(Stream(l)) :
                                \/ line \in {kept[l][i] : i \in DOMAIN kept[l]}
                                \/ \A k \in {kept[l][i] : i \in DOMAIN kept[l]} : k.at < line.at
                          /\ link[l] \notin Unfinished => LinesOf(Stream(l)) \subseteq {kept[l][i] : i \in DOMAIN kept[l]}
          BY DEF LinesAreTheStreams, Unfinished
      <3>1. StreamIs(l)
          BY DEF SyslogIInv, StreamsAre
      <3>2. ASSUME link[l] \notin Unfinished, NEW r \in LinesOf(Stream(l)) PROVE r \in Upto(Stream(l), TakenIn(l))
        <4>1. buf[l] \in Seq(Text) /\ Stream(l) \in Seq(Text)
            BY StreamTypes DEF SyslogIInv, TextTypes
        <4>2. PICK b \in 0..Len(Stream(l)), e \in 1..Len(Stream(l)) :
                 r = [at |-> e, text |-> SubSeq(Stream(l), b + 1, e - 1)] /\ Stream(l)[e] = NewLine
            BY <4>1, SpansAre
        <4>3. ~(e > TakenIn(l))
          <5> SUFFICES ASSUME e > TakenIn(l) PROVE FALSE
              OBVIOUS
          <5> DEFINE lb == Len(buf[l])
                     li == Len(Stream(l))
          <5>0. lb \in Nat /\ li \in Nat /\ DOMAIN buf[l] = 1..lb /\ TakenIn(l) = li - lb /\ e \in 1..li
              BY <4>1 DEF TakenIn
          <5> HIDE DEF lb, li
          <5>1. e - TakenIn(l) \in 1..lb /\ TakenIn(l) + (e - TakenIn(l)) = e
              BY <5>0, PlaceInRest
          <5>2. e - TakenIn(l) \in DOMAIN buf[l] /\ TakenIn(l) + (e - TakenIn(l)) = e
              BY <5>0, <5>1
          <5> QED BY <5>2, <4>2, <3>1, <3>2 DEF StreamIs
        <4>4. r.at = e /\ e <= TakenIn(l)
          <5>1. TakenIn(l) \in Int /\ e \in Int
              BY <4>1 DEF TakenIn
          <5> QED BY <5>1, <4>2, <4>3
        <4> QED BY <4>4 DEF Upto
      <3>3. Upto(Stream(l), TakenIn(l)) \subseteq LinesOf(Stream(l))
          BY DEF Upto
      <3>4. ASSUME NEW r \in LinesOf(Stream(l)), r \notin Upto(Stream(l), TakenIn(l)), NEW k \in Upto(Stream(l), TakenIn(l))
            PROVE  k.at < r.at
        <4>1. buf[l] \in Seq(Text) /\ Stream(l) \in Seq(Text) /\ k \in LinesOf(Stream(l))
            BY StreamTypes DEF SyslogIInv, TextTypes, Upto
        <4>2. r.at \in Nat /\ k.at \in Nat /\ TakenIn(l) \in Int
          <5>1. ASSUME NEW q \in LinesOf(Stream(l)) PROVE q.at \in Nat
            <6>1. q.at \in 1..Len(Stream(l))
                BY <4>1, EndsAreIn
            <6> QED BY <6>1
          <5>2. TakenIn(l) \in Int
              BY <4>1 DEF TakenIn
          <5> QED BY <4>1, <5>1, <5>2
        <4>3. k.at <= TakenIn(l) /\ ~(r.at <= TakenIn(l))
            BY <3>4 DEF Upto
        <4> QED BY <4>2, <4>3
      <3> QED BY <3>1, <3>2, <3>3, <3>4 DEF StreamIs
    <2> QED BY <2>1 DEF SyslogIInv, LinesSurviveChunks
  <1> QED BY <1>1, <1>2, <1>3, PTL DEF SyslogSpec


-------------------------------------------------------------------------------
(* The log readers. No line is passed over or reported twice beyond what a   *)
(* crash may repeat, for any reader, any number of lines, rotations,         *)
(* truncations, saves and restarts.                                          *)

(* The reader, the file, and the place.                                      *)
TailTypes ==
    /\ reader \in {"access", "auth", "snort", "suricata", "zeek", "sysmon"}
    /\ logFile \in {None} \cup [after : Nat, halves : Nat]
    /\ inode \in Nat \ {0} /\ written \in Nat /\ crashes \in Nat /\ slips \in Nat /\ blind \in BOOLEAN
    /\ place \in [file : Nat, at : Nat, pc : {"poll", "save", "dead"}]
    /\ saved \in [at : Nat, file : Nat, backfilled : BOOLEAN]
    /\ backfilled \in BOOLEAN /\ firstPass \in BOOLEAN
    /\ taken \in [Lines -> Nat]

\* The file ends with the last line that was begun, of which half may be missing.
FileIs == logFile # None =>
    /\ logFile.after <= written
    /\ EndOf(written) - 1 <= logFile.halves /\ logFile.halves <= EndOf(written)

\* A place in the current file is not beyond its end; Sysmon's has no file, it
\* is the number of a line that was written whole.
Within(file, at) == file <= inode /\ (logFile # None /\ file = inode => at <= logFile.halves)
PlacesAreWithin ==
    /\ Within(place.file, place.at) /\ Within(saved.file, saved.at)
    /\ reader = "sysmon" =>
          place.file = 0 /\ place.at <= written
          /\ (logFile # None /\ logFile.halves < EndOf(written) => place.at < written)

Met(k) == taken[k] >= 1 \/ k \in torn \cup passedBy \cup dropped
MetUpTo(file, at) == logFile # None /\ file = inode => \A k \in WholeIn(0, at) : Met(k)
BehindIsMet ==
    /\ MetUpTo(place.file, place.at) /\ MetUpTo(saved.file, saved.at)
    /\ reader = "sysmon" /\ logFile # None =>
          \A k \in WholeIn(0, logFile.halves) : k <= place.at => Met(k)

\* What the reader may still take, it has taken in runs that crashed, or before
\* it went back, at most.
Ahead(k) ==
    IF reader = "sysmon" THEN k > place.at
    ELSE logFile # None /\ k > logFile.after /\ (place.file = inode => place.at + 2 <= EndOf(k))
(* A line ahead has been taken by runs that crashed, or before the reader    *)
(* went back, at most.                                                       *)
AheadIsNew == \A k \in Lines :
    /\ taken[k] <= 1 + crashes + slips /\ (k > written => taken[k] = 0)
    /\ Ahead(k) => taken[k] <= crashes + slips

(* Of what is behind a place the first pass knows.                           *)
PastBehind(file, at) == \A k \in pastLines :
    logFile # None /\ k > logFile.after => file = inode /\ EndOf(k) <= at
PastIsKnown ==
    /\ \A k \in pastLines : k \in Lines /\ k <= written /\ (logFile # None => EndOf(k) <= logFile.halves)
    /\ saved.backfilled => backfilled /\ (blind \/ PastBehind(saved.file, saved.at))
    /\ backfilled => blind \/ PastBehind(place.file, place.at)
    /\ firstPass \/ backfilled
    /\ place.pc = "save" => backfilled
    /\ firstPass /\ place.pc = "poll" => backfilled = saved.backfilled

(* The middle of a line is where the file was opened.                        *)
CutsArePassed == logFile # None /\ place.file = inode =>
    \A k \in Lines : EndOf(k) = place.at + 1 => k \in passedBy
WholeLinesOnly ==
    /\ reader = "sysmon" => torn = {}
    /\ reader \in {"suricata", "zeek"} /\ slips = 0 => torn \subseteq passedBy /\ CutsArePassed
PastIsSettled == reader = "access" => PastIsKnown

(* The invariant of the readers.                                             *)
TailIInv ==
    /\ TailTypes /\ FileIs /\ PlacesAreWithin /\ BehindIsMet /\ AheadIsNew
    /\ WholeLinesOnly /\ PastIsSettled /\ PastIsNotActedOn

(* At the start nothing is written and nothing taken.                        *)
LEMMA TailStarts == TailInit => TailIInv
  <1> SUFFICES ASSUME TailInit PROVE TailIInv
      OBVIOUS
  <1>n. [after |-> 0, halves |-> 2] # None
      BY NoneIsNoLog
  <1>l. Lines \subseteq Nat
      BY TailReaders DEF Lines
  <1>0. TailTypes
    <2>1. logFile \in {None} \cup [after : Nat, halves : Nat] /\ written \in Nat
        BY DEF TailInit
    <2>2. Size \in Nat
        BY <1>n DEF TailInit, Size
    <2>3. place \in [file : Nat, at : Nat, pc : {"poll", "save", "dead"}]
        BY <2>2 DEF TailInit
    <2>4. saved \in [at : Nat, file : Nat, backfilled : BOOLEAN] /\ backfilled \in BOOLEAN /\ firstPass \in BOOLEAN
        BY DEF TailInit
    <2>5. taken \in [Lines -> Nat] /\ crashes \in Nat /\ slips \in Nat /\ inode \in Nat \ {0}
        BY DEF TailInit
    <2>7. blind \in BOOLEAN
        BY DEF TailInit
    <2>6. reader \in {"access", "auth", "snort", "suricata", "zeek", "sysmon"}
        BY TailReaders DEF TailInit
    <2> QED BY <2>1, <2>3, <2>4, <2>5, <2>6, <2>7 DEF TailTypes
  <1>1. FileIs
      BY <1>n DEF TailInit, FileIs, EndOf
  <1>2. PlacesAreWithin
      BY <1>n DEF TailInit, PlacesAreWithin, Within, Offset, Size, EndOf
  <1>3. BehindIsMet
    <2>1. logFile # None => logFile.after = 0 /\ logFile.halves = 2 /\ written = 1
        BY <1>n DEF TailInit
    <2>2. \A at \in {0, 2} : \A k \in WholeIn(0, at) : logFile # None => k = 1 /\ at = 2
        BY <1>l, <2>1 DEF WholeIn, EndOf
    <2>3. MetUpTo(saved.file, saved.at)
        BY <2>2 DEF TailInit, MetUpTo
    <2>4. MetUpTo(place.file, place.at)
      <3>1. CASE reader = "auth" /\ logFile # None
        <4>1. place.at = 2 /\ passedBy = {1}
            BY <2>1, <3>1 DEF TailInit, Size
        <4> QED BY <4>1, <2>2 DEF MetUpTo, Met
      <3>2. CASE reader # "auth"
        <4>1. place.at = 0
            BY <3>2 DEF TailInit
        <4> QED BY <4>1, <2>2 DEF MetUpTo
      <3> QED BY <3>1, <3>2 DEF MetUpTo
    <2>5. reader = "sysmon" /\ logFile # None => \A k \in WholeIn(0, logFile.halves) : ~(k <= place.at)
        BY <2>1, <2>2 DEF TailInit
    <2> QED BY <2>3, <2>4, <2>5 DEF BehindIsMet
  <1>4. AheadIsNew
      BY DEF TailInit, AheadIsNew, Ahead
  <1>5. PastIsSettled /\ PastIsNotActedOn
    <2>1. pastLines = {} /\ late = {} /\ \A k \in Lines : taken[k] = 0
        BY DEF TailInit
    <2>2. backfilled = FALSE /\ firstPass = TRUE /\ saved.backfilled = FALSE /\ place.pc = "poll"
        BY DEF TailInit
    <2>3. PastBehind(saved.file, saved.at) /\ PastBehind(place.file, place.at)
        BY <2>1 DEF PastBehind
    <2>4. PastIsKnown
        BY <2>1, <2>2, <2>3 DEF PastIsKnown
    <2>5. \A k \in Lines : ~(taken[k] > 0)
        BY <2>1
    <2> QED BY <2>1, <2>4, <2>5 DEF PastIsSettled, PastIsNotActedOn
  <1>6. WholeLinesOnly
      BY DEF TailInit, WholeLinesOnly, CutsArePassed, Offset
  <1> QED BY <1>0, <1>1, <1>2, <1>3, <1>4, <1>5, <1>6 DEF TailIInv

(* Lines are begun and finished, the file is rotated, truncated and made     *)
(* anew.                                                                     *)
LEMMA WritersKeep ==
    ASSUME TailIInv, BeginLine \/ EndLine \/ Rotate
    PROVE  TailIInv'
  <1>t. TailTypes /\ FileIs /\ PlacesAreWithin /\ BehindIsMet /\ AheadIsNew
        /\ WholeLinesOnly /\ PastIsSettled /\ PastIsNotActedOn
      BY DEF TailIInv
  <1>l. Lines \subseteq Nat
      BY TailReaders DEF Lines
  <1>u. UNCHANGED <<reader, place, saved, backfilled, firstPass, pastLines, blind, taken, live, late, torn, passedBy, dropped, slips, crashes>>
      BY DEF BeginLine, EndLine, Rotate, offsetState, reading
  <1>a. PastIsNotActedOn'
      BY <1>t, <1>u DEF PastIsNotActedOn, Says, AccessSays, SnortSays, SuricataSays, ZeekSays, SysmonSays, Lines
  <1>1. CASE Rotate
    <2>1. CASE logFile # None
      <3>1. logFile' = None /\ UNCHANGED <<inode, written>>
          BY <1>1, <2>1 DEF Rotate
      <3>2. TailTypes' /\ WholeLinesOnly'
          BY <1>t, <1>u, <3>1 DEF TailTypes, WholeLinesOnly, CutsArePassed, Lines
      <3>3. FileIs' /\ PlacesAreWithin' /\ BehindIsMet'
          BY <1>t, <1>u, <3>1 DEF FileIs, PlacesAreWithin, Within, BehindIsMet, MetUpTo
      <3>4. AheadIsNew'
          BY <1>t, <1>u, <3>1 DEF AheadIsNew, Ahead, Lines
      <3>5. PastIsSettled'
          BY <1>t, <1>u, <3>1 DEF PastIsSettled, PastIsKnown, PastBehind, Lines
      <3> QED BY <1>a, <3>2, <3>3, <3>4, <3>5 DEF TailIInv
    <2>2. CASE logFile = None
      <3>1. logFile' = [after |-> written, halves |-> 0] /\ inode' = inode + 1 /\ written' = written
          BY <1>1, <2>2 DEF Rotate
      <3>n. logFile'.after = written /\ logFile'.halves = 0 /\ written \in Nat /\ inode \in Nat
          BY <1>t, <3>1 DEF TailTypes
      <3>2. TailTypes' /\ WholeLinesOnly'
        <4>1. place.file # inode'
            BY <1>t, <3>1 DEF TailTypes, PlacesAreWithin, Within
        <4> QED BY <4>1, <1>t, <1>u, <3>1 DEF TailTypes, WholeLinesOnly, CutsArePassed, Lines
      <3>e. \A k \in Int : (EndOf(k))' = 2 * (k - written)
          BY <3>n DEF EndOf
      <3>3. FileIs'
          BY <3>1, <3>n, <3>e DEF FileIs
      <3>4. PlacesAreWithin'
          BY <1>t, <1>u, <3>1, <3>n, <3>e DEF PlacesAreWithin, Within, TailTypes
      <3>5. BehindIsMet'
        <4>1. place.file # inode' /\ saved.file # inode'
            BY <1>t, <3>1 DEF TailTypes, PlacesAreWithin, Within
        <4>2. ~ \E k \in Lines : 0 + 2 <= (EndOf(k))' /\ (EndOf(k))' <= 0
            BY <1>l, <3>e, <3>n
        <4>3. (WholeIn(0, logFile.halves))' = {}
            BY <4>2, <3>n DEF WholeIn, Lines
        <4> QED BY <1>u, <4>1, <4>3 DEF BehindIsMet, MetUpTo
      <3>6. AheadIsNew'
        <4> SUFFICES ASSUME NEW k \in Lines
                     PROVE  /\ taken[k] <= 1 + crashes + slips /\ (k > written => taken[k] = 0)
                            /\ Ahead(k)' => taken[k] <= crashes + slips
            BY <1>u, <3>1 DEF AheadIsNew, Lines
        <4>1. taken[k] <= 1 + crashes + slips /\ (k > written => taken[k] = 0) /\ (Ahead(k) => taken[k] <= crashes + slips)
            BY <1>t DEF AheadIsNew
        <4>2. CASE reader = "sysmon"
            BY <4>1, <4>2, <1>u DEF Ahead
        <4>3. CASE reader # "sysmon"
            BY <4>1, <4>3, <1>u, <1>t, <3>n DEF Ahead, TailTypes
        <4> QED BY <4>2, <4>3
      <3>7. PastIsSettled'
        <4>1. reader = "access" => \A k \in pastLines : k \in Lines /\ k \in Nat /\ k <= written
            BY <1>t, <1>l DEF PastIsSettled, PastIsKnown
        <4>2. reader = "access" => \A k \in pastLines : (EndOf(k))' <= 0 /\ ~(k > written)
            BY <4>1, <3>e, <3>n
        <4>3. reader = "access" => (\A k \in pastLines : k \in Lines /\ k <= written
                                       /\ (logFile # None => EndOf(k) <= logFile.halves))'
            BY <4>1, <4>2, <1>u, <3>1, <3>n DEF Lines
        <4>4. reader = "access" => (PastBehind(saved.file, saved.at))' /\ (PastBehind(place.file, place.at))'
            BY <4>2, <1>u, <3>n DEF PastBehind
        <4> QED BY <4>3, <4>4, <1>t, <1>u DEF PastIsSettled, PastIsKnown
      <3> QED BY <1>a, <3>2, <3>3, <3>4, <3>5, <3>6, <3>7 DEF TailIInv
    <2> QED BY <2>1, <2>2
  <1>2. CASE BeginLine \/ EndLine
    <2>1. logFile # None /\ inode' = inode
        BY <1>2 DEF BeginLine, EndLine, HalfWritten
    <2>2. PICK more \in 1..2 : logFile' = [logFile EXCEPT !.halves = @ + more]
        BY <1>2 DEF BeginLine, EndLine
    <2>3. logFile.after \in Nat /\ logFile.halves \in Nat /\ written \in Nat /\ logFile' \in [after : Nat, halves : Nat]
          /\ logFile'.after = logFile.after /\ logFile'.halves = logFile.halves + more
        BY <1>t, <2>1, <2>2 DEF TailTypes
    <2>n. logFile' # None
        BY <2>3, NoneIsNoLog
    <2>e. \A k : (EndOf(k))' = EndOf(k)
        BY <2>3 DEF EndOf
    <2>4. /\ written' \in Nat /\ written <= written' /\ (EndLine => written' = written /\ more = 1)
          /\ EndOf(written') - 1 <= logFile'.halves /\ logFile'.halves <= EndOf(written')
      <3>1. CASE BeginLine
        <4>1. written' = written + 1 /\ ~(logFile.halves < EndOf(written))
            BY <3>1, <2>1 DEF BeginLine, HalfWritten, Size
        <4>2. ~EndLine
            BY <4>1, <2>1, <2>3 DEF EndLine
        <4> QED BY <4>1, <4>2, <2>1, <2>3, <1>t DEF EndOf, FileIs
      <3>2. CASE EndLine
        <4>1. written' = written /\ logFile.halves < EndOf(written) /\ logFile' = [logFile EXCEPT !.halves = @ + 1]
            BY <3>2, <2>1 DEF EndLine, HalfWritten, Size
        <4>2. more = 1
            BY <4>1, <2>3, <1>t, <2>1 DEF TailTypes
        <4> QED BY <4>1, <4>2, <2>1, <2>3, <1>t DEF EndOf, FileIs
      <3> QED BY <1>2, <3>1, <3>2
    <2>5. TailTypes' /\ WholeLinesOnly'
      <3>1. TailTypes'
          BY <1>t, <1>u, <2>1, <2>3, <2>4 DEF TailTypes, Lines
      <3>2. CutsArePassed' = CutsArePassed
          BY <1>u, <2>1, <2>n, <2>e DEF CutsArePassed, Lines
      <3> QED BY <3>1, <3>2, <1>t, <1>u DEF WholeLinesOnly
    <2>6. FileIs'
        BY <1>t, <2>1, <2>3, <2>4, <2>e DEF FileIs
    <2>7. PlacesAreWithin'
      <3>1. Within(place.file, place.at)' /\ Within(saved.file, saved.at)'
          BY <1>t, <1>u, <2>1, <2>3 DEF PlacesAreWithin, Within, TailTypes
      <3>2. reader = "sysmon" => place.at <= written' /\ (logFile'.halves < EndOf(written') => place.at < written')
        <4>1. CASE BeginLine
          <5>1. written' = written + 1
              BY <4>1 DEF BeginLine
          <5> QED BY <5>1, <1>t, <2>3 DEF PlacesAreWithin, TailTypes
        <4>2. CASE EndLine
          <5>1. written' = written /\ logFile.halves < EndOf(written)
              BY <4>2, <2>1 DEF EndLine, HalfWritten, Size
          <5> QED BY <5>1, <1>t, <2>1, <2>3 DEF PlacesAreWithin, TailTypes
        <4> QED BY <1>2, <4>1, <4>2
      <3> QED BY <3>1, <3>2, <1>t, <1>u, <2>e DEF PlacesAreWithin
    <2>8. BehindIsMet'
      <3>1. \A from, to : (WholeIn(from, to))' = WholeIn(from, to)
          BY <2>e DEF WholeIn, Lines
      <3>2. MetUpTo(place.file, place.at)' /\ MetUpTo(saved.file, saved.at)'
          BY <3>1, <1>t, <1>u, <2>1 DEF BehindIsMet, MetUpTo, Met
      <3>3. ASSUME reader = "sysmon", NEW k \in WholeIn(0, logFile'.halves), k <= place.at
            PROVE  Met(k)
        <4>1. k \in WholeIn(0, logFile.halves)
          <5>1. k \in Nat /\ place.at \in Nat /\ k <= written
              BY <3>3, <1>l, <1>t, <2>3 DEF WholeIn, PlacesAreWithin, TailTypes
          <5>2. 0 + 2 <= EndOf(k) /\ EndOf(k) <= logFile.halves
            <6>1. CASE BeginLine
              <7>1. ~(logFile.halves < EndOf(written))
                  BY <6>1, <2>1 DEF BeginLine, HalfWritten, Size
              <7> QED BY <7>1, <5>1, <2>3, <3>3 DEF WholeIn, EndOf
            <6>2. CASE EndLine
              <7>1. k < written
                <8>1. logFile.halves < EndOf(written)
                    BY <6>2, <2>1 DEF EndLine, HalfWritten, Size
                <8> QED BY <8>1, <5>1, <3>3, <1>t, <2>1, <2>3 DEF PlacesAreWithin
              <7> QED BY <7>1, <5>1, <2>1, <2>3, <3>3, <1>t DEF WholeIn, EndOf, FileIs
            <6> QED BY <1>2, <6>1, <6>2
          <5> QED BY <5>2, <3>3 DEF WholeIn
        <4> QED BY <4>1, <3>3, <1>t, <2>1 DEF BehindIsMet
      <3> QED BY <3>1, <3>2, <3>3, <1>u DEF BehindIsMet, Met
    <2>9. AheadIsNew'
      <3> SUFFICES ASSUME NEW k \in Lines
                   PROVE  /\ taken[k] <= 1 + crashes + slips /\ (k > written' => taken[k] = 0)
                          /\ Ahead(k)' => taken[k] <= crashes + slips
          BY <1>u DEF AheadIsNew, Lines
      <3>1. taken[k] <= 1 + crashes + slips /\ (k > written => taken[k] = 0) /\ (Ahead(k) => taken[k] <= crashes + slips)
          BY <1>t DEF AheadIsNew
      <3>2. Ahead(k)' => Ahead(k)
          BY <1>u, <2>1, <2>3, <2>e DEF Ahead
      <3>3. k > written' => k > written
          BY <1>l, <2>3, <2>4
      <3> QED BY <3>1, <3>2, <3>3
    <2>10. PastIsSettled'
      <3>1. reader = "access" => (\A k \in pastLines : k \in Lines /\ k <= written
                                     /\ (logFile # None => EndOf(k) <= logFile.halves))'
        <4> SUFFICES ASSUME reader = "access", NEW k \in pastLines
                     PROVE  k \in Lines /\ k <= written' /\ EndOf(k) <= logFile'.halves
            BY <1>u, <2>e DEF Lines
        <4>1. k \in Lines /\ k \in Nat /\ k <= written /\ EndOf(k) <= logFile.halves
            BY <1>t, <1>l, <2>1 DEF PastIsSettled, PastIsKnown
        <4> QED BY <4>1, <2>3, <2>4 DEF EndOf
      <3>2. \A file, at : (PastBehind(file, at))' = PastBehind(file, at)
          BY <1>u, <2>1, <2>3, <2>n, <2>e DEF PastBehind
      <3> QED BY <3>1, <3>2, <1>t, <1>u DEF PastIsSettled, PastIsKnown
    <2> QED BY <1>a, <2>5, <2>6, <2>7, <2>8, <2>9, <2>10 DEF TailIInv
  <1> QED BY <1>1, <1>2

(* Lines have numbers.                                                       *)
LEMMA WholeAreNumbers ==
    ASSUME NEW from \in Nat, NEW to \in Nat, TailTypes, logFile # None
    PROVE  /\ WholeIn(from, to) \subseteq Lines /\ Lines \subseteq Nat /\ logFile.after \in Nat /\ logFile.halves \in Nat
           /\ \A k \in Lines :
                /\ EndOf(k) = 2 * (k - logFile.after) /\ EndOf(k) \in Int
                /\ (k \in WholeIn(from, to) <=> (from + 2 <= EndOf(k) /\ EndOf(k) <= to))
                /\ (k \in TouchedIn(from, to) <=> (from < to /\ from < EndOf(k) /\ EndOf(k) <= to + 1))
  <1>1. Lines \subseteq Nat
      BY TailReaders DEF Lines
  <1>2. logFile.after \in Nat /\ logFile.halves \in Nat
      BY DEF TailTypes
  <1>3. ASSUME NEW k \in Lines
        PROVE  /\ EndOf(k) = 2 * (k - logFile.after) /\ EndOf(k) \in Int
               /\ k \in WholeIn(from, to) <=> (from + 2 <= EndOf(k) /\ EndOf(k) <= to)
               /\ k \in TouchedIn(from, to) <=> (from < to /\ from < EndOf(k) /\ EndOf(k) <= to + 1)
    <2>1. EndOf(k) = 2 * (k - logFile.after)
        BY DEF EndOf
    <2>2. k \in Int /\ EndOf(k) \in Int
        BY <1>1, <1>2, <2>1
    <2> QED BY <2>1, <2>2 DEF WholeIn, TouchedIn
  <1>4. WholeIn(from, to) \subseteq Lines
      BY DEF WholeIn
  <1> QED BY <1>1, <1>2, <1>3, <1>4

(* A poll that takes the lines between two places of the current file.       *)
ReadStep(start, end, lost) ==
    /\ taken' = [k \in Lines |-> IF k \in WholeIn(start, end) \ lost THEN taken[k] + 1 ELSE taken[k]]
    /\ dropped' = dropped \cup lost
    /\ place'.file = inode /\ place'.at = end
    /\ place' \in [file : Nat, at : Nat, pc : {"poll", "save", "dead"}]
    /\ torn \subseteq torn' /\ passedBy \subseteq passedBy'
    /\ \A k \in Lines : 2 <= EndOf(k) /\ EndOf(k) < start + 2 =>
          Met(k) \/ (EndOf(k) <= end => k \in torn' \cup passedBy')
    /\ UNCHANGED <<reader, logFile, inode, written, slips, crashes>>

(* What such a poll keeps, in one place for the readers of that form.        *)
LEMMA ReadingKeeps ==
    ASSUME TailIInv, logFile # None, reader # "sysmon",
           NEW start \in Nat, NEW end \in Nat, NEW lost, end <= logFile.halves,
           place.file = inode => start = place.at /\ place.at <= end,
           ReadStep(start, end, lost), saved' = saved
    PROVE  taken' \in [Lines -> Nat] /\ FileIs' /\ PlacesAreWithin' /\ BehindIsMet' /\ AheadIsNew'
  <1>t. TailTypes /\ FileIs /\ PlacesAreWithin /\ BehindIsMet /\ AheadIsNew
      BY DEF TailIInv
  <1>w. /\ WholeIn(start, end) \subseteq Lines /\ Lines \subseteq Nat /\ logFile.after \in Nat /\ logFile.halves \in Nat
        /\ \A k \in Lines :
                /\ EndOf(k) = 2 * (k - logFile.after) /\ EndOf(k) \in Int
                /\ (k \in WholeIn(start, end) <=> (start + 2 <= EndOf(k) /\ EndOf(k) <= end))
    <2>1. start \in Nat /\ end \in Nat /\ TailTypes /\ logFile # None
        BY <1>t
    <2> QED BY <2>1, WholeAreNumbers
  <1>u. /\ UNCHANGED <<reader, logFile, inode, written, slips, crashes>>
        /\ place'.file = inode /\ place'.at = end /\ torn \subseteq torn' /\ passedBy \subseteq passedBy'
        /\ dropped' = dropped \cup lost
      BY DEF ReadStep
  <1>k. taken \in [Lines -> Nat] /\ inode \in Nat /\ place.at \in Nat /\ crashes \in Nat /\ slips \in Nat /\ written \in Nat
      BY <1>t DEF TailTypes
  <1>1. \A k \in Lines : taken'[k] = IF k \in WholeIn(start, end) \ lost THEN taken[k] + 1 ELSE taken[k]
      BY DEF ReadStep
  <1>2. taken' \in [Lines -> Nat]
      BY <1>k DEF ReadStep
  <1>3. FileIs'
      BY <1>t, <1>u DEF FileIs, EndOf
  <1>4. PlacesAreWithin'
      BY <1>t, <1>u, <1>k DEF PlacesAreWithin, Within, EndOf
  <1>m. \A k \in Lines : Met(k) => Met(k)'
    <2>1. \A k \in Lines : taken[k] \in Nat
        BY <1>k
    <2> QED BY <1>1, <1>u, <2>1 DEF Met
  <1>e. \A from, to : (WholeIn(from, to))' = WholeIn(from, to)
      BY <1>u DEF WholeIn, EndOf, Lines
  <1>5. BehindIsMet'
    <2>1. MetUpTo(place.file, place.at)'
      <3> SUFFICES ASSUME NEW k \in WholeIn(0, end) PROVE Met(k)'
          BY <1>u, <1>e DEF MetUpTo
      <3>1. k \in Lines /\ 2 <= EndOf(k) /\ EndOf(k) <= end
          BY DEF WholeIn
      <3>2. CASE EndOf(k) < start + 2
        <4>1. Met(k) \/ k \in torn' \cup passedBy'
            BY <3>1, <3>2 DEF ReadStep
        <4> QED BY <4>1, <1>m, <3>1 DEF Met
      <3>3. CASE ~(EndOf(k) < start + 2)
        <4>0. EndOf(k) \in Int /\ (k \in WholeIn(start, end) <=> (start + 2 <= EndOf(k) /\ EndOf(k) <= end))
            BY <3>1, <1>w
        <4>1. k \in WholeIn(start, end) /\ taken[k] \in Nat
            BY <3>1, <3>3, <4>0, <1>k
        <4>2. taken'[k] >= 1 \/ k \in dropped'
            BY <4>1, <3>1, <1>1, <1>u
        <4> QED BY <4>2 DEF Met
      <3> QED BY <3>2, <3>3
    <2>2. MetUpTo(saved.file, saved.at)'
      <3> SUFFICES ASSUME saved.file = inode, NEW k \in WholeIn(0, saved.at) PROVE Met(k)'
          BY <1>u, <1>e DEF MetUpTo
      <3>1. k \in Lines
          BY DEF WholeIn
      <3>2. Met(k)
          BY <1>t DEF BehindIsMet, MetUpTo
      <3> QED BY <3>1, <3>2, <1>m
    <2> QED BY <2>1, <2>2, <1>u DEF BehindIsMet
  <1>6. AheadIsNew'
    <2> SUFFICES ASSUME NEW k \in Lines
                 PROVE  /\ taken'[k] <= 1 + crashes + slips /\ (k > written => taken'[k] = 0)
                        /\ Ahead(k)' => taken'[k] <= crashes + slips
        BY <1>u DEF AheadIsNew, Lines
    <2>1. taken[k] <= 1 + crashes + slips /\ (k > written => taken[k] = 0) /\ (Ahead(k) => taken[k] <= crashes + slips)
        BY <1>t DEF AheadIsNew
    <2>k. k \in Nat /\ taken[k] \in Nat
        BY <1>w, <1>k
    <2>e. /\ EndOf(k) = 2 * (k - logFile.after) /\ EndOf(k) \in Int
          /\ k \in WholeIn(start, end) <=> (start + 2 <= EndOf(k) /\ EndOf(k) <= end)
        BY <1>w
    <2>2. CASE k \in WholeIn(start, end)
      <3>1. start + 2 <= EndOf(k) /\ EndOf(k) <= end /\ k > logFile.after
          BY <2>2, <2>k, <2>e, <1>w
      <3>2. Ahead(k)
          BY <3>1 DEF Ahead
      <3>3. ~(k > written)
          BY <3>1, <1>w, <1>k, <2>k, <1>t DEF FileIs, EndOf
      <3>4. ~Ahead(k)'
          BY <3>1, <1>u, <1>w DEF Ahead, EndOf
      <3>5. taken'[k] = taken[k] + 1 \/ taken'[k] = taken[k]
          BY <1>1
      <3> QED BY <3>2, <3>3, <3>4, <3>5, <2>1, <2>k, <1>k
    <2>3. CASE k \notin WholeIn(start, end)
      <3>1. Ahead(k)' => Ahead(k)
        <4> SUFFICES ASSUME Ahead(k)' PROVE Ahead(k)
            OBVIOUS
        <4>1. k > logFile.after /\ end + 2 <= EndOf(k)
            BY <1>u DEF Ahead, EndOf
        <4>2. place.file = inode => place.at + 2 <= EndOf(k)
            BY <4>1, <1>k, <2>e
        <4> QED BY <4>1, <4>2 DEF Ahead
      <3> QED BY <3>1, <2>1, <2>3, <1>1
    <2> QED BY <2>2, <2>3
  <1> QED BY <1>2, <1>3, <1>4, <1>5, <1>6

(* Those of the sensors and of the access log are of it.                     *)
LEMMA PollsRead ==
    ASSUME TailIInv, logFile # None, NEW start, start = IF Size < place.at THEN 0 ELSE place.at,
           NEW lost, dropped' = dropped \cup lost,
           taken' = [k \in Lines |-> IF k \in WholeIn(start, Size) \ lost THEN taken[k] + 1 ELSE taken[k]],
           place'.file = inode, place'.at = Size, place' \in [file : Nat, at : Nat, pc : {"poll", "save", "dead"}],
           torn' = torn \cup PartsIn(start, Size), passedBy' = passedBy \cup Overlooked(start),
           UNCHANGED <<reader, logFile, inode, written, slips, crashes>>
    PROVE  /\ start \in Nat /\ Size \in Nat /\ Size = logFile.halves
           /\ place.file = inode => start = place.at /\ place.at <= Size
           /\ ReadStep(start, Size, lost)
  <1>t. TailTypes /\ PlacesAreWithin /\ BehindIsMet
      BY DEF TailIInv
  <1>1. Size = logFile.halves /\ Size \in Nat /\ place.at \in Nat
      BY <1>t DEF Size, TailTypes
  <1>2. start \in Nat
      BY <1>1
  <1>3. place.file = inode => start = place.at /\ place.at <= Size
    <2>1. place.file = inode => place.at <= Size
        BY <1>t, <1>1 DEF PlacesAreWithin, Within
    <2> QED BY <2>1, <1>1
  <1>4. ASSUME NEW k \in Lines, 2 <= EndOf(k), EndOf(k) < start + 2, ~Met(k), EndOf(k) <= Size
        PROVE  k \in torn' \cup passedBy'
    <2>w. /\ EndOf(k) \in Int
          /\ (k \in WholeIn(start, Size) <=> (start + 2 <= EndOf(k) /\ EndOf(k) <= Size))
          /\ (k \in TouchedIn(start, Size) <=> (start < Size /\ start < EndOf(k) /\ EndOf(k) <= Size + 1))
        BY <1>t, <1>1, <1>2, <1>4, WholeAreNumbers
    <2>v. (k \in TouchedIn(0, start) <=> (0 < start /\ 0 < EndOf(k) /\ EndOf(k) <= start + 1))
        BY <1>t, <1>2, <1>4, WholeAreNumbers
    <2>1. CASE place.file = inode
      <3>1. start = place.at /\ place.at <= Size
          BY <1>3, <2>1
      <3>2. k \notin WholeIn(0, place.at)
          BY <2>1, <1>t, <1>4 DEF BehindIsMet, MetUpTo
      <3>3. ~(EndOf(k) <= place.at)
          BY <3>2, <1>4 DEF WholeIn
      <3>4. k \in TouchedIn(start, Size) /\ k \notin WholeIn(start, Size)
          BY <3>1, <3>3, <2>w, <1>1, <1>4
      <3> QED BY <3>4 DEF PartsIn
    <2>2. CASE place.file # inode
      <3>1. k \in TouchedIn(0, start)
          BY <2>v, <2>w, <1>2, <1>4
      <3> QED BY <3>1, <2>2 DEF Overlooked
    <2> QED BY <2>1, <2>2
  <1> QED BY <1>1, <1>2, <1>3, <1>4 DEF ReadStep

(* The authentication log, read to the end of the file.                      *)
LEMMA AuthPollKeeps == TailIInv /\ AuthPoll => TailIInv'
  <1> SUFFICES ASSUME TailIInv, AuthPoll PROVE TailIInv'
      OBVIOUS
  <1>t. TailTypes /\ FileIs /\ PlacesAreWithin /\ BehindIsMet /\ AheadIsNew
        /\ WholeLinesOnly /\ PastIsSettled /\ PastIsNotActedOn
      BY DEF TailIInv
  <1>u. reader = "auth" /\ UNCHANGED <<reader, logFile, inode, written, saved, backfilled, firstPass, blind, slips, crashes>>
      BY DEF AuthPoll, offsetState
  <1>1. WholeLinesOnly' /\ PastIsSettled' /\ PastIsNotActedOn'
      BY <1>u DEF WholeLinesOnly, PastIsSettled, PastIsNotActedOn
  <1>2. CASE logFile = None
    <2>1. place' = [place EXCEPT !.at = 0] /\ UNCHANGED <<taken, torn, passedBy, dropped>>
        BY <1>2 DEF AuthPoll, reading
    <2>2. TailTypes'
        BY <1>t, <1>u, <2>1 DEF TailTypes, Lines
    <2>3. FileIs' /\ PlacesAreWithin' /\ BehindIsMet'
        BY <1>t, <1>u, <1>2, <2>1 DEF TailTypes, FileIs, PlacesAreWithin, Within, BehindIsMet, MetUpTo, Met
    <2>4. AheadIsNew'
        BY <1>t, <1>u, <1>2, <2>1 DEF AheadIsNew, Ahead, Lines
    <2> QED BY <1>1, <2>2, <2>3, <2>4 DEF TailIInv
  <1>3. CASE logFile # None
    <2> DEFINE start == IF Size < place.at THEN 0 ELSE place.at
    <2>1. /\ place' = [place EXCEPT !.file = inode, !.at = Size]
          /\ torn' = torn \cup PartsIn(start, Size) /\ passedBy' = passedBy \cup Overlooked(start)
          /\ \E lost \in LostLines(WholeIn(start, Size)) : Process(WholeIn(start, Size), lost, FALSE)
        BY <1>3 DEF AuthPoll
    <2>p. PICK lost \in LostLines(WholeIn(start, Size)) : Process(WholeIn(start, Size), lost, FALSE)
        BY <2>1
    <2>2. Size \in Nat
        BY <1>t, <1>3 DEF Size, TailTypes
    <2>3. place'.file = inode /\ place'.at = Size /\ place' \in [file : Nat, at : Nat, pc : {"poll", "save", "dead"}]
        BY <2>1, <2>2, <1>t DEF TailTypes
    <2>4. taken' = [k \in Lines |-> IF k \in WholeIn(start, Size) \ lost THEN taken[k] + 1 ELSE taken[k]]
          /\ dropped' = dropped \cup lost
        BY <2>p DEF Process
    <2>5. /\ start \in Nat /\ Size = logFile.halves
          /\ place.file = inode => start = place.at /\ place.at <= Size
          /\ ReadStep(start, Size, lost)
      <3> HIDE DEF start
      <3>1. start = IF Size < place.at THEN 0 ELSE place.at
          BY DEF start
      <3> QED BY <3>1, <2>1, <2>3, <2>4, <1>3, <1>u, PollsRead
    <2> HIDE DEF start
    <2>6. taken' \in [Lines -> Nat] /\ FileIs' /\ PlacesAreWithin' /\ BehindIsMet' /\ AheadIsNew'
        BY <2>2, <2>5, <1>3, <1>u, ReadingKeeps
    <2>7. TailTypes'
        BY <2>3, <2>6, <1>t, <1>u DEF TailTypes, Lines
    <2> QED BY <1>1, <2>6, <2>7 DEF TailIInv
  <1> QED BY <1>2, <1>3

(* Snort, Suricata and Zeek.                                                 *)
LEMMA SensorsKeep ==
    ASSUME TailIInv, OpenAtEnd \/ LineRead \/ PartRead
    PROVE  TailIInv'
  <1>t. TailTypes /\ FileIs /\ PlacesAreWithin /\ BehindIsMet /\ AheadIsNew
        /\ WholeLinesOnly /\ PastIsSettled /\ PastIsNotActedOn
      BY DEF TailIInv
  <1>u. /\ reader \in {"snort", "suricata", "zeek"} /\ logFile # None
        /\ UNCHANGED <<reader, logFile, inode, written, saved, backfilled, firstPass, blind, slips, crashes>>
      BY DEF OpenAtEnd, LineRead, PartRead, offsetState, More
  <1>s. Size = logFile.halves /\ Size \in Nat /\ place.at \in Nat /\ inode \in Nat
      BY <1>t, <1>u DEF Size, TailTypes
  <1>w. ASSUME NEW from \in Nat, NEW to \in Nat
        PROVE  /\ WholeIn(from, to) \subseteq Lines
               /\ \A k \in Lines :
                /\ EndOf(k) = 2 * (k - logFile.after) /\ EndOf(k) \in Int
                /\ (k \in WholeIn(from, to) <=> (from + 2 <= EndOf(k) /\ EndOf(k) <= to))
                /\ (k \in TouchedIn(from, to) <=> (from < to /\ from < EndOf(k) /\ EndOf(k) <= to + 1))
      BY <1>t, <1>u, WholeAreNumbers
  <1>m. place.file = inode => \A k \in Lines : 2 <= EndOf(k) /\ EndOf(k) <= place.at => Met(k)
      BY <1>t, <1>u DEF BehindIsMet, MetUpTo, WholeIn
  <1>i. \A k \in Lines : k \in Int /\ logFile.after \in Int
      BY <1>t, <1>u, TailReaders DEF TailTypes, Lines
  <1>f. taken = [k \in Lines |-> taken[k]]
      BY <1>t DEF TailTypes
  <1>1. WholeLinesOnly'
    <2> SUFFICES ASSUME reader \in {"suricata", "zeek"}, slips = 0 PROVE torn' \subseteq passedBy' /\ CutsArePassed'
        BY <1>u DEF WholeLinesOnly
    <2>0. torn \subseteq passedBy /\ CutsArePassed /\ (\A k : (EndOf(k))' = EndOf(k))
        BY <1>t, <1>u DEF WholeLinesOnly, EndOf
    <2>1. CASE OpenAtEnd
      <3>1. place'.at = Size /\ passedBy' = passedBy \cup TouchedIn(0, Size) /\ torn' = torn
          BY <2>1, <1>t DEF OpenAtEnd, TailTypes
      <3>2. ASSUME NEW k \in Lines, EndOf(k) = Size + 1 PROVE k \in TouchedIn(0, Size)
        <4>1. EndOf(k) = 2 * (k - logFile.after) /\ k - logFile.after \in Int
            BY <1>w, <1>s, <1>i
        <4>2. 0 < Size
            BY <4>1, <3>2, <1>s
        <4>3. 0 \in Nat /\ 0 < EndOf(k) /\ EndOf(k) <= Size + 1
            BY <4>2, <3>2, <1>s
        <4> QED BY <4>2, <4>3, <1>w, <1>s
      <3> QED BY <3>1, <3>2, <2>0, <1>u DEF CutsArePassed, Lines
    <2>2. CASE LineRead
      <3>1. place'.at = place.at + 2 /\ torn' = torn /\ passedBy' = passedBy /\ NextLine # {}
        <4>1. PICK pc : place' = [place EXCEPT !.at = @ + 2, !.pc = pc]
            BY <2>2 DEF LineRead
        <4> QED BY <4>1, <2>2, <1>t DEF LineRead, LineIsThere, TailTypes
      <3>2. PICK j \in Lines : place.at + 2 <= EndOf(j) /\ EndOf(j) <= place.at + 2
          BY <3>1 DEF NextLine, WholeIn
      <3>3. ASSUME NEW k \in Lines PROVE EndOf(k) # place.at + 3
        <4>1. EndOf(k) = 2 * (k - logFile.after) /\ EndOf(j) = 2 * (j - logFile.after) /\ k \in Int /\ j \in Int /\ logFile.after \in Int
            BY <1>w, <1>s, <1>i
        <4> QED BY <4>1, <3>2, <1>s
      <3>4. \A k \in Lines : EndOf(k) # place'.at + 1
          BY <3>1, <3>3, <1>s
      <3> QED BY <3>1, <3>4, <2>0, <1>u DEF CutsArePassed, Lines
    <2>3. CASE PartRead
      <3>1. place'.at = place.at + 1 /\ torn' = torn \cup TouchedIn(place.at, place.at + 1) /\ passedBy' = passedBy
            /\ place.file = inode /\ EndIsThere
          BY <2>3, <1>t DEF PartRead, More, Opened, TailTypes
      <3>2. PICK j \in Lines : EndOf(j) = place.at + 1
          BY <3>1 DEF EndIsThere
      <3>3. ASSUME NEW k \in Lines PROVE EndOf(k) # place.at + 2
        <4>1. EndOf(k) = 2 * (k - logFile.after) /\ EndOf(j) = 2 * (j - logFile.after) /\ k \in Int /\ j \in Int /\ logFile.after \in Int
            BY <1>w, <1>s, <1>i
        <4> QED BY <4>1, <3>2, <1>s
      <3>4. ASSUME NEW k \in TouchedIn(place.at, place.at + 1) PROVE k \in passedBy
        <4>1. k \in Lines
            BY DEF TouchedIn
        <4>2. place.at < EndOf(k) /\ EndOf(k) <= place.at + 2 /\ EndOf(k) \in Int
            BY <4>1, <1>w, <1>s, <3>4
        <4>3. EndOf(k) = place.at + 1
            BY <4>1, <4>2, <3>3, <1>s
        <4> QED BY <4>1, <4>3, <3>1, <2>0, <1>u DEF CutsArePassed
      <3>5. \A k \in Lines : EndOf(k) # place'.at + 1
          BY <3>1, <3>3, <1>s
      <3> QED BY <3>1, <3>4, <3>5, <2>0, <1>u DEF CutsArePassed, Lines
    <2> QED BY <2>1, <2>2, <2>3
  <1>2. PastIsSettled' /\ PastIsNotActedOn'
      BY <1>u DEF PastIsSettled, PastIsNotActedOn
  <1>3. \E start, end \in Nat : \E lost :
            /\ end <= logFile.halves
            /\ place.file = inode => start = place.at /\ place.at <= end
            /\ ReadStep(start, end, lost)
    <2>1. CASE OpenAtEnd
      <3>1. place' = [place EXCEPT !.file = inode, !.at = Size] /\ passedBy' = passedBy \cup TouchedIn(0, Size)
            /\ taken' = taken /\ dropped' = dropped /\ torn' = torn /\ place.file # inode
          BY <2>1 DEF OpenAtEnd, Opened, reading
      <3>2. \A k \in Lines : 2 <= EndOf(k) /\ EndOf(k) <= Size => k \in TouchedIn(0, Size)
          BY <1>s, <1>w
      <3>3. WholeIn(Size, Size) = {}
          BY <1>s, <1>w
      <3>4. place'.file = inode /\ place'.at = Size /\ place' \in [file : Nat, at : Nat, pc : {"poll", "save", "dead"}]
          BY <3>1, <1>s, <1>t DEF TailTypes
      <3>5. ReadStep(Size, Size, {})
          BY <3>1, <3>2, <3>3, <3>4, <1>f, <1>u DEF ReadStep
      <3> QED BY <3>1, <3>5, <1>s
    <2>2. CASE LineRead
      <3>0. PICK lost \in {{}, NextLine} :
                /\ Process(NextLine, lost, TRUE)
                /\ \E pc \in IF lost = {} THEN {"poll"} ELSE {"poll", "dead"} :
                      place' = [place EXCEPT !.at = @ + 2, !.pc = pc]
          BY <2>2 DEF LineRead
      <3>p. PICK pc \in {"poll", "dead"} : place' = [place EXCEPT !.at = @ + 2, !.pc = pc]
          BY <3>0
      <3>1. /\ Process(NextLine, lost, TRUE) /\ torn' = torn /\ passedBy' = passedBy
            /\ place.file = inode /\ NextLine # {} /\ place.at + 2 <= Size
          BY <2>2, <3>0 DEF LineRead, More, Opened, LineIsThere
      <3>2. PICK j \in Lines : EndOf(j) = place.at + 2
        <4>1. PICK j : j \in WholeIn(place.at, place.at + 2)
            BY <3>1 DEF NextLine
        <4>2. j \in Lines /\ place.at + 2 <= EndOf(j) /\ EndOf(j) <= place.at + 2
            BY <4>1 DEF WholeIn
        <4>3. EndOf(j) \in Int
            BY <4>2, <1>w, <1>s
        <4> QED BY <4>2, <4>3, <1>s
      <3>3. ASSUME NEW k \in Lines, 2 <= EndOf(k), EndOf(k) < place.at + 2 PROVE Met(k)
        <4>1. EndOf(k) = 2 * (k - logFile.after) /\ EndOf(j) = 2 * (j - logFile.after) /\ EndOf(k) \in Int
            BY <1>w, <1>s
        <4>2. k \in Int /\ j \in Int /\ logFile.after \in Int
            BY <1>i
        <4>3. EndOf(k) # place.at + 1
            BY <4>1, <4>2, <3>2, <1>s
        <4> QED BY <4>1, <4>3, <3>3, <3>1, <1>m, <1>s
      <3>4. place'.file = inode /\ place'.at = place.at + 2 /\ place' \in [file : Nat, at : Nat, pc : {"poll", "save", "dead"}]
        <4>1. place \in [file : Nat, at : Nat, pc : {"poll", "save", "dead"}] /\ place.at + 2 \in Nat
            BY <1>s, <1>t DEF TailTypes
        <4>2. place'.file = place.file /\ place'.at = place.at + 2
            BY <4>1, <3>p
        <4>3. place' \in [file : Nat, at : Nat, pc : {"poll", "save", "dead"}]
            BY <4>1, <3>p
        <4> QED BY <4>2, <4>3, <3>1
      <3>5. taken' = [k \in Lines |-> IF k \in WholeIn(place.at, place.at + 2) \ lost THEN taken[k] + 1 ELSE taken[k]]
            /\ dropped' = dropped \cup lost
          BY <3>1 DEF Process, NextLine
      <3>6. ReadStep(place.at, place.at + 2, lost)
          BY <3>1, <3>3, <3>4, <3>5, <1>u DEF ReadStep
      <3>7. place.at + 2 \in Nat /\ place.at <= place.at + 2
          BY <1>s
      <3> QED BY <3>1, <3>6, <3>7, <1>s
    <2>3. CASE PartRead
      <3>1. /\ place' = [place EXCEPT !.at = @ + 1] /\ UNCHANGED <<taken, dropped, passedBy>>
            /\ torn' = torn \cup TouchedIn(place.at, place.at + 1) /\ place.file = inode /\ place.at < Size
          BY <2>3 DEF PartRead, More, Opened, reading
      <3>2. WholeIn(place.at, place.at + 1) = {}
          BY <1>s, <1>w
      <3>3. ASSUME NEW k \in Lines, 2 <= EndOf(k), EndOf(k) < place.at + 2 PROVE Met(k) \/ k \in torn'
        <4>1. EndOf(k) \in Int
            BY <1>w, <1>s
        <4>2. CASE EndOf(k) <= place.at
            BY <4>2, <3>3, <3>1, <1>m, <1>s
        <4>3. CASE EndOf(k) = place.at + 1
          <5>1. k \in TouchedIn(place.at, place.at + 1)
              BY <4>3, <1>w, <1>s
          <5> QED BY <5>1, <3>1
        <4> QED BY <4>1, <4>2, <4>3, <3>3, <1>s
      <3>4. place'.file = inode /\ place'.at = place.at + 1 /\ place' \in [file : Nat, at : Nat, pc : {"poll", "save", "dead"}]
          BY <3>1, <1>s, <1>t DEF TailTypes
      <3>5. ReadStep(place.at, place.at + 1, {})
          BY <3>1, <3>2, <3>3, <3>4, <1>f, <1>u DEF ReadStep
      <3>6. place.at + 1 \in Nat /\ place.at <= place.at + 1 /\ place.at + 1 <= Size
          BY <3>1, <1>s
      <3> QED BY <3>5, <3>6, <1>s
    <2> QED BY <2>1, <2>2, <2>3
  <1>4. taken' \in [Lines -> Nat] /\ FileIs' /\ PlacesAreWithin' /\ BehindIsMet' /\ AheadIsNew'
        /\ place' \in [file : Nat, at : Nat, pc : {"poll", "save", "dead"}]
    <2>0. PICK lost : \E start \in Nat, end \in Nat :
            /\ end <= logFile.halves
            /\ place.file = inode => start = place.at /\ place.at <= end
            /\ ReadStep(start, end, lost)
        BY <1>3
    <2>1. PICK start \in Nat, end \in Nat :
            /\ end <= logFile.halves
            /\ place.file = inode => start = place.at /\ place.at <= end
            /\ ReadStep(start, end, lost)
        BY <2>0
    <2>2. taken' \in [Lines -> Nat] /\ FileIs' /\ PlacesAreWithin' /\ BehindIsMet' /\ AheadIsNew'
        BY <2>1, <1>u, ReadingKeeps
    <2>3. place' \in [file : Nat, at : Nat, pc : {"poll", "save", "dead"}]
        BY <2>1 DEF ReadStep
    <2> QED BY <2>2, <2>3
  <1>5. TailTypes'
      BY <1>4, <1>t, <1>u DEF TailTypes, Lines
  <1> QED BY <1>1, <1>2, <1>4, <1>5 DEF TailIInv

(* Suricata and Zeek go back too far.                                        *)
LEMMA SeekBackKeeps == TailIInv /\ SeekBack => TailIInv'
  <1> SUFFICES ASSUME TailIInv, SeekBack PROVE TailIInv'
      OBVIOUS
  <1>t. TailTypes /\ FileIs /\ PlacesAreWithin /\ BehindIsMet /\ AheadIsNew
        /\ WholeLinesOnly /\ PastIsSettled /\ PastIsNotActedOn
      BY DEF TailIInv
  <1>u. /\ reader \in {"suricata", "zeek"} /\ logFile # None /\ slips' = slips + 1
        /\ UNCHANGED <<reader, logFile, inode, written, saved, backfilled, firstPass, pastLines, taken, live, torn, passedBy, dropped, crashes>>
        /\ UNCHANGED <<late, blind>>
      BY DEF SeekBack, More, offsetState, reading
  <1>1. PICK back \in 1..2 :
            place' = IF back <= place.at THEN [place EXCEPT !.at = @ - back] ELSE [place EXCEPT !.pc = "dead"]
      BY DEF SeekBack
  <1>2. /\ place' \in [file : Nat, at : Nat, pc : {"poll", "save", "dead"}] /\ place'.file = place.file
        /\ place'.at <= place.at /\ place.at <= place'.at + 2 /\ place.at \in Nat /\ place'.at \in Nat
    <2>0. place.at \in Nat
        BY <1>t DEF TailTypes
    <2>1. CASE back <= place.at
      <3>1. place.at - back \in Nat
          BY <2>0, <2>1
      <3> QED BY <3>1, <2>0, <2>1, <1>1, <1>t DEF TailTypes
    <2>2. CASE ~(back <= place.at)
        BY <2>0, <2>2, <1>1, <1>t DEF TailTypes
    <2> QED BY <2>1, <2>2
  <1>e. (\A k : (EndOf(k))' = EndOf(k)) /\ (\A from, to : (WholeIn(from, to))' = WholeIn(from, to))
      BY <1>u DEF EndOf, WholeIn, Lines
  <1>k. slips \in Nat /\ crashes \in Nat /\ inode \in Nat /\ \A k \in Lines : taken[k] \in Nat
      BY <1>t DEF TailTypes
  <1>w. \A k \in Lines : EndOf(k) \in Int
    <2>1. 0 \in Nat /\ TailTypes /\ logFile # None
        BY <1>t, <1>u
    <2> QED BY <2>1, WholeAreNumbers
  <1>3. TailTypes'
      BY <1>t, <1>u, <1>2, <1>k DEF TailTypes, Lines
  <1>4. FileIs' /\ PastIsSettled' /\ PastIsNotActedOn'
      BY <1>t, <1>u, <1>e DEF FileIs, PastIsSettled, PastIsNotActedOn
  <1>5. WholeLinesOnly'
      BY <1>u, <1>k DEF WholeLinesOnly
  <1>6. PlacesAreWithin'
    <2>1. logFile # None /\ place.file = inode => place'.at <= logFile.halves
      <3>1. logFile.halves \in Nat
          BY <1>t, <1>u DEF TailTypes
      <3> QED BY <3>1, <1>t, <1>2 DEF PlacesAreWithin, Within
    <2> QED BY <2>1, <1>t, <1>u, <1>2 DEF PlacesAreWithin, Within
  <1>m. \A k \in Lines : Met(k)' = Met(k)
      BY <1>u DEF Met
  <1>7. BehindIsMet'
    <2>1. MetUpTo(saved.file, saved.at)'
      <3> SUFFICES ASSUME saved.file = inode, NEW k \in WholeIn(0, saved.at) PROVE Met(k)'
          BY <1>u, <1>e DEF MetUpTo
      <3>1. k \in Lines /\ Met(k)
          BY <1>t, <1>u DEF WholeIn, BehindIsMet, MetUpTo
      <3> QED BY <3>1, <1>m
    <2>2. MetUpTo(place.file, place.at)'
      <3> SUFFICES ASSUME place.file = inode, NEW k \in WholeIn(0, place'.at) PROVE Met(k)'
          BY <1>u, <1>e, <1>2 DEF MetUpTo
      <3>1. k \in Lines /\ 0 + 2 <= EndOf(k) /\ EndOf(k) <= place'.at
          BY DEF WholeIn
      <3>2. EndOf(k) <= place.at
          BY <3>1, <1>2, <1>w
      <3>3. Met(k)
          BY <3>1, <3>2, <1>t, <1>u DEF WholeIn, BehindIsMet, MetUpTo
      <3> QED BY <3>1, <3>3, <1>m
    <2> QED BY <2>1, <2>2, <1>u DEF BehindIsMet
  <1>8. AheadIsNew'
    <2> SUFFICES ASSUME NEW k \in Lines
                 PROVE  taken[k] <= crashes + slips' /\ taken[k] <= 1 + crashes + slips' /\ (k > written => taken[k] = 0)
        BY <1>u DEF AheadIsNew, Lines
    <2>1. taken[k] <= 1 + crashes + slips /\ (k > written => taken[k] = 0) /\ taken[k] \in Nat
        BY <1>t, <1>k DEF AheadIsNew
    <2> QED BY <2>1, <1>u, <1>k
  <1> QED BY <1>3, <1>4, <1>5, <1>6, <1>7, <1>8 DEF TailIInv

(* A pass over the access log, the first of which reads what was there       *)
(* before.                                                                   *)
LEMMA AccessPassKeeps == TailIInv /\ AccessPass => TailIInv'
  <1> SUFFICES ASSUME TailIInv, AccessPass PROVE TailIInv'
      OBVIOUS
  <1>t. TailTypes /\ FileIs /\ PlacesAreWithin /\ BehindIsMet /\ AheadIsNew
        /\ WholeLinesOnly /\ PastIsSettled /\ PastIsNotActedOn
      BY DEF TailIInv
  <1>u. /\ reader = "access" /\ place.pc = "poll"
        /\ UNCHANGED <<reader, logFile, inode, written, saved, firstPass, slips, crashes>>
        /\ backfilled' = (backfilled \/ Backfills)
      BY DEF AccessPass
  <1>p. PastIsKnown
      BY <1>t, <1>u DEF PastIsSettled
  <1>b. /\ backfilled \in BOOLEAN /\ firstPass \in BOOLEAN /\ backfilled' \in BOOLEAN /\ blind \in BOOLEAN
        /\ backfilled' = TRUE /\ (Backfills => firstPass /\ ~backfilled /\ ~saved.backfilled)
        /\ (~Backfills => backfilled /\ ~(firstPass /\ ~saved.backfilled))
      BY <1>t, <1>u, <1>p DEF TailTypes, Backfills, PastIsKnown
  <1>1. WholeLinesOnly'
      BY <1>u DEF WholeLinesOnly
  <1>o. \/ /\ place' = [place EXCEPT !.pc = "save"] /\ blind' = (blind \/ (Backfills /\ logFile # None))
           /\ UNCHANGED <<taken, live, late, dropped, torn, passedBy, pastLines>>
        \/ /\ logFile # None /\ blind' = blind
           /\ LET start == IF Size < place.at THEN 0 ELSE place.at
                  lines == WholeIn(start, Size)
              IN /\ place' = [file |-> inode, at |-> Size, pc |-> "save"]
                 /\ \E lost \in IF Backfills THEN {{}} ELSE LostLines(lines) : Process(lines, lost, ~Backfills)
                 /\ torn' = torn \cup PartsIn(start, Size)
                 /\ passedBy' = passedBy \cup Overlooked(start)
                 /\ pastLines' = IF firstPass /\ ~saved.backfilled THEN pastLines \cup lines ELSE pastLines
      BY DEF AccessPass, reading
  <1>2. ASSUME place' = [place EXCEPT !.pc = "save"], blind' = (blind \/ (Backfills /\ logFile # None)),
               UNCHANGED <<taken, live, late, dropped, torn, passedBy, pastLines>>
        PROVE  TailIInv'
    <2>0. place'.file = place.file /\ place'.at = place.at /\ place'.pc = "save" /\ blind' \in BOOLEAN
        BY <1>2, <1>t, <1>b DEF TailTypes
    <2>1. place' \in [file : Nat, at : Nat, pc : {"poll", "save", "dead"}]
        BY <1>2, <1>t DEF TailTypes
    <2>2. TailTypes'
        BY <1>t, <1>u, <1>b, <1>2, <2>0, <2>1 DEF TailTypes, Lines
    <2>3. FileIs' /\ PlacesAreWithin' /\ BehindIsMet'
      <3>1. \A file, at : (MetUpTo(file, at))' = MetUpTo(file, at)
          BY <1>u, <1>2 DEF MetUpTo, Met, WholeIn, EndOf, Lines
      <3>2. BehindIsMet'
          BY <3>1, <1>t, <1>u, <1>2, <2>0 DEF BehindIsMet
      <3> QED BY <3>2, <1>t, <1>u, <1>2, <2>0 DEF FileIs, PlacesAreWithin, Within, EndOf
    <2>4. AheadIsNew'
        BY <1>t, <1>u, <1>2, <2>0 DEF AheadIsNew, Ahead, EndOf, Lines
    <2>5. PastIsNotActedOn'
        BY <1>t, <1>u, <1>b, <1>2 DEF PastIsNotActedOn, Says, AccessSays, Lines
    <2>6. PastIsSettled'
      <3>1. \A file, at : (PastBehind(file, at))' = PastBehind(file, at)
          BY <1>u, <1>2 DEF PastBehind, EndOf
      <3>2. blind' \/ PastBehind(place.file, place.at)
        <4>1. CASE Backfills /\ logFile # None
            BY <4>1, <1>2
        <4>2. CASE logFile = None
            BY <4>2 DEF PastBehind
        <4>3. CASE ~Backfills
            BY <4>3, <1>b, <1>p, <1>2 DEF PastIsKnown
        <4> QED BY <4>1, <4>2, <4>3
      <3>3. saved.backfilled => blind' \/ PastBehind(saved.file, saved.at)
          BY <1>p, <1>2, <1>b DEF PastIsKnown
      <3> QED BY <3>1, <3>2, <3>3, <1>p, <1>u, <1>b, <1>2, <2>0 DEF PastIsSettled, PastIsKnown, EndOf, Lines
    <2> QED BY <1>1, <2>2, <2>3, <2>4, <2>5, <2>6 DEF TailIInv
  <1>3. CASE /\ logFile # None /\ blind' = blind
             /\ LET start == IF Size < place.at THEN 0 ELSE place.at
                    lines == WholeIn(start, Size)
                IN /\ place' = [file |-> inode, at |-> Size, pc |-> "save"]
                   /\ \E lost \in IF Backfills THEN {{}} ELSE LostLines(lines) : Process(lines, lost, ~Backfills)
                   /\ torn' = torn \cup PartsIn(start, Size)
                   /\ passedBy' = passedBy \cup Overlooked(start)
                   /\ pastLines' = IF firstPass /\ ~saved.backfilled THEN pastLines \cup lines ELSE pastLines
    <2> DEFINE start == IF Size < place.at THEN 0 ELSE place.at
    <2>1. /\ place' = [file |-> inode, at |-> Size, pc |-> "save"]
          /\ torn' = torn \cup PartsIn(start, Size) /\ passedBy' = passedBy \cup Overlooked(start)
          /\ pastLines' = IF Backfills THEN pastLines \cup WholeIn(start, Size) ELSE pastLines
        BY <1>3, <1>b
    <2>p. PICK lost \in IF Backfills THEN {{}} ELSE LostLines(WholeIn(start, Size)) : Process(WholeIn(start, Size), lost, ~Backfills)
        BY <1>3
    <2>f. Backfills => lost = {}
        BY <2>p
    <2>2. Size \in Nat /\ inode \in Nat /\ place.at \in Nat /\ written \in Nat
        BY <1>t, <1>3 DEF Size, TailTypes
    <2>3. place'.file = inode /\ place'.at = Size /\ place'.pc = "save"
          /\ place' \in [file : Nat, at : Nat, pc : {"poll", "save", "dead"}]
        BY <2>1, <2>2
    <2>4. /\ taken' = [k \in Lines |-> IF k \in WholeIn(start, Size) \ lost THEN taken[k] + 1 ELSE taken[k]]
          /\ dropped' = dropped \cup lost
          /\ live' = IF ~Backfills THEN live \cup {k \in WholeIn(start, Size) \ lost : Says(k) # None} ELSE live
          /\ late' = IF ~Backfills THEN late \cup ({k \in WholeIn(start, Size) \ lost : Says(k) # None} \cap pastLines) ELSE late
        BY <2>p DEF Process
    <2>5. /\ start \in Nat /\ Size = logFile.halves
          /\ place.file = inode => start = place.at /\ place.at <= Size
          /\ ReadStep(start, Size, lost)
      <3> HIDE DEF start
      <3>1. start = IF Size < place.at THEN 0 ELSE place.at
          BY DEF start
      <3> QED BY <3>1, <2>1, <2>3, <2>4, <1>3, <1>u, PollsRead
    <2> HIDE DEF start
    <2>6. taken' \in [Lines -> Nat] /\ FileIs' /\ PlacesAreWithin' /\ BehindIsMet' /\ AheadIsNew'
        BY <2>2, <2>5, <1>3, <1>u, ReadingKeeps
    <2>7. TailTypes'
        BY <2>3, <2>6, <1>3, <1>t, <1>u, <1>b DEF TailTypes, Lines
    <2>w. /\ WholeIn(start, Size) \subseteq Lines /\ Lines \subseteq Nat /\ logFile.after \in Nat
          /\ \A k \in Lines :
                /\ EndOf(k) = 2 * (k - logFile.after) /\ EndOf(k) \in Int
                /\ (k \in WholeIn(start, Size) <=> (start + 2 <= EndOf(k) /\ EndOf(k) <= Size))
        BY <2>2, <2>5, <1>t, <1>3, WholeAreNumbers
    <2>8. \A k \in WholeIn(start, Size) : k \in Lines /\ k <= written /\ EndOf(k) <= logFile.halves
      <3> SUFFICES ASSUME NEW k \in WholeIn(start, Size)
                   PROVE  k \in Lines /\ k <= written /\ EndOf(k) <= logFile.halves
          OBVIOUS
      <3>1. k \in Lines /\ k \in Nat /\ EndOf(k) = 2 * (k - logFile.after) /\ EndOf(k) <= logFile.halves
          BY <2>w, <2>5
      <3>2. logFile.halves <= 2 * (written - logFile.after)
          BY <1>t, <1>3 DEF FileIs, EndOf
      <3> QED BY <3>1, <3>2, <2>2, <2>5, <2>w
    <2>9. blind \/ Backfills \/ (\A k \in pastLines : k \notin WholeIn(start, Size))
      <3> SUFFICES ASSUME NEW k \in pastLines, k \in WholeIn(start, Size), ~Backfills, ~blind PROVE FALSE
          OBVIOUS
      <3>1. k \in Lines /\ k \in Nat /\ EndOf(k) = 2 * (k - logFile.after) /\ EndOf(k) \in Int /\ start + 2 <= EndOf(k)
          BY <2>w
      <3>2. k > logFile.after
          BY <3>1, <2>5, <2>w
      <3>3. place.file = inode /\ EndOf(k) <= place.at
          BY <3>2, <1>p, <1>b, <1>3 DEF PastIsKnown, PastBehind
      <3> QED BY <3>1, <3>3, <2>5, <2>2
    <2>s. \A k \in Lines : Says(k)' = Says(k)
        BY <1>u DEF Says, AccessSays
    <2>10. PastIsNotActedOn'
      <3>1. blind' \/ late' = {}
        <4>1. CASE Backfills
            BY <4>1, <1>3, <2>4, <1>t, <1>u DEF PastIsNotActedOn
        <4>2. CASE ~Backfills
            BY <4>2, <1>3, <2>4, <2>9, <1>t, <1>u DEF PastIsNotActedOn
        <4> QED BY <4>1, <4>2
      <3>2. ASSUME NEW k \in Lines, taken'[k] > 0, k \notin pastLines', Says(k) # None PROVE k \in live'
        <4>1. CASE k \in WholeIn(start, Size) \ lost
            BY <4>1, <2>1, <2>4, <3>2
        <4>2. CASE k \notin WholeIn(start, Size) \ lost
          <5>1. taken[k] > 0 /\ k \notin pastLines
              BY <4>2, <2>1, <2>4, <3>2
          <5> QED BY <5>1, <3>2, <2>4, <1>t, <1>u DEF PastIsNotActedOn
        <4> QED BY <4>1, <4>2
      <3> QED BY <3>1, <3>2, <2>s, <1>u DEF PastIsNotActedOn, Lines
    <2>11. PastIsSettled'
      <3>e. \A k : (EndOf(k))' = EndOf(k)
          BY <1>u DEF EndOf
      <3>1. \A k \in pastLines' : k \in Lines /\ k <= written /\ EndOf(k) <= logFile.halves
          BY <2>1, <2>8, <1>p, <1>3 DEF PastIsKnown
      <3>2. saved.backfilled => blind' \/ (PastBehind(saved.file, saved.at))'
        <4>1. saved.backfilled => pastLines' = pastLines /\ (blind \/ PastBehind(saved.file, saved.at))
            BY <2>1, <1>b, <1>p DEF PastIsKnown
        <4> QED BY <4>1, <1>3, <1>u, <3>e DEF PastBehind
      <3>3. (PastBehind(place.file, place.at))'
          BY <3>1, <3>e, <2>3, <2>5, <1>u DEF PastBehind
      <3> QED BY <3>1, <3>2, <3>3, <3>e, <2>3, <1>u, <1>b DEF PastIsSettled, PastIsKnown, Lines
    <2> QED BY <1>1, <2>6, <2>7, <2>10, <2>11 DEF TailIInv
  <1> QED BY <1>o, <1>2, <1>3

(* The place is saved, or read back after a crash.                           *)
LEMMA SavesKeep == TailIInv /\ (SaveState \/ AccessRestart) => TailIInv'
  <1> SUFFICES ASSUME TailIInv, SaveState \/ AccessRestart PROVE TailIInv'
      OBVIOUS
  <1>t. TailTypes /\ FileIs /\ PlacesAreWithin /\ BehindIsMet /\ AheadIsNew
        /\ WholeLinesOnly /\ PastIsSettled /\ PastIsNotActedOn
      BY DEF TailIInv
  <1>u. reader = "access" /\ UNCHANGED <<reader, logFile, inode, written, pastLines, blind, taken, live, late, torn, passedBy, dropped, slips>>
      BY DEF SaveState, AccessRestart, reading
  <1>1. WholeLinesOnly' /\ PastIsNotActedOn' /\ FileIs'
      BY <1>t, <1>u DEF WholeLinesOnly, PastIsNotActedOn, FileIs, EndOf, Says, AccessSays, Lines
  <1>e. \A k : (EndOf(k))' = EndOf(k)
      BY <1>u DEF EndOf
  <1>m. \A file, at : (MetUpTo(file, at))' = MetUpTo(file, at)
      BY <1>u, <1>e DEF MetUpTo, Met, WholeIn, Lines
  <1>2. CASE SaveState
    <2>1. /\ saved' = [at |-> place.at, file |-> place.file, backfilled |-> backfilled] \/ saved' = saved
          /\ \E pc \in {"poll", "dead"} : place' = [place EXCEPT !.pc = pc]
          /\ firstPass' = FALSE /\ UNCHANGED <<backfilled, crashes>> /\ place.pc = "save"
        BY <1>2 DEF SaveState
    <2>2. /\ \/ saved'.at = place.at /\ saved'.file = place.file /\ saved'.backfilled = backfilled
             \/ saved' = saved
          /\ place'.at = place.at /\ place'.file = place.file /\ place'.pc # "save"
          /\ place' \in [file : Nat, at : Nat, pc : {"poll", "save", "dead"}]
          /\ saved' \in [at : Nat, file : Nat, backfilled : BOOLEAN]
        BY <2>1, <1>t DEF TailTypes
    <2>3. TailTypes'
        BY <1>t, <1>u, <2>1, <2>2 DEF TailTypes, Lines
    <2>4. PlacesAreWithin'
        BY <1>t, <1>u, <2>2 DEF PlacesAreWithin, Within
    <2>5. BehindIsMet'
        BY <1>t, <1>u, <1>m, <2>2 DEF BehindIsMet
    <2>6. AheadIsNew'
        BY <1>t, <1>u, <1>e, <2>1, <2>2 DEF AheadIsNew, Ahead, Lines
    <2>7. PastIsSettled'
      <3>1. PastIsKnown
          BY <1>t, <1>u DEF PastIsSettled
      <3>p. \A file, at : (PastBehind(file, at))' = PastBehind(file, at)
          BY <1>u, <1>e DEF PastBehind
      <3>2. backfilled' => blind \/ (PastBehind(place.file, place.at))'
          BY <3>1, <3>p, <2>1, <2>2 DEF PastIsKnown
      <3>3. saved'.backfilled => backfilled' /\ (blind \/ (PastBehind(saved.file, saved.at))')
          BY <3>1, <3>p, <2>1, <2>2 DEF PastIsKnown
      <3>4. backfilled' /\ ~firstPass' /\ place'.pc # "save"
          BY <3>1, <2>1, <2>2 DEF PastIsKnown
      <3> QED BY <3>1, <3>2, <3>3, <3>4, <1>u, <1>e DEF PastIsSettled, PastIsKnown, Lines
    <2> QED BY <1>1, <2>3, <2>4, <2>5, <2>6, <2>7 DEF TailIInv
  <1>3. CASE AccessRestart
    <2>1. /\ crashes' = crashes + 1 /\ backfilled' = saved.backfilled /\ firstPass' = TRUE /\ saved' = saved
          /\ place' = [file |-> saved.file, at |-> IF saved.at > Size THEN 0 ELSE saved.at, pc |-> "poll"]
        BY <1>3 DEF AccessRestart
    <2>2. saved.at \in Nat /\ saved.file \in Nat /\ saved.backfilled \in BOOLEAN /\ crashes \in Nat
        BY <1>t DEF TailTypes
    <2>3. TailTypes'
        BY <1>t, <1>u, <2>1, <2>2 DEF TailTypes, Lines
    <2>4. place'.file = saved.file /\ (logFile # None /\ saved.file = inode => place'.at = saved.at /\ saved.at <= logFile.halves)
        BY <1>t, <2>1, <2>2 DEF PlacesAreWithin, Within, Size, TailTypes
    <2>5. PlacesAreWithin'
        BY <1>t, <1>u, <2>1, <2>4 DEF PlacesAreWithin, Within
    <2>6. BehindIsMet'
        BY <1>t, <1>u, <1>m, <2>1, <2>4 DEF BehindIsMet, MetUpTo
    <2>7. AheadIsNew'
      <3> SUFFICES ASSUME NEW k \in Lines
                   PROVE  taken[k] <= 1 + crashes' + slips /\ (k > written => taken[k] = 0) /\ taken[k] <= crashes' + slips
          BY <1>u DEF AheadIsNew, Lines
      <3>1. taken[k] \in Nat /\ slips \in Nat
          BY <1>t DEF TailTypes
      <3> QED BY <3>1, <1>t, <2>1, <2>2 DEF AheadIsNew
    <2>8. PastIsSettled'
      <3>1. PastIsKnown
          BY <1>t, <1>u DEF PastIsSettled
      <3>2. saved.backfilled => blind \/ ((PastBehind(saved.file, saved.at))' /\ (PastBehind(place.file, place.at))')
          BY <3>1, <1>u, <1>e, <2>1, <2>4 DEF PastIsKnown, PastBehind
      <3> QED BY <3>1, <3>2, <1>u, <1>e, <2>1, <2>2 DEF PastIsSettled, PastIsKnown, Lines
    <2> QED BY <1>1, <2>3, <2>5, <2>6, <2>7, <2>8 DEF TailIInv
  <1> QED BY <1>2, <1>3

(* Sysmon, by the numbers of its records.                                    *)
LEMMA SysmonReadsKeeps == TailIInv /\ SysmonReads => TailIInv'
  <1> SUFFICES ASSUME TailIInv, SysmonReads PROVE TailIInv'
      OBVIOUS
  <1>t. TailTypes /\ FileIs /\ PlacesAreWithin /\ BehindIsMet /\ AheadIsNew
        /\ WholeLinesOnly /\ PastIsSettled /\ PastIsNotActedOn
      BY DEF TailIInv
  <1>u. /\ reader = "sysmon" /\ logFile # None
        /\ UNCHANGED <<reader, logFile, inode, written, saved, backfilled, firstPass, blind, torn, slips, crashes>>
      BY DEF SysmonReads, offsetState
  <1>a. PICK low \in WholeIn(0, Size), last \in WholeIn(0, Size) :
            LET news == {k \in WholeIn(0, Size) : low <= k /\ k <= last /\ k > place.at}
            IN /\ low <= last /\ last > place.at
               /\ \E lost \in {{}} \cup {{j \in news : j <= k} : k \in news} :
                     /\ Process(news, lost, TRUE)
                     /\ place' = [place EXCEPT !.at = last, !.pc = IF lost = {} THEN "poll" ELSE "dead"]
               /\ passedBy' = passedBy \cup {k \in WholeIn(0, Size) : place.at < k /\ k < low}
      BY DEF SysmonReads
  <1> DEFINE news == {k \in WholeIn(0, Size) : low <= k /\ k <= last /\ k > place.at}
  <1>0. PICK lost :
            /\ Process(news, lost, TRUE)
            /\ place' = [place EXCEPT !.at = last, !.pc = IF lost = {} THEN "poll" ELSE "dead"]
      BY <1>a
  <1>1. low <= last /\ last > place.at /\ passedBy' = passedBy \cup {k \in WholeIn(0, Size) : place.at < k /\ k < low}
      BY <1>a
  <1>2. taken' = [k \in Lines |-> IF k \in news \ lost THEN taken[k] + 1 ELSE taken[k]] /\ dropped' = dropped \cup lost
      BY <1>0 DEF Process
  <1>k. /\ Size = logFile.halves /\ Size \in Nat /\ place.at \in Nat /\ written \in Nat /\ inode \in Nat \ {0}
        /\ place.file = 0 /\ crashes \in Nat /\ slips \in Nat /\ \A k \in Lines : taken[k] \in Nat
      BY <1>t, <1>u DEF TailTypes, Size, PlacesAreWithin
  <1>w. /\ WholeIn(0, Size) \subseteq Lines /\ Lines \subseteq Nat /\ logFile.after \in Nat
        /\ \A k \in Lines :
                /\ EndOf(k) = 2 * (k - logFile.after) /\ EndOf(k) \in Int
                /\ (k \in WholeIn(0, Size) <=> (0 + 2 <= EndOf(k) /\ EndOf(k) <= Size))
      BY <1>t, <1>u, <1>k, WholeAreNumbers
  <1>3. last \in Nat /\ low \in Nat /\ place.at <= last
      BY <1>a, <1>1, <1>w, <1>k
  <1>4. \A k \in WholeIn(0, Size) : k <= written /\ (Size < EndOf(written) => k < written)
    <2> SUFFICES ASSUME NEW k \in WholeIn(0, Size)
                 PROVE  k <= written /\ (Size < EndOf(written) => k < written)
        OBVIOUS
    <2>1. k \in Nat /\ 2 * (k - logFile.after) <= Size
        BY <1>w
    <2>2. Size <= EndOf(written) /\ EndOf(written) = 2 * (written - logFile.after)
        BY <1>t, <1>u, <1>k DEF FileIs, EndOf
    <2> QED BY <2>1, <2>2, <1>k, <1>w
  <1>5. place' \in [file : Nat, at : Nat, pc : {"poll", "save", "dead"}] /\ place'.at = last /\ place'.file = 0
      BY <1>0, <1>3, <1>t, <1>k DEF TailTypes
  <1>6. TailTypes'
    <2>1. taken' \in [Lines -> Nat]
        BY <1>2, <1>k
    <2> QED BY <2>1, <1>5, <1>t, <1>u DEF TailTypes, Lines
  <1>e. (\A k : (EndOf(k))' = EndOf(k)) /\ (\A from, to : (WholeIn(from, to))' = WholeIn(from, to))
      BY <1>u DEF EndOf, WholeIn, Lines
  <1>7. FileIs' /\ WholeLinesOnly' /\ PastIsSettled' /\ PastIsNotActedOn'
      BY <1>t, <1>u, <1>e DEF FileIs, WholeLinesOnly, PastIsSettled, PastIsNotActedOn
  <1>8. PlacesAreWithin'
    <2>1. last <= written /\ (logFile.halves < EndOf(written) => last < written)
        BY <1>t, <1>u, <1>k, <1>4 DEF PlacesAreWithin
    <2> QED BY <2>1, <1>t, <1>u, <1>e, <1>5, <1>k DEF PlacesAreWithin, Within
  <1>m. \A k \in Lines : Met(k) => Met(k)'
      BY <1>1, <1>2, <1>k, <1>u DEF Met
  <1>9. BehindIsMet'
    <2>1. MetUpTo(saved.file, saved.at)'
        BY <1>t, <1>u, <1>e, <1>m DEF BehindIsMet, MetUpTo, WholeIn
    <2>2. MetUpTo(place.file, place.at)'
        BY <1>5, <1>u, <1>k DEF MetUpTo
    <2>3. ASSUME NEW k \in WholeIn(0, logFile.halves), k <= last PROVE Met(k)'
      <3>1. k \in Lines
          BY <1>w, <1>k
      <3>2. CASE k > place.at
        <4>1. k \in news \/ k \in {j \in WholeIn(0, Size) : place.at < j /\ j < low}
            BY <3>1, <3>2, <2>3, <1>w, <1>k, <1>3
        <4>2. CASE k \in news
          <5>1. k \in dropped' \/ taken'[k] = taken[k] + 1
              BY <3>1, <4>2, <1>2
          <5> QED BY <5>1, <3>1, <1>k DEF Met
        <4>3. CASE k \in {j \in WholeIn(0, Size) : place.at < j /\ j < low}
            BY <4>3, <1>1 DEF Met
        <4> QED BY <4>1, <4>2, <4>3
      <3>3. CASE ~(k > place.at)
        <4>1. Met(k)
            BY <3>1, <3>3, <2>3, <1>w, <1>k, <1>t, <1>u DEF BehindIsMet
        <4> QED BY <4>1, <3>1, <1>m
      <3> QED BY <3>2, <3>3
    <2> QED BY <2>1, <2>2, <2>3, <1>e, <1>u, <1>5 DEF BehindIsMet
  <1>10. AheadIsNew'
    <2> SUFFICES ASSUME NEW k \in Lines
                 PROVE  /\ taken'[k] <= 1 + crashes + slips /\ (k > written => taken'[k] = 0)
                        /\ (k > last => taken'[k] <= crashes + slips)
        BY <1>u, <1>5 DEF AheadIsNew, Ahead, Lines
    <2>1. /\ taken[k] <= 1 + crashes + slips /\ (k > written => taken[k] = 0)
          /\ (k > place.at => taken[k] <= crashes + slips) /\ k \in Nat /\ taken[k] \in Nat
        BY <1>t, <1>u, <1>w, <1>k DEF AheadIsNew, Ahead
    <2>2. CASE k \in news
      <3>1. taken'[k] \in {taken[k], taken[k] + 1} /\ k > place.at /\ k <= last /\ k <= written
          BY <2>2, <1>2, <1>4
      <3> QED BY <3>1, <2>1, <1>3, <1>k
    <2>3. CASE k \notin news
      <3>1. taken'[k] = taken[k]
          BY <2>3, <1>2
      <3> HIDE DEF news
      <3> QED BY <3>1, <2>1, <1>3, <1>k
    <2> QED BY <2>2, <2>3
  <1> QED BY <1>6, <1>7, <1>8, <1>9, <1>10 DEF TailIInv

(* Steps that take nothing.                                                  *)
LEMMA QuietStepsKeep == TailIInv /\ (Lose \/ TailTick \/ UNCHANGED tailVars) => TailIInv'
  <1> SUFFICES ASSUME TailIInv, Lose \/ TailTick \/ UNCHANGED tailVars PROVE TailIInv'
      OBVIOUS
  <1>t. TailTypes /\ FileIs /\ PlacesAreWithin /\ BehindIsMet /\ AheadIsNew
        /\ WholeLinesOnly /\ PastIsSettled /\ PastIsNotActedOn
      BY DEF TailIInv
  <1>u. UNCHANGED <<reader, logFile, inode, written, saved, backfilled, firstPass, pastLines, blind, taken, live, late, torn, passedBy, dropped, slips, crashes>>
      BY DEF Lose, TailTick, tailVars, offsetState, reading
  <1>e. (\A k : (EndOf(k))' = EndOf(k)) /\ (\A from, to : (WholeIn(from, to))' = WholeIn(from, to))
      BY <1>u DEF EndOf, WholeIn, Lines
  <1>1. FileIs'
      BY <1>t, <1>u, <1>e DEF FileIs
  <1>2. CASE UNCHANGED place
    <2>0. WholeLinesOnly'
        BY <1>t, <1>u, <1>e, <1>2 DEF WholeLinesOnly, CutsArePassed, Lines
    <2>1. TailTypes' /\ PlacesAreWithin'
        BY <1>t, <1>u, <1>e, <1>2 DEF TailTypes, PlacesAreWithin, Within, Lines
    <2>2. BehindIsMet'
        BY <1>t, <1>u, <1>e, <1>2 DEF BehindIsMet, MetUpTo, Met
    <2>3. AheadIsNew'
        BY <1>t, <1>u, <1>e, <1>2 DEF AheadIsNew, Ahead, Lines
    <2>4. PastIsSettled' /\ PastIsNotActedOn'
        BY <1>t, <1>u, <1>e, <1>2 DEF PastIsSettled, PastIsKnown, PastBehind, PastIsNotActedOn, Says, AccessSays, Lines
    <2> QED BY <1>1, <2>0, <2>1, <2>2, <2>3, <2>4 DEF TailIInv
  <1>3. CASE Lose
    <2>1. reader \in {"snort", "suricata", "zeek"} /\ logFile = None /\ place' = [place EXCEPT !.file = 0]
        BY <1>3 DEF Lose
    <2>2. TailTypes' /\ WholeLinesOnly'
        BY <1>t, <1>u, <2>1 DEF TailTypes, WholeLinesOnly, CutsArePassed, Lines
    <2>3. PlacesAreWithin' /\ BehindIsMet'
        BY <1>t, <1>u, <2>1 DEF TailTypes, PlacesAreWithin, Within, BehindIsMet, MetUpTo
    <2>4. AheadIsNew'
        BY <1>t, <1>u, <2>1 DEF AheadIsNew, Ahead, Lines
    <2>5. PastIsSettled' /\ PastIsNotActedOn'
        BY <1>u, <2>1 DEF PastIsSettled, PastIsNotActedOn
    <2> QED BY <1>1, <2>2, <2>3, <2>4, <2>5 DEF TailIInv
  <1>4. TailTick => UNCHANGED place
      BY DEF TailTick
  <1> QED BY <1>2, <1>3, <1>4 DEF tailVars

(* Whatever a file goes through between two polls: a line behind the place   *)
(* of its reader was taken, unless processing it or a line before it raised  *)
(* an exception, a sensor found it when it opened the file, a new file had   *)
(* outgrown the place in the old one, Sysmon was given newer ones first, or  *)
(* it was met half-written; no line is taken more often than once and once   *)
(* more for each crash between a pass and its save and each time a reader    *)
(* went back too far; and what a first pass found in an access log is not    *)
(* acted on afterwards unless a first pass could not read. The argument ties *)
(* what is behind the place, and behind the saved one, to what was taken.    *)
THEOREM ReadersAreAlwaysExact == TailSpec => []ReadersAreExact
  <1>1. TailInit => TailIInv
      BY TailStarts
  <1>2. TailIInv /\ [TailNext]_tailVars => TailIInv'
      BY WritersKeep, AuthPollKeeps, SensorsKeep, SeekBackKeeps, AccessPassKeeps, SavesKeep, SysmonReadsKeeps, QuietStepsKeep DEF TailNext
  <1>3. TailIInv => ReadersAreExact
    <2> SUFFICES ASSUME TailIInv PROVE ReadersAreExact
        OBVIOUS
    <2>1. \A k \in Behind : Met(k)
        BY DEF TailIInv, Behind, BehindIsMet, MetUpTo, Size
    <2>2. \A k \in Lines : taken[k] <= 1 + crashes + slips
        BY DEF TailIInv, AheadIsNew
    <2> QED BY <2>1, <2>2 DEF TailIInv, ReadersAreExact, TailsMissNothing, Met, WholeLinesOnly
  <1> QED BY <1>1, <1>2, <1>3, PTL DEF TailSpec
===============================================================================
