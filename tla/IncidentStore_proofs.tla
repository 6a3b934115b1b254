------------------------ MODULE IncidentStore_proofs ------------------------
(* What holds of the case file for any number of incidents, types and nets,    *)
(* with or without a delay before the save, any legacy file, and any number of *)
(* failing transactions and crashes.                                           *)
EXTENDS IncidentStore, TLAPS, WellFoundedInduction

-----------------------------------------------------------------------------
(* The next id after a load.                                                   *)

LEMMA LeastNatural == \A T \in SUBSET Nat : T # {} => \E x \in T : \A y \in T : x <= y
<1> SUFFICES ASSUME NEW T \in SUBSET Nat, T # {} PROVE \E x \in T : \A y \in T : x <= y
  OBVIOUS
<1>1. PICK x \in T : \A y \in T : ~(<<y, x>> \in OpToRel(<, Nat))
  BY NatLessThanWellFounded, WFMin, Zenon
<1>2. \A y \in T : ~(y < x)
  <2>1. SUFFICES ASSUME NEW y \in T, y < x PROVE FALSE
    OBVIOUS
  <2>2. <<y, x>> \in OpToRel(<, Nat)
    BY <2>1 DEF OpToRel
  <2> QED  BY <1>1, <2>2
<1>3. \A y \in T : x \in Nat /\ y \in Nat /\ ~(y < x)
  BY <1>2
<1>4. \A y \in T : x <= y
  BY <1>3
<1> QED  BY <1>4

(* NextAfter is above every id of the book and not below the stored one.       *)
LEMMA NextAfterIsAbove ==
    ASSUME NEW book \in Books, NEW s \in 1..(MaxId + 1)
    PROVE  /\ NextAfter(book, s) \in 1..(MaxId + 1)
           /\ \A id \in In(book) : id < NextAfter(book, s)
<1> DEFINE T == {n \in Nat : n >= s /\ \A id \in In(book) : n > id}
<1> USE BoundAssumption DEF Ids, In
<1>1. MaxId + 1 \in T
  OBVIOUS
<1>2. PICK n \in T : \A m \in T : n <= m
  BY <1>1, LeastNatural
<1>3. n = s \/ n - 1 \in In(book)
  <2>1. SUFFICES ASSUME n # s, n - 1 \notin In(book) PROVE FALSE
    OBVIOUS
  <2>2. n - 1 \in Nat /\ n - 1 >= s
    BY <1>2, <2>1
  <2>3. \A id \in In(book) : n - 1 > id
    BY <1>2, <2>1
  <2>4. n - 1 \in T
    BY <2>2, <2>3
  <2> QED  BY <1>2, <2>2, <2>4
<1>4. n <= MaxId + 1
  BY <1>1, <1>2
<1> HIDE DEF In
<1> DEFINE S == 1..(s + MaxId + 1)
           P(k) == /\ k >= s /\ \A id \in In(book) : k > id
                   /\ k = s \/ k - 1 \in In(book)
<1>5. \E k \in S : P(k)
  BY <1>2, <1>3, <1>4
<1>6. NextAfter(book, s) = CHOOSE k \in S : P(k)
  BY DEF NextAfter
<1>7. NextAfter(book, s) \in S /\ P(NextAfter(book, s))
  <2> HIDE DEF S, P
  <2> QED  BY <1>5, <1>6
<1>8. \A id \in In(book) : id \in 1..MaxId
  BY DEF In
<1> QED  BY <1>7, <1>8

-----------------------------------------------------------------------------
(* The inductive invariant.  Not all the runs check is inductive by itself:    *)
(* that a load brings back what an analyst was told is recorded needs the row, *)
(* and that a new id is free needs the ids of rows as well as of memory.       *)
IdsBelowNext == \A id \in In(incidents) \cup In(db) : id < nextId

NotedIsStored ==
    faults = 0 => \A id \in Ids : noted[id] > 0 =>
        /\ id \in In(incidents) /\ incidents[id].rev >= noted[id]
        /\ id \in In(db) /\ db[id].rev >= noted[id]

IInv == TypeOK /\ CleanIsStored /\ UnsavedIsScheduled /\ IdsBelowNext /\ NotedIsStored

(* A step after its change of memory and before its save: what is not marked   *)
(* is stored, and what an analyst was told is stored or marked.                *)
Marked(marked) ==
    /\ incidents' \in Books /\ nextId' \in 1..(MaxId + 1)
    /\ marked \subseteq Ids
    /\ \A id \in In(incidents') \ marked : db[id] = incidents'[id]
    /\ \A id \in In(incidents') \cup In(db) : id < nextId'
    /\ noted' \in [Ids -> Nat] /\ purged' \subseteq Ids
    /\ faults = 0 => \A id \in Ids : noted'[id] > 0 =>
        /\ id \in In(incidents') /\ incidents'[id].rev >= noted'[id]
        /\ id \in marked \/ (id \in In(db) /\ db[id].rev >= noted'[id])

Frame == UNCHANGED <<legacy, debounced>> /\ now' \in Nat /\ restarts' \in 0..MaxRestart

LEMMA SavedSoundly ==
    ASSUME IInv, NEW marked, NEW meta \in BOOLEAN, Marked(marked), Frame,
           timer' \in BOOLEAN, SaveNow(marked, meta)
    PROVE  IInv'
<1> USE BoundAssumption
<1>1. CASE /\ marked = {} /\ ~meta
           /\ dirty' = {} /\ metaDirty' = FALSE
           /\ UNCHANGED <<stored, failed, faults>>
  <2>1. TypeOK'
    BY <1>1 DEF IInv, TypeOK, Marked, Frame, stored
  <2>2. CleanIsStored' /\ UnsavedIsScheduled' /\ IdsBelowNext' /\ NotedIsStored'
    BY <1>1 DEF IInv, Marked, CleanIsStored, UnsavedIsScheduled, IdsBelowNext,
                NotedIsStored, In, stored
  <2> QED  BY <2>1, <2>2 DEF IInv
<1>2. CASE /\ db' = Written(marked)
           /\ dbNext' = IF meta THEN nextId' ELSE dbNext
           /\ dirty' = {} /\ metaDirty' = FALSE /\ failed' = FALSE
           /\ UNCHANGED faults
  <2>1. db' \in Books /\ \A id \in Ids : db'[id] = IF id \in marked /\ incidents'[id] # None
                                                   THEN incidents'[id] ELSE db[id]
    BY <1>2 DEF IInv, TypeOK, Marked, Written, Books, In
  <2>2. TypeOK'
    BY <1>2, <2>1 DEF IInv, TypeOK, Marked, Frame
  <2>3. CleanIsStored' /\ UnsavedIsScheduled'
    BY <1>2, <2>1 DEF Marked, CleanIsStored, UnsavedIsScheduled, In
  <2>4. IdsBelowNext'
    BY <2>1 DEF Marked, IdsBelowNext, In
  <2>5. NotedIsStored'
    BY <1>2, <2>1 DEF Marked, NotedIsStored, In
  <2> QED  BY <2>2, <2>3, <2>4, <2>5 DEF IInv
<1>3. CASE /\ faults < MaxFault /\ faults' = faults + 1
           /\ dirty' = Kept(marked) /\ metaDirty' = meta /\ failed' = TRUE
           /\ UNCHANGED stored
  <2>1. TypeOK'
    BY <1>3 DEF IInv, TypeOK, Marked, Frame, stored, Kept
  <2>2. CleanIsStored' /\ UnsavedIsScheduled' /\ IdsBelowNext'
    BY <1>3 DEF IInv, Marked, CleanIsStored, UnsavedIsScheduled, IdsBelowNext, In,
                stored, Kept
  <2>3. NotedIsStored'
    BY <1>3 DEF IInv, TypeOK, NotedIsStored
  <2> QED  BY <2>1, <2>2, <2>3 DEF IInv
<1> QED  BY <1>1, <1>2, <1>3 DEF SaveNow

(* A debounced save may wait, for nothing an analyst was told is in the marks  *)
(* only.                                                                       *)
LEMMA ScheduledSoundly ==
    ASSUME IInv, NEW marked, NEW meta \in BOOLEAN, Marked(marked), Frame,
           UNCHANGED noted, ScheduleSave(marked, meta)
    PROVE  IInv'
<1>1. CASE debounced /\ timer' = TRUE /\ dirty' = marked /\ metaDirty' = meta
           /\ UNCHANGED <<stored, failed, faults>>
  <2>1. TypeOK'
    BY <1>1 DEF IInv, TypeOK, Marked, Frame, stored
  <2>2. CleanIsStored' /\ UnsavedIsScheduled' /\ IdsBelowNext'
    BY <1>1 DEF Marked, CleanIsStored, UnsavedIsScheduled, IdsBelowNext, In, stored
  <2>3. NotedIsStored'
    BY <1>1 DEF IInv, Marked, NotedIsStored, In, stored
  <2> QED  BY <2>1, <2>2, <2>3 DEF IInv
<1>2. CASE ~debounced /\ SaveNow(marked, meta) /\ UNCHANGED timer
  <2>1. timer' \in BOOLEAN
    BY <1>2 DEF IInv, TypeOK
  <2> QED  BY <1>2, <2>1, SavedSoundly
<1> QED  BY <1>1, <1>2 DEF ScheduleSave

LEMMA ChangedIncident ==
    \A inc \in Incidents, status \in Statuses, n \in Nat :
        [inc EXCEPT !.status = status, !.updated = n, !.rev = inc.rev + 1] \in Incidents
<1> SUFFICES ASSUME NEW inc \in Incidents, NEW status \in Statuses, NEW n \in Nat
             PROVE  [inc EXCEPT !.status = status, !.updated = n, !.rev = inc.rev + 1]
                      \in Incidents
  OBVIOUS
<1>1. inc.rev + 1 \in Nat
  BY DEF Incidents
<1>2. [inc EXCEPT !.status = status] \in Incidents
  BY DEF Incidents
<1>3. [[inc EXCEPT !.status = status] EXCEPT !.updated = n] \in Incidents
  BY <1>2 DEF Incidents
<1>4. [[[inc EXCEPT !.status = status] EXCEPT !.updated = n] EXCEPT !.rev = inc.rev + 1]
        \in Incidents
  BY <1>1, <1>3 DEF Incidents
<1> QED  BY <1>4

(* A change of some incidents in place leaves them marked.                     *)
LEMMA TouchedIsMarked ==
    ASSUME IInv, NEW hit \in SUBSET In(incidents), UNCHANGED <<nextId, purged>>,
           NEW status \in [hit -> Statuses],
           incidents' = [id \in Ids |-> IF id \in hit THEN Touched(id, status[id])
                                                      ELSE incidents[id]],
           noted' \in [Ids -> Nat],
           \A id \in Ids : noted'[id] = noted[id]
                           \/ (id \in hit /\ noted'[id] = incidents[id].rev + 1)
    PROVE  Marked(dirty \cup hit)
<1>1. \A id \in hit : /\ id \in Ids /\ incidents[id] \in Incidents
                      /\ Touched(id, status[id]) \in Incidents
                      /\ Touched(id, status[id]).rev = incidents[id].rev + 1
  <2>1. SUFFICES ASSUME NEW id \in hit
                 PROVE  /\ id \in Ids /\ incidents[id] \in Incidents
                        /\ Touched(id, status[id]) \in Incidents
                        /\ Touched(id, status[id]).rev = incidents[id].rev + 1
    OBVIOUS
  <2>2. id \in Ids /\ incidents[id] \in Incidents /\ now \in Nat
    BY DEF IInv, TypeOK, Books, In
  <2>3. status[id] \in Statuses
    OBVIOUS
  <2>5. Touched(id, status[id]) \in Incidents
    BY <2>2, <2>3, ChangedIncident DEF Touched
  <2>6. Touched(id, status[id]).rev = incidents[id].rev + 1
    BY <2>2 DEF Touched, Incidents
  <2> QED  BY <2>2, <2>5, <2>6
<1>2. incidents' \in Books /\ In(incidents') = In(incidents)
  BY <1>1, NoneAssumption DEF IInv, TypeOK, Books, In
<1>3. \A id \in In(incidents') \ (dirty \cup hit) : db[id] = incidents'[id]
  BY <1>2 DEF IInv, CleanIsStored, In
<1>4. \A id \in In(incidents') \cup In(db) : id < nextId'
  BY <1>2 DEF IInv, IdsBelowNext
<1>5. ASSUME faults = 0, NEW id \in Ids, noted'[id] > 0
      PROVE  /\ id \in In(incidents') /\ incidents'[id].rev >= noted'[id]
             /\ id \in dirty \cup hit \/ (id \in In(db) /\ db[id].rev >= noted'[id])
  <2>1. CASE id \in hit
    <3>1. noted[id] > 0 => incidents[id].rev >= noted[id]
      BY <1>5 DEF IInv, NotedIsStored
    <3>2. incidents[id].rev \in Nat /\ noted[id] \in Nat /\ noted'[id] \in Nat
      BY <1>1, <2>1 DEF Incidents, IInv, TypeOK
    <3>3. incidents'[id].rev = incidents[id].rev + 1
      BY <1>1, <2>1
    <3>4. incidents'[id].rev >= noted'[id]
      BY <1>5, <3>1, <3>2, <3>3
    <3> QED  BY <1>2, <2>1, <3>4
  <2>2. CASE id \notin hit
    <3>1. noted'[id] = noted[id] /\ incidents'[id] = incidents[id]
      BY <2>2
    <3> QED  BY <1>2, <1>5, <3>1 DEF IInv, NotedIsStored
  <2> QED  BY <2>1, <2>2
<1> QED  BY <1>2, <1>3, <1>4, <1>5 DEF Marked, IInv, TypeOK, In

-----------------------------------------------------------------------------
LEMMA InvInit == Init => IInv
<1> SUFFICES ASSUME Init PROVE IInv
  OBVIOUS
<1> USE BoundAssumption, LegacyAssumption, DebounceAssumption DEF Init
<1>1. legacy \in Books /\ 1 \in 1..(MaxId + 1)
  OBVIOUS
<1>2. nextId \in 1..(MaxId + 1) /\ \A id \in In(legacy) : id < nextId
  BY <1>1, NextAfterIsAbove
<1>3. debounced \in BOOLEAN /\ metaDirty \in BOOLEAN /\ timer \in BOOLEAN /\ failed \in BOOLEAN
  BY Zenon
<1>4. noted \in [Ids -> Nat] /\ now \in Nat /\ faults \in 0..MaxFault
      /\ restarts \in 0..MaxRestart
  OBVIOUS
<1>5. TypeOK
  BY <1>1, <1>2, <1>3, <1>4 DEF TypeOK
<1>6. CleanIsStored /\ UnsavedIsScheduled /\ IdsBelowNext /\ NotedIsStored
  BY <1>2 DEF CleanIsStored, UnsavedIsScheduled, IdsBelowNext, NotedIsStored
<1> QED  BY <1>5, <1>6 DEF IInv

LEMMA OpenCaseKeeps ==
    ASSUME IInv, NEW type \in Types, NEW net \in Nets, OpenCase(type, net)
    PROVE  IInv'
<1> DEFINE new == [type |-> type, net |-> net, status |-> "OPEN", updated |-> now, rev |-> 1]
<1>1. nextId \in Ids /\ nextId \notin In(incidents) \cup In(db)
  BY BoundAssumption DEF OpenCase, IInv, TypeOK, Ids, IdsBelowNext
<1>2. new \in Incidents
  BY DEF Incidents, Statuses, AutoResolvable, Active, IInv, TypeOK
<1>3. incidents' = [incidents EXCEPT ![nextId] = new] /\ nextId' = nextId + 1
  BY DEF OpenCase
<1>4. incidents' \in Books /\ nextId' \in 1..(MaxId + 1)
  BY <1>1, <1>2, <1>3, BoundAssumption DEF IInv, TypeOK, Books, Ids
<1>5. In(incidents') = In(incidents) \cup {nextId}
  BY <1>1, <1>2, <1>3, NoneAssumption DEF IInv, TypeOK, Books, In
<1>6. \A id \in In(incidents') \ (dirty \cup {nextId}) : db[id] = incidents'[id]
  BY <1>3, <1>5 DEF IInv, TypeOK, Books, In, CleanIsStored
<1>7. \A id \in In(incidents') \cup In(db) : id < nextId'
  <2>1. \A id \in Ids : id \in Nat
    BY BoundAssumption DEF Ids
  <2> QED  BY <1>1, <1>3, <1>5, <2>1 DEF IInv, IdsBelowNext, In
<1>8. ASSUME faults = 0, NEW id \in Ids, noted'[id] > 0
      PROVE  /\ id \in In(incidents') /\ incidents'[id].rev >= noted'[id]
             /\ id \in dirty \cup {nextId} \/ (id \in In(db) /\ db[id].rev >= noted'[id])
  <2>1. noted' = noted
    BY DEF OpenCase
  <2>2. id \in In(incidents) /\ incidents[id].rev >= noted[id]
        /\ id \in In(db) /\ db[id].rev >= noted[id]
    BY <1>8, <2>1 DEF IInv, NotedIsStored
  <2>3. id # nextId
    BY <1>1, <2>2
  <2>4. incidents'[id] = incidents[id]
    BY <1>3, <2>3 DEF IInv, TypeOK, Books
  <2> QED  BY <1>5, <2>1, <2>2, <2>4
<1>9. Marked(dirty \cup {nextId})
  BY <1>1, <1>4, <1>6, <1>7, <1>8 DEF Marked, OpenCase, IInv, TypeOK
<1>10. Frame /\ UNCHANGED noted /\ ScheduleSave(dirty \cup {nextId}, TRUE)
  BY DEF OpenCase, Frame, IInv, TypeOK
<1> QED  BY <1>9, <1>10, ScheduledSoundly

LEMMA MergeAlertKeeps ==
    ASSUME IInv, NEW type \in Types, NEW net \in Nets, MergeAlert(type, net)
    PROVE  IInv'
<1>1. PICK id \in Matching(type, net) :
        /\ incidents' = [incidents EXCEPT ![id] = Touched(id, incidents[id].status)]
        /\ UNCHANGED nextId
        /\ ScheduleSave(dirty \cup {id}, metaDirty)
  BY DEF MergeAlert
<1>2. id \in In(incidents) /\ id \in Ids
  BY DEF Matching, In
<1>3. [i \in {id} |-> incidents[id].status] \in [{id} -> Statuses]
  BY <1>2 DEF IInv, TypeOK, Books, In, Incidents
<1>4. incidents' = [i \in Ids |-> IF i \in {id}
                       THEN Touched(i, [k \in {id} |-> incidents[id].status][i])
                       ELSE incidents[i]]
  BY <1>1, <1>2 DEF IInv, TypeOK, Books
<1>5. UNCHANGED <<nextId, purged, noted>> /\ Frame
  BY <1>1 DEF MergeAlert, history, Frame, IInv, TypeOK
<1>6. Marked(dirty \cup {id})
  BY <1>2, <1>3, <1>4, <1>5, TouchedIsMarked DEF IInv, TypeOK
<1>7. metaDirty \in BOOLEAN
  BY DEF IInv, TypeOK
<1> QED  BY <1>1, <1>5, <1>6, <1>7, ScheduledSoundly

LEMMA AttachBlockKeeps ==
    ASSUME IInv, NEW net \in Nets, AttachBlock(net)
    PROVE  IInv'
<1> DEFINE hit == {id \in In(incidents) : /\ incidents[id].net = net
                                          /\ incidents[id].status \in Active}
<1>1. [i \in hit |-> "INVESTIGATING"] \in [hit -> Statuses]
  BY DEF Statuses, AutoResolvable, Active
<1>2. incidents' = [i \in Ids |-> IF i \in hit
                       THEN Touched(i, [k \in hit |-> "INVESTIGATING"][i])
                       ELSE incidents[i]]
  BY DEF AttachBlock
<1>3. UNCHANGED <<nextId, purged, noted>> /\ Frame
  BY DEF AttachBlock, history, Frame, IInv, TypeOK
<1>4. hit \in SUBSET In(incidents) /\ noted \in [Ids -> Nat] /\ metaDirty \in BOOLEAN
  BY DEF IInv, TypeOK
<1>5. ScheduleSave(dirty \cup hit, metaDirty)
  BY DEF AttachBlock
<1> HIDE DEF hit
<1>6. Marked(dirty \cup hit)
  BY <1>1, <1>2, <1>3, <1>4, TouchedIsMarked
<1> QED  BY <1>3, <1>4, <1>5, <1>6, ScheduledSoundly

LEMMA UpdateKeeps ==
    ASSUME IInv, NEW id \in Ids, NEW status \in Statuses, Update(id, status)
    PROVE  IInv'
<1>1. id \in In(incidents) /\ incidents[id].rev \in Nat
  BY DEF Update, IInv, TypeOK, Books, In, Incidents
<1>2. [i \in {id} |-> status] \in [{id} -> Statuses]
  OBVIOUS
<1>3. incidents' = [i \in Ids |-> IF i \in {id}
                       THEN Touched(i, [k \in {id} |-> status][i]) ELSE incidents[i]]
  BY DEF Update, IInv, TypeOK, Books
<1>4. UNCHANGED <<nextId, purged>> /\ Frame
  BY DEF Update, Frame, IInv, TypeOK
<1>5. /\ noted' \in [Ids -> Nat]
      /\ \A i \in Ids : noted'[i] = noted[i] \/ (i \in {id} /\ noted'[i] = incidents[i].rev + 1)
  BY <1>1 DEF Update, IInv, TypeOK
<1>6. Marked(dirty \cup {id})
  BY <1>1, <1>2, <1>3, <1>4, <1>5, TouchedIsMarked
<1>7. /\ metaDirty \in BOOLEAN /\ timer' \in BOOLEAN
      /\ SaveNow(dirty \cup {id}, metaDirty)
  BY DEF Update, SaveAtOnce, IInv, TypeOK
<1> QED  BY <1>4, <1>6, <1>7, SavedSoundly

LEMMA FlushKeeps ==
    ASSUME IInv, Flush
    PROVE  IInv'
<1>1. Marked(dirty)
  BY DEF Marked, Flush, history, IInv, TypeOK, CleanIsStored, IdsBelowNext, NotedIsStored, In
<1>2. Frame /\ timer' \in BOOLEAN /\ metaDirty \in BOOLEAN /\ SaveNow(dirty, metaDirty)
  BY DEF Flush, Frame, IInv, TypeOK
<1> QED  BY <1>1, <1>2, SavedSoundly

LEMMA AutoResolveKeeps ==
    ASSUME IInv, AutoResolve
    PROVE  IInv'
<1> DEFINE hit == {id \in In(incidents) : /\ incidents[id].status \in AutoResolvable
                                          /\ Quiet(id, ResolveDays)}
<1>1. [i \in hit |-> "RESOLVED"] \in [hit -> Statuses]
  BY DEF Statuses
<1>2. incidents' = [i \in Ids |-> IF i \in hit
                       THEN Touched(i, [k \in hit |-> "RESOLVED"][i])
                       ELSE incidents[i]]
  BY DEF AutoResolve
<1>3. UNCHANGED <<nextId, purged, noted>> /\ Frame
  BY DEF AutoResolve, history, Frame, IInv, TypeOK
<1>4. hit \in SUBSET In(incidents) /\ noted \in [Ids -> Nat]
      /\ metaDirty \in BOOLEAN /\ timer' \in BOOLEAN
  BY DEF AutoResolve, SaveAtOnce, IInv, TypeOK
<1>5. SaveNow(dirty \cup hit, metaDirty)
  BY DEF AutoResolve, SaveAtOnce
<1> HIDE DEF hit
<1>6. Marked(dirty \cup hit)
  BY <1>1, <1>2, <1>3, <1>4, TouchedIsMarked
<1> QED  BY <1>3, <1>4, <1>5, <1>6, SavedSoundly

LEMMA PurgeKeeps ==
    ASSUME IInv, Purge
    PROVE  IInv'
<1> DEFINE victims == {id \in In(incidents) : /\ incidents[id].status = "RESOLVED"
                                              /\ Quiet(id, KeepDays)}
<1>1. /\ incidents' = [id \in Ids |-> IF id \in victims THEN None ELSE incidents[id]]
      /\ dirty' = dirty \ victims
      /\ \/ db' = [id \in Ids |-> IF id \in victims THEN None ELSE db[id]] /\ UNCHANGED faults
         \/ faults < MaxFault /\ faults' = faults + 1 /\ UNCHANGED db
      /\ purged' = purged \cup victims
      /\ noted' = [id \in Ids |-> IF id \in victims THEN 0 ELSE noted[id]]
      /\ UNCHANGED <<nextId, metaDirty, timer, dbNext, legacy, debounced, failed, now,
                     restarts>>
  BY DEF Purge
<1>2. victims \subseteq Ids
  BY DEF In
<1> HIDE DEF victims
<1>3. incidents' \in Books /\ db' \in Books
  BY <1>1 DEF IInv, TypeOK, Books
<1>4. TypeOK'
  BY <1>1, <1>2, <1>3, BoundAssumption DEF IInv, TypeOK
<1>5. CleanIsStored' /\ UnsavedIsScheduled' /\ IdsBelowNext'
  BY <1>1 DEF IInv, CleanIsStored, UnsavedIsScheduled, IdsBelowNext, In
<1>6. NotedIsStored'
  BY <1>1, BoundAssumption DEF IInv, TypeOK, NotedIsStored, In
<1> QED  BY <1>4, <1>5, <1>6 DEF IInv

LEMMA RestartKeeps ==
    ASSUME IInv, Restart
    PROVE  IInv'
<1> USE BoundAssumption
<1>1. CASE LoadRows
  <2>1. /\ nextId' \in 1..(MaxId + 1)
        /\ \A id \in In(db) : id < nextId'
    BY <1>1, NextAfterIsAbove DEF LoadRows, IInv, TypeOK
  <2>2. restarts' \in 0..MaxRestart
    BY DEF Restart, IInv, TypeOK
  <2>3. timer' \in BOOLEAN /\ metaDirty' \in BOOLEAN /\ failed' \in BOOLEAN
    BY <1>1, Zenon DEF LoadRows, Restart
  <2>4. TypeOK'
    BY <1>1, <2>1, <2>2, <2>3 DEF LoadRows, Restart, history, stored, IInv, TypeOK
  <2>5. CleanIsStored' /\ UnsavedIsScheduled' /\ IdsBelowNext' /\ NotedIsStored'
    BY <1>1, <2>1 DEF LoadRows, Restart, history, stored, IInv, CleanIsStored,
                      UnsavedIsScheduled, IdsBelowNext, NotedIsStored, In
  <2> QED  BY <2>4, <2>5 DEF IInv
<1>2. CASE ImportLegacy
  <2>1. /\ In(db) = {} /\ incidents' = legacy /\ legacy \in Books
        /\ nextId' = NextAfter(legacy, 1) /\ 1 \in 1..(MaxId + 1)
    BY <1>2 DEF ImportLegacy, IInv, TypeOK
  <2>2. /\ nextId' \in 1..(MaxId + 1)
        /\ \A id \in In(legacy) : id < nextId'
    BY <2>1, NextAfterIsAbove
  <2>3. In(legacy) \subseteq Ids
    BY DEF In
  <2>4. faults = 0 => \A id \in Ids : ~(noted'[id] > 0)
    BY <2>1 DEF Restart, history, IInv, NotedIsStored
  <2>5. Frame /\ timer' \in BOOLEAN /\ UNCHANGED <<noted, purged>>
    <3>1. restarts' \in 0..MaxRestart
      BY DEF Restart, IInv, TypeOK
    <3>2. timer' \in BOOLEAN
      BY Zenon DEF Restart
    <3> QED  BY <3>1, <3>2 DEF Restart, Frame, history, IInv, TypeOK
  <2>6. CASE In(legacy) = {} /\ dirty' = {} /\ metaDirty' = TRUE /\ failed' = FALSE
             /\ UNCHANGED <<stored, faults>>
    <3>1. TypeOK'
      BY <2>1, <2>2, <2>5, <2>6 DEF stored, Frame, IInv, TypeOK
    <3>2. CleanIsStored' /\ UnsavedIsScheduled' /\ IdsBelowNext' /\ NotedIsStored'
      BY <2>1, <2>4, <2>6 DEF stored, IInv, CleanIsStored, UnsavedIsScheduled,
                              IdsBelowNext, NotedIsStored, In
    <3> QED  BY <3>1, <3>2 DEF IInv
  <2>7. CASE SaveNow(In(legacy), TRUE)
    <3>1. Marked(In(legacy))
      BY <2>1, <2>2, <2>3, <2>4, <2>5 DEF Marked, IInv, TypeOK
    <3> QED  BY <2>5, <2>7, <3>1, SavedSoundly
  <2> QED  BY <1>2, <2>6, <2>7 DEF ImportLegacy
<1> QED  BY <1>1, <1>2 DEF Restart

LEMMA InvNext == IInv /\ [Next]_vars => IInv'
<1> SUFFICES ASSUME IInv, [Next]_vars PROVE IInv'
  OBVIOUS
<1>1. CASE Tick
  <2>1. TypeOK'
    BY <1>1 DEF Tick, memory, stored, history, IInv, TypeOK
  <2>2. CleanIsStored' /\ UnsavedIsScheduled' /\ IdsBelowNext' /\ NotedIsStored'
    BY <1>1 DEF Tick, memory, stored, history, IInv, CleanIsStored, UnsavedIsScheduled,
                IdsBelowNext, NotedIsStored, In
  <2> QED  BY <2>1, <2>2 DEF IInv
<1>2. CASE UNCHANGED vars
  <2>1. TypeOK'
    BY <1>2 DEF vars, memory, stored, history, IInv, TypeOK
  <2>2. CleanIsStored' /\ UnsavedIsScheduled' /\ IdsBelowNext' /\ NotedIsStored'
    BY <1>2 DEF vars, memory, stored, history, IInv, CleanIsStored, UnsavedIsScheduled,
                IdsBelowNext, NotedIsStored, In
  <2> QED  BY <2>1, <2>2 DEF IInv
<1> QED  BY <1>1, <1>2, OpenCaseKeeps, MergeAlertKeeps, AttachBlockKeeps, UpdateKeeps,
            FlushKeeps, AutoResolveKeeps, PurgeKeeps, RestartKeeps DEF Next

LEMMA Invariance == Spec => []IInv
BY InvInit, InvNext, PTL DEF Spec

-----------------------------------------------------------------------------
(* Every variable keeps its type; the next id never leaves 1..MaxId+1.         *)
THEOREM TypeCorrect == Spec => []TypeOK
<1>1. IInv => TypeOK
  BY DEF IInv
<1> QED  BY <1>1, Invariance, PTL

(* _dirty is never too small: what it does not name is in incidents.db as it   *)
(* is in memory, through failed saves, purges, imports and crashes.            *)
THEOREM MarksAreTrue == Spec => []CleanIsStored
<1>1. IInv => CleanIsStored
  BY DEF IInv
<1> QED  BY <1>1, Invariance, PTL

(* _schedule_save leaves no change behind: what is dirty has a timer or has    *)
(* been refused by the database.                                               *)
THEOREM ChangeIsOnItsWay == Spec => []UnsavedIsScheduled
<1>1. IInv => UnsavedIsScheduled
  BY DEF IInv
<1> QED  BY <1>1, Invariance, PTL

(* Without failing saves an analyst's update survives every crash.             *)
THEOREM UpdateSurvives == Spec => []UpdateIsKept
<1>1. IInv => UpdateIsKept
  BY DEF IInv, NotedIsStored, UpdateIsKept
<1> QED  BY <1>1, Invariance, PTL

(* No two incidents share an id, not even one whose row a failed purge left.   *)
THEOREM IdIsFree == Spec => NewIdIsFree
<1>1. IInv /\ [Next]_vars =>
        [\A type \in Types, net \in Nets : OpenCase(type, net) =>
            nextId \notin In(incidents) \cup In(db)]_vars
  BY BoundAssumption DEF IInv, TypeOK, IdsBelowNext
<1> QED  BY <1>1, Invariance, PTL DEF Spec, NewIdIsFree
=============================================================================
