--------------------------- MODULE IncidentStore ---------------------------
(* The case file of modules/incidents.py: the dictionary incidents, the rows   *)
(* of incidents.db, and the set _dirty of ids whose row is behind.  SOAR's     *)
(* worker, request threads, the retention thread and the timer of the          *)
(* debounced save take turns under self._lock; every operation holds it from   *)
(* its first read to its last write, so each is one step here.                 *)
(*                                                                             *)
(* Of an incident the model keeps what decides its fate: the pair of threat    *)
(* type and /24 net it collects, its status, its last activity, and `rev`, the *)
(* number of changes it has seen (timeline, assignee, alerts, severity).       *)
(* Two operators of one shape, the upper one used nowhere, are a definition    *)
(* below its faulty variant (PROJECT.json, "mutants").                         *)
EXTENDS Integers, FiniteSets

CONSTANTS
    Types,       \* threat types
    Nets,        \* source nets
    Legacies,    \* what incidents.json may hold when the database is empty
    Debounces,   \* may INCIDENT_SAVE_DEBOUNCE_SECONDS be positive, be 0?
    ResolveDays, \* INCIDENT_AUTO_RESOLVE_DAYS
    KeepDays,    \* INCIDENT_RETENTION_DAYS
    MaxId,       \* bound on incidents
    MaxRev,      \* bound on the changes of an incident
    MaxNow,      \* bound on the clock, in days
    MaxFault,    \* bound on failing transactions
    MaxRestart,  \* bound on crashes
    None         \* no incident

Ids == 1..MaxId
Active == {"OPEN", "INVESTIGATING"}
AutoResolvable == Active \cup {"CONTAINED"}
Statuses == AutoResolvable \cup {"RESOLVED"}
Incidents == [type : Types, net : Nets, status : Statuses, updated : Nat, rev : Nat]
Books == [Ids -> Incidents \cup {None}]
In(book) == {id \in Ids : book[id] # None}
EmptyBook == [id \in Ids |-> None]

ASSUME NoneAssumption == None \notin Incidents
ASSUME BoundAssumption == MaxId \in Nat /\ MaxFault \in Nat /\ MaxRestart \in Nat
ASSUME DayAssumption == ResolveDays \in Nat /\ KeepDays \in Nat
ASSUME DebounceAssumption == Debounces \subseteq BOOLEAN
ASSUME LegacyAssumption == Legacies \subseteq Books

VARIABLES
    incidents,  \* self.incidents
    nextId,     \* self._next_id
    dirty,      \* self._dirty
    metaDirty,  \* self._meta_dirty
    timer,      \* is a debounced save waiting?
    db,         \* the rows of table incidents
    dbNext,     \* incident_meta 'next_id', 1 when there is none
    legacy,     \* incidents.json, never removed
    debounced,  \* _save_debounce_seconds > 0
    failed,     \* the last attempt to save failed (history)
    noted,      \* the rev an analyst's last successful update left (history)
    purged,     \* the ids retention has deleted (history)
    now, faults, restarts

memory == <<incidents, nextId, dirty, metaDirty, timer>>
stored == <<db, dbNext>>
history == <<noted, purged>>
vars == <<memory, stored, legacy, debounced, failed, history, now, faults, restarts>>

-----------------------------------------------------------------------------
(* _save_sqlite_inner with the memory of the step it ends: one transaction     *)
(* upserts the marked rows and, if it changed, the next id.  A failed one is   *)
(* logged and leaves the marks for the next save.                              *)
Lost(marked) == {}
Kept(marked) == marked

Written(marked) ==
    [id \in Ids |-> IF id \in marked \cap In(incidents') THEN incidents'[id] ELSE db[id]]

SaveNow(marked, meta) ==
    \/ /\ marked = {} /\ ~meta
       /\ dirty' = {} /\ metaDirty' = FALSE
       /\ UNCHANGED <<stored, failed, faults>>
    \/ /\ marked # {} \/ meta
       /\ db' = Written(marked)
       /\ dbNext' = IF meta THEN nextId' ELSE dbNext
       /\ dirty' = {} /\ metaDirty' = FALSE /\ failed' = FALSE
       /\ UNCHANGED faults
    \/ /\ marked # {} \/ meta
       /\ faults < MaxFault /\ faults' = faults + 1
       /\ dirty' = Kept(marked) /\ metaDirty' = meta /\ failed' = TRUE
       /\ UNCHANGED stored

(* _schedule_save: start the timer unless one is running; without a delay the  *)
(* save happens at once.                                                       *)
ForNewOnly(marked, meta) ==
    /\ timer' = (timer \/ meta)
    /\ dirty' = marked /\ metaDirty' = meta
    /\ UNCHANGED <<stored, failed, faults>>
ScheduleSave(marked, meta) ==
    \/ /\ debounced
       /\ timer' = TRUE
       /\ dirty' = marked /\ metaDirty' = meta
       /\ UNCHANGED <<stored, failed, faults>>
    \/ /\ ~debounced
       /\ SaveNow(marked, meta)
       /\ UNCHANGED timer

SavedLater(marked, meta) == ScheduleSave(marked, meta)
SaveAtOnce(marked, meta) == SaveNow(marked, meta) /\ UNCHANGED timer

Touched(id, status) ==
    [incidents[id] EXCEPT !.status = status, !.updated = now, !.rev = @ + 1]

-----------------------------------------------------------------------------
(* promote_alert merges the alert into the first active incident of its type   *)
(* and net; without one it opens a new incident.                               *)
Matching(type, net) ==
    {id \in In(incidents) : /\ incidents[id].type = type /\ incidents[id].net = net
                            /\ incidents[id].status \in Active}

OpenCase(type, net) ==
    /\ Matching(type, net) = {}
    /\ nextId <= MaxId
    /\ incidents' = [incidents EXCEPT ![nextId] =
                       [type |-> type, net |-> net, status |-> "OPEN",
                        updated |-> now, rev |-> 1]]
    /\ nextId' = nextId + 1
    /\ purged' = purged \ {nextId}
    /\ ScheduleSave(dirty \cup {nextId}, TRUE)
    /\ UNCHANGED <<legacy, debounced, noted, now, restarts>>

MergeAlert(type, net) ==
    /\ \E id \in Matching(type, net) :
        /\ \A other \in Matching(type, net) : id <= other
        /\ incidents[id].rev < MaxRev
        /\ incidents' = [incidents EXCEPT ![id] = Touched(id, incidents[id].status)]
        /\ UNCHANGED nextId
        /\ ScheduleSave(dirty \cup {id}, metaDirty)
    /\ UNCHANGED <<legacy, debounced, history, now, restarts>>

(* attach_block records the block in every active incident of the net.         *)
AttachBlock(net) ==
    LET hit == {id \in In(incidents) : /\ incidents[id].net = net
                                       /\ incidents[id].status \in Active}
    IN  /\ hit # {} /\ \A id \in hit : incidents[id].rev < MaxRev
        /\ incidents' = [id \in Ids |-> IF id \in hit THEN Touched(id, "INVESTIGATING")
                                        ELSE incidents[id]]
        /\ UNCHANGED nextId
        /\ ScheduleSave(dirty \cup hit, metaDirty)
        /\ UNCHANGED <<legacy, debounced, history, now, restarts>>

(* An analyst's update: a status, an assignee or a note.  It saves at once and *)
(* answers True whatever became of the save.                                   *)
Update(id, status) ==
    /\ id \in In(incidents) /\ incidents[id].rev < MaxRev
    /\ incidents' = [incidents EXCEPT ![id] = Touched(id, status)]
    /\ noted' = [noted EXCEPT ![id] = incidents[id].rev + 1]
    /\ UNCHANGED nextId
    /\ SaveAtOnce(dirty \cup {id}, metaDirty)
    /\ UNCHANGED <<legacy, debounced, purged, now, restarts>>

(* The timer's thread.                                                         *)
Flush ==
    /\ timer /\ timer' = FALSE
    /\ UNCHANGED <<incidents, nextId>>
    /\ SaveNow(dirty, metaDirty)
    /\ UNCHANGED <<legacy, debounced, history, now, restarts>>

-----------------------------------------------------------------------------
(* Retention closes what has been quiet for ResolveDays and deletes what has   *)
(* been closed for KeepDays.                                                   *)
Quiet(id, days) == now - incidents[id].updated > days

AutoResolve ==
    LET targets == {id \in In(incidents) : /\ incidents[id].status \in AutoResolvable
                                           /\ Quiet(id, ResolveDays)}
    IN  /\ ResolveDays > 0
        /\ targets # {} /\ \A id \in targets : incidents[id].rev < MaxRev
        /\ incidents' = [id \in Ids |-> IF id \in targets THEN Touched(id, "RESOLVED")
                                        ELSE incidents[id]]
        /\ UNCHANGED nextId
        /\ SaveAtOnce(dirty \cup targets, metaDirty)
        /\ UNCHANGED <<legacy, debounced, history, now, restarts>>

(* The rows go in a transaction of their own; when it fails the memory has     *)
(* already changed.                                                            *)
Purge ==
    LET victims == {id \in In(incidents) : /\ incidents[id].status = "RESOLVED"
                                           /\ Quiet(id, KeepDays)}
    IN  /\ victims # {}
        /\ incidents' = [id \in Ids |-> IF id \in victims THEN None ELSE incidents[id]]
        /\ dirty' = dirty \ victims
        /\ \/ /\ db' = [id \in Ids |-> IF id \in victims THEN None ELSE db[id]]
              /\ UNCHANGED faults
           \/ /\ faults < MaxFault /\ faults' = faults + 1
              /\ UNCHANGED db
        /\ purged' = purged \cup victims
        /\ noted' = [id \in Ids |-> IF id \in victims THEN 0 ELSE noted[id]]
        /\ UNCHANGED <<nextId, metaDirty, timer, dbNext, legacy, debounced, failed, now,
                       restarts>>

-----------------------------------------------------------------------------
(* _load_sqlite.  With rows in the table they are the incidents and nothing is *)
(* dirty; with none, incidents.json is taken over and saved if it is there and *)
(* the stored next id is not looked at.                                        *)
RowCount(book, stored_) == Cardinality(In(book)) + 1
NextAfter(book, stored_) ==
    CHOOSE n \in 1..(stored_ + MaxId + 1) :
        /\ n >= stored_ /\ \A id \in In(book) : n > id
        /\ n = stored_ \/ n - 1 \in In(book)

LoadRows ==
    /\ In(db) # {}
    /\ incidents' = db
    /\ nextId' = NextAfter(db, dbNext)
    /\ dirty' = {} /\ metaDirty' = FALSE /\ failed' = FALSE
    /\ UNCHANGED <<stored, faults>>

ImportLegacy ==
    /\ In(db) = {}
    /\ incidents' = legacy
    /\ nextId' = NextAfter(legacy, 1)
    /\ IF In(legacy) = {}
       THEN /\ dirty' = {} /\ metaDirty' = TRUE /\ failed' = FALSE
            /\ UNCHANGED <<stored, faults>>
       ELSE SaveNow(In(legacy), TRUE)

(* The process dies, the timer with it, and starts again.                      *)
Restart ==
    /\ restarts < MaxRestart /\ restarts' = restarts + 1
    /\ timer' = FALSE
    /\ LoadRows \/ ImportLegacy
    /\ UNCHANGED <<legacy, debounced, history, now>>

Tick ==
    /\ now < MaxNow /\ now' = now + 1
    /\ UNCHANGED <<memory, stored, legacy, debounced, failed, history, faults, restarts>>

(* The state after the very first start.                                       *)
Init ==
    /\ legacy \in Legacies /\ debounced \in Debounces
    /\ incidents = legacy /\ db = legacy
    /\ nextId = NextAfter(legacy, 1) /\ dbNext = nextId
    /\ dirty = {} /\ metaDirty = (In(legacy) = {})
    /\ timer = FALSE /\ failed = FALSE
    /\ noted = [id \in Ids |-> 0] /\ purged = {}
    /\ now = 0 /\ faults = 0 /\ restarts = 0

Next ==
    \/ \E type \in Types, net \in Nets : OpenCase(type, net)
    \/ \E type \in Types, net \in Nets : MergeAlert(type, net)
    \/ \E net \in Nets : AttachBlock(net)
    \/ \E id \in Ids, status \in Statuses : Update(id, status)
    \/ Flush
    \/ AutoResolve
    \/ Purge
    \/ Restart
    \/ Tick

Spec == Init /\ [][Next]_vars

-----------------------------------------------------------------------------
TypeOK ==
    /\ incidents \in Books /\ db \in Books /\ legacy \in Books
    /\ nextId \in 1..(MaxId + 1) /\ dbNext \in 1..(MaxId + 1)
    /\ dirty \subseteq Ids /\ purged \subseteq Ids
    /\ metaDirty \in BOOLEAN /\ timer \in BOOLEAN
    /\ debounced \in BOOLEAN /\ failed \in BOOLEAN
    /\ noted \in [Ids -> Nat]
    /\ now \in Nat /\ faults \in 0..MaxFault /\ restarts \in 0..MaxRestart

(* The marks tell the truth: an incident in memory that is not in _dirty has   *)
(* its row in the database exactly as it is (_save_sqlite_inner saves only     *)
(* what is marked, so an unmarked difference is never written).                *)
CleanIsStored ==
    \A id \in In(incidents) \ dirty : db[id] = incidents[id]

(* A change that is not stored yet is on its way: a timer is running, unless   *)
(* the last attempt failed, after which it waits for the next change.          *)
UnsavedIsScheduled == dirty # {} => timer \/ failed

(* What an analyst was told is recorded outlives crashes and debounced merges  *)
(* of the same incident, until retention deletes it, as long as no save fails. *)
UpdateIsKept ==
    faults = 0 => \A id \in Ids : noted[id] > 0 =>
        id \in In(incidents) /\ incidents[id].rev >= noted[id]

(* promote_alert never gives a new incident an id that another one has, in     *)
(* memory or in a row that a failed purge has left behind.                     *)
NewIdIsFree ==
    [][\A type \in Types, net \in Nets : OpenCase(type, net) =>
        nextId \notin In(incidents) \cup In(db)]_vars
=============================================================================
