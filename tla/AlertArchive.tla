---------------------------- MODULE AlertArchive ----------------------------
(* modules/alert_store.py: alerts in alerts.db, their archive in a second      *)
(* database attached to the same connection, and the moves between the two.    *)
(*                                                                             *)
(* One write connection serves every writer under self._lock.  A move is two   *)
(* commits, the copy and then the deletion, with the lock held over both: the  *)
(* writers wait, the readers, each on a connection of its own, do not, and a   *)
(* crash may fall in between.                                                  *)
(*                                                                             *)
(* An operator that stands right above another one with the same parameters    *)
(* and is used nowhere is a faulty variant of it (PROJECT.json, "mutants").    *)
EXTENDS Integers, FiniteSets

CONSTANTS
    Readers,      \* threads that query
    Writers,      \* threads that raise alerts
    Verdicts, Unreviewed,
    LiveDays,     \* ALERT_RETENTION_DAYS
    ArchiveDays,  \* ALERT_ARCHIVE_RETENTION_DAYS
    Moves,        \* which of the two moves happen: "retention", "cutover"
    MaxId, MaxNow, \* bounds
    MaxTrouble,   \* bound on failing deletions and crashes together
    None

ASSUME DayAssumption == LiveDays \in Nat /\ ArchiveDays \in Nat
ASSUME VerdictAssumption == Unreviewed \in Verdicts
ASSUME MoveAssumption == Moves \subseteq {"retention", "cutover"}
ASSUME BoundAssumption == MaxId \in Nat /\ MaxNow \in Nat /\ MaxTrouble \in Nat

VARIABLES
    live,      \* main.alerts
    arch,      \* archive.alerts_archive
    counter,   \* Alert._id_counter
    drawn,     \* the alert each writer has drawn an id for and not saved yet
    mover,     \* the move under way, which holds self._lock
    query,     \* what each reader has seen so far
    now, faults, restarts,
    given      \* the verdict last given to each alert (history)

vars == <<live, arch, counter, drawn, mover, query, now, faults, restarts, given>>

Ids == 1..MaxId
Rows == [at : Nat, verdict : Verdicts]
Filed == [at : Nat, verdict : Verdicts, filed : Nat]
Draws == [id : Ids, at : Nat]
ASSUME NoneAssumption == None \notin Rows \cup Filed /\ None \notin Draws
Idle == [kind |-> "none", cutoff |-> 0]
NoQuery == [found |-> {}, all |-> {}, stage |-> "idle"]

Present(table) == {i \in Ids : table[i] # None}
Cleared(table, gone) == [i \in Ids |-> IF i \in gone THEN None ELSE table[i]]
Stored == Present(live) \cup Present(arch)
Unlocked == mover = Idle

Init ==
    /\ live = [i \in Ids |-> None] /\ arch = [i \in Ids |-> None]
    /\ counter = 0 /\ drawn = [w \in Writers |-> None]
    /\ mover = Idle
    /\ query = [r \in Readers |-> NoQuery]
    /\ now = 0 /\ faults = 0 /\ restarts = 0
    /\ given = [i \in Ids |-> Unreviewed]

-----------------------------------------------------------------------------
(* Alert.__init__ draws an id under _id_lock and reads the clock; the thread    *)
(* saves the row later, under the store's lock.                                *)
Draw(w) ==
    /\ drawn[w] = None /\ counter < MaxId
    /\ counter' = counter + 1
    /\ drawn' = [drawn EXCEPT ![w] = [id |-> counter + 1, at |-> now]]
    /\ UNCHANGED <<live, arch, mover, query, now, faults, restarts, given>>

(* INSERT OR REPLACE: a row of that id would be gone.                          *)
Save(w) ==
    /\ Unlocked /\ drawn[w] # None
    /\ live' = [live EXCEPT ![drawn[w].id] = [at |-> drawn[w].at, verdict |-> Unreviewed]]
    /\ given' = [given EXCEPT ![drawn[w].id] = Unreviewed]
    /\ drawn' = [drawn EXCEPT ![w] = None]
    /\ UNCHANGED <<arch, counter, mover, query, now, faults, restarts>>

(* _add_alert swallows what save raises: the alert is in memory only.          *)
SaveFails(w) ==
    /\ Unlocked /\ drawn[w] # None
    /\ drawn' = [drawn EXCEPT ![w] = None]
    /\ UNCHANGED <<live, arch, counter, mover, query, now, faults, restarts, given>>

(* set_verdict updates the live table only; for an archived alert no row       *)
(* matches and the caller is told so.                                          *)
SetVerdict(i, verdict) ==
    /\ Unlocked /\ live[i] # None
    /\ live' = [live EXCEPT ![i].verdict = verdict]
    /\ given' = [given EXCEPT ![i] = verdict]
    /\ UNCHANGED <<arch, counter, drawn, mover, query, now, faults, restarts>>

-----------------------------------------------------------------------------
(* The rows a move is about.  archive_older_than asks SQLite for the time in   *)
(* each of its statements; production_cutover has a fixed cutoff.              *)
EarlierThan(cutoff) == {i \in Present(live) : live[i].at < cutoff}
Cutoff(move) == IF move.kind = "retention" THEN now - LiveDays ELSE move.cutoff

(* First commit of _copy_to_archive: INSERT OR REPLACE of the copies.          *)
KeptOldCopy(moved) ==
    arch' = [i \in Ids |-> IF i \in moved /\ arch[i] = None
                           THEN [at |-> live[i].at, verdict |-> live[i].verdict,
                                 filed |-> now]
                           ELSE arch[i]]
Copy(moved) ==
    arch' = [i \in Ids |-> IF i \in moved
                           THEN [at |-> live[i].at, verdict |-> live[i].verdict,
                                 filed |-> now]
                           ELSE arch[i]]

StartMove(move) ==
    /\ Unlocked
    /\ EarlierThan(Cutoff(move)) # {}
    /\ Copy(EarlierThan(Cutoff(move)))
    /\ mover' = move
    /\ UNCHANGED <<live, counter, drawn, query, now, faults, restarts, given>>

Archive == "retention" \in Moves /\ StartMove([kind |-> "retention", cutoff |-> 0])
Cutover(cutoff) == "cutover" \in Moves /\ StartMove([kind |-> "cutover", cutoff |-> cutoff])

(* Second commit: the same condition, evaluated again, deletes the originals.  *)
(* The DELETE may fail (disk, a lock held over busy_timeout): the exception    *)
(* leaves the method, and with it the lock, with both copies in place.         *)
DeletedTooMuch == {i \in Present(live) : live[i].at <= Cutoff(mover)}
Deleted == EarlierThan(Cutoff(mover))
FinishMove ==
    /\ ~Unlocked
    /\ live' = Cleared(live, Deleted)
    /\ mover' = Idle
    /\ UNCHANGED <<arch, counter, drawn, query, now, faults, restarts, given>>

FailMove ==
    /\ ~Unlocked /\ faults + restarts < MaxTrouble
    /\ faults' = faults + 1
    /\ mover' = Idle
    /\ UNCHANGED <<live, arch, counter, drawn, query, now, restarts, given>>

(* purge_archive_older_than: by the time of archiving, not of the alert.       *)
Expired == {i \in Present(arch) : arch[i].filed + ArchiveDays < now}
PurgeArchive ==
    /\ Unlocked /\ Expired # {}
    /\ arch' = Cleared(arch, Expired)
    /\ UNCHANGED <<live, counter, drawn, mover, query, now, faults, restarts, given>>

(* purge_older_than: by the time of the alert, from both tables.               *)
PurgeBoth ==
    LET old(table) == {i \in Present(table) : table[i].at + ArchiveDays < now}
    IN  /\ Unlocked /\ old(live) \cup old(arch) # {}
        /\ live' = Cleared(live, old(live)) /\ arch' = Cleared(arch, old(arch))
        /\ UNCHANGED <<counter, drawn, mover, query, now, faults, restarts, given>>

-----------------------------------------------------------------------------
(* One statement over the view alerts_all: SQLite opens its read transactions  *)
(* in the order of the attached databases, main first, and each of them sees   *)
(* the state of its own start.                                                 *)
Contents == [main |-> Present(live), archive |-> Present(arch)]
ArchiveFirst == <<"archive", "main">>
ReadOrder == <<"main", "archive">>
BeginRead(r) ==
    /\ query[r].stage = "idle"
    /\ query' = [query EXCEPT ![r] = [found |-> Contents[ReadOrder[1]], all |-> Stored,
                                      stage |-> "begun"]]
    /\ UNCHANGED <<live, arch, counter, drawn, mover, now, faults, restarts, given>>

EndRead(r) ==
    /\ query[r].stage = "begun"
    /\ LET second == Contents[ReadOrder[2]]
       IN  query' = [query EXCEPT ![r] = [found |-> @.found \cup second,
                                          all |-> @.all \cap Stored,
                                          stage |-> "answered"]]
    /\ UNCHANGED <<live, arch, counter, drawn, mover, now, faults, restarts, given>>

ForgetAnswer(r) ==
    /\ query[r].stage = "answered"
    /\ query' = [query EXCEPT ![r] = NoQuery]
    /\ UNCHANGED <<live, arch, counter, drawn, mover, now, faults, restarts, given>>

Tick ==
    /\ now < MaxNow /\ now' = now + 1
    /\ UNCHANGED <<live, arch, counter, drawn, mover, query, faults, restarts, given>>

(* The process dies and starts again.  _recover_interrupted_archive completes  *)
(* the move of every row the archive holds with the same id and timestamp, and *)
(* the id counter goes on from the highest id of both tables.                  *)
Duplicates == {i \in Present(live) \cap Present(arch) : live[i].at = arch[i].at}
Highest(ids) == IF ids = {} THEN 0 ELSE CHOOSE i \in ids : \A j \in ids : j <= i
LiveHighest == Highest(Present(live))
StoredHighest == Highest(Stored)
Restart ==
    /\ faults + restarts < MaxTrouble /\ restarts' = restarts + 1
    /\ live' = Cleared(live, Duplicates)
    /\ counter' = StoredHighest /\ drawn' = [w \in Writers |-> None]
    /\ mover' = Idle
    /\ query' = [r \in Readers |-> NoQuery]
    /\ UNCHANGED <<arch, now, faults, given>>

Next ==
    \/ \E w \in Writers : Draw(w) \/ Save(w) \/ SaveFails(w)
    \/ \E i \in Ids, verdict \in Verdicts : SetVerdict(i, verdict)
    \/ Archive \/ \E cutoff \in 1..MaxNow : Cutover(cutoff)
    \/ FinishMove \/ FailMove
    \/ PurgeArchive \/ PurgeBoth
    \/ \E r \in Readers : BeginRead(r) \/ EndRead(r) \/ ForgetAnswer(r)
    \/ Tick
    \/ Restart

Spec == Init /\ [][Next]_vars

-----------------------------------------------------------------------------
TypeOK ==
    /\ live \in [Ids -> Rows \cup {None}] /\ arch \in [Ids -> Filed \cup {None}]
    /\ counter \in 0..MaxId /\ drawn \in [Writers -> Draws \cup {None}]
    /\ mover \in [kind : {"none"} \cup Moves, cutoff : 0..MaxNow]
    /\ query \in [Readers -> [found : SUBSET Ids, all : SUBSET Ids,
                              stage : {"idle", "begun", "answered"}]]
    /\ now \in 0..MaxNow /\ faults \in 0..MaxTrouble /\ restarts \in 0..MaxTrouble
    /\ given \in [Ids -> Verdicts]

(* The counter is above every stored id, and an alert that waits to be saved   *)
(* has an id of its own: none is stored under it, in either table, and no      *)
(* other thread has drawn it, so that INSERT OR REPLACE replaces nothing       *)
(* (max_id looks into both tables when the process starts).                    *)
Waiting == {w \in Writers : drawn[w] # None}
FreshIds ==
    /\ \A i \in Stored : i <= counter
    /\ \A w \in Waiting : drawn[w].id <= counter /\ drawn[w].id \notin Stored
    /\ \A v, w \in Waiting : drawn[v].id = drawn[w].id => v = w

(* A query over both tables returns every alert that is stored from its start  *)
(* to its end, whatever move, crash or recovery runs beside it.                *)
ReaderMissesNothing ==
    \A r \in Readers : query[r].stage = "answered" => query[r].all \subseteq query[r].found

(* What a query without a filter answers about an alert: the live row first.   *)
Row(i) == IF live[i] # None THEN [at |-> live[i].at, verdict |-> live[i].verdict]
          ELSE IF arch[i] # None THEN [at |-> arch[i].at, verdict |-> arch[i].verdict]
          ELSE None

(* The verdict on record is the last one an analyst was told is stored, unless *)
(* a deletion has failed and a restart has recovered from it: recovery keeps   *)
(* the copy, which may be older than the row.                                  *)
VerdictKept == (faults = 0 \/ restarts = 0) => \A i \in Stored : Row(i).verdict = given[i]

Record == INSTANCE AlertRecord WITH Lifetime <- ArchiveDays, Missing <- None,
                                    alerts <- [i \in Ids |-> Row(i)], clock <- now
(* Live table, archive, moves and restarts together are one lossless record.   *)
KeepsRecord == Record!RecordSpec
=============================================================================
