--------------------------- MODULE RetentionSweep ---------------------------
(* The retention scheduler (retention.py): a sweep takes the stores in turn,   *)
(* the loop runs one every few hours and an administrator may run another at   *)
(* the same time. What a store does in its turn is abstracted to the rows it   *)
(* moves, closes or deletes.                                                   *)
(* An operator that stands right above another one with the same parameters    *)
(* and is used nowhere is a faulty variant of it (PROJECT.json, "mutants").    *)
EXTENDS SocClock, Integers, Sequences, FiniteSets, FiniteSetsExt, Functions

CONSTANTS Configured,     \* the days the configuration names, by turn
          Floor,          \* the least _policy accepts
          LargeDelete,    \* deletions a manual sweep needs a confirmation for
          SweepEnd, MaxItems, MaxSweeps

Turns == <<"alerts", "archive", "audit", "features", "dedup", "decisions", "quiet", "incidents", "executions", "files">>
Sweepers == {"loop", "admin"}
Stores == Range(Turns) \ {"quiet"}

ASSUME SweepAssumption ==
    /\ Configured \in [Range(Turns) -> Int] /\ Floor \in [Range(Turns) -> Nat]
    /\ LargeDelete \in Nat

VARIABLES items,        \* [n, store, at, open, since]: at is the time the store goes by
          sweep,        \* [turn, files, listed] of a running sweep: the files it listed, and when
          history,      \* _history: who ran them, newest first
          destroyed, made, sweeps
sweepVars == <<now, items, sweep, history, destroyed, made, sweeps>>

-----------------------------------------------------------------------------
Policy(turn) == IF Configured[turn] > Floor[turn] THEN Configured[turn] ELSE Floor[turn]
Overdue(turn, i) == i.at + Policy(turn) < now

\* What a turn would take: incidents and executions only when they are closed,
\* quiet incidents only when they are not and the policy is not 0.
Due(turn) ==
    CASE turn = "quiet" -> {i \in items : i.store = "incidents" /\ i.open /\ Policy("quiet") # 0 /\ Overdue("quiet", i)}
      [] OTHER -> {i \in items : i.store = turn /\ ~i.open /\ Overdue(turn, i)}

\* preview: features, suppressed events and decisions are not counted.
DestructiveTotal == Cardinality(UNION {Due(t) : t \in {"archive", "audit", "files", "incidents", "executions"}})

\* The work of the others. An item is open while it is an incident or an execution
\* that has not ended; since is when it ended.
Opens(store) == store \in {"incidents", "executions"}

AddItem(store) ==
    /\ made < MaxItems /\ store # "archive"
    /\ made' = made + 1
    /\ items' = items \cup {[n |-> made, store |-> store, at |-> now, open |-> Opens(store), since |-> now]}
    /\ UNCHANGED <<now, sweep, history, destroyed, sweeps>>

\* An incident is closed, reopened, written to or gets another alert, an execution
\* ends; each takes the time. An execution that was cut off keeps the time it started at.
WorkOn(i, open, stamped) ==
    /\ Opens(i.store)
    /\ i.store = "executions" => i.open /\ ~open
    /\ i.store = "incidents" => stamped
    /\ items' = (items \ {i}) \cup {[i EXCEPT !.open = open, !.at = IF stamped THEN now ELSE @,
                                              !.since = IF stamped THEN now ELSE @]}
    /\ items' # items
    /\ UNCHANGED <<now, sweep, history, destroyed, made, sweeps>>

\* A log or a report is written to again, or anew under its name when a sweep
\* that has it on its list finds it, or has just removed it.
Files == {i \in items : i.store = "files"} \cup UNION {sweep[s].files : s \in {t \in Sweepers : sweep[t] # None /\ sweep[t].files # None}}

WriteFile(f) ==
    /\ items' = {i \in items : i.n # f.n} \cup {[f EXCEPT !.at = now, !.since = now]}
    /\ items' # items
    /\ UNCHANGED <<now, sweep, history, destroyed, made, sweeps>>

-----------------------------------------------------------------------------
\* The route refuses a large manual sweep that is not confirmed; the preview
\* itself may fail, and then nothing is done.
BeginSweep(s, confirmed) ==
    /\ sweep[s] = None /\ sweeps < MaxSweeps
    /\ s = "admin" => DestructiveTotal <= LargeDelete \/ confirmed
    /\ sweep' = [sweep EXCEPT ![s] = [turn |-> 1, files |-> None, listed |-> None]]
    /\ sweeps' = sweeps + 1
    /\ UNCHANGED <<now, items, history, destroyed, made>>

AtTurn(s, turn) == sweep[s] # None /\ sweep[s].turn <= Len(Turns) /\ Turns[sweep[s].turn] = turn
NextTurn(s) == [sweep EXCEPT ![s].turn = @ + 1]

\* was is the time the item had when it was found due, tested the time of that test.
Lost(i, was, tested) == [store |-> i.store, open |-> i.open, since |-> i.since, was |-> was, tested |-> tested]
Destroy(gone, lost) == items' = items \ gone /\ destroyed' = destroyed \cup lost

\* archive_older_than: the archive goes by the time of the move.
MoveAlerts(s) ==
    /\ AtTurn(s, "alerts")
    /\ items' = (items \ Due("alerts"))
                   \cup {[i EXCEPT !.store = "archive", !.at = now, !.since = now] : i \in Due("alerts")}
    /\ sweep' = NextTurn(s)
    /\ UNCHANGED <<now, history, destroyed, made, sweeps>>

\* auto_resolve_stale: closing an incident is activity, so its time starts anew.
ResolvedAsOld(i) == [i EXCEPT !.open = FALSE, !.since = now]
Resolved(i) == [i EXCEPT !.open = FALSE, !.since = now, !.at = now]

ResolveQuiet(s) ==
    /\ AtTurn(s, "quiet")
    /\ items' = (items \ Due("quiet")) \cup {Resolved(i) : i \in Due("quiet")}
    /\ sweep' = NextTurn(s)
    /\ UNCHANGED <<now, history, destroyed, made, sweeps>>

PurgeStore(s, turn) ==
    /\ turn \notin {"alerts", "quiet", "files"} /\ AtTurn(s, turn)
    /\ Destroy(Due(turn), {Lost(i, i.since, now) : i \in Due(turn)})
    /\ sweep' = NextTurn(s)
    /\ UNCHANGED <<now, history, made, sweeps>>

\* A store that raises: the alert stores end the sweep, the audit log answers 0,
\* the others are passed over.
StoreFails(s) ==
    /\ sweep[s] # None /\ sweep[s].turn < Len(Turns)
    /\ sweep' = IF Turns[sweep[s].turn] \in {"alerts", "archive"} THEN [sweep EXCEPT ![s] = None]
                ELSE NextTurn(s)
    /\ UNCHANGED <<now, items, history, destroyed, made, sweeps>>

\* The files are listed first, by the time each was last written, and removed one
\* by one, by name; what is gone or refuses by then is passed over.
ListFiles(s) ==
    /\ AtTurn(s, "files") /\ sweep[s].files = None
    /\ sweep' = [sweep EXCEPT ![s] = [turn |-> @.turn, files |-> Due("files"), listed |-> now]]
    /\ UNCHANGED <<now, items, history, destroyed, made, sweeps>>

\* A file another sweep removes between isfile and getmtime ends this one.
ListingFails(s) ==
    /\ AtTurn(s, "files") /\ sweep[s].files = None
    /\ \E other \in Sweepers \ {s} : AtTurn(other, "files") /\ sweep[other].files \notin {None, {}}
    /\ sweep' = [sweep EXCEPT ![s] = None]
    /\ UNCHANGED <<now, items, history, destroyed, made, sweeps>>

RemoveFile(s, refuses) ==
    /\ AtTurn(s, "files") /\ sweep[s].files \notin {None, {}}
    /\ \E f \in sweep[s].files :
          /\ sweep' = [sweep EXCEPT ![s].files = @ \ {f}]
          /\ LET there == {i \in items : i.n = f.n}
             IN  IF refuses THEN UNCHANGED <<items, destroyed>>
                 ELSE Destroy(there, {Lost(i, f.since, sweep[s].listed) : i \in there})
    /\ UNCHANGED <<now, history, made, sweeps>>

FinishSweep(s) ==
    /\ AtTurn(s, "files") /\ sweep[s].files = {}
    /\ history' = <<s>> \o history
    /\ sweep' = [sweep EXCEPT ![s] = None]
    /\ UNCHANGED <<now, items, destroyed, made, sweeps>>

SweepTick ==
    /\ now < SweepEnd
    /\ now' = now + 1
    /\ UNCHANGED <<items, sweep, history, destroyed, made, sweeps>>

SweepInit ==
    /\ now = 0
    /\ items = {} /\ sweep = [s \in Sweepers |-> None] /\ history = <<>> /\ destroyed = {} /\ made = 0 /\ sweeps = 0

SweepNext ==
    \/ \E store \in Stores : AddItem(store)
    \/ \E i \in items, open \in BOOLEAN, stamped \in BOOLEAN : WorkOn(i, open, stamped)
    \/ \E f \in Files : WriteFile(f)
    \/ \E s \in Sweepers, confirmed \in BOOLEAN : BeginSweep(s, confirmed)
    \/ \E s \in Sweepers : MoveAlerts(s) \/ ResolveQuiet(s) \/ StoreFails(s) \/ ListFiles(s) \/ ListingFails(s)
    \/ \E s \in Sweepers, turn \in Stores : PurgeStore(s, turn)
    \/ \E s \in Sweepers, refuses \in BOOLEAN : RemoveFile(s, refuses)
    \/ \E s \in Sweepers : FinishSweep(s)
    \/ SweepTick

SweepSpec == SweepInit /\ [][SweepNext]_sweepVars

-----------------------------------------------------------------------------
\* What sweeps destroy for good was found to be out of use for as long as its
\* policy says (since it went to the archive, since it was closed, by the same
\* sweep, say, since it was written) and was not used between that test and its
\* end; only a file may have been written after the sweep had it on its list.
\* Nobody's open work is ever destroyed.
DestroyedWasDue ==
    \A d \in destroyed :
        /\ ~d.open
        /\ d.was + Policy(d.store) < d.tested
        /\ d.since # d.was => d.store = "files" /\ d.tested <= d.since

=============================================================================
