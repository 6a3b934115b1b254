---------------------------- MODULE SoarApproval ----------------------------
(* The approval gate of modules/soar.py and its execution store.               *)
(*                                                                             *)
(* With SOAR_APPROVAL_REQUIRED every block becomes a PB-BLOCK-APPROVAL         *)
(* execution that waits for an analyst.  An execution lives twice: as an entry *)
(* of the deque self.executions, which holds the newest Cap executions of all  *)
(* playbooks, and as a row of data/soar_executions.db, which holds all of them *)
(* until retention.  Both change under self._lock, so one critical section is  *)
(* one step here.  What runs between two critical sections is interleaved:     *)
(* the request threads, the worker and the expiry sweep each of them performs. *)
(*                                                                             *)
(* Every critical section changes the entry first and saves it then.  A save   *)
(* that fails writes nothing, leaves the entry as changed and ends the whole   *)
(* call: nobody catches the exception before the route or the worker's loop.   *)
(*                                                                             *)
(* An operator that stands right above another one with the same parameters    *)
(* and is used nowhere is a faulty variant of it (PROJECT.json, "mutants").    *)
EXTENDS Integers, FiniteSets

CONSTANTS
    IPs,         \* addresses
    Threads,     \* the worker thread and the request threads
    Worker,      \* the thread of _worker_loop: it sweeps and never reviews
    Cap,         \* maxlen of self.executions (100) and limit of load_recent
    Timeout,     \* SOAR_APPROVAL_TIMEOUT_MINUTES
    Retention,   \* age at which purge_terminal_older_than may drop a row
    Liftable,    \* addresses an unblock or a lifetime may take off the list
    Requesters,  \* threads that ask for blocks
    Playbooks,   \* threads that also run playbooks without approval
    MaxId, MaxNow, MaxRestart, MaxFault,   \* bounds
    None

ASSUME ThreadAssumption == Requesters \subseteq Threads /\ Playbooks \subseteq Threads
ASSUME CapAssumption == Cap \in Nat \ {0}
ASSUME TimeAssumption == Timeout \in Nat /\ Retention \in Nat
ASSUME LiftAssumption == Liftable \subseteq IPs
ASSUME BoundAssumption == MaxId \in Nat /\ MaxNow \in Nat /\ MaxRestart \in Nat
                          /\ MaxFault \in Nat

VARIABLES
    mem,      \* self.executions, by id
    db,       \* the rows of the execution store, by id
    lastId,   \* self._execution_id
    blocked,  \* the addresses on the block list
    guarded,  \* the addresses _is_blockable refuses
    behind,   \* the executions whose last save failed (history)
    pc, op,   \* where each thread is, and its local variables
    now, restarts, faults,
    claims,   \* how often each execution was claimed, and saved as claimed (history)
    acted     \* the executions whose block was carried out (history)

vars == <<mem, db, behind, faults, lastId, blocked, guarded, pc, op, now, restarts,
          claims, acted>>

Ids == 1..MaxId
Closed == {"completed", "failed", "rejected", "cancelled", "expired", "interrupted"}
Statuses == {"running", "waiting_approval", "processing_approval"} \cup Closed
\* ip is None for an execution that is not an approval request
Entries == [status : Statuses, ip : IPs \cup {None}, started : Nat]
ASSUME NoneAssumption == None \notin Entries /\ None \notin IPs

Decisions == {"approve", "reject", "cancel"}
PCs == {"idle", "asked", "unmatched", "opened", "answering", "running", "sweeping",
        "expiring", "fetching", "claiming", "declining", "approved", "blocking",
        "committed", "refused"}
Locals == [ip : IPs \cup {None}, id : 0..MaxId, before : Nat, review : 0..MaxId,
           decision : Decisions, todo : SUBSET Ids]
NoCall == [ip |-> None, id |-> 0, before |-> 0, review |-> 0,
           decision |-> "reject", todo |-> {}]

Present(table) == {i \in Ids : table[i] # None}
Newest(ids) == {i \in ids : Cardinality({j \in ids : j > i}) < Cap}
Keep(table, ids) == [i \in Ids |-> IF i \in ids THEN table[i] ELSE None]
Waiting(i) == mem[i] # None /\ mem[i].status = "waiting_approval"
OverdueLate == {i \in Ids : Waiting(i) /\ mem[i].started + Timeout < now}
Overdue == {i \in Ids : Waiting(i) /\ mem[i].started + Timeout <= now}

Init ==
    /\ mem = [i \in Ids |-> None] /\ db = [i \in Ids |-> None]
    /\ behind = {} /\ faults = 0
    /\ lastId = 0
    /\ blocked = {} /\ guarded \in SUBSET IPs
    /\ pc = [t \in Threads |-> "idle"] /\ op = [t \in Threads |-> NoCall]
    /\ now = 0 /\ restarts = 0
    /\ claims = [i \in Ids |-> 0] /\ acted = {}

Goto(t, place) == pc' = [pc EXCEPT ![t] = place]
Return(t) == Goto(t, "idle") /\ op' = [op EXCEPT ![t] = NoCall]
Unnoted == UNCHANGED <<claims, acted>>
(* The bound on ids stops new calls and never a call under way.                *)
Room == lastId + Cardinality({t \in Threads : pc[t] \in {"asked", "unmatched"}}) < MaxId

-----------------------------------------------------------------------------
(* The record keeping every playbook shares.                                   *)

Saved(id) == behind' = behind \ {id} /\ UNCHANGED faults
NotSaved(id) ==
    /\ faults < MaxFault /\ faults' = faults + 1
    /\ behind' = behind \cup {id} /\ UNCHANGED db

(* _execution_start: the next id, leftmost in the deque, which drops its       *)
(* oldest entry when it is full, and a row in the store.                       *)
NewEntry(ip) == [status |-> "running", ip |-> ip, started |-> now]
Append(ip) ==
    LET id == lastId + 1
    IN  /\ lastId < MaxId
        /\ lastId' = id
        /\ mem' = Keep([mem EXCEPT ![id] = NewEntry(ip)], Newest(Present(mem) \cup {id}))
        /\ claims' = [claims EXCEPT ![id] = 0]
        /\ acted' = acted \ {id}
ExecutionStart(ip) ==
    /\ Append(ip)
    /\ db' = [db EXCEPT ![lastId + 1] = NewEntry(ip)] /\ Saved(lastId + 1)
FailedStart(ip) == Append(ip) /\ NotSaved(lastId + 1)

(* _set_execution_fields and _execution_finish look the entry up in the deque; *)
(* for one that was dropped they change nothing.                               *)
Unsaved(id, status) ==
    IF mem[id] = None THEN UNCHANGED <<mem, db, behind, faults>>
    ELSE mem' = [mem EXCEPT ![id].status = status] /\ UNCHANGED <<db, behind, faults>>
SetStatus(id, status) ==
    IF mem[id] = None THEN UNCHANGED <<mem, db, behind, faults>>
    ELSE LET entry == [mem[id] EXCEPT !.status = status]
         IN  /\ mem' = [mem EXCEPT ![id] = entry] /\ db' = [db EXCEPT ![id] = entry]
             /\ Saved(id)
FailedStatus(id, status) ==
    /\ mem[id] # None /\ mem' = [mem EXCEPT ![id].status = status]
    /\ NotSaved(id)

(* _claim_pending_approval: whoever finds the entry waiting takes it.          *)
Claimable(i) == Waiting(i)
Claim(id) ==
    /\ SetStatus(id, "processing_approval")
    /\ claims' = [claims EXCEPT ![id] = @ + 1]

-----------------------------------------------------------------------------
(* What _block_ip tests first, always: the safety rules and the block list.    *)
ListOnly(ip) == ip \in blocked
Refused(ip) == ip \in guarded \/ ip \in blocked

(* A block request: _block_ip as far as the gate, from manual_block_request or *)
(* from a playbook.  Refused requests change nothing.                          *)
Ask(t, ip) ==
    /\ t \in Requesters /\ pc[t] = "idle" /\ Room
    /\ ~Refused(ip)
    /\ op' = [op EXCEPT ![t] = [NoCall EXCEPT !.ip = ip, !.before = lastId]]
    /\ Goto(t, "asked")
    /\ UNCHANGED <<mem, db, behind, faults, lastId, blocked, guarded, now, restarts>>
    /\ Unnoted

(* _queue_block_approval looks for a waiting request under the lock ...        *)
HasRequest(ip) == \E i \in Ids : Waiting(i) /\ mem[i].ip = ip
FindDuplicate(t) ==
    /\ pc[t] = "asked"
    /\ Goto(t, IF HasRequest(op[t].ip)
               THEN "answering" ELSE "unmatched")
    /\ UNCHANGED <<mem, db, behind, faults, lastId, blocked, guarded, op, now, restarts>>
    /\ Unnoted

(* ... and opens one in a later critical section, published by a third.        *)
OpenRequest(t) ==
    /\ pc[t] = "unmatched"
    /\ ExecutionStart(op[t].ip)
    /\ op' = [op EXCEPT ![t].id = lastId + 1]
    /\ Goto(t, "opened")
    /\ UNCHANGED <<blocked, guarded, now, restarts>>

Publish(t) ==
    /\ pc[t] = "opened"
    /\ SetStatus(op[t].id, "waiting_approval")
    /\ Goto(t, "answering")
    /\ UNCHANGED <<lastId, blocked, guarded, op, now, restarts>>
    /\ Unnoted

(* manual_block_request tells a request from a block by whether self.          *)
(* _execution_id has grown, and names its present value as the request.        *)
Answer(t) == IF lastId > op[t].before
             THEN [status |-> "waiting_approval", execution_id |-> lastId]
             ELSE [status |-> "executed", execution_id |-> 0]
Respond(t) ==
    /\ pc[t] = "answering"
    /\ Return(t)
    /\ UNCHANGED <<mem, db, behind, faults, lastId, blocked, guarded, now, restarts>>
    /\ Unnoted

(* Any other playbook run: an execution that starts and finishes.              *)
StartPlaybook(t) ==
    /\ t \in Playbooks /\ pc[t] = "idle" /\ Room
    /\ ExecutionStart(None)
    /\ op' = [op EXCEPT ![t].id = lastId + 1]
    /\ Goto(t, "running")
    /\ UNCHANGED <<blocked, guarded, now, restarts>>

FinishPlaybook(t) ==
    /\ pc[t] = "running"
    /\ \E status \in {"completed", "failed"} : SetStatus(op[t].id, status)
    /\ Return(t)
    /\ UNCHANGED <<lastId, blocked, guarded, now, restarts>>
    /\ Unnoted

-----------------------------------------------------------------------------
(* _expire_approvals, run by the worker, by get_status and at the head of      *)
(* every review: the overdue requests of the deque, then each one claimed and  *)
(* closed on its own.                                                          *)
Sweep(t) ==
    /\ pc[t] = "idle" /\ Overdue # {}
    /\ op' = [op EXCEPT ![t] = [NoCall EXCEPT !.todo = Overdue]]
    /\ Goto(t, "sweeping")
    /\ UNCHANGED <<mem, db, behind, faults, lastId, blocked, guarded, now, restarts>>
    /\ Unnoted

ClaimOverdue(t, i) ==
    /\ pc[t] = "sweeping" /\ i \in op[t].todo
    /\ IF Claimable(i)
       THEN /\ Claim(i)
            /\ op' = [op EXCEPT ![t].todo = @ \ {i}, ![t].id = i]
            /\ Goto(t, "expiring")
       ELSE /\ op' = [op EXCEPT ![t].todo = @ \ {i}]
            /\ UNCHANGED <<mem, db, behind, faults, claims, pc>>
    /\ UNCHANGED <<lastId, blocked, guarded, now, restarts, acted>>

CloseOverdue(t) ==
    /\ pc[t] = "expiring"
    /\ SetStatus(op[t].id, "expired")
    /\ Goto(t, "sweeping")
    /\ UNCHANGED <<lastId, blocked, guarded, op, now, restarts>>
    /\ Unnoted

EndSweep(t) ==
    /\ pc[t] = "sweeping" /\ op[t].todo = {}
    /\ IF op[t].review = 0 THEN Return(t) ELSE Goto(t, "fetching") /\ UNCHANGED op
    /\ UNCHANGED <<mem, db, behind, faults, lastId, blocked, guarded, now, restarts>>
    /\ Unnoted

-----------------------------------------------------------------------------
(* review_approval, alone or as one round of approve_many.                     *)
Review(t, i, decision) ==
    /\ t # Worker /\ pc[t] = "idle"
    /\ op' = [op EXCEPT ![t] = [NoCall EXCEPT !.review = i, !.decision = decision,
                                              !.todo = Overdue]]
    /\ Goto(t, "sweeping")
    /\ UNCHANGED <<mem, db, behind, faults, lastId, blocked, guarded, now, restarts>>
    /\ Unnoted

(* The store is asked first: no such row, or a row that is not waiting, ends   *)
(* the review.                                                                 *)
Fetch(t) ==
    LET row == db[op[t].review]
    IN  /\ pc[t] = "fetching"
        /\ IF row # None /\ row.status = "waiting_approval"
           THEN op' = [op EXCEPT ![t].ip = row.ip] /\ Goto(t, "claiming")
           ELSE Return(t)
        /\ UNCHANGED <<mem, db, behind, faults, lastId, blocked, guarded, now, restarts>>
        /\ Unnoted

ClaimForReview(t) ==
    LET i == op[t].review
    IN  /\ pc[t] = "claiming"
        /\ IF Claimable(i)
           THEN /\ Claim(i)
                /\ Goto(t, IF op[t].decision = "approve" THEN "approved" ELSE "declining")
                /\ UNCHANGED op
           ELSE Return(t) /\ UNCHANGED <<mem, db, behind, faults, claims>>
        /\ UNCHANGED <<lastId, blocked, guarded, now, restarts, acted>>

Declined(t) == IF op[t].decision = "cancel" THEN "cancelled" ELSE "rejected"
Decline(t) ==
    /\ pc[t] = "declining"
    /\ SetStatus(op[t].review, Declined(t))
    /\ Return(t)
    /\ UNCHANGED <<lastId, blocked, guarded, now, restarts>>
    /\ Unnoted

(* The approved block: _block_ip with bypass_approval tests safety and the     *)
(* block list again, then runs the firewall command and records the block.     *)
CheckApproved(t) ==
    /\ pc[t] = "approved"
    /\ Goto(t, IF Refused(op[t].ip) THEN "refused" ELSE "blocking")
    /\ UNCHANGED <<mem, db, behind, faults, lastId, blocked, guarded, op, now, restarts>>
    /\ Unnoted

CarryOutBlock(t) ==
    /\ pc[t] = "blocking"
    /\ blocked' = blocked \cup {op[t].ip}
    /\ acted' = acted \cup {op[t].review}
    /\ Goto(t, "committed")
    /\ UNCHANGED <<mem, db, behind, faults, lastId, guarded, op, now, restarts, claims>>

SayDone(ok) == "completed"
ApprovedStatus(ok) == IF ok THEN "completed" ELSE "failed"

(* The action log reads the new record again: if it is gone by now, the        *)
(* KeyError ends the review and nothing closes the execution.                  *)
CloseApproved(t) ==
    /\ \/ pc[t] = "committed" /\ op[t].ip \in blocked
          /\ SetStatus(op[t].review, ApprovedStatus(TRUE))
       \/ pc[t] = "committed" /\ op[t].ip \notin blocked
          /\ UNCHANGED <<mem, db, behind, faults>>
       \/ pc[t] = "refused"
          /\ SetStatus(op[t].review, ApprovedStatus(FALSE))
    /\ Return(t)
    /\ UNCHANGED <<lastId, blocked, guarded, now, restarts>>
    /\ Unnoted

-----------------------------------------------------------------------------
(* The saves that fail.                                                        *)

(* The execution a call is at work on, and the status it is about to write.    *)
Held(t) == IF pc[t] \in {"opened", "running", "expiring"} THEN op[t].id ELSE op[t].review
Ends(t, status) ==
    \/ pc[t] = "opened" /\ status = "waiting_approval"
    \/ pc[t] = "running" /\ status \in {"completed", "failed"}
    \/ pc[t] = "expiring" /\ status = "expired"
    \/ pc[t] = "declining" /\ status = Declined(t)
    \/ pc[t] = "committed" /\ status = ApprovedStatus(TRUE)
    \/ pc[t] = "refused" /\ status = ApprovedStatus(FALSE)

(* The entry is in the deque, and no row is there.                             *)
StartFails(t) ==
    /\ \/ pc[t] = "unmatched" /\ FailedStart(op[t].ip)
       \/ pc[t] = "idle" /\ t \in Playbooks /\ Room /\ FailedStart(None)
    /\ Return(t)
    /\ UNCHANGED <<blocked, guarded, now, restarts>>

(* The entry is claimed and nobody goes on with it; the row still waits.  In a *)
(* sweep the requests that are left are not looked at.                         *)
ClaimFails(t) ==
    /\ \E i \in Ids :
         /\ \/ pc[t] = "sweeping" /\ i \in op[t].todo
            \/ pc[t] = "claiming" /\ i = op[t].review
         /\ Claimable(i) /\ FailedStatus(i, "processing_approval")
    /\ Return(t)
    /\ UNCHANGED <<lastId, blocked, guarded, now, restarts>>
    /\ Unnoted

(* The record of a step, which leaves the status, or the status itself.        *)
SaveFails(t) ==
    /\ pc[t] \in {"opened", "running", "expiring", "declining", "approved", "committed",
                  "refused"}
    /\ mem[Held(t)] # None
    /\ \E status \in Statuses : /\ status = mem[Held(t)].status \/ Ends(t, status)
                                /\ FailedStatus(Held(t), status)
    /\ Return(t)
    /\ UNCHANGED <<lastId, blocked, guarded, now, restarts>>
    /\ Unnoted

-----------------------------------------------------------------------------
(* The surroundings of the gate.                                               *)

(* manual_unblock and _expire_blocks (module SoarBlocklist).                   *)
Unblock(ip) ==
    /\ ip \in blocked \cap Liftable
    /\ blocked' = blocked \ {ip}
    /\ UNCHANGED <<mem, db, behind, faults, lastId, guarded, pc, op, now, restarts>>
    /\ Unnoted

Tick ==
    /\ now < MaxNow /\ now' = now + 1
    /\ UNCHANGED <<mem, db, behind, faults, lastId, blocked, guarded, pc, op, restarts>>
    /\ Unnoted

(* purge_terminal_older_than: closed rows that finished long enough ago;       *)
(* running, waiting and claimed rows stay.  The model keeps the start of an    *)
(* execution and not its end, so any of the rows that are old enough may go.   *)
Purge(gone) ==
    /\ gone # {}
    /\ gone \subseteq {i \in Present(db) : /\ db[i].status \in Closed
                                         /\ db[i].started + Retention <= now}
    /\ db' = Keep(db, Ids \ gone)
    /\ UNCHANGED <<mem, behind, faults, lastId, blocked, guarded, pc, op, now, restarts>>
    /\ Unnoted

(* The process dies and starts again: recover_interrupted closes what was      *)
(* under way, load_recent refills the deque, ids go on from the highest one    *)
(* loaded, and the allowlist is read anew.  The block list survives in its     *)
(* file.                                                                       *)
RecoveredOpen == [i \in Ids |->
    IF db[i] = None THEN None
    ELSE IF db[i].status = "processing_approval"
         THEN [db[i] EXCEPT !.status = "waiting_approval"]
         ELSE IF db[i].status = "running"
              THEN [db[i] EXCEPT !.status = "interrupted"] ELSE db[i]]
Recovered == [i \in Ids |->
    IF db[i] # None /\ db[i].status \in {"running", "processing_approval"}
    THEN [db[i] EXCEPT !.status = "interrupted"] ELSE db[i]]
Restart ==
    /\ restarts < MaxRestart /\ restarts' = restarts + 1
    /\ db' = Recovered
    /\ mem' = Keep(Recovered, Newest(Present(db)))
    /\ lastId' \in {i \in Present(db) : \A j \in Present(db) : j <= i} \cup
                   {i \in {0} : Present(db) = {}}
    /\ guarded' \in SUBSET IPs
    /\ pc' = [t \in Threads |-> "idle"] /\ op' = [t \in Threads |-> NoCall]
    /\ behind' = {}
    /\ UNCHANGED <<blocked, now, faults>> /\ Unnoted

Step(t) ==
    \/ \E ip \in IPs : Ask(t, ip)
    \/ FindDuplicate(t) \/ OpenRequest(t) \/ Publish(t) \/ Respond(t)
    \/ StartPlaybook(t) \/ FinishPlaybook(t)
    \/ Sweep(t) \/ CloseOverdue(t) \/ EndSweep(t)
    \/ \E i \in Ids : ClaimOverdue(t, i)
    \/ \E i \in Ids, decision \in Decisions : Review(t, i, decision)
    \/ Fetch(t) \/ ClaimForReview(t) \/ Decline(t)
    \/ CheckApproved(t) \/ CarryOutBlock(t) \/ CloseApproved(t)
    \/ StartFails(t) \/ ClaimFails(t) \/ SaveFails(t)

Next ==
    \/ \E t \in Threads : Step(t)
    \/ \E ip \in IPs : Unblock(ip)
    \/ \E gone \in SUBSET Ids : Purge(gone)
    \/ Tick
    \/ Restart

Spec == Init /\ [][Next]_vars

(* A thread that is inside a call goes on with it, time passes, and the worker *)
(* sweeps again and again: its loop does so before it takes the next event.    *)
Continue(t) == pc[t] # "idle" /\ Step(t)
Fairness ==
    /\ WF_vars(Tick)
    /\ SF_vars(Sweep(Worker))
    /\ \A t \in Threads : WF_vars(Continue(t))
FairSpec == Spec /\ Fairness
-----------------------------------------------------------------------------
TypeOK ==
    /\ mem \in [Ids -> Entries \cup {None}] /\ db \in [Ids -> Entries \cup {None}]
    /\ behind \subseteq Ids /\ faults \in 0..MaxFault
    /\ lastId \in 0..MaxId
    /\ blocked \subseteq IPs /\ guarded \subseteq IPs
    /\ pc \in [Threads -> PCs] /\ op \in [Threads -> Locals]
    /\ now \in 0..MaxNow /\ restarts \in 0..MaxRestart
    /\ claims \in [Ids -> Nat] /\ acted \subseteq Ids

(* Deque and store agree on every execution both hold, unless its last save    *)
(* failed.  Then they agree on whom it is about, and the deque is ahead of the *)
(* store and never behind it: what an analyst is shown and what a review or a  *)
(* sweep claims is never older than the record (the saves stand inside the     *)
(* critical sections of _claim_pending_approval, _set_execution_fields and     *)
(* _execution_finish, behind the change).                                      *)
Ahead(stored, held) ==
    \/ stored = "running"
       /\ held \in {"waiting_approval", "processing_approval", "completed", "failed"}
    \/ stored = "waiting_approval" /\ held = "processing_approval"
    \/ stored = "processing_approval" /\ held \in Closed \ {"interrupted"}
DequeMatchesStore == \A i \in Present(mem) \cap Present(db) :
    \/ mem[i] = db[i]
    \/ /\ i \in behind
       /\ mem[i].ip = db[i].ip /\ mem[i].started = db[i].started
       /\ Ahead(db[i].status, mem[i].status)

(* Of approval, rejection, cancellation and expiry at most one ever handles a  *)
(* request, across threads and restarts (_claim_pending_approval).             *)
DecidedOnce == \A i \in Ids : claims[i] <= 1

(* The status on record is the truth about the block: a block was carried out  *)
(* only for a request that is claimed, completed or was cut off by a crash,    *)
(* and every request recorded as completed has been carried out.               *)
OutcomeIsTrue == \A i \in Present(db) : db[i].ip # None =>
    /\ i \in acted =>
         db[i].status \in {"processing_approval", "completed", "interrupted"}
    /\ db[i].status = "completed" => i \in acted

(* No approval, however old, blocks an address the safety rules protect now:   *)
(* they are tested again after the decision (_is_blockable).                   *)
GuardedStaysOpen == [][(blocked' \ blocked) \cap guarded = {}]_vars

(* A waiting request whose time is up does not go on waiting.                  *)
OverdueIsDecided == \A i \in Ids :
    (db[i] # None /\ db[i].status = "waiting_approval"
                        /\ db[i].started + Timeout <= now)
        ~> (db[i] = None \/ db[i].status # "waiting_approval")

(* The refinement: a request stands in the ledger where its row says.          *)
IsRequest(i) == db[i] # None /\ db[i].ip # None
LedgerStatus == [i \in Ids |-> IF IsRequest(i) THEN db[i].status ELSE "none"]
LedgerCarried == {i \in acted : IsRequest(i)}
Ledger == INSTANCE ApprovalLedger
            WITH Requests <- Ids, status <- LedgerStatus, carried <- LedgerCarried
(* Threads, deque, store and restarts together keep the promise of the gate.   *)
KeepsLedger == Ledger!LedgerSpec
=============================================================================
