--------------------------- MODULE ApprovalLedger ---------------------------
(* What the approval gate of the SOAR engine promises (docs/integrations.md,   *)
(* "SOAR 차단 승인 게이트"), whatever threads, deque and database do inside:      *)
(* every block request is decided once, by a person or by its timeout; a block *)
(* is carried out only for a request that was decided; and the outcome on      *)
(* record is the truth about it.  SoarApproval implements this module.         *)
CONSTANT Requests   \* the requests that may exist

VARIABLES status,   \* where each request stands
          carried   \* the requests whose block was carried out

ledger == <<status, carried>>

Undecided == {"running", "waiting_approval"}
Declined == {"failed", "rejected", "cancelled", "expired"}
Closed == Declined \cup {"completed", "interrupted"}
Statuses == {"none", "processing_approval"} \cup Undecided \cup Closed

LedgerInit ==
    /\ status = [r \in Requests |-> "none"]
    /\ carried = {}

Moves(r, from, to) == status[r] \in from /\ status' = [status EXCEPT ![r] = to]

Enter(r) == Moves(r, {"none"}, "running") /\ UNCHANGED carried
Publish(r) == Moves(r, {"running"}, "waiting_approval") /\ UNCHANGED carried

(* Approve, reject, cancel or timeout: only a request without a decision can   *)
(* be taken.  It may still be on record as running, when the save that should  *)
(* have published it failed.                                                   *)
Take(r) == Moves(r, Undecided, "processing_approval") /\ UNCHANGED carried

(* The block itself, for a request that was taken, once.                       *)
CarryOut(r) ==
    /\ status[r] = "processing_approval" /\ r \notin carried
    /\ carried' = carried \cup {r} /\ UNCHANGED status

Complete(r) ==
    /\ r \in carried
    /\ Moves(r, {"processing_approval"}, "completed") /\ UNCHANGED carried
Decline(r) ==
    /\ r \notin carried
    /\ \E outcome \in Declined : Moves(r, {"processing_approval"}, outcome)
    /\ UNCHANGED carried

(* A restart ends whatever was under way; a waiting request goes on waiting.   *)
Interrupt ==
    /\ status' = [r \in Requests |->
                    IF status[r] \in {"running", "processing_approval"}
                    THEN "interrupted" ELSE status[r]]
    /\ UNCHANGED carried

(* Retention forgets closed requests, never one that still needs a decision.   *)
Forget(gone) ==
    /\ \A r \in gone : status[r] \in Closed
    /\ status' = [r \in Requests |-> IF r \in gone THEN "none" ELSE status[r]]
    /\ carried' = carried \ gone

LedgerNext ==
    \/ \E r \in Requests : \/ Enter(r) \/ Publish(r) \/ Take(r)
                           \/ CarryOut(r) \/ Complete(r) \/ Decline(r)
    \/ Interrupt
    \/ \E gone \in SUBSET Requests : Forget(gone)

LedgerSpec == LedgerInit /\ [][LedgerNext]_ledger
=============================================================================
