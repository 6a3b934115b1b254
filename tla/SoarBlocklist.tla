---------------------------- MODULE SoarBlocklist ----------------------------
(* The block executor of modules/soar.py: the dictionary blocked_ips, its      *)
(* copy in data/blocklist.txt and the DROP rules of the host firewall, which   *)
(* the code changes one after the other and never together.                    *)
(*                                                                             *)
(* _block_ip, manual_unblock and _expire_blocks run on the request threads and *)
(* on the worker thread.  Each is cut at the points where it takes or drops    *)
(* self._lock or runs a firewall command; every step below is one such piece.  *)
(* The calls modelled here are those that got past the approval gate: either   *)
(* SOAR_APPROVAL_REQUIRED is off or the call carries bypass_approval.          *)
(*                                                                             *)
(* An operator that stands right above another one with the same parameters    *)
(* and is used nowhere is a faulty variant of it: the properties are tested    *)
(* against it (PROJECT.json, "mutants").                                       *)
EXTENDS Integers, FiniteSets

CONSTANTS
    IPs,        \* addresses
    Protected,  \* addresses _is_blockable refuses (private, own, allowlist)
    Threads,    \* threads that call into the engine
    Worker,     \* the thread that runs _worker_loop, and with it the expiry
    BlockModes, \* the values SOAR_BLOCK_MODE may have
    TTLs,       \* the lifetimes a block may be given; 0 is a permanent block
    Reasons,    \* what the free-text reasons of the blocks hold
    MaxNow,     \* bound on the clock
    MaxFault,   \* bound on failing commands and failing writes
    MaxRestart, \* bound on crashes
    MaxRules,   \* bound on the rules an address collects
    None        \* no record, no address

ASSUME ThreadAssumption == Worker \in Threads
ASSUME ModeAssumption == BlockModes \subseteq {"simulate", "ufw", "iptables"}
ASSUME AddressAssumption == Protected \subseteq IPs
ASSUME TTLAssumption == TTLs \subseteq Nat
\* "bar" is a text with the separator '|', "break" one with a line break: the
\* route takes the text as it comes and _save_blocklist writes it as it is.
Texts == {"plain", "bar", "break"}
ASSUME ReasonAssumption == Reasons \subseteq Texts
ASSUME BoundAssumption == MaxNow \in Nat /\ MaxFault \in Nat /\ MaxRestart \in Nat
                          /\ MaxRules \in Nat

Free == "free"
ASSUME FreeAssumption == Free \notin Threads

VARIABLES
    mode,      \* self.block_mode
    blocked,   \* self.blocked_ips: a record per blocked address
    file,      \* data/blocklist.txt, a line per address
    rules,     \* how many DROP rules the firewall holds for an address
    lock,      \* holder of self._lock
    pc,        \* where each thread is
    op,        \* the local variables of the call a thread executes
    behind,    \* the last _save_blocklist raised (history)
    misread,   \* a restart has read a file that was behind or broken (history)
    now, faults, restarts

vars == <<mode, blocked, file, rules, lock, pc, op, behind, misread, now, faults,
          restarts>>

Modes == {"simulate"} \cup BlockModes
Records == [mode : Modes, expires : Nat, reason : Texts]
ASSUME NoneAssumption == None \notin Records /\ None \notin IPs
Lists == [IPs -> Records \cup {None}]
Empty == [ip \in IPs |-> None]
PCs == {"idle", "checked", "enforced", "saving", "recorded", "releasing"}
\* release: the records a call took off the list and whose rules it must remove
Locals == [ip : IPs \cup {None}, ttl : Nat, reason : Texts, mode : Modes,
           release : Lists]
NoCall == [ip |-> None, ttl |-> 0, reason |-> "plain", mode |-> "simulate",
           release |-> Empty]

Listed(list) == {ip \in IPs : list[ip] # None}
Without(list, gone) == [ip \in IPs |-> IF ip \in gone THEN None ELSE list[ip]]
Only(list, kept) == Without(list, IPs \ kept)
\* One line is ip|mode|timestamp|reason|expires_ts.  A '|' in the reason leaves
\* float() a text that is no number.  A line break ends the row behind the
\* reason's first part; the rest of the text begins a line of its own.
Readable(list) == \A ip \in Listed(list) : list[ip].reason = "plain"
Broken(list) == \E ip \in Listed(list) : list[ip].reason = "break"
Due(list) == {ip \in Listed(list) : /\ list[ip].expires # 0
                                    /\ list[ip].expires <= now}

Init ==
    /\ mode \in BlockModes
    /\ blocked = Empty /\ file = Empty
    /\ rules = [ip \in IPs |-> 0]
    /\ lock = Free
    /\ pc = [t \in Threads |-> "idle"]
    /\ op = [t \in Threads |-> NoCall]
    /\ behind = FALSE /\ misread = FALSE
    /\ now = 1 /\ faults = 0 /\ restarts = 0

-----------------------------------------------------------------------------
(* The firewall.  "ufw insert 1 deny from ip" skips a rule that is there;      *)
(* "iptables -I" stacks another one and "iptables -D" takes one away.          *)
Inserted(ip) == [rules EXCEPT ![ip] = IF mode = "ufw" THEN 1 ELSE @ + 1]
Deleted(ip) == [rules EXCEPT ![ip] = IF mode = "ufw" \/ @ = 0 THEN 0 ELSE @ - 1]

(* The mode a block is recorded with, by the answer of the command.            *)
AnswerIgnored(ok) == mode
RecordedMode(ok) == IF ok THEN mode ELSE "simulate"

(* _run_fw answers True, or False when the command exits non-zero (nothing     *)
(* changed) or is cut off after five seconds (its effect may have happened).   *)
RunFirewall(effect, ok) ==
    \/ ok /\ rules' = effect /\ UNCHANGED faults
    \/ /\ ~ok /\ faults < MaxFault /\ faults' = faults + 1
       /\ rules' \in {rules, effect}

-----------------------------------------------------------------------------
(* _save_blocklist, always called with the lock held by the thread that just   *)
(* changed blocked_ips: open(path, "w") truncates, the lines reach the disk    *)
(* when the file is closed - those written before an exception, too - and every*)
(* exception is logged and swallowed.                                          *)
OpenFile(t) ==
    \/ /\ file' = Empty /\ lock' = t /\ pc' = [pc EXCEPT ![t] = "saving"]
       /\ UNCHANGED <<behind, faults>>
    \/ /\ faults < MaxFault /\ faults' = faults + 1
       /\ behind' = TRUE
       /\ pc' = [pc EXCEPT ![t] = IF op'[t].ip = None THEN "releasing" ELSE "recorded"]
       /\ UNCHANGED <<file, lock>>

WriteFile(t) ==
    /\ pc[t] = "saving"
    /\ \/ file' = blocked /\ behind' = FALSE /\ UNCHANGED faults
       \/ /\ faults < MaxFault /\ faults' = faults + 1 /\ behind' = TRUE
          /\ \E written \in SUBSET Listed(blocked) : file' = Only(blocked, written)
    /\ lock' = Free
    /\ pc' = [pc EXCEPT ![t] = IF op[t].ip = None THEN "releasing" ELSE "recorded"]
    /\ UNCHANGED <<mode, blocked, rules, op, misread, now, restarts>>

(* The bound on rules stops new calls and never a call under way.              *)
Room(ip) == rules[ip] + Cardinality({t \in Threads : pc[t] = "checked"}) < MaxRules

(* _block_ip up to the end of its first critical section: the safety check,    *)
(* then the membership test under the lock.  A refused call changes nothing.   *)
BlockIp(t, ip, ttl, reason) ==
    /\ pc[t] = "idle" /\ Room(ip)
    /\ ip \notin Protected
    /\ lock = Free /\ blocked[ip] = None
    /\ pc' = [pc EXCEPT ![t] = "checked"]
    /\ op' = [op EXCEPT ![t] = [NoCall EXCEPT !.ip = ip, !.ttl = ttl, !.reason = reason]]
    /\ UNCHANGED <<mode, blocked, file, rules, lock, behind, misread, now, faults, restarts>>

(* The firewall command, run with no lock held; a failure is recorded as a     *)
(* simulated block.                                                            *)
Enforce(t) ==
    /\ pc[t] = "checked"
    /\ \/ /\ mode = "simulate"
          /\ UNCHANGED <<rules, faults, op>>
       \/ /\ mode # "simulate"
          /\ \E ok \in BOOLEAN :
                /\ RunFirewall(Inserted(op[t].ip), ok)
                /\ op' = [op EXCEPT ![t].mode = RecordedMode(ok)]
    /\ pc' = [pc EXCEPT ![t] = "enforced"]
    /\ UNCHANGED <<mode, blocked, file, lock, behind, misread, now, restarts>>

(* The second critical section: the record is written whatever is there now.   *)
Record(t) ==
    /\ pc[t] = "enforced" /\ lock = Free
    /\ blocked' = [blocked EXCEPT ![op[t].ip] =
                     [mode |-> op[t].mode, reason |-> op[t].reason,
                      expires |-> IF op[t].ttl > 0 THEN now + op[t].ttl ELSE 0]]
    /\ UNCHANGED op
    /\ OpenFile(t)
    /\ UNCHANGED <<mode, rules, misread, now, restarts>>

(* The action log reads blocked_ips[ip] again, without the lock; when the      *)
(* record is gone by then the KeyError leaves _block_ip.  Nothing is undone.   *)
Finish(t) ==
    /\ pc[t] = "recorded"
    /\ pc' = [pc EXCEPT ![t] = "idle"]
    /\ op' = [op EXCEPT ![t] = NoCall]
    /\ UNCHANGED <<mode, blocked, file, rules, lock, behind, misread, now, faults, restarts>>

(* What manual_unblock and _expire_blocks share: the records leave the list    *)
(* and the file first; their firewall rules follow with no lock held.          *)
TakeOff(t, gone) ==
    /\ blocked' = Without(blocked, gone)
    /\ op' = [op EXCEPT ![t] = [NoCall EXCEPT !.release = Only(blocked, gone)]]
    /\ OpenFile(t)
    /\ UNCHANGED <<mode, rules, misread, now, restarts>>

ManualUnblock(t, ip) ==
    /\ pc[t] = "idle" /\ lock = Free
    /\ ip \in Listed(blocked)
    /\ TakeOff(t, {ip})

EnforcedOnly(t) ==
    LET gone == {ip \in Due(blocked) : blocked[ip].mode # "simulate"}
    IN  t = Worker /\ pc[t] = "idle" /\ lock = Free /\ gone # {} /\ TakeOff(t, gone)
ExpireBlocks(t) ==
    /\ t = Worker /\ pc[t] = "idle" /\ lock = Free
    /\ Due(blocked) # {}
    /\ TakeOff(t, Due(blocked))

(* The removal commands, one address at a time, by the mode of the record that *)
(* was taken off; their result is ignored.                                     *)
ReleaseRule(t, ip) ==
    /\ pc[t] = "releasing"
    /\ ip \in Listed(op[t].release)
    /\ IF op[t].release[ip].mode = "simulate"
       THEN UNCHANGED <<rules, faults>>
       ELSE \E ok \in BOOLEAN : RunFirewall(Deleted(ip), ok)
    /\ LET rest == Without(op[t].release, {ip})
       IN  /\ op' = [op EXCEPT ![t].release = rest]
           /\ pc' = [pc EXCEPT ![t] = IF rest = Empty THEN "idle" ELSE @]
    /\ UNCHANGED <<mode, blocked, file, lock, behind, misread, now, restarts>>

-----------------------------------------------------------------------------
Tick ==
    /\ now < MaxNow
    /\ now' = now + 1
    /\ UNCHANGED <<mode, blocked, file, rules, lock, pc, op, behind, misread, faults,
                   restarts>>

(* _load_blocklist reads the lines top down.  A line of four parts is a row    *)
(* without an end; one of fewer is passed over; the first one whose fifth part *)
(* is no number ends the load, and what is above it is kept.  Where it stands  *)
(* depends on the order of insertion, which the model leaves open, as it does  *)
(* what the lines behind a line break say: they may be passed over, end the    *)
(* load, or be rows of any address.                                            *)
Cut(record) == IF record # None /\ record.reason = "break"
               THEN [record EXCEPT !.expires = 0, !.reason = "plain"] ELSE record
Kept(list) ==
    {kept \in SUBSET {ip \in Listed(list) : list[ip].reason # "bar"} :
        \/ kept = Listed(list)
        \/ \E ip \in Listed(list) \ kept : list[ip].reason = "bar"
        \/ \E ip \in kept : list[ip].reason = "break"}
Strays == [IPs -> {None} \cup [mode : Modes, expires : 0..MaxNow, reason : {"plain"}]]
Read(list, kept, stray) ==
    [ip \in IPs |-> IF stray[ip] # None THEN stray[ip]
                   ELSE IF ip \in kept THEN Cut(list[ip]) ELSE None]
PermanentDropped(list) == {Only(list, {ip \in Listed(list) : list[ip].expires # 0})}
Loaded(list) ==
    {Read(list, kept, Empty) : kept \in Kept(list)}
    \cup {Read(list, kept, stray) :
            kept \in {k \in Kept(list) : \E ip \in k : list[ip].reason = "break"},
            stray \in Strays}

(* The process dies and starts again.  Threads and dictionary are lost, the    *)
(* file is as the last write left it, the firewall is not touched.             *)
Restart ==
    /\ restarts < MaxRestart
    /\ restarts' = restarts + 1
    /\ blocked' \in Loaded(file)
    /\ lock' = Free
    /\ pc' = [t \in Threads |-> "idle"]
    /\ op' = [t \in Threads |-> NoCall]
    /\ behind' = FALSE /\ misread' = (misread \/ behind \/ Broken(file))
    /\ UNCHANGED <<mode, file, rules, now, faults>>

Step(t) ==
    \/ \E ip \in IPs, ttl \in TTLs, reason \in Reasons : BlockIp(t, ip, ttl, reason)
    \/ Enforce(t)
    \/ Record(t)
    \/ WriteFile(t)
    \/ Finish(t)
    \/ \E ip \in IPs : ManualUnblock(t, ip)
    \/ ExpireBlocks(t)
    \/ \E ip \in IPs : ReleaseRule(t, ip)

Next == \/ \E t \in Threads : Step(t)
        \/ Tick
        \/ Restart

Spec == Init /\ [][Next]_vars

(* A thread inside a call goes on; the clock advances; and the worker, which   *)
(* looks for due blocks every 30 seconds before it takes its next alert, gets  *)
(* the lock now and then however often the request threads take it.            *)
Fairness ==
    /\ WF_vars(Tick)
    /\ SF_vars(ExpireBlocks(Worker))
    /\ \A t \in Threads :
        /\ WF_vars(Enforce(t)) /\ WF_vars(WriteFile(t)) /\ WF_vars(Finish(t))
        /\ WF_vars(\E ip \in IPs : ReleaseRule(t, ip))
        /\ SF_vars(Record(t))

FairSpec == Spec /\ Fairness

-----------------------------------------------------------------------------
TypeOK ==
    /\ blocked \in Lists /\ file \in Lists
    /\ rules \in [IPs -> Nat]
    /\ lock \in Threads \cup {Free}
    /\ pc \in [Threads -> PCs]
    /\ op \in [Threads -> Locals]
    /\ mode \in BlockModes
    /\ behind \in BOOLEAN /\ misread \in BOOLEAN
    /\ now \in Nat /\ faults \in 0..MaxFault /\ restarts \in 0..MaxRestart

(* Whenever the lock is free and the last save succeeded, the block list file  *)
(* holds exactly the records in memory, so that a crash outside a save loses   *)
(* no block and revives none; only after a restart from a file with a separator*)
(* or a line break in a reason is the list what the load could make of it.     *)
FileHoldsBlocks ==
    (lock = Free /\ ~behind) =>
        \/ file = blocked
        \/ ~Readable(file) /\ restarts > 0 /\ blocked \in Loaded(file)

(* A block whose record says that the firewall enforces it is enforced by at   *)
(* least one DROP rule, unless a thread is still working on that address or a  *)
(* restart has read a list that a failed save had left behind or a line break  *)
(* in a reason had broken up.                                                  *)
BusyWith(ip) == {t \in Threads : pc[t] # "idle" /\
                                 (op[t].ip = ip \/ op[t].release[ip] # None)}
Enforced(ip) == blocked[ip] # None /\ blocked[ip].mode # "simulate"
RecordIsEnforced ==
    ~misread => \A ip \in IPs : (Enforced(ip) /\ BusyWith(ip) = {}) => rules[ip] > 0

(* A block whose lifetime is over is taken off the list (_expire_blocks).      *)
ExpiredBlockLeaves ==
    \A ip \in IPs : ip \in Due(blocked) ~> ip \notin Due(blocked)
=============================================================================
