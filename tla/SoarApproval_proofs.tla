------------------------ MODULE SoarApproval_proofs ------------------------
(* The safety of the approval gate for any number of threads, addresses and    *)
(* executions, any size of the deque and any number of restarts.               *)
(*                                                                             *)
(* None of the properties is inductive: that a request is decided once rests   *)
(* on who owns an execution at each point of the calls, and ownership rests on *)
(* deque and store agreeing.  IInv says all of it together.                    *)
EXTENDS SoarApproval, FiniteSetTheorems, TLAPS

(* The calls that own an execution: they opened it or they claimed it.         *)
Holders == {"opened", "running", "expiring", "declining", "approved", "blocking",
            "committed", "refused"}
HeldStatus(t) == IF pc[t] \in {"opened", "running"} THEN "running" ELSE "processing_approval"

(* Deque and store agree as far as saves went through; what only the deque     *)
(* holds is over or never got a row; and no id in use is above the counter.    *)
Tables ==
    /\ DequeMatchesStore
    /\ \A i \in Present(mem) \ Present(db) : mem[i].status \in Closed \cup {"running"}
    /\ \A i \in Present(mem) \cup Present(db) : i <= lastId

(* An execution that nobody has claimed: never claimed and never carried out.  *)
Untouched == \A i \in Present(db) :
    /\ db[i].status = "waiting_approval" => db[i].ip # None
    /\ db[i].status \in {"running", "waiting_approval"} => claims[i] = 0 /\ i \notin acted

(* An execution has one owner, and its row says what the owner is about.       *)
Owned == \A t \in Threads : pc[t] \in Holders =>
    /\ Held(t) \in Present(db) /\ Held(t) \notin behind
    /\ db[Held(t)].status = HeldStatus(t)
    /\ pc[t] = "opened" => db[Held(t)].ip # None
    /\ pc[t] = "running" => db[Held(t)].ip = None
    /\ Held(t) \in acted <=> pc[t] = "committed"
    /\ \A u \in Threads : pc[u] \in Holders /\ Held(u) = Held(t) => u = t

(* A call about an address has one, and the one it is about to block has been  *)
(* tested.                                                                     *)
Addressed == \A t \in Threads :
    /\ pc[t] \in {"asked", "unmatched", "opened", "claiming", "declining", "approved",
                  "blocking", "committed", "refused"} => op[t].ip # None
    /\ pc[t] \in {"fetching", "claiming"} => op[t].review \in Ids
    /\ pc[t] = "blocking" => op[t].ip \notin guarded

IInv == /\ TypeOK /\ Tables /\ Untouched /\ Owned /\ Addressed
        /\ DecidedOnce /\ OutcomeIsTrue

-----------------------------------------------------------------------------
(* The operations on deque and store.                                          *)

LEMMA EntryType ==
  ASSUME NEW e \in Entries, NEW s \in Statuses
  PROVE  /\ [e EXCEPT !.status = s] \in Entries
         /\ [e EXCEPT !.status = s].status = s
         /\ [e EXCEPT !.status = s].ip = e.ip
         /\ [e EXCEPT !.status = s].started = e.started
  BY DEF Entries

LEMMA NotAnEntry == None \notin Entries /\ None \notin IPs
  BY NoneAssumption

(* A row and its entry in the deque: the same execution, started then.         *)
LEMMA SameExecution ==
  ASSUME TypeOK, Tables, NEW i \in Present(db), mem[i] # None
  PROVE  /\ i \in Ids /\ mem[i] \in Entries /\ db[i] \in Entries
         /\ mem[i].ip = db[i].ip /\ mem[i].started = db[i].started
         /\ \A s \in Statuses : [mem[i] EXCEPT !.status = s] = [db[i] EXCEPT !.status = s]
         /\ i \notin behind => mem[i] = db[i]
  <1>1. i \in Ids /\ mem[i] \in Entries /\ db[i] \in Entries /\ i \in Present(mem)
    BY DEF Present, TypeOK
  <1>2. /\ mem[i].ip = db[i].ip /\ mem[i].started = db[i].started
        /\ i \notin behind => mem[i] = db[i]
    BY <1>1 DEF Tables, DequeMatchesStore
  <1>3. ASSUME NEW e \in Entries, NEW f \in Entries, e.ip = f.ip, e.started = f.started,
               NEW s \in Statuses
        PROVE  [e EXCEPT !.status = s] = [f EXCEPT !.status = s]
    <2>1. /\ e = [status |-> e.status, ip |-> e.ip, started |-> e.started]
          /\ f = [status |-> f.status, ip |-> f.ip, started |-> f.started]
      BY DEF Entries
    <2>2. /\ [e EXCEPT !.status = s] = [status |-> s, ip |-> e.ip, started |-> e.started]
          /\ [f EXCEPT !.status = s] = [status |-> s, ip |-> f.ip, started |-> f.started]
      BY <2>1
    <2> QED  BY <1>3, <2>2
  <1> QED  BY <1>1, <1>2, <1>3

LEMMA SetStatusEffect ==
  ASSUME TypeOK, Tables, UNCHANGED lastId,
         NEW i \in Present(db), NEW s \in Statuses, SetStatus(i, s)
  PROVE  /\ mem' \in [Ids -> Entries \cup {None}] /\ db' \in [Ids -> Entries \cup {None}]
         /\ Tables'
         /\ behind' \subseteq behind /\ UNCHANGED faults
         /\ mem[i] # None => i \notin behind'
         /\ \A j \in Ids : j # i => db'[j] = db[j]
         /\ db'[i] = db[i] \/ db'[i] = [db[i] EXCEPT !.status = s]
         /\ mem[i] # None => db'[i] = [db[i] EXCEPT !.status = s]
  <1>1. i \in Ids /\ db[i] \in Entries
    BY DEF Present, TypeOK
  <1>2. CASE mem[i] = None
    <2>1. mem' = mem /\ db' = db /\ behind' = behind /\ faults' = faults
      BY <1>2 DEF SetStatus
    <2> QED  BY <1>2, <2>1 DEF TypeOK, Tables, DequeMatchesStore, Present
  <1>3. CASE mem[i] # None
    <2> DEFINE e == [mem[i] EXCEPT !.status = s]
    <2>1. /\ mem' = [mem EXCEPT ![i] = e] /\ db' = [db EXCEPT ![i] = e]
          /\ behind' = behind \ {i} /\ faults' = faults
      BY <1>3 DEF SetStatus, Saved
    <2>2. e = [db[i] EXCEPT !.status = s] /\ mem[i] \in Entries
      BY <1>3, SameExecution
    <2>3. e \in Entries /\ e # None
      BY <2>2, EntryType, NotAnEntry
    <2> HIDE DEF e
    <2>4. Present(mem') = Present(mem) /\ Present(db') = Present(db)
      BY <1>1, <1>3, <2>1, <2>3, NotAnEntry DEF Present, TypeOK
    <2>5. Tables'
      <3>1. \A j \in Ids : j # i => mem'[j] = mem[j] /\ db'[j] = db[j]
                                     /\ (j \in behind' <=> j \in behind)
        BY <1>1, <2>1 DEF TypeOK
      <3>2. mem'[i] = db'[i]
        BY <1>1, <2>1 DEF TypeOK
      <3>3. DequeMatchesStore'
        BY <2>4, <3>1, <3>2 DEF Tables, DequeMatchesStore, Present
      <3>4. \A j \in Present(mem') \ Present(db') : j # i
        BY <2>4
      <3> QED  BY <2>4, <3>1, <3>3, <3>4 DEF Tables, Present
    <2> QED  BY <1>1, <2>1, <2>2, <2>3, <2>5 DEF TypeOK
  <1> QED  BY <1>2, <1>3

(* A status that is written to the deque and lost on its way to the store.     *)
LEMMA FailedStatusEffect ==
  ASSUME TypeOK, Tables, UNCHANGED lastId,
         NEW i \in Present(db), NEW s \in Statuses, FailedStatus(i, s),
         mem[i] = [db[i] EXCEPT !.status = s] \/ Ahead(db[i].status, s)
  PROVE  /\ mem' \in [Ids -> Entries \cup {None}] /\ UNCHANGED db
         /\ Tables'
         /\ behind' = behind \cup {i} /\ behind' \subseteq Ids /\ faults' \in 0..MaxFault
  <1> DEFINE e == [mem[i] EXCEPT !.status = s]
  <1>1. /\ mem[i] # None /\ mem' = [mem EXCEPT ![i] = e] /\ UNCHANGED db
        /\ behind' = behind \cup {i} /\ faults < MaxFault /\ faults' = faults + 1
    BY DEF FailedStatus, NotSaved
  <1>2. /\ i \in Ids /\ mem[i] \in Entries /\ db[i] \in Entries
        /\ mem[i].ip = db[i].ip /\ mem[i].started = db[i].started
        /\ e = [db[i] EXCEPT !.status = s]
    BY <1>1, SameExecution
  <1>3. /\ e \in Entries /\ e # None /\ e.status = s /\ e.ip = db[i].ip
        /\ e.started = db[i].started
    BY <1>2, EntryType, NotAnEntry
  <1>4. e = db[i] \/ Ahead(db[i].status, e.status)
    <2>1. CASE mem[i] = [db[i] EXCEPT !.status = s]
      <3>1. mem[i].status = s /\ e = mem[i]
        BY <1>2, <1>3, <2>1
      <3>2. mem[i] = db[i] \/ Ahead(db[i].status, mem[i].status)
        BY <1>1, <1>2 DEF Tables, DequeMatchesStore, Present
      <3> QED  BY <3>1, <3>2
    <2>2. CASE Ahead(db[i].status, s)
      BY <1>3, <2>2
    <2> QED  BY <2>1, <2>2
  <1> HIDE DEF e
  <1>5. mem' \in [Ids -> Entries \cup {None}]
    BY <1>1, <1>3 DEF TypeOK
  <1>6. Present(mem') = Present(mem)
    BY <1>1, <1>2, <1>3 DEF Present, TypeOK
  <1>7. /\ \A j \in Ids : j # i => mem'[j] = mem[j] /\ (j \in behind' <=> j \in behind)
        /\ mem'[i] = e /\ i \in behind'
    BY <1>1, <1>2 DEF TypeOK
  <1>8. DequeMatchesStore'
    BY <1>1, <1>3, <1>4, <1>6, <1>7 DEF Tables, DequeMatchesStore, Present
  <1>9. Tables'
    <2>1. \A j \in Present(mem') \ Present(db') : j # i /\ mem'[j] = mem[j]
      BY <1>1, <1>7 DEF Present
    <2> QED  BY <1>1, <1>6, <1>8, <2>1 DEF Tables, Present
  <1>10. behind' \subseteq Ids /\ faults' \in 0..MaxFault
    BY <1>1, <1>2, BoundAssumption DEF TypeOK
  <1> QED  BY <1>1, <1>5, <1>9, <1>10

(* A new entry, with a row or without one.                                     *)
LEMMA AppendEffect ==
  ASSUME TypeOK, Tables, NEW ip \in IPs \cup {None}, Append(ip)
  PROVE  /\ mem' \in [Ids -> Entries \cup {None}]
         /\ lastId' = lastId + 1 /\ lastId' \in Ids /\ lastId' \in 0..MaxId
         /\ NewEntry(ip) \in Entries /\ NewEntry(ip) # None
         /\ NewEntry(ip).status = "running" /\ NewEntry(ip).ip = ip
         /\ mem[lastId'] = None /\ db[lastId'] = None
         /\ \A j \in Ids : \/ mem'[j] = None
                            \/ (mem'[j] = IF j = lastId' THEN NewEntry(ip) ELSE mem[j])
         /\ claims' = [claims EXCEPT ![lastId'] = 0] /\ acted' = acted \ {lastId'}
         /\ claims' \in [Ids -> Nat] /\ acted' \subseteq Ids
  <1> DEFINE e == NewEntry(ip)
             full == [mem EXCEPT ![lastId'] = e]
             kept == Newest(Present(mem) \cup {lastId'})
  <1>1. lastId' = lastId + 1 /\ lastId' \in Ids /\ lastId' \in 0..MaxId
    BY BoundAssumption DEF Append, Ids, TypeOK
  <1>2. e \in Entries /\ e # None /\ e.status = "running" /\ e.ip = ip
    <2>1. e \in Entries
      BY BoundAssumption DEF Entries, Statuses, TypeOK, NewEntry
    <2> QED  BY <2>1, NotAnEntry DEF NewEntry
  <1>3. mem' = Keep(full, kept)
    BY <1>1 DEF Append
  <1>4. mem[lastId'] = None /\ db[lastId'] = None
    BY <1>1 DEF Tables, Present, TypeOK
  <1>5. /\ claims' = [claims EXCEPT ![lastId'] = 0] /\ acted' = acted \ {lastId'}
        /\ claims' \in [Ids -> Nat] /\ acted' \subseteq Ids
    BY <1>1 DEF Append, TypeOK
  <1> HIDE DEF e, kept
  <1>6. \A j \in Ids : mem'[j] = None \/ (mem'[j] = IF j = lastId' THEN e ELSE mem[j])
    BY <1>1, <1>3 DEF Keep, TypeOK
  <1>7. mem' \in [Ids -> Entries \cup {None}]
    BY <1>2, <1>3, <1>6 DEF Keep, TypeOK
  <1> QED  BY <1>1, <1>2, <1>4, <1>5, <1>6, <1>7 DEF e

LEMMA StartEffect ==
  ASSUME TypeOK, Tables, NEW ip \in IPs \cup {None}, ExecutionStart(ip)
  PROVE  /\ mem' \in [Ids -> Entries \cup {None}] /\ db' \in [Ids -> Entries \cup {None}]
         /\ Tables'
         /\ behind' = behind \ {lastId'} /\ UNCHANGED faults
         /\ lastId' = lastId + 1 /\ lastId' \in Ids
         /\ db[lastId'] = None
         /\ \A j \in Ids : j # lastId' => db'[j] = db[j]
         /\ db'[lastId'] \in Entries /\ db'[lastId'] # None
         /\ db'[lastId'].status = "running" /\ db'[lastId'].ip = ip
  <1> DEFINE e == NewEntry(ip)
             i == lastId'
  <1>1. Append(ip) /\ lastId' = lastId + 1
    BY DEF ExecutionStart, Append
  <1>2. /\ mem' \in [Ids -> Entries \cup {None}]
        /\ i \in Ids /\ i \in 0..MaxId
        /\ e \in Entries /\ e # None /\ e.status = "running" /\ e.ip = ip
        /\ mem[i] = None /\ db[i] = None
        /\ \A j \in Ids : mem'[j] = None \/ (mem'[j] = IF j = i THEN e ELSE mem[j])
    BY <1>1, AppendEffect
  <1>3. db' = [db EXCEPT ![i] = e] /\ behind' = behind \ {i} /\ UNCHANGED faults
    BY <1>1 DEF ExecutionStart, Saved
  <1> HIDE DEF e
  <1>4. \A j \in Ids : db'[j] = IF j = i THEN e ELSE db[j]
    BY <1>2, <1>3 DEF TypeOK
  <1>5. db' \in [Ids -> Entries \cup {None}]
    BY <1>2, <1>3 DEF TypeOK
  <1>6. DequeMatchesStore'
    <2> SUFFICES ASSUME NEW j \in Ids, mem'[j] # None, db'[j] # None
                 PROVE  \/ mem'[j] = db'[j]
                        \/ /\ j \in behind'
                           /\ mem'[j].ip = db'[j].ip /\ mem'[j].started = db'[j].started
                           /\ Ahead(db'[j].status, mem'[j].status)
      BY DEF DequeMatchesStore, Present
    <2>1. CASE j = i
      BY <1>2, <1>4, <2>1
    <2>2. CASE j # i
      <3>1. /\ mem'[j] = mem[j] /\ db'[j] = db[j] /\ (j \in behind' <=> j \in behind)
            /\ j \in Present(mem) /\ j \in Present(db)
        BY <1>2, <1>3, <1>4, <2>2 DEF Present
      <3> QED  BY <3>1 DEF Tables, DequeMatchesStore
    <2> QED  BY <2>1, <2>2
  <1>7. Tables'
    <2>1. \A j \in Present(mem') \ Present(db') : j \in Present(mem) \ Present(db) /\ mem'[j] = mem[j]
      BY <1>2, <1>4 DEF Present
    <2>2. \A j \in Present(mem') \cup Present(db') : j = i \/ j \in Present(mem) \cup Present(db)
      BY <1>2, <1>4 DEF Present
    <2> QED  BY <1>1, <1>6, <2>1, <2>2 DEF Tables, TypeOK, Present, Ids
  <1> QED  BY <1>1, <1>2, <1>3, <1>4, <1>5, <1>7

LEMMA FailedStartEffect ==
  ASSUME TypeOK, Tables, NEW ip \in IPs \cup {None}, FailedStart(ip)
  PROVE  /\ mem' \in [Ids -> Entries \cup {None}] /\ UNCHANGED db
         /\ Tables'
         /\ behind' = behind \cup {lastId'} /\ behind' \subseteq Ids /\ faults' \in 0..MaxFault
         /\ lastId' \in 0..MaxId /\ lastId' \in Ids /\ lastId' \notin Present(db)
         /\ claims' = [claims EXCEPT ![lastId'] = 0] /\ acted' = acted \ {lastId'}
         /\ claims' \in [Ids -> Nat] /\ acted' \subseteq Ids
  <1> DEFINE e == NewEntry(ip)
             i == lastId'
  <1>1. Append(ip) /\ lastId' = lastId + 1
    BY DEF FailedStart, Append
  <1>2. /\ mem' \in [Ids -> Entries \cup {None}]
        /\ i \in Ids /\ i \in 0..MaxId
        /\ e.status = "running"
        /\ db[i] = None
        /\ \A j \in Ids : mem'[j] = None \/ (mem'[j] = IF j = i THEN e ELSE mem[j])
        /\ claims' = [claims EXCEPT ![i] = 0] /\ acted' = acted \ {i}
        /\ claims' \in [Ids -> Nat] /\ acted' \subseteq Ids
    BY <1>1, AppendEffect
  <1>3. UNCHANGED db /\ behind' = behind \cup {i} /\ faults < MaxFault /\ faults' = faults + 1
    BY <1>1 DEF FailedStart, NotSaved
  <1> HIDE DEF e
  <1>4. DequeMatchesStore'
    <2> SUFFICES ASSUME NEW j \in Ids, mem'[j] # None, db'[j] # None
                 PROVE  \/ mem'[j] = db'[j]
                        \/ /\ j \in behind'
                           /\ mem'[j].ip = db'[j].ip /\ mem'[j].started = db'[j].started
                           /\ Ahead(db'[j].status, mem'[j].status)
      BY DEF DequeMatchesStore, Present
    <2>1. j # i /\ mem'[j] = mem[j] /\ db'[j] = db[j] /\ (j \in behind' <=> j \in behind)
          /\ j \in Present(mem) /\ j \in Present(db)
      BY <1>2, <1>3 DEF Present
    <2> QED  BY <2>1 DEF Tables, DequeMatchesStore
  <1>5. Tables'
    <2>1. \A j \in Present(mem') \ Present(db') :
             mem'[j] = e \/ (j \in Present(mem) \ Present(db) /\ mem'[j] = mem[j])
      <3> SUFFICES ASSUME NEW j \in Ids, mem'[j] # None, db'[j] = None
                   PROVE  mem'[j] = e \/ (mem[j] # None /\ db[j] = None /\ mem'[j] = mem[j])
        BY DEF Present
      <3> QED  BY <1>2, <1>3
    <2>2. \A j \in Present(mem') \cup Present(db') : j = i \/ j \in Present(mem) \cup Present(db)
      BY <1>2, <1>3 DEF Present
    <2> QED  BY <1>1, <1>2, <1>4, <2>1, <2>2 DEF Tables, TypeOK, Present, Ids
  <1>6. behind' \subseteq Ids /\ faults' \in 0..MaxFault
    BY <1>2, <1>3, BoundAssumption DEF TypeOK
  <1> QED  BY <1>2, <1>3, <1>5, <1>6 DEF Present

-----------------------------------------------------------------------------
(* What the pieces of a call do to ownership and outcome.                      *)

Facts == Tables /\ Untouched /\ Owned /\ DecidedOnce /\ OutcomeIsTrue
OthersStay(t) == \A u \in Threads \ {t} : pc'[u] = pc[u] /\ op'[u] = op[u]
Data == <<mem, db, behind, lastId, claims, acted>>

(* A piece that leaves all data alone and owns nothing when it is done.        *)
LEMMA QuietPiece ==
  ASSUME TypeOK, Facts, UNCHANGED Data, NEW t \in Threads, OthersStay(t),
         pc'[t] \notin Holders
  PROVE  Facts'
  <1>1. UNCHANGED <<mem, db, behind, lastId, claims, acted>>
    BY DEF Data
  <1>2. Tables' /\ Untouched' /\ DecidedOnce' /\ OutcomeIsTrue'
    BY <1>1 DEF Facts, Tables, DequeMatchesStore, Untouched, DecidedOnce, OutcomeIsTrue,
                Present
  <1>3. \A u \in Threads : pc'[u] \in Holders =>
           u # t /\ pc'[u] = pc[u] /\ Held(u)' = Held(u) /\ HeldStatus(u)' = HeldStatus(u)
    BY DEF OthersStay, Held, HeldStatus
  <1>4. Owned'
    BY <1>1, <1>3 DEF Facts, Owned, Present
  <1> QED  BY <1>2, <1>4 DEF Facts

(* The owner of an execution ends its ownership: it leaves the row as it is,   *)
(* publishes a request or writes the outcome.                                  *)
LEMMA EndStatuses ==
  ASSUME NEW t \in Threads, NEW s \in Statuses, Ends(t, s)
  PROVE  \/ pc[t] = "opened" /\ s = "waiting_approval"
         \/ pc[t] = "running" /\ s \in {"completed", "failed"}
         \/ pc[t] = "committed" /\ s = "completed"
         \/ pc[t] \in {"expiring", "declining", "refused"}
            /\ s \in {"expired", "cancelled", "rejected", "failed"}
  BY DEF Ends, Declined, ApprovedStatus

LEMMA EndOfOwnership ==
  ASSUME TypeOK, Facts, UNCHANGED <<lastId, claims, acted>>,
         NEW t \in Threads, OthersStay(t), pc[t] \in Holders, pc'[t] \notin Holders,
         NEW s \in Statuses, Ends(t, s), SetStatus(Held(t), s)
  PROVE  /\ Facts'
         /\ mem' \in [Ids -> Entries \cup {None}] /\ db' \in [Ids -> Entries \cup {None}]
         /\ behind' \subseteq Ids /\ faults' \in 0..MaxFault
  <1> DEFINE i == Held(t)
  <1>1. /\ i \in Present(db) /\ i \in Ids /\ db[i] \in Entries
        /\ db[i].status = HeldStatus(t)
    BY DEF Facts, Owned, Present, TypeOK
  <1>2. /\ mem' \in [Ids -> Entries \cup {None}] /\ db' \in [Ids -> Entries \cup {None}]
        /\ Tables'
        /\ behind' \subseteq behind
        /\ \A j \in Ids : j # i => db'[j] = db[j]
        /\ db'[i] = db[i] \/ db'[i] = [db[i] EXCEPT !.status = s]
    BY <1>1, SetStatusEffect DEF Facts
  <1>3. /\ db'[i] \in Entries /\ db'[i].ip = db[i].ip
        /\ db'[i] = db[i] \/ db'[i].status = s
    <2>1. CASE db'[i] = db[i]
      BY <1>1, <2>1
    <2>2. CASE db'[i] = [db[i] EXCEPT !.status = s]
      BY <1>1, <2>2, EntryType
    <2> QED  BY <1>2, <2>1, <2>2
  <1>4. Present(db') = Present(db)
    BY <1>1, <1>2, <1>3, NotAnEntry DEF Present
  <1>5. /\ i \in acted <=> pc[t] = "committed"
        /\ pc[t] = "opened" => db[i].ip # None
        /\ pc[t] = "running" => db[i].ip = None
        /\ \A u \in Threads : pc[u] \in Holders /\ Held(u) = i => u = t
    BY DEF Facts, Owned
  <1>6. Untouched'
    <2>1. ASSUME NEW j \in Present(db), j # i
          PROVE  /\ db'[j].status = "waiting_approval" => db'[j].ip # None
                 /\ db'[j].status \in {"running", "waiting_approval"}
                      => claims'[j] = 0 /\ j \notin acted'
      BY <1>2, <2>1 DEF Facts, Untouched, Present
    <2>2. /\ db'[i].status = "waiting_approval" => db'[i].ip # None
          /\ db'[i].status \in {"running", "waiting_approval"}
               => claims'[i] = 0 /\ i \notin acted'
      BY <1>1, <1>3, <1>5, EndStatuses DEF Facts, Untouched, HeldStatus
    <2> QED  BY <1>4, <2>1, <2>2 DEF Untouched
  <1>7. OutcomeIsTrue'
    <2>1. ASSUME NEW j \in Present(db), j # i, db'[j].ip # None
          PROVE  /\ j \in acted' => db'[j].status \in
                                      {"processing_approval", "completed", "interrupted"}
                 /\ db'[j].status = "completed" => j \in acted'
      BY <1>2, <2>1 DEF Facts, OutcomeIsTrue, Present
    <2>2. ASSUME db'[i].ip # None
          PROVE  /\ i \in acted' => db'[i].status \in
                                      {"processing_approval", "completed", "interrupted"}
                 /\ db'[i].status = "completed" => i \in acted'
      BY <1>1, <1>3, <1>5, <2>2, EndStatuses DEF Facts, OutcomeIsTrue
    <2> QED  BY <1>4, <2>1, <2>2 DEF OutcomeIsTrue
  <1>8. \A u \in Threads : pc'[u] \in Holders =>
           /\ u # t /\ pc'[u] = pc[u] /\ Held(u)' = Held(u)
           /\ HeldStatus(u)' = HeldStatus(u) /\ Held(u) # i
    BY <1>5 DEF OthersStay, Held, HeldStatus
  <1>9. Owned'
    <2>1. \A u \in Threads : pc[u] \in Holders => Held(u) \in Ids
      BY DEF Facts, Owned, Present
    <2> QED  BY <1>2, <1>4, <1>8, <2>1 DEF Facts, Owned
  <1>10. DecidedOnce'
    BY DEF Facts, DecidedOnce
  <1>11. behind' \subseteq Ids /\ faults' \in 0..MaxFault
    BY <1>1, <1>2, SetStatusEffect DEF Facts, TypeOK
  <1> QED  BY <1>2, <1>6, <1>7, <1>9, <1>10, <1>11 DEF Facts

(* What waits in the deque has a row without a decision, and no owner.         *)
LEMMA WaitingRow ==
  ASSUME TypeOK, Tables, Owned, NEW i \in Ids, Waiting(i)
  PROVE  /\ i \in Present(db) /\ db[i] \in Entries /\ mem[i] # None
         /\ db[i].status \in {"running", "waiting_approval"}
         /\ \A u \in Threads : pc[u] \in Holders => Held(u) # i
  <1>1. mem[i] # None /\ mem[i].status = "waiting_approval" /\ i \in Present(mem)
    BY DEF Waiting, Present
  <1>2. i \in Present(db)
    BY <1>1 DEF Tables, Closed
  <1>3. db[i] \in Entries
    BY <1>2 DEF TypeOK, Present
  <1>4. \/ db[i].status = "waiting_approval"
        \/ i \in behind /\ db[i].status = "running"
    BY <1>1, <1>2 DEF Tables, DequeMatchesStore, Ahead, Closed
  <1>5. ASSUME NEW u \in Threads, pc[u] \in Holders, Held(u) = i PROVE FALSE
    BY <1>4, <1>5 DEF Owned, HeldStatus
  <1> QED  BY <1>1, <1>2, <1>3, <1>4, <1>5

(* A claim: a waiting request gets the thread that found it as its owner.      *)
LEMMA StartOfOwnership ==
  ASSUME TypeOK, Facts, UNCHANGED <<lastId, acted>>,
         NEW t \in Threads, OthersStay(t), pc[t] \notin Holders,
         pc'[t] \in {"expiring", "declining", "approved"},
         NEW i \in Ids, Claimable(i), Claim(i), Held(t)' = i
  PROVE  /\ Facts'
         /\ mem' \in [Ids -> Entries \cup {None}] /\ db' \in [Ids -> Entries \cup {None}]
         /\ claims' \in [Ids -> Nat] /\ behind' \subseteq Ids /\ faults' \in 0..MaxFault
  <1>1. /\ i \in Present(db) /\ db[i] \in Entries /\ mem[i] # None
        /\ db[i].status \in {"running", "waiting_approval"}
        /\ \A u \in Threads : pc[u] \in Holders => Held(u) # i
    BY WaitingRow DEF Claimable, Facts
  <1>2. /\ mem' \in [Ids -> Entries \cup {None}] /\ db' \in [Ids -> Entries \cup {None}]
        /\ Tables' /\ behind' \subseteq behind /\ i \notin behind' /\ faults' = faults
        /\ \A j \in Ids : j # i => db'[j] = db[j]
        /\ db'[i] = [db[i] EXCEPT !.status = "processing_approval"]
    <2>1. "processing_approval" \in Statuses
      BY DEF Statuses
    <2> QED  BY <1>1, <2>1, SetStatusEffect DEF Facts, Claim
  <1>3. db'[i] \in Entries /\ db'[i].ip = db[i].ip /\ db'[i].status = "processing_approval"
    BY <1>1, <1>2, EntryType DEF Statuses
  <1>4. Present(db') = Present(db)
    BY <1>1, <1>2, <1>3, NotAnEntry DEF Present
  <1>5. /\ claims' = [claims EXCEPT ![i] = @ + 1] /\ claims[i] = 0 /\ i \notin acted
    BY <1>1 DEF Facts, Untouched, Claim
  <1>6. claims' \in [Ids -> Nat] /\ DecidedOnce'
    BY <1>5 DEF TypeOK, Facts, DecidedOnce
  <1>7. Untouched'
    BY <1>2, <1>3, <1>4, <1>5 DEF Facts, Untouched, Present, TypeOK
  <1>8. OutcomeIsTrue'
    BY <1>2, <1>3, <1>4, <1>5 DEF Facts, OutcomeIsTrue, Present
  <1>9. \A u \in Threads : u # t /\ pc'[u] \in Holders =>
           /\ pc'[u] = pc[u] /\ Held(u)' = Held(u) /\ HeldStatus(u)' = HeldStatus(u)
           /\ Held(u) # i /\ Held(u) \in Ids
    BY <1>1 DEF OthersStay, Held, HeldStatus, Facts, Owned, Present
  <1>10. /\ Held(t)' \in Present(db') /\ Held(t)' \notin behind' /\ db'[Held(t)'].status = HeldStatus(t)'
         /\ Held(t)' \notin acted'
    BY <1>1, <1>2, <1>3, <1>4, <1>5 DEF HeldStatus
  <1>11. Owned'
    <2> SUFFICES ASSUME NEW u \in Threads, pc'[u] \in Holders
                 PROVE  /\ Held(u)' \in Present(db') /\ Held(u)' \notin behind'
                        /\ db'[Held(u)'].status = HeldStatus(u)'
                        /\ pc'[u] = "opened" => db'[Held(u)'].ip # None
                        /\ pc'[u] = "running" => db'[Held(u)'].ip = None
                        /\ Held(u)' \in acted' <=> pc'[u] = "committed"
                        /\ \A v \in Threads : pc'[v] \in Holders /\ Held(v)' = Held(u)'
                                               => v = u
      BY DEF Owned
    <2>1. CASE u = t
      BY <1>9, <1>10, <2>1
    <2>2. CASE u # t
      BY <1>2, <1>4, <1>9, <2>2 DEF Facts, Owned
    <2> QED  BY <2>1, <2>2
  <1>12. behind' \subseteq Ids /\ faults' \in 0..MaxFault
    BY <1>2 DEF TypeOK
  <1> QED  BY <1>2, <1>6, <1>7, <1>8, <1>11, <1>12 DEF Facts

(* A new execution, owned by the call that opened it.                          *)
LEMMA NewExecution ==
  ASSUME TypeOK, Facts, NEW t \in Threads, OthersStay(t), pc[t] \notin Holders,
         NEW ip \in IPs \cup {None}, ExecutionStart(ip), Held(t)' = lastId + 1,
         \/ pc'[t] = "opened" /\ ip # None
         \/ pc'[t] = "running" /\ ip = None
  PROVE  /\ Facts'
         /\ mem' \in [Ids -> Entries \cup {None}] /\ db' \in [Ids -> Entries \cup {None}]
         /\ behind' \subseteq Ids /\ faults' \in 0..MaxFault
         /\ claims' \in [Ids -> Nat] /\ acted' \subseteq Ids /\ lastId' \in 0..MaxId
         /\ lastId + 1 \in 0..MaxId
  <1> DEFINE i == lastId'
  <1>1. /\ mem' \in [Ids -> Entries \cup {None}] /\ db' \in [Ids -> Entries \cup {None}]
        /\ Tables'
        /\ i = lastId + 1 /\ i \in Ids
        /\ db[i] = None
        /\ \A j \in Ids : j # i => db'[j] = db[j]
        /\ db'[i] \in Entries /\ db'[i] # None
        /\ db'[i].status = "running" /\ db'[i].ip = ip
        /\ behind' = behind \ {i} /\ UNCHANGED faults
    BY StartEffect DEF Facts
  <1>2. Present(db') = Present(db) \cup {i} /\ i \notin Present(db) /\ Present(db) \subseteq Ids
    BY <1>1 DEF Present
  <1>3. claims' = [claims EXCEPT ![i] = 0] /\ acted' = acted \ {i}
    BY <1>1 DEF ExecutionStart, Append
  <1>4. claims' \in [Ids -> Nat] /\ acted' \subseteq Ids /\ DecidedOnce'
    BY <1>1, <1>3 DEF TypeOK, Facts, DecidedOnce
  <1>5. lastId' \in 0..MaxId /\ lastId + 1 \in 0..MaxId
    BY <1>1, BoundAssumption DEF Ids
  <1> HIDE DEF i
  <1>6. Untouched'
    <2>1. \A j \in Present(db) : /\ db'[j] = db[j] /\ (j \in acted' <=> j \in acted)
                               /\ claims'[j] = claims[j]
      BY <1>1, <1>2, <1>3 DEF TypeOK
    <2>2. claims'[i] = 0 /\ i \notin acted' /\ db'[i].status = "running"
      BY <1>1, <1>3 DEF TypeOK
    <2> QED  BY <1>2, <2>1, <2>2 DEF Facts, Untouched
  <1>7. OutcomeIsTrue'
    <2>1. \A j \in Present(db) : db'[j] = db[j] /\ (j \in acted' <=> j \in acted)
      BY <1>1, <1>2, <1>3
    <2>2. db'[i].status = "running" /\ i \notin acted'
      BY <1>1, <1>3
    <2> QED  BY <1>2, <2>1, <2>2 DEF Facts, OutcomeIsTrue
  <1>8. \A u \in Threads : u # t /\ pc'[u] \in Holders =>
           /\ pc'[u] = pc[u] /\ Held(u)' = Held(u) /\ HeldStatus(u)' = HeldStatus(u)
           /\ Held(u) # i /\ Held(u) \in Present(db) /\ Held(u) \notin behind'
    BY <1>1, <1>2 DEF OthersStay, Held, HeldStatus, Facts, Owned
  <1>9. /\ Held(t)' = i /\ i \notin behind' /\ db'[i].status = HeldStatus(t)' /\ i \notin acted'
        /\ pc'[t] = "opened" => db'[i].ip # None
        /\ pc'[t] = "running" => db'[i].ip = None
    BY <1>1, <1>3 DEF HeldStatus
  <1>10. Owned'
    <2> SUFFICES ASSUME NEW u \in Threads, pc'[u] \in Holders
                 PROVE  /\ Held(u)' \in Present(db') /\ Held(u)' \notin behind'
                        /\ db'[Held(u)'].status = HeldStatus(u)'
                        /\ pc'[u] = "opened" => db'[Held(u)'].ip # None
                        /\ pc'[u] = "running" => db'[Held(u)'].ip = None
                        /\ Held(u)' \in acted' <=> pc'[u] = "committed"
                        /\ \A v \in Threads : pc'[v] \in Holders /\ Held(v)' = Held(u)'
                                               => v = u
      BY DEF Owned
    <2>1. CASE u = t
      BY <1>2, <1>8, <1>9, <2>1
    <2>2. CASE u # t
      <3>1. /\ pc'[u] = pc[u] /\ Held(u)' = Held(u) /\ HeldStatus(u)' = HeldStatus(u)
            /\ Held(u) # i /\ Held(u) \in Present(db) /\ Held(u) \notin behind' /\ pc[u] \in Holders
        BY <1>8, <2>2
      <3>2. /\ db'[Held(u)] = db[Held(u)] /\ Held(u) \in Present(db')
            /\ Held(u) \in acted' <=> Held(u) \in acted
        BY <1>1, <1>2, <1>3, <3>1
      <3>3. /\ db[Held(u)].status = HeldStatus(u)
            /\ pc[u] = "opened" => db[Held(u)].ip # None
            /\ pc[u] = "running" => db[Held(u)].ip = None
            /\ Held(u) \in acted <=> pc[u] = "committed"
        BY <3>1 DEF Facts, Owned
      <3>4. \A v \in Threads : pc'[v] \in Holders /\ Held(v)' = Held(u)' => v = u
        BY <1>8, <1>9, <3>1 DEF Facts, Owned, OthersStay
      <3> QED  BY <3>1, <3>2, <3>3, <3>4
    <2> QED  BY <2>1, <2>2
  <1>11. behind' \subseteq Ids /\ faults' \in 0..MaxFault
    BY <1>1 DEF TypeOK, i
  <1> QED  BY <1>1, <1>4, <1>5, <1>6, <1>7, <1>10, <1>11 DEF Facts

(* The owner of an approved request makes the block, or goes on to do so.      *)
LEMMA Approved ==
  ASSUME TypeOK, Facts, UNCHANGED <<mem, db, behind, lastId, claims>>,
         NEW t \in Threads, OthersStay(t), op'[t] = op[t],
         \/ /\ pc[t] = "approved" /\ pc'[t] \in {"blocking", "refused"} /\ UNCHANGED acted
         \/ /\ pc[t] = "blocking" /\ pc'[t] = "committed"
            /\ acted' = acted \cup {op[t].review}
  PROVE  Facts' /\ acted' \subseteq Ids
  <1> DEFINE i == op[t].review
  <1>1. /\ Held(t) = i /\ Held(t)' = i /\ pc[t] \in Holders /\ pc'[t] \in Holders
        /\ HeldStatus(t) = "processing_approval" /\ HeldStatus(t)' = "processing_approval"
    BY DEF Held, HeldStatus, Holders
  <1>2. /\ i \in Present(db) /\ i \in Ids /\ db[i].status = "processing_approval"
        /\ i \notin acted
    BY <1>1 DEF Facts, Owned, Present
  <1>3. acted' \subseteq Ids /\ acted' \subseteq acted \cup {i} /\ acted \subseteq acted'
    BY <1>2 DEF TypeOK
  <1>4. Tables' /\ DecidedOnce'
    BY DEF Facts, Tables, DequeMatchesStore, DecidedOnce, Present
  <1>5. Untouched' /\ OutcomeIsTrue'
    BY <1>2, <1>3 DEF Facts, Untouched, OutcomeIsTrue, Present
  <1>6. \A u \in Threads : u # t /\ pc'[u] \in Holders =>
           /\ pc'[u] = pc[u] /\ Held(u)' = Held(u) /\ HeldStatus(u)' = HeldStatus(u)
           /\ Held(u) # i
    BY <1>1 DEF OthersStay, Held, HeldStatus, Facts, Owned
  <1>7. Owned'
    <2> SUFFICES ASSUME NEW u \in Threads, pc'[u] \in Holders
                 PROVE  /\ Held(u)' \in Present(db') /\ Held(u)' \notin behind'
                        /\ db'[Held(u)'].status = HeldStatus(u)'
                        /\ pc'[u] = "opened" => db'[Held(u)'].ip # None
                        /\ pc'[u] = "running" => db'[Held(u)'].ip = None
                        /\ Held(u)' \in acted' <=> pc'[u] = "committed"
                        /\ \A v \in Threads : pc'[v] \in Holders /\ Held(v)' = Held(u)'
                                               => v = u
      BY DEF Owned
    <2>1. CASE u = t
      BY <1>1, <1>2, <1>6, <2>1 DEF Facts, Owned, Present
    <2>2. CASE u # t
      BY <1>1, <1>2, <1>3, <1>6, <2>2 DEF Facts, Owned, Present
    <2> QED  BY <2>1, <2>2
  <1> QED  BY <1>3, <1>4, <1>5, <1>7 DEF Facts

(* A call that loses a save leaves; its row stays as it is.                    *)
LEMMA FailedPiece ==
  ASSUME TypeOK, Facts, UNCHANGED <<lastId, claims, acted>>,
         NEW t \in Threads, OthersStay(t), pc'[t] \notin Holders,
         NEW i \in Present(db), NEW s \in Statuses, FailedStatus(i, s),
         mem[i] = [db[i] EXCEPT !.status = s] \/ Ahead(db[i].status, s),
         \A u \in Threads \ {t} : pc[u] \in Holders => Held(u) # i
  PROVE  /\ Facts'
         /\ mem' \in [Ids -> Entries \cup {None}] /\ db' \in [Ids -> Entries \cup {None}]
         /\ behind' \subseteq Ids /\ faults' \in 0..MaxFault
  <1>1. /\ mem' \in [Ids -> Entries \cup {None}] /\ UNCHANGED db /\ Tables'
        /\ behind' = behind \cup {i} /\ behind' \subseteq Ids /\ faults' \in 0..MaxFault
    BY FailedStatusEffect DEF Facts
  <1>2. Untouched' /\ DecidedOnce' /\ OutcomeIsTrue'
    BY <1>1 DEF Facts, Untouched, DecidedOnce, OutcomeIsTrue, Present
  <1>3. \A u \in Threads : pc'[u] \in Holders =>
           /\ u # t /\ pc'[u] = pc[u] /\ Held(u)' = Held(u) /\ HeldStatus(u)' = HeldStatus(u)
           /\ Held(u) # i
    BY DEF OthersStay, Held, HeldStatus
  <1>4. Owned'
    BY <1>1, <1>3 DEF Facts, Owned, Present
  <1> QED  BY <1>1, <1>2, <1>4 DEF Facts, TypeOK

LEMMA FailedOpening ==
  ASSUME TypeOK, Facts, NEW t \in Threads, OthersStay(t), pc'[t] \notin Holders,
         NEW ip \in IPs \cup {None}, FailedStart(ip)
  PROVE  /\ Facts'
         /\ mem' \in [Ids -> Entries \cup {None}] /\ db' \in [Ids -> Entries \cup {None}]
         /\ behind' \subseteq Ids /\ faults' \in 0..MaxFault
         /\ claims' \in [Ids -> Nat] /\ acted' \subseteq Ids /\ lastId' \in 0..MaxId
  <1>1. PICK i \in Ids :
        /\ i = lastId' /\ i \notin Present(db) /\ UNCHANGED db
        /\ mem' \in [Ids -> Entries \cup {None}] /\ Tables'
        /\ behind' = behind \cup {i} /\ behind' \subseteq Ids /\ faults' \in 0..MaxFault
        /\ lastId' \in 0..MaxId
        /\ claims' = [claims EXCEPT ![i] = 0] /\ acted' = acted \ {i}
        /\ claims' \in [Ids -> Nat] /\ acted' \subseteq Ids
    BY FailedStartEffect DEF Facts
  <1>2. \A j \in Present(db) : /\ claims'[j] = claims[j] /\ (j \in acted' <=> j \in acted)
                               /\ j \in Ids /\ j # i
    BY <1>1 DEF TypeOK, Present
  <1>3. DecidedOnce'
    BY <1>1 DEF Facts, DecidedOnce, TypeOK
  <1>4. Untouched' /\ OutcomeIsTrue'
    BY <1>1, <1>2 DEF Facts, Untouched, OutcomeIsTrue, Present
  <1>5. \A u \in Threads : pc'[u] \in Holders =>
           /\ u # t /\ pc'[u] = pc[u] /\ Held(u)' = Held(u) /\ HeldStatus(u)' = HeldStatus(u)
           /\ Held(u) \in Present(db)
    BY DEF OthersStay, Held, HeldStatus, Facts, Owned
  <1>6. Owned'
    BY <1>1, <1>2, <1>5 DEF Facts, Owned, Present
  <1> QED  BY <1>1, <1>3, <1>4, <1>6 DEF Facts, TypeOK

(* Retention takes closed rows, which nobody owns.                             *)
LEMMA PurgeEffect ==
  ASSUME TypeOK, Facts, NEW gone \in SUBSET Ids, Purge(gone)
  PROVE  Facts' /\ db' \in [Ids -> Entries \cup {None}]
  <1>1. /\ gone \subseteq Present(db) /\ \A i \in gone : db[i].status \in Closed
        /\ db' = Keep(db, Ids \ gone)
        /\ UNCHANGED <<mem, behind, lastId, pc, op, claims, acted>>
    BY DEF Purge, Unnoted
  <1>2. \A i \in Ids : db'[i] = IF i \in gone THEN None ELSE db[i]
    BY <1>1 DEF Keep
  <1>3. db' \in [Ids -> Entries \cup {None}] /\ Present(db') = Present(db) \ gone
    BY <1>1, <1>2 DEF Keep, Present, TypeOK
  <1>4. Tables'
    BY <1>1, <1>2, <1>3 DEF Facts, Tables, DequeMatchesStore, Present, Ahead, Closed
  <1>5. Untouched' /\ OutcomeIsTrue' /\ DecidedOnce'
    BY <1>1, <1>2, <1>3 DEF Facts, Untouched, OutcomeIsTrue, DecidedOnce, Present
  <1>6. \A t \in Threads : /\ Held(t)' = Held(t) /\ HeldStatus(t)' = HeldStatus(t)
                           /\ pc[t] \in Holders => Held(t) \notin gone
    BY <1>1 DEF Held, HeldStatus, Facts, Owned, Closed
  <1>7. \A t \in Threads : pc[t] \in Holders =>
           Held(t) \in Present(db') /\ db'[Held(t)] = db[Held(t)]
    BY <1>2, <1>3, <1>6 DEF Facts, Owned, Present
  <1>8. Owned'
    <2>1. \A t \in Threads : /\ pc'[t] = pc[t] /\ Held(t)' = Held(t)
                             /\ HeldStatus(t)' = HeldStatus(t)
                             /\ (Held(t) \in acted') <=> (Held(t) \in acted)
      BY <1>1, <1>6
    <2>2. behind' = behind
      BY <1>1
    <2>3. ASSUME NEW t \in Threads, pc[t] \in Holders
          PROVE  /\ Held(t) \in Present(db) /\ Held(t) \notin behind
                 /\ db[Held(t)].status = HeldStatus(t)
                 /\ pc[t] = "opened" => db[Held(t)].ip # None
                 /\ pc[t] = "running" => db[Held(t)].ip = None
                 /\ Held(t) \in acted <=> pc[t] = "committed"
                 /\ \A u \in Threads : pc[u] \in Holders /\ Held(u) = Held(t) => u = t
      BY <2>3 DEF Facts, Owned
    <2> SUFFICES ASSUME NEW t \in Threads, pc'[t] \in Holders
                 PROVE  /\ Held(t)' \in Present(db') /\ Held(t)' \notin behind'
                        /\ db'[Held(t)'].status = HeldStatus(t)'
                        /\ pc'[t] = "opened" => db'[Held(t)'].ip # None
                        /\ pc'[t] = "running" => db'[Held(t)'].ip = None
                        /\ Held(t)' \in acted' <=> pc'[t] = "committed"
                        /\ \A u \in Threads : pc'[u] \in Holders /\ Held(u)' = Held(t)'
                                               => u = t
      BY DEF Owned
    <2>4. /\ Held(t)' = Held(t) /\ pc[t] \in Holders /\ HeldStatus(t)' = HeldStatus(t)
          /\ db'[Held(t)] = db[Held(t)] /\ Held(t) \in Present(db') /\ pc'[t] = pc[t]
      BY <1>7, <2>1
    <2> QED  BY <2>1, <2>2, <2>3, <2>4
  <1> QED  BY <1>3, <1>4, <1>5, <1>8 DEF Facts

(* After a restart nobody owns anything, and nothing is left claimed.          *)
LEMMA RestartEffect ==
  ASSUME TypeOK, Facts, Restart
  PROVE  /\ Facts'
         /\ mem' \in [Ids -> Entries \cup {None}] /\ db' \in [Ids -> Entries \cup {None}]
  <1>1. /\ db' = Recovered /\ mem' = Keep(Recovered, Newest(Present(db)))
        /\ lastId' \in {i \in Present(db) : \A j \in Present(db) : j <= i} \cup
                       {i \in {0} : Present(db) = {}}
        /\ UNCHANGED <<claims, acted>> /\ \A t \in Threads : pc'[t] = "idle"
    BY DEF Restart, Unnoted
  <1>2. \A i \in Ids : db'[i] =
           IF db[i] # None /\ db[i].status \in {"running", "processing_approval"}
           THEN [db[i] EXCEPT !.status = "interrupted"] ELSE db[i]
    BY <1>1 DEF Recovered
  <1>3. \A i \in Ids : db[i] # None =>
           /\ db'[i] \in Entries /\ db'[i].ip = db[i].ip
           /\ db'[i].status = IF db[i].status \in {"running", "processing_approval"}
                              THEN "interrupted" ELSE db[i].status
    <2> SUFFICES ASSUME NEW i \in Ids, db[i] # None
                 PROVE  /\ db'[i] \in Entries /\ db'[i].ip = db[i].ip
                        /\ db'[i].status =
                             IF db[i].status \in {"running", "processing_approval"}
                             THEN "interrupted" ELSE db[i].status
      OBVIOUS
    <2>1. db[i] \in Entries /\ "interrupted" \in Statuses
      BY DEF TypeOK, Statuses, Closed
    <2>2. CASE db[i].status \in {"running", "processing_approval"}
      <3>1. db'[i] = [db[i] EXCEPT !.status = "interrupted"]
        BY <1>2, <2>2
      <3> QED  BY <2>1, <2>2, <3>1, EntryType
    <2>3. CASE db[i].status \notin {"running", "processing_approval"}
      BY <1>2, <2>1, <2>3
    <2> QED  BY <2>2, <2>3
  <1>4. Present(db') = Present(db)
    BY <1>2, <1>3, NotAnEntry DEF Present
  <1>5. db' \in [Ids -> Entries \cup {None}]
    <2>1. \A i \in Ids : db'[i] \in Entries \cup {None}
      BY <1>2, <1>3
    <2> QED  BY <1>1, <2>1 DEF Recovered
  <1>6. \A i \in Ids : mem'[i] = None \/ mem'[i] = db'[i]
    BY <1>1 DEF Keep
  <1>7. mem' \in [Ids -> Entries \cup {None}]
    BY <1>1, <1>5, <1>6 DEF Keep
  <1>8. Tables'
    BY <1>1, <1>4, <1>6 DEF Tables, DequeMatchesStore, Present
  <1>9. Untouched' /\ OutcomeIsTrue' /\ DecidedOnce'
    BY <1>1, <1>3, <1>4 DEF Facts, Untouched, OutcomeIsTrue, DecidedOnce, Present
  <1>10. Owned'
    BY <1>1 DEF Owned, Holders
  <1> QED  BY <1>5, <1>7, <1>8, <1>9, <1>10 DEF Facts

-----------------------------------------------------------------------------
(* The steps, one by one.                                                      *)

WithAddress == {"asked", "unmatched", "opened", "claiming", "declining", "approved",
                "blocking", "committed", "refused"}

(* A thread moves on to a place with its local variables set to l.             *)
LEMMA Turn ==
  ASSUME TypeOK, Addressed, UNCHANGED guarded, NEW t \in Threads,
         NEW place \in PCs, NEW l \in Locals,
         Goto(t, place), op' = [op EXCEPT ![t] = l],
         place \in WithAddress => l.ip # None,
         place \in {"fetching", "claiming"} => l.review \in Ids,
         place = "blocking" => l.ip \notin guarded
  PROVE  /\ pc' \in [Threads -> PCs] /\ op' \in [Threads -> Locals]
         /\ OthersStay(t) /\ pc'[t] = place /\ op'[t] = l
         /\ Addressed'
  BY DEF TypeOK, Addressed, Goto, OthersStay, WithAddress

LEMMA NoCallType == NoCall \in Locals
  BY BoundAssumption DEF NoCall, Locals, Decisions

(* The local variables a call starts with.                                     *)
LEMMA FirstLocals ==
  /\ \A ip \in IPs, n \in Nat :
        LET l == [NoCall EXCEPT !.ip = ip, !.before = n] IN l \in Locals /\ l.ip = ip
  /\ \A i \in Ids, d \in Decisions, ids \in SUBSET Ids :
        [NoCall EXCEPT !.review = i, !.decision = d, !.todo = ids] \in Locals
  /\ \A ids \in SUBSET Ids : [NoCall EXCEPT !.todo = ids] \in Locals
  /\ \A n \in Ids : LET l == [NoCall EXCEPT !.id = n] IN l \in Locals /\ l.id = n
  <1>1. ASSUME NEW ip \in IPs, NEW n \in Nat
        PROVE  LET l == [NoCall EXCEPT !.ip = ip, !.before = n] IN l \in Locals /\ l.ip = ip
    <2> DEFINE k == [NoCall EXCEPT !.ip = ip]
    <2>1. k \in Locals /\ k.ip = ip
      BY NoCallType DEF Locals
    <2>2. [NoCall EXCEPT !.ip = ip, !.before = n] = [k EXCEPT !.before = n]
      OBVIOUS
    <2> HIDE DEF k
    <2>3. [k EXCEPT !.before = n] \in Locals /\ [k EXCEPT !.before = n].ip = ip
      BY <2>1 DEF Locals
    <2> QED  BY <2>2, <2>3
  <1>2. ASSUME NEW i \in Ids, NEW d \in Decisions, NEW ids \in SUBSET Ids
        PROVE  [NoCall EXCEPT !.review = i, !.decision = d, !.todo = ids] \in Locals
    <2> DEFINE k == [NoCall EXCEPT !.review = i]
               l == [k EXCEPT !.decision = d]
    <2>1. k \in Locals
      BY NoCallType, BoundAssumption DEF Locals, Ids
    <2>2. [NoCall EXCEPT !.review = i, !.decision = d, !.todo = ids] = [l EXCEPT !.todo = ids]
      OBVIOUS
    <2> HIDE DEF k
    <2>3. l \in Locals
      BY <2>1 DEF Locals
    <2> HIDE DEF l
    <2>4. [l EXCEPT !.todo = ids] \in Locals
      BY <2>3 DEF Locals
    <2> QED  BY <2>2, <2>4
  <1>3. ASSUME NEW ids \in SUBSET Ids PROVE [NoCall EXCEPT !.todo = ids] \in Locals
    BY BoundAssumption DEF NoCall, Locals, Decisions
  <1>4. ASSUME NEW n \in Ids
        PROVE  LET l == [NoCall EXCEPT !.id = n] IN l \in Locals /\ l.id = n
    BY BoundAssumption DEF NoCall, Locals, Decisions, Ids
  <1> QED  BY <1>1, <1>2, <1>3, <1>4

LEMMA Returns ==
  ASSUME TypeOK, Addressed, UNCHANGED guarded, NEW t \in Threads, Return(t)
  PROVE  /\ pc' \in [Threads -> PCs] /\ op' \in [Threads -> Locals]
         /\ OthersStay(t) /\ pc'[t] = "idle" /\ pc'[t] \notin Holders
         /\ Addressed'
  <1>1. Goto(t, "idle") /\ op' = [op EXCEPT ![t] = NoCall] /\ "idle" \in PCs
    BY DEF Return, PCs
  <1> QED  BY <1>1, Turn, NoCallType DEF WithAddress, Holders

LEMMA Moves ==
  ASSUME TypeOK, Addressed, UNCHANGED <<guarded, op>>, NEW t \in Threads,
         NEW place \in PCs, Goto(t, place),
         place \in WithAddress => op[t].ip # None,
         place \in {"fetching", "claiming"} => op[t].review \in Ids,
         place = "blocking" => op[t].ip \notin guarded
  PROVE  /\ pc' \in [Threads -> PCs] /\ op' \in [Threads -> Locals]
         /\ OthersStay(t) /\ pc'[t] = place /\ op'[t] = op[t]
         /\ Addressed'
  <1>1. op' = [op EXCEPT ![t] = op[t]] /\ op[t] \in Locals
    BY DEF TypeOK
  <1> QED  BY <1>1, Turn

(* The pieces in which a call only looks.                                      *)
LEMMA LookingSteps ==
  ASSUME TypeOK, Facts, Addressed, NEW t \in Threads,
         \/ \E ip \in IPs : Ask(t, ip)
         \/ FindDuplicate(t) \/ Respond(t) \/ Sweep(t) \/ EndSweep(t)
         \/ \E i \in Ids, decision \in Decisions : Review(t, i, decision)
         \/ Fetch(t)
  PROVE  TypeOK' /\ Facts' /\ Addressed'
  <1>1. UNCHANGED <<mem, db, behind, faults, lastId, claims, acted, blocked, guarded, now,
                   restarts>>
    BY DEF Ask, FindDuplicate, Respond, Sweep, EndSweep, Review, Fetch, Unnoted
  <1> DEFINE Good == /\ pc' \in [Threads -> PCs] /\ op' \in [Threads -> Locals]
                     /\ OthersStay(t) /\ pc'[t] \notin Holders /\ Addressed'
  <1>3. pc[t] \notin Holders
    BY DEF Ask, FindDuplicate, Respond, Sweep, EndSweep, Review, Fetch, Holders
  <1>4. op[t] \in Locals
    BY DEF TypeOK
  <1>5. ASSUME NEW ip \in IPs, Ask(t, ip) PROVE Good
    <2>1. /\ [NoCall EXCEPT !.ip = ip, !.before = lastId] \in Locals
          /\ [NoCall EXCEPT !.ip = ip, !.before = lastId].ip = ip
      <3>1. lastId \in Nat
        BY BoundAssumption DEF TypeOK
      <3>2. LET l == [NoCall EXCEPT !.ip = ip, !.before = lastId] IN l \in Locals /\ l.ip = ip
        BY <3>1, FirstLocals, Zenon
      <3> QED  BY <3>2, Zenon
    <2> QED  BY <1>1, <1>3, <1>5, <2>1, Turn, NotAnEntry DEF Ask, PCs, Holders
  <1>6. ASSUME FindDuplicate(t) PROVE Good
    <2>1. op[t].ip # None
      BY <1>6 DEF FindDuplicate, Addressed
    <2>2. \E place \in {"answering", "unmatched"} : Goto(t, place)
      BY <1>6 DEF FindDuplicate
    <2> QED  BY <1>1, <1>3, <1>6, <2>1, <2>2, Moves DEF FindDuplicate, PCs, Holders
  <1>7. ASSUME Respond(t) PROVE Good
    BY <1>1, <1>3, <1>7, Returns DEF Respond
  <1>8. Overdue \subseteq Ids
    BY DEF Overdue
  <1>9. ASSUME Sweep(t) PROVE Good
    <2>1. [NoCall EXCEPT !.todo = Overdue] \in Locals
      BY <1>8, FirstLocals
    <2> QED  BY <1>1, <1>3, <1>9, <2>1, Turn DEF Sweep, PCs, Holders, WithAddress
  <1>10. ASSUME EndSweep(t) PROVE Good
    <2>1. CASE Return(t)
      BY <1>1, <1>3, <2>1, Returns
    <2>2. CASE op[t].review # 0 /\ Goto(t, "fetching") /\ UNCHANGED op
      <3>1. op[t].review \in Ids
        BY <1>4, <2>2, BoundAssumption DEF Locals, Ids
      <3> QED  BY <1>1, <2>2, <3>1, Moves DEF PCs, Holders, WithAddress
    <2> QED  BY <1>10, <2>1, <2>2 DEF EndSweep
  <1>11. ASSUME NEW i \in Ids, NEW decision \in Decisions, Review(t, i, decision)
         PROVE  Good
    <2>1. [NoCall EXCEPT !.review = i, !.decision = decision, !.todo = Overdue] \in Locals
      BY <1>8, FirstLocals
    <2> QED  BY <1>1, <1>3, <1>11, <2>1, Turn DEF Review, PCs, Holders, WithAddress
  <1>12. ASSUME Fetch(t) PROVE Good
    <2> DEFINE row == db[op[t].review]
    <2>1. CASE row # None /\ row.status = "waiting_approval"
      <3>1. op[t].review \in Ids
        BY <1>12 DEF Fetch, Addressed
      <3>2. row.ip \in IPs
        BY <2>1, <3>1 DEF Facts, Untouched, Present, TypeOK, Entries
      <3>3. [op[t] EXCEPT !.ip = row.ip] \in Locals
        BY <1>4, <3>2 DEF Locals
      <3>4. op' = [op EXCEPT ![t] = [op[t] EXCEPT !.ip = row.ip]] /\ Goto(t, "claiming")
        BY <1>12, <2>1 DEF Fetch
      <3>5. [op[t] EXCEPT !.ip = row.ip].ip = row.ip
            /\ [op[t] EXCEPT !.ip = row.ip].review = op[t].review
        BY <1>4 DEF Locals
      <3> HIDE DEF row
      <3> QED
        BY <1>1, <3>1, <3>2, <3>3, <3>4, <3>5, Turn, NotAnEntry DEF PCs, Holders
    <2>2. CASE ~(row # None /\ row.status = "waiting_approval")
      BY <1>1, <1>3, <1>12, <2>2, Returns DEF Fetch
    <2> QED  BY <2>1, <2>2
  <1>13. Good
    BY <1>5, <1>6, <1>7, <1>9, <1>10, <1>11, <1>12
  <1> QED  BY <1>1, <1>3, <1>13, QuietPiece DEF TypeOK, Data

(* A request is opened; another playbook starts.                               *)
LEMMA OpeningSteps ==
  ASSUME TypeOK, Facts, Addressed, NEW t \in Threads, OpenRequest(t) \/ StartPlaybook(t)
  PROVE  TypeOK' /\ Facts' /\ Addressed'
  <1>1. UNCHANGED <<blocked, guarded, now, restarts>>
    BY DEF OpenRequest, StartPlaybook
  <1>2. lastId + 1 \in Ids
    BY BoundAssumption DEF OpenRequest, StartPlaybook, ExecutionStart, Append, TypeOK, Ids
  <1>3. pc[t] \notin Holders
    BY DEF OpenRequest, StartPlaybook, Holders
  <1>4. CASE OpenRequest(t)
    <2>1. op[t] \in Locals /\ op[t].ip \in IPs
      BY <1>4 DEF OpenRequest, Addressed, TypeOK, Locals
    <2> DEFINE l == [op[t] EXCEPT !.id = lastId + 1]
    <2>2. l \in Locals /\ l.ip = op[t].ip /\ l.id = lastId + 1
      BY <1>2, <2>1 DEF Locals, Ids
    <2>3. op' = [op EXCEPT ![t] = l] /\ Goto(t, "opened") /\ ExecutionStart(op[t].ip)
      BY <1>4 DEF OpenRequest
    <2> HIDE DEF l
    <2>4. /\ pc' \in [Threads -> PCs] /\ op' \in [Threads -> Locals]
          /\ OthersStay(t) /\ pc'[t] = "opened" /\ op'[t] = l /\ Addressed'
      BY <1>1, <2>1, <2>2, <2>3, Turn, NotAnEntry DEF PCs
    <2>5. Held(t)' = lastId + 1
      BY <2>2, <2>4 DEF Held
    <2> QED
      BY <1>1, <1>3, <2>1, <2>3, <2>4, <2>5, NewExecution, NotAnEntry DEF TypeOK
  <1>5. CASE StartPlaybook(t)
    <2> DEFINE l == [op[t] EXCEPT !.id = lastId + 1]
    <2>1. op[t] \in Locals
      BY DEF TypeOK
    <2>2. l \in Locals /\ l.id = lastId + 1
      BY <1>2, <2>1 DEF Locals, Ids
    <2>3. op' = [op EXCEPT ![t] = l] /\ Goto(t, "running") /\ ExecutionStart(None)
      BY <1>5 DEF StartPlaybook
    <2> HIDE DEF l
    <2>4. /\ pc' \in [Threads -> PCs] /\ op' \in [Threads -> Locals]
          /\ OthersStay(t) /\ pc'[t] = "running" /\ op'[t] = l /\ Addressed'
      BY <1>1, <2>2, <2>3, Turn DEF PCs, WithAddress
    <2>5. Held(t)' = lastId + 1
      BY <2>2, <2>4 DEF Held
    <2> QED
      BY <1>1, <1>3, <2>3, <2>4, <2>5, NewExecution DEF TypeOK
  <1> QED  BY <1>4, <1>5

(* A request is claimed, by a sweep or for a review; or somebody was first.    *)
LEMMA ClaimingSteps ==
  ASSUME TypeOK, Facts, Addressed, NEW t \in Threads,
         (\E i \in Ids : ClaimOverdue(t, i)) \/ ClaimForReview(t)
  PROVE  TypeOK' /\ Facts' /\ Addressed'
  <1>1. UNCHANGED <<lastId, blocked, guarded, now, restarts, acted>>
    BY DEF ClaimOverdue, ClaimForReview
  <1>2. pc[t] \notin Holders
    BY DEF ClaimOverdue, ClaimForReview, Holders
  <1>3. op[t] \in Locals
    BY DEF TypeOK
  <1>4. ASSUME NEW i \in Ids, ClaimOverdue(t, i) PROVE TypeOK' /\ Facts' /\ Addressed'
    <2> DEFINE k == [op[t] EXCEPT !.todo = @ \ {i}]
               l == [k EXCEPT !.id = i]
    <2>1. k \in Locals
      BY <1>3 DEF Locals
    <2>2. CASE Claimable(i)
      <3>1. op' = [op EXCEPT ![t] = l] /\ Goto(t, "expiring") /\ Claim(i)
        BY <1>4, <2>2 DEF ClaimOverdue
      <3> HIDE DEF k
      <3>2. l \in Locals /\ l.id = i
        BY <2>1, BoundAssumption DEF Locals, Ids
      <3> HIDE DEF l
      <3>3. /\ pc' \in [Threads -> PCs] /\ op' \in [Threads -> Locals]
            /\ OthersStay(t) /\ pc'[t] = "expiring" /\ op'[t] = l /\ Addressed'
        BY <1>1, <3>1, <3>2, Turn DEF PCs, WithAddress
      <3>4. Held(t)' = i
        BY <3>2, <3>3 DEF Held
      <3> QED
        BY <1>1, <1>2, <2>2, <3>1, <3>3, <3>4, StartOfOwnership DEF TypeOK
    <2>3. CASE ~Claimable(i)
      <3>1. /\ op' = [op EXCEPT ![t] = k] /\ UNCHANGED <<mem, db, behind, faults, claims, pc>>
            /\ pc[t] = "sweeping"
        BY <1>4, <2>3 DEF ClaimOverdue
      <3>2. Goto(t, "sweeping")
        BY <3>1 DEF Goto, TypeOK
      <3> HIDE DEF k
      <3>3. /\ pc' \in [Threads -> PCs] /\ op' \in [Threads -> Locals]
            /\ OthersStay(t) /\ pc'[t] = "sweeping" /\ Addressed'
        BY <1>1, <2>1, <3>1, <3>2, Turn DEF PCs, WithAddress
      <3> QED
        BY <1>1, <1>2, <3>1, <3>3, QuietPiece DEF TypeOK, Data, Holders
    <2> QED  BY <2>2, <2>3
  <1>5. CASE ClaimForReview(t)
    <2> DEFINE i == op[t].review
    <2>1. i \in Ids /\ op[t].ip # None
      BY <1>5 DEF ClaimForReview, Addressed
    <2>2. CASE Claimable(i)
      <3>1. /\ Claim(i) /\ UNCHANGED op
            /\ \E place \in {"approved", "declining"} : Goto(t, place)
        BY <1>5, <2>2 DEF ClaimForReview
      <3>2. /\ pc' \in [Threads -> PCs] /\ op' \in [Threads -> Locals]
            /\ OthersStay(t) /\ pc'[t] \in {"approved", "declining"} /\ op'[t] = op[t]
            /\ Addressed'
        BY <1>1, <2>1, <3>1, Moves DEF PCs
      <3>3. Held(t)' = i
        BY <3>2 DEF Held
      <3> QED
        BY <1>1, <1>2, <2>1, <2>2, <3>1, <3>2, <3>3, StartOfOwnership DEF TypeOK
    <2>3. CASE ~Claimable(i)
      <3>1. Return(t) /\ UNCHANGED <<mem, db, behind, faults, claims>>
        BY <1>5, <2>3 DEF ClaimForReview
      <3> QED
        BY <1>1, <1>2, <3>1, Returns, QuietPiece DEF TypeOK, Data
    <2> QED  BY <2>2, <2>3
  <1> QED  BY <1>4, <1>5

(* The owner of an execution writes its outcome.                               *)
LEMMA EndingSteps ==
  ASSUME TypeOK, Facts, Addressed, NEW t \in Threads,
         \/ Publish(t) \/ FinishPlaybook(t) \/ CloseOverdue(t) \/ Decline(t)
         \/ CloseApproved(t)
  PROVE  TypeOK' /\ Facts' /\ Addressed'
  <1>1. UNCHANGED <<lastId, blocked, guarded, now, restarts, claims, acted>>
    BY DEF Publish, FinishPlaybook, CloseOverdue, Decline, CloseApproved, Unnoted
  <1>2. pc[t] \in Holders
    BY DEF Publish, FinishPlaybook, CloseOverdue, Decline, CloseApproved, Holders
  <1>3. ASSUME NEW s \in Statuses, Ends(t, s), SetStatus(Held(t), s),
               pc' \in [Threads -> PCs], op' \in [Threads -> Locals],
               OthersStay(t), pc'[t] \notin Holders, Addressed'
        PROVE  TypeOK' /\ Facts' /\ Addressed'
    BY <1>1, <1>2, <1>3, EndOfOwnership DEF TypeOK
  <1>4. CASE Publish(t)
    <2>1. /\ Held(t) = op[t].id /\ Ends(t, "waiting_approval")
          /\ SetStatus(Held(t), "waiting_approval") /\ Goto(t, "answering") /\ UNCHANGED op
      BY <1>4 DEF Publish, Held, Ends
    <2>2. /\ pc' \in [Threads -> PCs] /\ op' \in [Threads -> Locals]
          /\ OthersStay(t) /\ pc'[t] \notin Holders /\ Addressed'
      BY <1>1, <2>1, Moves DEF PCs, Holders, WithAddress
    <2> QED  BY <1>3, <2>1, <2>2 DEF Statuses
  <1>5. CASE FinishPlaybook(t)
    <2>1. /\ \E s \in {"completed", "failed"} : SetStatus(Held(t), s) /\ Ends(t, s)
          /\ Return(t)
      BY <1>5 DEF FinishPlaybook, Held, Ends
    <2> QED  BY <1>1, <1>3, <2>1, Returns DEF Statuses, Closed
  <1>6. CASE CloseOverdue(t)
    <2>1. /\ Held(t) = op[t].id /\ Ends(t, "expired")
          /\ SetStatus(Held(t), "expired") /\ Goto(t, "sweeping") /\ UNCHANGED op
      BY <1>6 DEF CloseOverdue, Held, Ends
    <2>2. /\ pc' \in [Threads -> PCs] /\ op' \in [Threads -> Locals]
          /\ OthersStay(t) /\ pc'[t] \notin Holders /\ Addressed'
      BY <1>1, <2>1, Moves DEF PCs, Holders, WithAddress
    <2> QED  BY <1>3, <2>1, <2>2 DEF Statuses, Closed
  <1>7. CASE Decline(t)
    <2>1. /\ \E s \in {"cancelled", "rejected"} : SetStatus(Held(t), s) /\ Ends(t, s)
          /\ Return(t)
      BY <1>7 DEF Decline, Declined, Held, Ends
    <2> QED  BY <1>1, <1>3, <2>1, Returns DEF Statuses, Closed
  <1>8. CASE CloseApproved(t)
    <2>1. Return(t) /\ Held(t) = op[t].review
      BY <1>8 DEF CloseApproved, Held
    <2>2. CASE pc[t] = "committed" /\ SetStatus(op[t].review, ApprovedStatus(TRUE))
      <3>1. Ends(t, "completed") /\ SetStatus(Held(t), "completed")
        BY <2>1, <2>2 DEF Ends, ApprovedStatus
      <3> QED  BY <1>1, <1>3, <2>1, <3>1, Returns DEF Statuses, Closed
    <2>3. CASE pc[t] = "refused" /\ SetStatus(op[t].review, ApprovedStatus(FALSE))
      <3>1. Ends(t, "failed") /\ SetStatus(Held(t), "failed")
        BY <2>1, <2>3 DEF Ends, ApprovedStatus
      <3> QED  BY <1>1, <1>3, <2>1, <3>1, Returns DEF Statuses, Closed
    <2>4. CASE UNCHANGED <<mem, db, behind, faults>>
      <3>1. /\ pc' \in [Threads -> PCs] /\ op' \in [Threads -> Locals]
            /\ OthersStay(t) /\ pc'[t] \notin Holders /\ Addressed'
        BY <1>1, <2>1, Returns
      <3> QED  BY <1>1, <2>4, <3>1, QuietPiece DEF TypeOK, Data
    <2> QED  BY <1>8, <2>2, <2>3, <2>4 DEF CloseApproved
  <1> QED  BY <1>4, <1>5, <1>6, <1>7, <1>8

(* The approved block is tested and made.                                      *)
LEMMA ActingSteps ==
  ASSUME TypeOK, Facts, Addressed, NEW t \in Threads, CheckApproved(t) \/ CarryOutBlock(t)
  PROVE  TypeOK' /\ Facts' /\ Addressed'
  <1>1. UNCHANGED <<mem, db, behind, faults, lastId, guarded, op, now, restarts, claims>>
    BY DEF CheckApproved, CarryOutBlock, Unnoted
  <1>2. op[t] \in Locals /\ op[t].ip \in IPs
    BY DEF CheckApproved, CarryOutBlock, Addressed, TypeOK, Locals
  <1>3. CASE CheckApproved(t)
    <2>1. /\ pc[t] = "approved" /\ UNCHANGED <<acted, blocked>>
          /\ \/ Goto(t, "refused")
             \/ Goto(t, "blocking") /\ op[t].ip \notin guarded
      BY <1>3 DEF CheckApproved, Refused, Unnoted
    <2>2. /\ pc' \in [Threads -> PCs] /\ op' \in [Threads -> Locals]
          /\ OthersStay(t) /\ pc'[t] \in {"blocking", "refused"} /\ op'[t] = op[t]
          /\ Addressed'
      BY <1>1, <1>2, <2>1, Moves, NotAnEntry DEF PCs
    <2> QED  BY <1>1, <2>1, <2>2, Approved DEF TypeOK
  <1>4. CASE CarryOutBlock(t)
    <2>1. /\ pc[t] = "blocking" /\ acted' = acted \cup {op[t].review}
          /\ blocked' = blocked \cup {op[t].ip} /\ Goto(t, "committed")
      BY <1>4 DEF CarryOutBlock
    <2>2. /\ pc' \in [Threads -> PCs] /\ op' \in [Threads -> Locals]
          /\ OthersStay(t) /\ pc'[t] = "committed" /\ op'[t] = op[t] /\ Addressed'
      BY <1>1, <1>2, <2>1, Moves, NotAnEntry DEF PCs
    <2>3. blocked' \subseteq IPs
      BY <1>2, <2>1 DEF TypeOK
    <2> QED  BY <1>1, <2>1, <2>2, <2>3, Approved DEF TypeOK
  <1> QED  BY <1>3, <1>4

(* A save fails and the call is over.                                          *)
LEMMA FailingSteps ==
  ASSUME TypeOK, Facts, Addressed, NEW t \in Threads,
         StartFails(t) \/ ClaimFails(t) \/ SaveFails(t)
  PROVE  TypeOK' /\ Facts' /\ Addressed'
  <1>1. Return(t) /\ UNCHANGED <<blocked, guarded, now, restarts>>
    BY DEF StartFails, ClaimFails, SaveFails
  <1>2. /\ pc' \in [Threads -> PCs] /\ op' \in [Threads -> Locals]
        /\ OthersStay(t) /\ pc'[t] \notin Holders /\ Addressed'
    BY <1>1, Returns
  <1>3. CASE StartFails(t)
    <2>1. PICK ip \in IPs \cup {None} : FailedStart(ip)
      BY <1>3 DEF StartFails, TypeOK, Locals
    <2> QED  BY <1>1, <1>2, <2>1, FailedOpening DEF TypeOK
  <1>4. ASSUME NEW i \in Present(db), NEW s \in Statuses, FailedStatus(i, s),
               mem[i] = [db[i] EXCEPT !.status = s] \/ Ahead(db[i].status, s),
               \A u \in Threads \ {t} : pc[u] \in Holders => Held(u) # i,
               UNCHANGED <<lastId, claims, acted>>
        PROVE  TypeOK' /\ Facts' /\ Addressed'
    BY <1>1, <1>2, <1>4, FailedPiece DEF TypeOK
  <1>5. CASE ClaimFails(t)
    <2>1. PICK i \in Ids : Waiting(i) /\ FailedStatus(i, "processing_approval")
      BY <1>5 DEF ClaimFails, Claimable
    <2>2. /\ i \in Present(db) /\ db[i].status \in {"running", "waiting_approval"}
          /\ \A u \in Threads : pc[u] \in Holders => Held(u) # i
      BY <2>1, WaitingRow DEF Facts
    <2>3. Ahead(db[i].status, "processing_approval") /\ "processing_approval" \in Statuses
      BY <2>2 DEF Ahead, Statuses
    <2> QED  BY <1>4, <1>5, <2>1, <2>2, <2>3 DEF ClaimFails, Unnoted
  <1>6. CASE SaveFails(t)
    <2>1. PICK s \in Statuses : /\ s = mem[Held(t)].status \/ Ends(t, s)
                                /\ FailedStatus(Held(t), s)
      BY <1>6 DEF SaveFails
    <2>2. PICK i \in Present(db) :
          /\ i = Held(t) /\ i \notin behind /\ db[i].status = HeldStatus(t) /\ mem[i] # None
          /\ \A u \in Threads \ {t} : pc[u] \in Holders => Held(u) # i
      BY <1>6 DEF SaveFails, Holders, Facts, Owned
    <2>3. mem[i] = db[i] /\ db[i] \in Entries
      BY <2>2, SameExecution DEF Facts
    <2>4. mem[i] = [db[i] EXCEPT !.status = s] \/ Ahead(db[i].status, s)
      <3>1. CASE s = mem[i].status
        BY <2>3, <3>1 DEF Entries
      <3>2. CASE Ends(t, s)
        BY <2>2, <3>2, EndStatuses DEF HeldStatus, Ahead, Closed
      <3> QED  BY <2>1, <2>2, <3>1, <3>2
    <2>5. UNCHANGED <<lastId, claims, acted>>
      BY <1>6 DEF SaveFails, Unnoted
    <2> QED  BY <1>4, <2>1, <2>2, <2>4, <2>5
  <1> QED  BY <1>3, <1>5, <1>6

-----------------------------------------------------------------------------
(* The invariant.                                                              *)

LEMMA InvariantHolds == Init => IInv
  <1> SUFFICES ASSUME Init PROVE IInv
    OBVIOUS
  <1>1. TypeOK
    BY BoundAssumption, NoCallType DEF Init, TypeOK, PCs
  <1>2. Tables /\ Untouched /\ Owned /\ Addressed /\ DecidedOnce /\ OutcomeIsTrue
    BY DEF Init, Tables, DequeMatchesStore, Untouched, Owned, Addressed, DecidedOnce,
           OutcomeIsTrue, Present, Holders
  <1> QED  BY <1>1, <1>2 DEF IInv

LEMMA InvariantPreserved == IInv /\ [Next]_vars => IInv'
  <1> SUFFICES ASSUME IInv, [Next]_vars PROVE TypeOK' /\ Facts' /\ Addressed'
    BY DEF IInv, Facts
  <1>1. TypeOK /\ Facts /\ Addressed
    BY DEF IInv, Facts
  <1>2. ASSUME NEW t \in Threads, Step(t) PROVE TypeOK' /\ Facts' /\ Addressed'
    BY <1>1, <1>2, LookingSteps, OpeningSteps, ClaimingSteps, EndingSteps, ActingSteps,
       FailingSteps
       DEF Step
  <1>3. ASSUME UNCHANGED <<mem, db, behind, lastId, guarded, pc, op, restarts, claims, acted>>
        PROVE  Facts' /\ Addressed'
    BY <1>1, <1>3 DEF Facts, Addressed, Tables, DequeMatchesStore, Untouched, Owned,
                      DecidedOnce, OutcomeIsTrue, Present, Held, HeldStatus
  <1>4. ASSUME NEW ip \in IPs, Unblock(ip) PROVE TypeOK' /\ Facts' /\ Addressed'
    BY <1>1, <1>3, <1>4 DEF Unblock, Unnoted, TypeOK
  <1>5. CASE Tick
    BY <1>1, <1>3, <1>5, BoundAssumption DEF Tick, Unnoted, TypeOK
  <1>6. ASSUME NEW gone \in SUBSET Ids, Purge(gone) PROVE TypeOK' /\ Facts' /\ Addressed'
    <2>1. UNCHANGED <<mem, behind, faults, lastId, blocked, guarded, pc, op, now, restarts,
                     claims, acted>>
      BY <1>6 DEF Purge, Unnoted
    <2>2. Addressed'
      BY <1>1, <2>1 DEF Addressed
    <2> QED  BY <1>1, <1>6, <2>1, <2>2, PurgeEffect DEF TypeOK
  <1>7. CASE Restart
    <2>1. Facts' /\ mem' \in [Ids -> Entries \cup {None}]
          /\ db' \in [Ids -> Entries \cup {None}]
      BY <1>1, <1>7, RestartEffect
    <2>2. /\ guarded' \subseteq IPs /\ restarts' \in 0..MaxRestart
          /\ UNCHANGED <<blocked, now, faults, claims, acted>> /\ behind' \subseteq Ids
          /\ lastId' \in 0..MaxId
      BY <1>1, <1>7, BoundAssumption DEF Restart, Unnoted, TypeOK, Present, Ids
    <2>3. pc' \in [Threads -> PCs] /\ op' \in [Threads -> Locals] /\ Addressed'
      BY <1>7, NoCallType DEF Restart, PCs, Addressed
    <2> QED  BY <1>1, <2>1, <2>2, <2>3 DEF TypeOK
  <1>8. CASE UNCHANGED vars
    BY <1>1, <1>3, <1>8 DEF vars, TypeOK
  <1> QED
    BY <1>2, <1>4, <1>5, <1>6, <1>7, <1>8 DEF Next

LEMMA Invariant == Spec => []IInv
  BY InvariantHolds, InvariantPreserved, PTL DEF Spec

(* Every reachable state is well typed.                                        *)
THEOREM TypeCorrect == Spec => []TypeOK
<1>1. IInv => TypeOK
  BY DEF IInv
<1> QED  BY <1>1, Invariant, PTL

(* The deque and the store disagree about an execution only after a save of it *)
(* has failed, and then the deque is ahead on the execution's way.             *)
THEOREM DequeAgrees == Spec => []DequeMatchesStore
<1>1. IInv => DequeMatchesStore
  BY DEF IInv, Tables
<1> QED  BY <1>1, Invariant, PTL

(* Of any number of sweeps and reviews, at most one ever handles a request.    *)
THEOREM OneDecision == Spec => []DecidedOnce
<1>1. IInv => DecidedOnce
  BY DEF IInv
<1> QED  BY <1>1, Invariant, PTL

(* A request on record as completed has been carried out, and one that was     *)
(* carried out is never on record as waiting, expired, rejected, cancelled or  *)
(* failed.                                                                     *)
THEOREM StatusIsTruth == Spec => []OutcomeIsTrue
<1>1. IInv => OutcomeIsTrue
  BY DEF IInv
<1> QED  BY <1>1, Invariant, PTL

(* No approval blocks an address that is guarded when the block is made.       *)
THEOREM GuardHolds == Spec => GuardedStaysOpen
<1>1. IInv /\ [Next]_vars => [(blocked' \ blocked) \cap guarded = {}]_vars
  <2> SUFFICES ASSUME IInv, [Next]_vars PROVE (blocked' \ blocked) \cap guarded = {}
    OBVIOUS
  <2>1. ASSUME NEW t \in Threads, CarryOutBlock(t)
        PROVE  (blocked' \ blocked) \cap guarded = {}
    BY <2>1 DEF CarryOutBlock, IInv, Addressed
  <2>2. ASSUME NEW t \in Threads, Step(t), ~CarryOutBlock(t) PROVE UNCHANGED blocked
    BY <2>2 DEF Step, Ask, FindDuplicate, OpenRequest, Publish, Respond, StartPlaybook,
                FinishPlaybook, Sweep, CloseOverdue, EndSweep, ClaimOverdue, Review, Fetch,
                ClaimForReview, Decline, CheckApproved, CloseApproved, StartFails, ClaimFails,
                SaveFails
  <2>3. ASSUME NEW ip \in IPs, Unblock(ip) PROVE blocked' \subseteq blocked
    BY <2>3 DEF Unblock
  <2>4. CASE Tick \/ Restart \/ (\E gone \in SUBSET Ids : Purge(gone)) \/ UNCHANGED vars
    BY <2>4 DEF Tick, Restart, Purge, vars
  <2> QED  BY <2>1, <2>2, <2>3, <2>4 DEF Next
<1> QED  BY <1>1, Invariant, PTL DEF Spec, GuardedStaysOpen

-----------------------------------------------------------------------------
(* The gate implements the ledger: every step of a thread, of retention or of  *)
(* a restart is a step of ApprovalLedger or leaves the ledger as it is.        *)

Same == LedgerStatus' = LedgerStatus /\ LedgerCarried' = LedgerCarried
Lawful == Ledger!LedgerNext \/ Same

(* One row gets another status: so does the request, if the row is one.        *)
LEMMA RowChange ==
  ASSUME TypeOK, UNCHANGED acted, NEW i \in Present(db), NEW s \in Statuses,
         \A j \in Ids : j # i => db'[j] = db[j],
         db'[i] = [db[i] EXCEPT !.status = s]
  PROVE  IF db[i].ip = None THEN Same
         ELSE /\ LedgerStatus' = [LedgerStatus EXCEPT ![i] = s]
              /\ LedgerStatus[i] = db[i].status
              /\ LedgerCarried' = LedgerCarried
              /\ i \in LedgerCarried <=> i \in acted
  <1>1. /\ i \in Ids /\ db[i] \in Entries /\ db[i] # None
        /\ db'[i] \in Entries /\ db'[i].ip = db[i].ip /\ db'[i].status = s
    BY EntryType DEF Present, TypeOK
  <1>2. \A j \in Ids : IsRequest(j)' <=> IsRequest(j)
    BY <1>1, NotAnEntry DEF IsRequest
  <1>3. LedgerCarried' = LedgerCarried
    BY <1>2 DEF LedgerCarried, TypeOK
  <1>4. CASE db[i].ip = None
    BY <1>1, <1>2, <1>3, <1>4 DEF LedgerStatus, Same, IsRequest
  <1>5. CASE db[i].ip # None
    BY <1>1, <1>2, <1>3, <1>5 DEF LedgerStatus, LedgerCarried, IsRequest
  <1> QED  BY <1>4, <1>5

LEMMA SameRows ==
  ASSUME UNCHANGED <<db, acted>> PROVE Same
  BY DEF Same, LedgerStatus, LedgerCarried, IsRequest

LEMMA OpeningIsLawful ==
  ASSUME TypeOK, Facts, NEW ip \in IPs \cup {None}, ExecutionStart(ip)
  PROVE  Lawful
  <1>1. PICK i \in Ids :
           /\ i = lastId' /\ i = lastId + 1 /\ db[i] = None
           /\ \A j \in Ids : j # i => db'[j] = db[j]
           /\ db'[i] # None /\ db'[i].status = "running" /\ db'[i].ip = ip
    BY StartEffect DEF Facts
  <1>2. acted' = acted \ {i}
    BY <1>1 DEF ExecutionStart, Append
  <1>3. ~IsRequest(i) /\ (IsRequest(i)' <=> ip # None) /\ db'[i].status = "running"
    BY <1>1 DEF IsRequest
  <1>4. LedgerCarried' = LedgerCarried
    BY <1>1, <1>2, <1>3 DEF LedgerCarried, IsRequest, TypeOK
  <1>5. CASE ip = None
    BY <1>1, <1>3, <1>4, <1>5 DEF LedgerStatus, IsRequest, Lawful, Same
  <1>6. CASE ip # None
    <2>1. \A j \in Ids : j # i => (IsRequest(j)' <=> IsRequest(j))
      BY <1>1 DEF IsRequest
    <2>2. LedgerStatus[i] = "none"
      BY <1>3 DEF LedgerStatus
    <2>3. LedgerStatus' = [LedgerStatus EXCEPT ![i] = "running"]
      BY <1>1, <1>3, <1>6, <2>1 DEF LedgerStatus
    <2>4. Ledger!Enter(i)
      BY <1>4, <2>2, <2>3 DEF Ledger!Enter, Ledger!Moves
    <2> QED  BY <2>4 DEF Lawful, Ledger!LedgerNext
  <1> QED  BY <1>5, <1>6

LEMMA ClaimingIsLawful ==
  ASSUME TypeOK, Facts, UNCHANGED <<lastId, acted>>, NEW i \in Ids, Claimable(i), Claim(i)
  PROVE  Lawful
  <1>1. /\ i \in Present(db) /\ mem[i] # None
        /\ db[i].status \in {"running", "waiting_approval"}
    BY WaitingRow DEF Claimable, Facts
  <1>2. "processing_approval" \in Statuses
    BY DEF Statuses
  <1>3. /\ \A j \in Ids : j # i => db'[j] = db[j]
        /\ db'[i] = [db[i] EXCEPT !.status = "processing_approval"]
    BY <1>1, <1>2, SetStatusEffect DEF Facts, Claim
  <1>4. CASE db[i].ip = None
    BY <1>1, <1>2, <1>3, <1>4, RowChange DEF Lawful
  <1>5. CASE db[i].ip # None
    <2>1. /\ LedgerStatus' = [LedgerStatus EXCEPT ![i] = "processing_approval"]
          /\ LedgerStatus[i] = db[i].status
          /\ LedgerCarried' = LedgerCarried
      BY <1>1, <1>2, <1>3, <1>5, RowChange
    <2>2. Ledger!Take(i)
      BY <1>1, <2>1 DEF Ledger!Take, Ledger!Moves, Ledger!Undecided
    <2> QED  BY <2>2 DEF Lawful, Ledger!LedgerNext
  <1> QED  BY <1>4, <1>5

LEMMA FailingIsLawful ==
  ASSUME TypeOK, Facts, NEW t \in Threads, StartFails(t) \/ ClaimFails(t) \/ SaveFails(t)
  PROVE  Lawful
  <1>1. CASE StartFails(t)
    <2>1. PICK ip \in IPs \cup {None} : FailedStart(ip)
      BY <1>1 DEF StartFails, TypeOK, Locals
    <2>2. UNCHANGED db /\ lastId' \notin Present(db) /\ acted' = acted \ {lastId'} /\ lastId' \in Ids
      BY <2>1, FailedStartEffect DEF Facts
    <2>3. LedgerCarried' = LedgerCarried
      BY <2>2 DEF LedgerCarried, IsRequest, Present
    <2> QED  BY <2>2, <2>3 DEF Lawful, Same, LedgerStatus, IsRequest
  <1>2. CASE ClaimFails(t) \/ SaveFails(t)
    <2>1. UNCHANGED <<db, acted>>
      BY <1>2 DEF ClaimFails, SaveFails, FailedStatus, NotSaved, Unnoted
    <2> QED  BY <2>1, SameRows DEF Lawful
  <1> QED  BY <1>1, <1>2

LEMMA EndingIsLawful ==
  ASSUME TypeOK, Facts, UNCHANGED <<lastId, acted>>, NEW t \in Threads, pc[t] \in Holders,
         NEW s \in Statuses, Ends(t, s), SetStatus(Held(t), s)
  PROVE  Lawful
  <1>1. PICK i \in Present(db) :
        /\ i = Held(t) /\ i \in Ids /\ db[i].status = HeldStatus(t)
        /\ i \in acted <=> pc[t] = "committed"
        /\ pc[t] = "running" => db[i].ip = None
    BY DEF Facts, Owned, Present
  <1>2. /\ \A j \in Ids : j # i => db'[j] = db[j]
        /\ db'[i] = db[i] \/ db'[i] = [db[i] EXCEPT !.status = s]
    BY <1>1, SetStatusEffect DEF Facts
  <1>3. CASE db'[i] = db[i]
    BY <1>2, <1>3 DEF Lawful, Same, LedgerStatus, LedgerCarried, IsRequest, TypeOK
  <1>4. CASE db[i].ip = None /\ db'[i] = [db[i] EXCEPT !.status = s]
    BY <1>1, <1>2, <1>4, RowChange DEF Lawful
  <1>5. CASE db[i].ip # None /\ db'[i] = [db[i] EXCEPT !.status = s]
    <2>1. /\ LedgerStatus' = [LedgerStatus EXCEPT ![i] = s]
          /\ LedgerStatus[i] = HeldStatus(t)
          /\ LedgerCarried' = LedgerCarried
          /\ i \in LedgerCarried <=> pc[t] = "committed"
      BY <1>1, <1>2, <1>5, RowChange
    <2>2. CASE pc[t] = "opened" /\ s = "waiting_approval"
      <3>1. Ledger!Publish(i)
        BY <2>1, <2>2 DEF Ledger!Publish, Ledger!Moves, HeldStatus
      <3> QED  BY <1>1, <3>1 DEF Lawful, Ledger!LedgerNext
    <2>3. CASE pc[t] = "committed" /\ s = "completed"
      <3>1. Ledger!Complete(i)
        BY <2>1, <2>3 DEF Ledger!Complete, Ledger!Moves, HeldStatus
      <3> QED  BY <1>1, <3>1 DEF Lawful, Ledger!LedgerNext
    <2>4. CASE pc[t] \in {"expiring", "declining", "refused"}
               /\ s \in {"expired", "cancelled", "rejected", "failed"}
      <3>1. Ledger!Decline(i)
        BY <2>1, <2>4 DEF Ledger!Decline, Ledger!Moves, Ledger!Declined, HeldStatus
      <3> QED  BY <1>1, <3>1 DEF Lawful, Ledger!LedgerNext
    <2> QED  BY <1>1, <1>5, <2>2, <2>3, <2>4, EndStatuses
  <1> QED  BY <1>2, <1>3, <1>4, <1>5

LEMMA ActingIsLawful ==
  ASSUME TypeOK, Facts, NEW t \in Threads, CarryOutBlock(t)
  PROVE  Lawful
  <1>1. PICK i \in Present(db) :
           /\ i = op[t].review /\ i \in Ids /\ i \notin acted
           /\ db[i].status = "processing_approval"
    BY DEF CarryOutBlock, Facts, Owned, Held, HeldStatus, Holders, Present
  <1>2. UNCHANGED db /\ acted' = acted \cup {i}
    BY <1>1 DEF CarryOutBlock
  <1>3. LedgerStatus' = LedgerStatus /\ (IsRequest(i)' <=> IsRequest(i))
    BY <1>2 DEF LedgerStatus, IsRequest
  <1>4. CASE IsRequest(i)
    <2>1. LedgerCarried' = LedgerCarried \cup {i} /\ i \notin LedgerCarried
      BY <1>1, <1>2, <1>4 DEF LedgerCarried, IsRequest
    <2>2. LedgerStatus[i] = "processing_approval"
      BY <1>1, <1>4 DEF LedgerStatus
    <2>3. Ledger!CarryOut(i)
      BY <1>3, <2>1, <2>2 DEF Ledger!CarryOut
    <2> QED  BY <1>1, <2>3 DEF Lawful, Ledger!LedgerNext
  <1>5. CASE ~IsRequest(i)
    <2>1. LedgerCarried' = LedgerCarried
      BY <1>2, <1>5 DEF LedgerCarried, IsRequest
    <2> QED  BY <1>3, <2>1 DEF Lawful, Same
  <1> QED  BY <1>4, <1>5

LEMMA PurgeIsLawful ==
  ASSUME TypeOK, NEW gone \in SUBSET Ids, Purge(gone) PROVE Lawful
  <1> DEFINE g == {i \in gone : IsRequest(i)}
  <1>1. PICK h \in SUBSET Ids : h = g
    OBVIOUS
  <1>2. /\ gone \subseteq Present(db) /\ \A i \in gone : db[i].status \in Closed
        /\ \A i \in Ids : db'[i] = IF i \in gone THEN None ELSE db[i]
        /\ UNCHANGED acted
    BY DEF Purge, Keep, Unnoted
  <1>3. \A i \in Ids : IsRequest(i)' <=> IsRequest(i) /\ i \notin gone
    BY <1>2 DEF IsRequest
  <1>4. LedgerStatus' = [i \in Ids |-> IF i \in h THEN "none" ELSE LedgerStatus[i]]
    BY <1>1, <1>2, <1>3 DEF LedgerStatus
  <1>5. LedgerCarried' = LedgerCarried \ h
    BY <1>1, <1>2, <1>3 DEF LedgerCarried, TypeOK
  <1>6. \A i \in h : LedgerStatus[i] \in Ledger!Closed
    BY <1>1, <1>2 DEF LedgerStatus, Closed, Ledger!Closed, Ledger!Declined
  <1>7. Ledger!Forget(h)
    BY <1>4, <1>5, <1>6 DEF Ledger!Forget
  <1> QED  BY <1>7 DEF Lawful, Ledger!LedgerNext

LEMMA RestartIsLawful ==
  ASSUME TypeOK, Restart PROVE Lawful
  <1>1. /\ \A i \in Ids : db'[i] =
             IF db[i] # None /\ db[i].status \in {"running", "processing_approval"}
             THEN [db[i] EXCEPT !.status = "interrupted"] ELSE db[i]
        /\ UNCHANGED acted
    BY DEF Restart, Recovered, Unnoted
  <1>2. \A i \in Ids : IF db[i] # None
                       THEN /\ db'[i] # None /\ db'[i].ip = db[i].ip
                            /\ db'[i].status =
                                 IF db[i].status \in {"running", "processing_approval"}
                                 THEN "interrupted" ELSE db[i].status
                       ELSE db'[i] = None
    <2> SUFFICES ASSUME NEW i \in Ids, db[i] # None
                 PROVE  /\ db'[i] # None /\ db'[i].ip = db[i].ip
                        /\ db'[i].status =
                             IF db[i].status \in {"running", "processing_approval"}
                             THEN "interrupted" ELSE db[i].status
      BY <1>1
    <2>1. db[i] \in Entries /\ "interrupted" \in Statuses
      BY DEF TypeOK, Statuses, Closed
    <2>2. CASE db[i].status \in {"running", "processing_approval"}
      <3>1. db'[i] = [db[i] EXCEPT !.status = "interrupted"]
        BY <1>1, <2>2
      <3> QED  BY <2>1, <2>2, <3>1, EntryType, NotAnEntry
    <2>3. CASE db[i].status \notin {"running", "processing_approval"}
      BY <1>1, <2>3
    <2> QED  BY <2>2, <2>3
  <1>3. \A i \in Ids : IsRequest(i)' <=> IsRequest(i)
    BY <1>2 DEF IsRequest
  <1>4. LedgerCarried' = LedgerCarried
    BY <1>1, <1>3 DEF LedgerCarried, TypeOK
  <1>5. LedgerStatus' = [i \in Ids |-> IF LedgerStatus[i] \in {"running", "processing_approval"}
                                      THEN "interrupted" ELSE LedgerStatus[i]]
    BY <1>2, <1>3 DEF LedgerStatus, IsRequest
  <1>6. Ledger!Interrupt
    BY <1>4, <1>5 DEF Ledger!Interrupt
  <1> QED  BY <1>6 DEF Lawful, Ledger!LedgerNext

LEMMA StepIsLawful ==
  ASSUME TypeOK, Facts, Addressed, NEW t \in Threads, Step(t) PROVE Lawful
  <1>1. ASSUME NEW ip \in IPs, Ask(t, ip) PROVE Lawful
    BY <1>1, SameRows DEF Ask, Unnoted, Lawful
  <1>2. CASE FindDuplicate(t) \/ Respond(t) \/ Sweep(t) \/ EndSweep(t) \/ Fetch(t)
             \/ CheckApproved(t)
    BY <1>2, SameRows DEF FindDuplicate, Respond, Sweep, EndSweep, Fetch, CheckApproved,
                          Unnoted, Lawful
  <1>3. ASSUME NEW i \in Ids, NEW decision \in Decisions, Review(t, i, decision)
        PROVE  Lawful
    BY <1>3, SameRows DEF Review, Unnoted, Lawful
  <1>4. CASE OpenRequest(t)
    <2>1. op[t].ip \in IPs \cup {None}
      BY DEF TypeOK, Locals
    <2> QED  BY <1>4, <2>1, OpeningIsLawful DEF OpenRequest
  <1>5. CASE StartPlaybook(t)
    BY <1>5, OpeningIsLawful DEF StartPlaybook
  <1>6. ASSUME NEW i \in Ids, ClaimOverdue(t, i) PROVE Lawful
    BY <1>6, ClaimingIsLawful, SameRows DEF ClaimOverdue, Lawful
  <1>7. CASE ClaimForReview(t)
    <2>1. CASE Claimable(op[t].review)
      <3>1. PICK i \in Ids : i = op[t].review
        BY <1>7 DEF ClaimForReview, Addressed
      <3> QED  BY <1>7, <2>1, <3>1, ClaimingIsLawful DEF ClaimForReview
    <2>2. CASE ~Claimable(op[t].review)
      BY <1>7, <2>2, SameRows DEF ClaimForReview, Lawful
    <2> QED  BY <2>1, <2>2
  <1>8. ASSUME NEW s \in Statuses, Ends(t, s), SetStatus(Held(t), s),
               UNCHANGED <<lastId, acted>>, pc[t] \in Holders
        PROVE  Lawful
    BY <1>8, EndingIsLawful
  <1>9. CASE Publish(t)
    BY <1>8, <1>9 DEF Publish, Unnoted, Held, Ends, Holders, Statuses
  <1>10. CASE FinishPlaybook(t)
    BY <1>8, <1>10 DEF FinishPlaybook, Unnoted, Held, Ends, Holders, Statuses, Closed
  <1>11. CASE CloseOverdue(t)
    BY <1>8, <1>11 DEF CloseOverdue, Unnoted, Held, Ends, Holders, Statuses, Closed
  <1>12. CASE Decline(t)
    BY <1>8, <1>12 DEF Decline, Declined, Unnoted, Held, Ends, Holders, Statuses, Closed
  <1>13. CASE CloseApproved(t)
    <2>1. CASE UNCHANGED <<mem, db, behind, faults>>
      BY <1>13, <2>1, SameRows DEF CloseApproved, Unnoted, Lawful
    <2>2. CASE pc[t] = "committed" /\ SetStatus(op[t].review, "completed")
      BY <1>8, <1>13, <2>2 DEF CloseApproved, ApprovedStatus, Unnoted, Held, Ends, Holders, Statuses, Closed
    <2>3. CASE pc[t] = "refused" /\ SetStatus(op[t].review, "failed")
      BY <1>8, <1>13, <2>3 DEF CloseApproved, ApprovedStatus, Unnoted, Held, Ends, Holders, Statuses, Closed
    <2> QED  BY <1>13, <2>1, <2>2, <2>3 DEF CloseApproved, ApprovedStatus
  <1>14. CASE CarryOutBlock(t)
    BY <1>14, ActingIsLawful
  <1>15. CASE StartFails(t) \/ ClaimFails(t) \/ SaveFails(t)
    BY <1>15, FailingIsLawful
  <1> QED
    BY <1>1, <1>2, <1>3, <1>4, <1>5, <1>6, <1>7, <1>9, <1>10, <1>11, <1>12, <1>13, <1>14,
       <1>15
       DEF Step

(* The gate keeps the promise of ApprovalLedger, for every value of the        *)
(* constants: a request is decided once, a block is carried out only for a     *)
(* request that was taken, and the outcome on record is the truth.             *)
THEOREM GateKeepsLedger == Spec => KeepsLedger
<1>1. Init => Ledger!LedgerInit
  <2> SUFFICES ASSUME Init PROVE LedgerStatus = [i \in Ids |-> "none"] /\ LedgerCarried = {}
    BY DEF Ledger!LedgerInit
  <2> QED  BY DEF Init, LedgerStatus, LedgerCarried, IsRequest
<1>2. IInv /\ [Next]_vars => [Ledger!LedgerNext]_(Ledger!ledger)
  <2> SUFFICES ASSUME IInv, [Next]_vars PROVE Lawful
    BY DEF Lawful, Same, Ledger!ledger
  <2>1. TypeOK /\ Facts /\ Addressed
    BY DEF IInv, Facts
  <2>2. ASSUME NEW t \in Threads, Step(t) PROVE Lawful
    BY <2>1, <2>2, StepIsLawful
  <2>3. ASSUME NEW ip \in IPs, Unblock(ip) PROVE Lawful
    BY <2>3, SameRows DEF Unblock, Unnoted, Lawful
  <2>4. CASE Tick
    BY <2>4, SameRows DEF Tick, Unnoted, Lawful
  <2>5. ASSUME NEW gone \in SUBSET Ids, Purge(gone) PROVE Lawful
    BY <2>1, <2>5, PurgeIsLawful
  <2>6. CASE Restart
    BY <2>1, <2>6, RestartIsLawful
  <2>7. CASE UNCHANGED vars
    BY <2>7, SameRows DEF vars, Lawful
  <2> QED  BY <2>2, <2>3, <2>4, <2>5, <2>6, <2>7 DEF Next
<1> QED  BY <1>1, <1>2, Invariant, PTL DEF Spec, KeepsLedger, Ledger!LedgerSpec

=============================================================================
