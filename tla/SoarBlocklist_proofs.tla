------------------------ MODULE SoarBlocklist_proofs ------------------------
(* What holds of the block executor for any number of addresses and threads,   *)
(* any mode, any lifetimes and any number of failures and crashes.             *)
EXTENDS SoarBlocklist, TLAPS, FiniteSetTheorems

LEMMA NoCallType == NoCall \in Locals
  BY NoneAssumption DEF NoCall, Locals, Empty, Lists, Records, Modes, Texts

LEMMA ListType == \A list \in Lists, gone \in SUBSET IPs :
                    Without(list, gone) \in Lists /\ Only(list, gone) \in Lists
  BY DEF Without, Only, Lists

(* What a load makes of the lines is a list: a row is read as it was written,  *)
(* or cut, or is one of the strays.                                            *)
LEMMA LoadedType == \A list \in Lists : Loaded(list) \subseteq Lists
<1>1. ASSUME NEW list \in Lists, NEW kept \in Kept(list), NEW stray \in Lists
      PROVE  Read(list, kept, stray) \in Lists
  <2>1. \A ip \in IPs : list[ip] # None => Cut(list[ip]) \in Records
    <3> SUFFICES ASSUME NEW ip \in IPs, list[ip] # None PROVE Cut(list[ip]) \in Records
      OBVIOUS
    <3>1. list[ip] \in Records
      BY DEF Lists
    <3> HIDE DEF Kept
    <3>2. [list[ip] EXCEPT !.expires = 0, !.reason = "plain"] \in Records
      BY <3>1 DEF Records, Texts
    <3> QED  BY <3>1, <3>2 DEF Cut
  <2>2. \A ip \in kept : ip \in IPs /\ list[ip] # None
    BY DEF Kept, Listed
  <2> QED  BY <2>1, <2>2 DEF Read, Lists
<1>2. Empty \in Lists
  BY DEF Empty, Lists
<1>3. Strays \subseteq Lists
  BY BoundAssumption DEF Strays, Lists, Records, Texts
<1> QED  BY <1>1, <1>2, <1>3 DEF Loaded

(* Where no line is broken, only rows of the file are read, as they are.       *)
LEMMA LoadedIsPart ==
    \A list \in Lists : ~Broken(list) =>
        \A l \in Loaded(list), ip \in IPs : l[ip] # None => l[ip] = list[ip]
<1> SUFFICES ASSUME NEW list \in Lists, ~Broken(list), NEW l \in Loaded(list), NEW ip \in IPs,
                    l[ip] # None
             PROVE  l[ip] = list[ip]
  OBVIOUS
<1>1. PICK kept \in Kept(list) : l = Read(list, kept, Empty)
  BY DEF Loaded, Kept, Broken
<1>2. ip \in kept /\ l[ip] = Cut(list[ip])
  BY <1>1 DEF Read, Empty
<1> QED  BY <1>2 DEF Cut, Broken, Listed

(* A readable file is read back as it is.                                      *)
LEMMA LoadedIsWhole ==
    \A list \in Lists : Readable(list) => Loaded(list) = {list}
<1> SUFFICES ASSUME NEW list \in Lists, Readable(list) PROVE Loaded(list) = {list}
  OBVIOUS
<1>1. Kept(list) = {Listed(list)} /\ ~Broken(list)
  BY DEF Kept, Readable, Broken, Listed
<1>2. Read(list, Listed(list), Empty) = list
  BY DEF Read, Empty, Cut, Readable, Listed, Lists
<1> QED  BY <1>1, <1>2 DEF Loaded, Broken

(* The types are preserved by every step.                                      *)
LEMMA TypePreserved == TypeOK /\ [Next]_vars => TypeOK'
<1> SUFFICES ASSUME TypeOK, [Next]_vars PROVE TypeOK'
  OBVIOUS
<1> USE ThreadAssumption, AddressAssumption, ModeAssumption, TTLAssumption,
        ReasonAssumption, BoundAssumption, FreeAssumption, NoCallType DEF TypeOK, PCs
<1>1. ASSUME NEW t \in Threads, NEW ip \in IPs, NEW ttl \in TTLs, NEW reason \in Reasons,
             BlockIp(t, ip, ttl, reason)
      PROVE  TypeOK'
  <2>1. [NoCall EXCEPT !.ip = ip, !.ttl = ttl, !.reason = reason] \in Locals
    BY DEF Locals
  <2> QED  BY <1>1, <2>1 DEF BlockIp
<1>2. ASSUME NEW t \in Threads, Enforce(t) PROVE TypeOK'
  <2>1. \A ok \in BOOLEAN : RecordedMode(ok) \in Modes
    BY DEF RecordedMode, Modes
  <2>2. op' \in [Threads -> Locals]
    <3>1. CASE UNCHANGED op
      BY <3>1
    <3>2. ASSUME NEW ok \in BOOLEAN, op' = [op EXCEPT ![t].mode = RecordedMode(ok)]
          PROVE  op' \in [Threads -> Locals]
      <4>1. [op[t] EXCEPT !.mode = RecordedMode(ok)] \in Locals
        BY <2>1 DEF Locals
      <4> QED  BY <3>2, <4>1
    <3> QED  BY <1>2, <3>1, <3>2 DEF Enforce
  <2>3. rules' \in [IPs -> Nat] /\ faults' \in 0..MaxFault
    BY <1>2 DEF Enforce, RunFirewall, Inserted
  <2> QED  BY <1>2, <2>2, <2>3 DEF Enforce
<1>3. ASSUME NEW t \in Threads, OpenFile(t), op' \in [Threads -> Locals]
      PROVE  /\ file' \in Lists /\ lock' \in Threads \cup {Free}
             /\ pc' \in [Threads -> PCs] /\ behind' \in BOOLEAN
             /\ faults' \in 0..MaxFault
  <2>1. Empty \in Lists
    BY DEF Empty, Lists
  <2>2. CASE /\ file' = Empty /\ lock' = t /\ pc' = [pc EXCEPT ![t] = "saving"]
             /\ UNCHANGED <<behind, faults>>
    BY <2>1, <2>2
  <2>3. CASE /\ faults < MaxFault /\ faults' = faults + 1
             /\ behind' = TRUE
             /\ pc' = [pc EXCEPT ![t] = IF op'[t].ip = None THEN "releasing"
                                                            ELSE "recorded"]
             /\ UNCHANGED <<file, lock>>
    BY <2>3
  <2> QED  BY <1>3, <2>2, <2>3 DEF OpenFile
<1>4. ASSUME NEW t \in Threads, Record(t) PROVE TypeOK'
  <2>1. op[t] \in Locals
    OBVIOUS
  <2>2. [mode |-> op[t].mode, reason |-> op[t].reason,
         expires |-> IF op[t].ttl > 0 THEN now + op[t].ttl ELSE 0] \in Records
    BY <2>1 DEF Locals, Records
  <2>3. blocked' \in Lists
    BY <1>4, <2>2 DEF Record, Lists
  <2> QED  BY <1>3, <1>4, <2>3 DEF Record
<1>5. ASSUME NEW t \in Threads, WriteFile(t) PROVE TypeOK'
  <2>1. behind' \in BOOLEAN
    BY <1>5, Zenon DEF WriteFile
  <2>2. /\ file' \in Lists /\ faults' \in 0..MaxFault /\ lock' = Free
        /\ UNCHANGED <<mode, blocked, rules, op, misread, now, restarts>>
    <3>1. \A written \in SUBSET Listed(blocked) : Only(blocked, written) \in Lists
      BY ListType DEF Listed
    <3> QED  BY <1>5, <3>1 DEF WriteFile
  <2>3. pc' \in [Threads -> PCs]
    BY <1>5 DEF WriteFile
  <2> QED  BY <2>1, <2>2, <2>3
<1>6. ASSUME NEW t \in Threads, Finish(t) PROVE TypeOK'
  BY <1>6 DEF Finish
<1>7. ASSUME NEW t \in Threads, NEW gone \in SUBSET IPs, TakeOff(t, gone) PROVE TypeOK'
  <2>1. [NoCall EXCEPT !.release = Only(blocked, gone)] \in Locals
    BY ListType DEF Locals
  <2>2. blocked' \in Lists /\ op' \in [Threads -> Locals]
    BY <1>7, <2>1, ListType DEF TakeOff
  <2> QED  BY <1>3, <1>7, <2>2 DEF TakeOff
<1>8. ASSUME NEW t \in Threads, NEW ip \in IPs, ManualUnblock(t, ip) PROVE TypeOK'
  BY <1>7, <1>8 DEF ManualUnblock
<1>9. ASSUME NEW t \in Threads, ExpireBlocks(t) PROVE TypeOK'
  BY <1>7, <1>9 DEF ExpireBlocks, Due, Listed
<1>10. ASSUME NEW t \in Threads, NEW ip \in IPs, ReleaseRule(t, ip) PROVE TypeOK'
  <2>1. op[t] \in Locals
    OBVIOUS
  <2>2. Without(op[t].release, {ip}) \in Lists
    BY <2>1, ListType DEF Locals
  <2>3. op' \in [Threads -> Locals]
    <3>1. [op[t] EXCEPT !.release = Without(op[t].release, {ip})] \in Locals
      BY <2>1, <2>2 DEF Locals
    <3> QED  BY <1>10, <3>1 DEF ReleaseRule
  <2>4. rules' \in [IPs -> Nat] /\ faults' \in 0..MaxFault
    BY <1>10 DEF ReleaseRule, RunFirewall, Deleted
  <2> QED  BY <1>10, <2>3, <2>4 DEF ReleaseRule
<1>11. CASE Tick
  BY <1>11 DEF Tick
<1>12. CASE Restart
  <2>1. Loaded(file) \subseteq Lists
    BY LoadedType
  <2>2. behind' \in BOOLEAN /\ misread' \in BOOLEAN
    BY <1>12, Zenon DEF Restart
  <2>3. /\ blocked' \in Lists /\ lock' = Free /\ restarts' \in 0..MaxRestart
        /\ UNCHANGED <<mode, file, rules, now, faults>>
    BY <1>12, <2>1 DEF Restart
  <2>4. pc' \in [Threads -> PCs] /\ op' \in [Threads -> Locals]
    BY <1>12 DEF Restart
  <2> QED  BY <2>2, <2>3, <2>4
<1>13. CASE UNCHANGED vars
  BY <1>13 DEF vars
<1> QED
  BY <1>1, <1>2, <1>4, <1>5, <1>6, <1>8, <1>9, <1>10, <1>11, <1>12, <1>13 DEF Next, Step

(* Every reachable state is well typed.                                        *)
THEOREM TypeCorrect == Spec => []TypeOK
<1>1. Init => TypeOK
  <2> SUFFICES ASSUME Init PROVE TypeOK
    OBVIOUS
  <2>1. behind \in BOOLEAN /\ misread \in BOOLEAN
    BY DEF Init
  <2>2. blocked \in Lists /\ file \in Lists
    BY DEF Init, Empty, Lists
  <2>3. pc \in [Threads -> PCs] /\ op \in [Threads -> Locals]
    BY NoCallType DEF Init, PCs
  <2>4. /\ mode \in BlockModes /\ rules \in [IPs -> Nat] /\ lock = Free
        /\ now \in Nat /\ faults \in 0..MaxFault /\ restarts \in 0..MaxRestart
    BY BoundAssumption DEF Init
  <2> QED  BY <2>1, <2>2, <2>3, <2>4 DEF TypeOK
<1> QED  BY <1>1, TypePreserved, PTL DEF Spec

(* The block list file is the list in memory whenever no save is under way:    *)
(* the threads change both inside one critical section, and a crash reads back *)
(* what is there.                                                              *)
LEMMA SavePreserved == TypeOK /\ FileHoldsBlocks /\ [Next]_vars => FileHoldsBlocks'
<1> SUFFICES ASSUME TypeOK, FileHoldsBlocks, [Next]_vars PROVE FileHoldsBlocks'
  OBVIOUS
<1>1. ASSUME UNCHANGED <<blocked, file, lock, behind, restarts>> PROVE FileHoldsBlocks'
  <2>1. (Readable(file)' <=> Readable(file)) /\ Loaded(file)' = Loaded(file)
    BY <1>1
  <2> QED  BY <1>1, <2>1 DEF FileHoldsBlocks
<1>2. ASSUME NEW t \in Threads, OpenFile(t) PROVE FileHoldsBlocks'
  BY <1>2, FreeAssumption DEF OpenFile, FileHoldsBlocks
<1>3. ASSUME NEW t \in Threads, WriteFile(t) PROVE FileHoldsBlocks'
  BY <1>3 DEF WriteFile, FileHoldsBlocks
<1>4. CASE Restart
  <2>1. Readable(file) => blocked' = file
    BY <1>4, LoadedIsWhole DEF Restart, TypeOK
  <2>2. (Readable(file)' <=> Readable(file)) /\ Loaded(file)' = Loaded(file)
    BY <1>4 DEF Restart
  <2>3. restarts' > 0
    BY <1>4 DEF Restart, TypeOK
  <2> QED  BY <1>4, <2>1, <2>2, <2>3 DEF Restart, FileHoldsBlocks
<1>5. ASSUME NEW t \in Threads, Step(t) PROVE FileHoldsBlocks'
  <2>1. ASSUME NEW ip \in IPs, NEW ttl \in TTLs, NEW reason \in Reasons,
               BlockIp(t, ip, ttl, reason)
        PROVE  FileHoldsBlocks'
    BY <1>1, <2>1 DEF BlockIp
  <2>2. CASE Enforce(t)
    BY <1>1, <2>2 DEF Enforce
  <2>3. CASE Record(t)
    BY <1>2, <2>3 DEF Record
  <2>4. CASE Finish(t)
    BY <1>1, <2>4 DEF Finish
  <2>5. ASSUME NEW ip \in IPs, ManualUnblock(t, ip) PROVE FileHoldsBlocks'
    BY <1>2, <2>5 DEF ManualUnblock, TakeOff
  <2>6. CASE ExpireBlocks(t)
    BY <1>2, <2>6 DEF ExpireBlocks, TakeOff
  <2>7. ASSUME NEW ip \in IPs, ReleaseRule(t, ip) PROVE FileHoldsBlocks'
    BY <1>1, <2>7 DEF ReleaseRule
  <2> QED
    BY <1>3, <1>5, <2>1, <2>2, <2>3, <2>4, <2>5, <2>6, <2>7 DEF Step
<1> QED
  BY <1>1, <1>4, <1>5 DEF Next, Tick, vars

THEOREM FileIsList == Spec => []FileHoldsBlocks
<1>1. Init => FileHoldsBlocks
  BY DEF Init, FileHoldsBlocks
<1> QED  BY <1>1, TypeCorrect, SavePreserved, PTL DEF Spec

-----------------------------------------------------------------------------
(* The rules of an address, counted.  With iptables every insertion stacks a   *)
(* rule and every removal takes one away, so there are at least as many as     *)
(* there are threads that have inserted one they have yet to record or taken   *)
(* off a record whose rule they have yet to remove, and one more for a record  *)
(* on the list, or in a file that a restart would read.                        *)
Claims(list, ip) == list[ip] # None /\ list[ip].mode # "simulate"
Owes(t, ip) == \/ pc[t] = "enforced" /\ op[t].ip = ip /\ op[t].mode # "simulate"
               \/ Claims(op[t].release, ip)
Owing(ip) == {t \in Threads : Owes(t, ip)}
Debt(t, ip) == IF Owes(t, ip) THEN 1 ELSE 0
OnRecord(ip) == IF Claims(blocked, ip) \/ (~behind /\ Claims(file, ip)) THEN 1 ELSE 0

CallsAreSound == \A t \in Threads :
    /\ pc[t] \in {"checked", "enforced"} => op[t].ip \in IPs
    /\ pc[t] \in {"idle", "checked", "enforced", "recorded"} => op[t].release = Empty
    /\ op[t].ip # None => op[t].release = Empty
    /\ pc[t] = "checked" => op[t].mode = "simulate"

RulesCoverRecords == ~misread =>
    \A ip \in IPs : /\ IsFiniteSet(Owing(ip))
                    /\ Cardinality(Owing(ip)) + OnRecord(ip) <= rules[ip]

(* A thread's step changes its own debts only, and they are matched by rules.  *)
LEMMA DebtIsCovered ==
    ASSUME TypeOK, TypeOK', RulesCoverRecords, misread' = misread, NEW t \in Threads,
           \A s \in Threads \ {t}, ip \in IPs : Owes(s, ip)' <=> Owes(s, ip),
           \A ip \in IPs : Debt(t, ip)' + OnRecord(ip)' - Debt(t, ip) - OnRecord(ip) <= rules'[ip] - rules[ip]
    PROVE  RulesCoverRecords'
<1> SUFFICES ASSUME ~misread, NEW ip \in IPs
             PROVE  IsFiniteSet(Owing(ip))' /\ (Cardinality(Owing(ip)) + OnRecord(ip) <= rules[ip])'
  BY DEF RulesCoverRecords
<1>1. IsFiniteSet(Owing(ip)) /\ Cardinality(Owing(ip)) + OnRecord(ip) <= rules[ip]
  BY DEF RulesCoverRecords
<1>2. Owing(ip)' = IF Owes(t, ip)' THEN Owing(ip) \cup {t} ELSE Owing(ip) \ {t}
  BY DEF Owing
<1>3. t \in Owing(ip) <=> Owes(t, ip)
  BY DEF Owing
<1>4. IsFiniteSet(Owing(ip)')
  BY <1>1, <1>2, FS_AddElement, FS_RemoveElement
<1>5. Cardinality(Owing(ip)') = Cardinality(Owing(ip)) + Debt(t, ip)' - Debt(t, ip)
  <2>1. CASE Owes(t, ip)'
    BY <1>1, <1>2, <1>3, <2>1, FS_AddElement, FS_CardinalityType DEF Debt
  <2>2. CASE ~Owes(t, ip)'
    <3>1. Owing(ip)' = Owing(ip) \ {t} /\ Debt(t, ip)' = 0
      BY <1>2, <2>2 DEF Debt
    <3>2. Cardinality(Owing(ip)) \in Nat /\ Debt(t, ip) = IF t \in Owing(ip) THEN 1 ELSE 0
      BY <1>1, <1>3, FS_CardinalityType DEF Debt
    <3>3. Cardinality(Owing(ip) \ {t}) = IF t \in Owing(ip) THEN Cardinality(Owing(ip)) - 1
                                                          ELSE Cardinality(Owing(ip))
      BY <1>1, FS_RemoveElement
    <3> QED  BY <3>1, <3>2, <3>3
  <2> QED  BY <2>1, <2>2
<1>6. /\ Cardinality(Owing(ip)) \in Nat /\ Debt(t, ip) \in Int /\ Debt(t, ip)' \in Int
      /\ OnRecord(ip) \in Int /\ OnRecord(ip)' \in Int /\ rules[ip] \in Nat /\ rules'[ip] \in Nat
  BY <1>1, FS_CardinalityType DEF Debt, OnRecord, TypeOK
<1> QED  BY <1>1, <1>4, <1>5, <1>6

(* The locals of a call, one thread at a time.                                 *)
OthersStay(t) == \A s \in Threads \ {t} : pc'[s] = pc[s] /\ op'[s] = op[s]
LEMMA OneCall ==
    ASSUME CallsAreSound, NEW t \in Threads, OthersStay(t),
           pc'[t] \in {"checked", "enforced"} => op'[t].ip \in IPs,
           pc'[t] \in {"idle", "checked", "enforced", "recorded"} => op'[t].release = Empty,
           op'[t].ip # None => op'[t].release = Empty,
           pc'[t] = "checked" => op'[t].mode = "simulate"
    PROVE  /\ CallsAreSound'
           /\ \A s \in Threads \ {t}, ip \in IPs : Owes(s, ip)' <=> Owes(s, ip)
<1>1. CallsAreSound'
  BY DEF CallsAreSound, OthersStay
<1>2. \A s \in Threads \ {t}, ip \in IPs : Owes(s, ip)' <=> Owes(s, ip)
  BY DEF Owes, Claims, OthersStay
<1> QED  BY <1>1, <1>2

LEMMA NoDebt == \A ip \in IPs : ~Claims(Empty, ip)
  BY DEF Claims, Empty

Counted == CallsAreSound /\ RulesCoverRecords

LEMMA BlockIpCounts ==
    ASSUME TypeOK, TypeOK', Counted, NEW t \in Threads, NEW ip \in IPs, NEW ttl, NEW reason,
           BlockIp(t, ip, ttl, reason)
    PROVE  Counted'
<1> DEFINE locals == [NoCall EXCEPT !.ip = ip, !.ttl = ttl, !.reason = reason]
<1>1. locals.ip = ip /\ locals.release = Empty /\ locals.mode = "simulate"
  BY DEF NoCall
<1>2. /\ pc[t] = "idle" /\ pc' = [pc EXCEPT ![t] = "checked"] /\ op' = [op EXCEPT ![t] = locals]
      /\ UNCHANGED <<blocked, file, behind, rules, misread>>
  BY DEF BlockIp
<1> HIDE DEF locals
<1>3. /\ CallsAreSound' /\ pc'[t] = "checked" /\ op'[t] = locals
      /\ \A s \in Threads \ {t}, x \in IPs : Owes(s, x)' <=> Owes(s, x)
  <2>1. pc'[t] = "checked" /\ op'[t] = locals /\ OthersStay(t)
    BY <1>1, <1>2 DEF OthersStay, TypeOK
  <2> QED  BY <1>1, <1>2, <2>1, OneCall DEF Counted
<1>4. \A x \in IPs : ~Owes(t, x) /\ ~Owes(t, x)' /\ OnRecord(x)' = OnRecord(x)
  BY <1>1, <1>2, <1>3, NoDebt DEF Owes, OnRecord, Claims, Counted, CallsAreSound
<1>5. RulesCoverRecords'
  BY <1>2, <1>3, <1>4, DebtIsCovered DEF Counted, Debt, OnRecord, TypeOK
<1> QED  BY <1>3, <1>5 DEF Counted

LEMMA EnforceCounts ==
    ASSUME TypeOK, TypeOK', Counted, mode # "ufw", NEW t \in Threads, Enforce(t)
    PROVE  Counted'
<1>1. /\ pc[t] = "checked" /\ pc' = [pc EXCEPT ![t] = "enforced"] /\ op[t].ip \in IPs
      /\ op[t].release = Empty /\ op[t].mode = "simulate" /\ op[t] \in Locals
      /\ UNCHANGED <<blocked, file, behind, misread>>
  BY DEF Enforce, Counted, CallsAreSound, TypeOK
<1>2. PICK locals : /\ op' = [op EXCEPT ![t] = locals]
                    /\ locals.ip = op[t].ip /\ locals.release = Empty
                    /\ \/ locals.mode = "simulate" /\ \A x \in IPs : rules'[x] >= rules[x]
                       \/ \A x \in IPs : rules'[x] = rules[x] + (IF x = op[t].ip THEN 1 ELSE 0)
  <2>1. CASE mode = "simulate"
    BY <1>1, <2>1 DEF Enforce, TypeOK
  <2>2. ASSUME mode # "simulate", NEW ok \in BOOLEAN, RunFirewall(Inserted(op[t].ip), ok),
               op' = [op EXCEPT ![t].mode = RecordedMode(ok)]
        PROVE  \E locals : /\ op' = [op EXCEPT ![t] = locals]
                    /\ locals.ip = op[t].ip /\ locals.release = Empty
                    /\ \/ locals.mode = "simulate" /\ \A x \in IPs : rules'[x] >= rules[x]
                       \/ \A x \in IPs : rules'[x] = rules[x] + (IF x = op[t].ip THEN 1 ELSE 0)
    <3> DEFINE locals == [op[t] EXCEPT !.mode = RecordedMode(ok)]
    <3>1. locals.ip = op[t].ip /\ locals.release = Empty /\ locals.mode = RecordedMode(ok)
      BY <1>1 DEF Locals
    <3>2. op' = [op EXCEPT ![t] = locals]
      BY <2>2
    <3> HIDE DEF locals
    <3>3. \A x \in IPs : Inserted(op[t].ip)[x] = rules[x] + (IF x = op[t].ip THEN 1 ELSE 0)
      BY <1>1 DEF Inserted, TypeOK
    <3>4. CASE ok
      BY <2>2, <3>1, <3>2, <3>3, <3>4 DEF RunFirewall
    <3>5. CASE ~ok
      <4>1. locals.mode = "simulate"
        BY <3>1, <3>5 DEF RecordedMode
      <4>2. \A x \in IPs : rules'[x] >= rules[x]
        BY <2>2, <3>3, <3>5 DEF RunFirewall, TypeOK
      <4> QED  BY <3>1, <3>2, <4>1, <4>2
    <3> QED  BY <3>4, <3>5
  <2> QED  BY <2>1, <2>2 DEF Enforce
<1>3. /\ CallsAreSound' /\ pc'[t] = "enforced" /\ op'[t] = locals
      /\ \A s \in Threads \ {t}, x \in IPs : Owes(s, x)' <=> Owes(s, x)
  <2>1. pc'[t] = "enforced" /\ op'[t] = locals /\ OthersStay(t)
    BY <1>1, <1>2 DEF OthersStay, TypeOK
  <2> QED  BY <1>1, <1>2, <2>1, OneCall DEF Counted
<1>4. \A x \in IPs : /\ ~Owes(t, x) /\ OnRecord(x)' = OnRecord(x)
                     /\ Owes(t, x)' => x = op[t].ip /\ locals.mode # "simulate"
  BY <1>1, <1>2, <1>3, NoDebt DEF Owes, OnRecord, Claims
<1>5. RulesCoverRecords'
  BY <1>1, <1>2, <1>3, <1>4, DebtIsCovered DEF Counted, Debt, OnRecord, TypeOK
<1> QED  BY <1>3, <1>5 DEF Counted

(* Opening the file for a save: until it is written a restart reads nothing    *)
(* from it, or one that reads it counts as misread.                           *)
LEMMA OpenFileForgets ==
    ASSUME NEW t \in Threads, OpenFile(t)
    PROVE  /\ \A ip \in IPs : OnRecord(ip)' = IF Claims(blocked', ip) THEN 1 ELSE 0
           /\ \/ pc' = [pc EXCEPT ![t] = "saving"]
              \/ pc' = [pc EXCEPT ![t] = IF op'[t].ip = None THEN "releasing" ELSE "recorded"]
<1>1. \A ip \in IPs : ~((~behind /\ Claims(file, ip))')
  BY NoDebt DEF OpenFile, Claims
<1>2. \A ip \in IPs : Claims(blocked, ip)' <=> Claims(blocked', ip)
  BY DEF Claims
<1> QED  BY <1>1, <1>2 DEF OnRecord, OpenFile

(* The thread's own insertion becomes the record's; another record of the      *)
(* address that it overwrites leaves a rule too many.                          *)
LEMMA RecordCounts ==
    ASSUME TypeOK, TypeOK', Counted, NEW t \in Threads, Record(t)
    PROVE  Counted'
<1>1. /\ pc[t] = "enforced" /\ op[t].ip \in IPs /\ op[t].release = Empty
      /\ OpenFile(t) /\ op' = op /\ UNCHANGED <<rules, misread>>
      /\ blocked' = [blocked EXCEPT ![op[t].ip] =
                        [mode |-> op[t].mode, reason |-> op[t].reason,
                         expires |-> IF op[t].ttl > 0 THEN now + op[t].ttl ELSE 0]]
  BY DEF Record, Counted, CallsAreSound
<1>2. PICK place \in {"saving", "recorded"} : pc' = [pc EXCEPT ![t] = place]
  BY <1>1, NoneAssumption, OpenFileForgets
<1>3. op' = [op EXCEPT ![t] = op[t]]
  BY <1>1 DEF TypeOK
<1>4. /\ CallsAreSound' /\ pc'[t] = place /\ op'[t] = op[t]
      /\ \A s \in Threads \ {t}, x \in IPs : Owes(s, x)' <=> Owes(s, x)
  <2>1. pc'[t] = place /\ op'[t] = op[t] /\ OthersStay(t)
    BY <1>1, <1>2, <1>3 DEF OthersStay, TypeOK
  <2> QED  BY <1>1, <1>2, <1>3, <2>1, OneCall DEF Counted
<1>5. \A x \in IPs : /\ ~Owes(t, x)'
                     /\ Owes(t, x) <=> x = op[t].ip /\ op[t].mode # "simulate"
  BY <1>1, <1>2, <1>4, NoDebt DEF Owes
<1>6. \A x \in IPs : /\ x # op[t].ip => Claims(blocked', x) = Claims(blocked, x)
                     /\ x = op[t].ip /\ Claims(blocked', x) => op[t].mode # "simulate"
  BY <1>1 DEF Claims, TypeOK, Lists
<1>7. \A x \in IPs : /\ OnRecord(x)' = IF Claims(blocked', x) THEN 1 ELSE 0
                     /\ OnRecord(x) \in {0, 1} /\ (Claims(blocked, x) => OnRecord(x) = 1)
  BY <1>1, OpenFileForgets DEF OnRecord
<1>8. RulesCoverRecords'
  <2>1. \A x \in IPs : Debt(t, x)' + OnRecord(x)' - Debt(t, x) - OnRecord(x) <= 0
    BY <1>5, <1>6, <1>7 DEF Debt
  <2>2. \A x \in IPs : rules'[x] - rules[x] = 0
    BY <1>1 DEF TypeOK
  <2> QED  BY <1>1, <1>4, <2>1, <2>2, DebtIsCovered DEF Counted
<1> QED  BY <1>4, <1>8 DEF Counted

LEMMA WriteFileCounts ==
    ASSUME TypeOK, TypeOK', Counted, NEW t \in Threads, WriteFile(t)
    PROVE  Counted'
<1>1. /\ pc[t] = "saving" /\ op' = op /\ UNCHANGED <<blocked, rules, misread>>
      /\ (file' = blocked /\ behind' = FALSE) \/ (behind' = TRUE)
      /\ pc' = [pc EXCEPT ![t] = IF op[t].ip = None THEN "releasing" ELSE "recorded"]
  BY DEF WriteFile
<1>2. op' = [op EXCEPT ![t] = op[t]]
  BY <1>1 DEF TypeOK
<1>3. op[t].ip # None => op[t].release = Empty
  BY DEF Counted, CallsAreSound
<1>4. /\ CallsAreSound' /\ pc'[t] = (IF op[t].ip = None THEN "releasing" ELSE "recorded") /\ op'[t] = op[t]
      /\ \A s \in Threads \ {t}, x \in IPs : Owes(s, x)' <=> Owes(s, x)
  <2>1. pc'[t] = (IF op[t].ip = None THEN "releasing" ELSE "recorded") /\ op'[t] = op[t] /\ OthersStay(t)
    BY <1>1, <1>2, <1>3 DEF OthersStay, TypeOK
  <2> QED  BY <1>1, <1>2, <1>3, <2>1, OneCall DEF Counted
<1>5. \A x \in IPs : Debt(t, x)' = Debt(t, x)
  BY <1>1, <1>4 DEF Owes, Debt, Claims
<1>6. \A x \in IPs : OnRecord(x)' <= OnRecord(x) /\ OnRecord(x) \in Int /\ OnRecord(x)' \in Int
  BY <1>1 DEF OnRecord, Claims
<1>7. RulesCoverRecords'
  <2>1. \A x \in IPs : Debt(t, x)' + OnRecord(x)' - Debt(t, x) - OnRecord(x) <= rules'[x] - rules[x]
    BY <1>1, <1>5, <1>6 DEF Debt, TypeOK
  <2> QED  BY <1>1, <1>4, <2>1, DebtIsCovered DEF Counted
<1> QED  BY <1>4, <1>7 DEF Counted

LEMMA FinishCounts ==
    ASSUME TypeOK, TypeOK', Counted, NEW t \in Threads, Finish(t)
    PROVE  Counted'
<1>1. /\ pc[t] = "recorded" /\ pc' = [pc EXCEPT ![t] = "idle"] /\ op' = [op EXCEPT ![t] = NoCall]
      /\ op[t].release = Empty /\ NoCall.release = Empty
      /\ UNCHANGED <<blocked, file, behind, rules, misread>>
  BY DEF Finish, Counted, CallsAreSound, NoCall
<1>2. /\ CallsAreSound' /\ pc'[t] = "idle" /\ op'[t] = NoCall
      /\ \A s \in Threads \ {t}, x \in IPs : Owes(s, x)' <=> Owes(s, x)
  <2>1. pc'[t] = "idle" /\ op'[t] = NoCall /\ OthersStay(t)
    BY <1>1 DEF OthersStay, TypeOK
  <2> QED  BY <1>1, <2>1, OneCall DEF Counted
<1>3. \A x \in IPs : ~Owes(t, x) /\ ~Owes(t, x)' /\ OnRecord(x)' = OnRecord(x)
  BY <1>1, <1>2, NoDebt DEF Owes, OnRecord, Claims
<1>4. RulesCoverRecords'
  BY <1>1, <1>2, <1>3, DebtIsCovered DEF Counted, Debt, OnRecord, TypeOK
<1> QED  BY <1>2, <1>4 DEF Counted

(* Records that leave the list leave their rules as debts of the thread.       *)
LEMMA TakeOffCounts ==
    ASSUME TypeOK, TypeOK', Counted, NEW t \in Threads, pc[t] = "idle",
           NEW gone \in SUBSET Listed(blocked), TakeOff(t, gone)
    PROVE  Counted'
<1> DEFINE locals == [NoCall EXCEPT !.release = Only(blocked, gone)]
<1>1. locals.ip = None /\ locals.release = Only(blocked, gone) /\ locals.mode = "simulate"
  BY DEF NoCall
<1>2. /\ op' = [op EXCEPT ![t] = locals] /\ OpenFile(t) /\ UNCHANGED <<rules, misread>>
      /\ blocked' = Without(blocked, gone) /\ op[t].release = Empty
  BY DEF TakeOff, Counted, CallsAreSound
<1> HIDE DEF locals
<1>3. op'[t] = locals
  BY <1>2 DEF TypeOK
<1>4. PICK place \in {"saving", "releasing"} : pc' = [pc EXCEPT ![t] = place]
  BY <1>1, <1>2, <1>3, OpenFileForgets
<1>5. /\ CallsAreSound' /\ pc'[t] = place /\ op'[t] = locals
      /\ \A s \in Threads \ {t}, x \in IPs : Owes(s, x)' <=> Owes(s, x)
  <2>1. pc'[t] = place /\ op'[t] = locals /\ OthersStay(t)
    BY <1>1, <1>2, <1>4 DEF OthersStay, TypeOK
  <2> QED  BY <1>1, <1>2, <1>4, <2>1, OneCall DEF Counted
<1>6. \A x \in IPs : /\ Claims(blocked', x) <=> Claims(blocked, x) /\ x \notin gone
                     /\ Claims(locals.release, x) <=> Claims(blocked, x) /\ x \in gone
  BY <1>1, <1>2 DEF Without, Only, Claims
<1>7. \A x \in IPs : ~Owes(t, x) /\ (Owes(t, x)' <=> Claims(blocked, x) /\ x \in gone)
  BY <1>2, <1>3, <1>4, <1>5, <1>6, NoDebt DEF Owes, Claims
<1>8. \A x \in IPs : /\ OnRecord(x)' = IF Claims(blocked', x) THEN 1 ELSE 0
                     /\ OnRecord(x) \in {0, 1} /\ (Claims(blocked, x) => OnRecord(x) = 1)
  BY <1>2, OpenFileForgets DEF OnRecord
<1>9. RulesCoverRecords'
  <2>1. \A x \in IPs : Debt(t, x)' + OnRecord(x)' - Debt(t, x) - OnRecord(x) <= 0
    BY <1>6, <1>7, <1>8 DEF Debt
  <2>2. \A x \in IPs : rules'[x] - rules[x] = 0
    BY <1>2 DEF TypeOK
  <2> QED  BY <1>2, <1>5, <2>1, <2>2, DebtIsCovered DEF Counted
<1> QED  BY <1>5, <1>9 DEF Counted

(* A removal that is done, or that the code believes done, is no debt any more.*)
LEMMA ReleaseRuleCounts ==
    ASSUME TypeOK, TypeOK', Counted, mode # "ufw", NEW t \in Threads, NEW ip \in IPs, ReleaseRule(t, ip)
    PROVE  Counted'
<1> DEFINE rest == Without(op[t].release, {ip})
           locals == [op[t] EXCEPT !.release = rest]
           place == IF rest = Empty THEN "idle" ELSE "releasing"
<1>1. /\ pc[t] = "releasing" /\ op[t].release[ip] # None /\ op[t] \in Locals
      /\ op' = [op EXCEPT ![t] = locals] /\ pc' = [pc EXCEPT ![t] = place]
      /\ UNCHANGED <<blocked, file, behind, misread>>
  BY DEF ReleaseRule, Listed, TypeOK
<1>2. locals.ip = op[t].ip /\ locals.release = rest
  BY <1>1 DEF Locals
<1>3. op[t].ip = None
  BY <1>1 DEF Counted, CallsAreSound, Empty
<1>4. /\ \A x \in IPs : Claims(rest, x) <=> x # ip /\ Claims(op[t].release, x)
      /\ \A x \in IPs \ {ip} : rules'[x] = rules[x]
      /\ IF Claims(op[t].release, ip) THEN rules'[ip] >= rules[ip] - 1 ELSE rules'[ip] = rules[ip]
  <2>1. \A x \in IPs : Claims(rest, x) <=> x # ip /\ Claims(op[t].release, x)
    BY DEF Without, Claims
  <2>2. CASE op[t].release[ip].mode = "simulate"
    BY <2>1, <2>2 DEF ReleaseRule, Claims
  <2>3. ASSUME op[t].release[ip].mode # "simulate", NEW ok \in BOOLEAN, RunFirewall(Deleted(ip), ok)
        PROVE  (\A x \in IPs \ {ip} : rules'[x] = rules[x]) /\ rules'[ip] >= rules[ip] - 1
    BY <2>3 DEF RunFirewall, Deleted, TypeOK
  <2> QED  BY <1>1, <2>1, <2>2, <2>3 DEF ReleaseRule, Claims
<1> HIDE DEF rest, locals
<1>5. /\ CallsAreSound' /\ pc'[t] = place /\ op'[t] = locals
      /\ \A s \in Threads \ {t}, x \in IPs : Owes(s, x)' <=> Owes(s, x)
  <2>1. pc'[t] = place /\ op'[t] = locals /\ OthersStay(t)
    BY <1>1, <1>2, <1>3 DEF OthersStay, TypeOK
  <2> QED  BY <1>1, <1>2, <1>3, <2>1, OneCall DEF Counted
<1>6. \A x \in IPs : /\ Owes(t, x) <=> Claims(op[t].release, x)
                     /\ Owes(t, x)' <=> Claims(op[t].release, x) /\ x # ip
                     /\ OnRecord(x)' = OnRecord(x)
  BY <1>1, <1>2, <1>4, <1>5 DEF Owes, OnRecord, Claims
<1>7. RulesCoverRecords'
  <2>1. \A x \in IPs : Debt(t, x)' + OnRecord(x)' - Debt(t, x) - OnRecord(x) <= rules'[x] - rules[x]
    BY <1>4, <1>6 DEF Debt, OnRecord, TypeOK
  <2> QED  BY <1>1, <1>5, <2>1, DebtIsCovered DEF Counted
<1> QED  BY <1>5, <1>7 DEF Counted

(* A crash forgets what threads were about to record or to remove; the list is *)
(* what the file says, or part of it.                                          *)
LEMMA RestartCounts ==
    ASSUME TypeOK, TypeOK', Counted, Restart
    PROVE  Counted'
<1>1. /\ pc' = [t \in Threads |-> "idle"] /\ op' = [t \in Threads |-> NoCall] /\ NoCall.release = Empty
      /\ behind' = FALSE /\ misread' = (misread \/ behind \/ Broken(file)) /\ UNCHANGED <<file, rules>>
      /\ blocked' \in Loaded(file) /\ NoCall.ip = None
  BY DEF Restart, NoCall
<1>2. CallsAreSound'
  BY <1>1 DEF CallsAreSound
<1>3. ~misread' => \A ip \in IPs : Claims(blocked', ip) => Claims(file, ip)
  <2> SUFFICES ASSUME ~misread', NEW ip \in IPs, Claims(blocked', ip) PROVE Claims(file, ip)
    OBVIOUS
  <2>1. ~Broken(file)
    BY <1>1, Zenon
  <2> QED  BY <1>1, <2>1, LoadedIsPart DEF Claims, TypeOK
<1>4. ASSUME ~misread', NEW ip \in IPs
      PROVE  (IsFiniteSet(Owing(ip)) /\ Cardinality(Owing(ip)) + OnRecord(ip) <= rules[ip])'
  <2>1. Owing(ip)' = {}
    BY <1>1, NoDebt DEF Owing, Owes, Claims
  <2>0. ~misread /\ ~behind
    BY <1>1, <1>4, Zenon
  <2>2. OnRecord(ip)' <= OnRecord(ip) /\ OnRecord(ip) \in Nat /\ OnRecord(ip)' \in Nat
    BY <1>1, <1>3, <1>4, <2>0 DEF OnRecord, Claims
  <2>3. OnRecord(ip) <= rules[ip]
    <3>1. IsFiniteSet(Owing(ip)) /\ Cardinality(Owing(ip)) + OnRecord(ip) <= rules[ip]
      BY <1>1, <1>4 DEF Counted, RulesCoverRecords
    <3> QED  BY <2>2, <3>1, FS_CardinalityType DEF TypeOK
  <2> QED  BY <1>1, <2>1, <2>2, <2>3, FS_EmptySet DEF TypeOK
<1> QED  BY <1>2, <1>4 DEF Counted, RulesCoverRecords

LEMMA CountPreserved ==
    ASSUME "ufw" \notin BlockModes
    PROVE  TypeOK /\ TypeOK' /\ Counted /\ [Next]_vars => Counted'
<1> SUFFICES ASSUME TypeOK, TypeOK', Counted, [Next]_vars PROVE Counted'
  OBVIOUS
<1>1. mode # "ufw"
  BY DEF TypeOK
<1>2. ASSUME NEW t \in Threads, NEW ip \in IPs, ManualUnblock(t, ip) PROVE Counted'
  BY <1>2, TakeOffCounts DEF ManualUnblock
<1>3. ASSUME NEW t \in Threads, ExpireBlocks(t) PROVE Counted'
  BY <1>3, TakeOffCounts DEF ExpireBlocks, Due
<1>4. CASE Tick \/ UNCHANGED vars
  <2>1. UNCHANGED <<pc, op, blocked, file, behind, rules, misread>>
    BY <1>4 DEF Tick, vars
  <2> QED  BY <2>1 DEF Counted, CallsAreSound, RulesCoverRecords, Owing, Owes, OnRecord, Claims
<1> QED  BY <1>1, <1>2, <1>3, <1>4, BlockIpCounts, EnforceCounts, RecordCounts, WriteFileCounts,
            FinishCounts, ReleaseRuleCounts, RestartCounts DEF Next, Step

(* With iptables, a block that the list calls enforced is enforced: whatever   *)
(* blocks, expiries and removals of one address cross, fail or die half-way.   *)
(* With ufw, which keeps one rule however often it is inserted, this fails.    *)
THEOREM RuleIsThere == ASSUME "ufw" \notin BlockModes PROVE Spec => []RecordIsEnforced
<1>1. Init => Counted
  <2> SUFFICES ASSUME Init PROVE Counted
    OBVIOUS
  <2>1. CallsAreSound
    BY DEF Init, CallsAreSound, NoCall
  <2>2. ASSUME NEW ip \in IPs PROVE Owing(ip) = {} /\ OnRecord(ip) = 0 /\ rules[ip] = 0
    BY NoDebt DEF Init, Owing, Owes, OnRecord, Claims, NoCall, Empty
  <2> QED  BY <2>1, <2>2, FS_EmptySet DEF Counted, RulesCoverRecords
<1>2. TypeOK /\ Counted => RecordIsEnforced
  <2> SUFFICES ASSUME TypeOK, Counted, ~misread, NEW ip \in IPs, Enforced(ip) PROVE rules[ip] > 0
    BY DEF RecordIsEnforced
  <2>1. IsFiniteSet(Owing(ip)) /\ Cardinality(Owing(ip)) + OnRecord(ip) <= rules[ip] /\ OnRecord(ip) = 1
    BY DEF Counted, RulesCoverRecords, OnRecord, Claims, Enforced
  <2> QED  BY <2>1, FS_CardinalityType DEF TypeOK
<1> QED  BY <1>1, <1>2, TypeCorrect, CountPreserved, PTL DEF Spec
-----------------------------------------------------------------------------
(* Any firewall, one call at a time for each address.  A rule that is inserted *)
(* twice and removed once is gone with ufw, so counting does not help there;   *)
(* but as long as no two calls for one address cross, who removes a rule has   *)
(* taken the record off the list and out of the file, and nobody puts it back  *)
(* before the rule is gone.                                                    *)
CallsApart == \A ip \in IPs : \A s, t \in BusyWith(ip) : s = t

Backs(ip) == Claims(blocked, ip) \/ (~behind /\ Claims(file, ip))
Promises(t, ip) == pc[t] = "enforced" /\ op[t].ip = ip /\ op[t].mode # "simulate"

TakenOffIsGone == \A t \in Threads, ip \in IPs : op[t].release[ip] # None => ~Backs(ip)
ClaimsHaveRules == ~misread => \A ip \in IPs :
    (Backs(ip) \/ \E t \in Threads : Promises(t, ip)) => rules[ip] > 0
ApartIInv == CallsAreSound /\ TakenOffIsGone /\ ClaimsHaveRules

LEMMA NothingTakenOff == \A ip \in IPs : Empty[ip] = None
  BY DEF Empty

(* A step of one thread that leaves the firewall and what is taken off alone,  *)
(* and claims nothing new.                                                     *)
LEMMA QuietCallKeeps ==
    ASSUME TypeOK, TypeOK', ApartIInv, NEW t \in Threads, OthersStay(t), CallsAreSound',
           UNCHANGED <<rules, misread>>,
           \A ip \in IPs : Backs(ip)' => Backs(ip) \/ Promises(t, ip),
           \A ip \in IPs : Promises(t, ip)' => Promises(t, ip),
           \A ip \in IPs : op'[t].release[ip] # None => ~Backs(ip)',
           \A ip \in IPs : Promises(t, ip) => \A s \in Threads \ {t} : op[s].release[ip] = None
    PROVE  ApartIInv'
<1>1. TakenOffIsGone'
  BY DEF ApartIInv, TakenOffIsGone, OthersStay
<1>2. \A ip \in IPs : (\E s \in Threads : Promises(s, ip)') => \E s \in Threads : Promises(s, ip)
  BY DEF Promises, OthersStay
<1>3. ClaimsHaveRules'
  BY <1>2 DEF ApartIInv, ClaimsHaveRules
<1> QED  BY <1>1, <1>3 DEF ApartIInv

LEMMA BlockIpApart ==
    ASSUME TypeOK, TypeOK', ApartIInv, NEW t \in Threads, NEW ip \in IPs, NEW ttl, NEW reason,
           BlockIp(t, ip, ttl, reason)
    PROVE  ApartIInv'
<1> DEFINE locals == [NoCall EXCEPT !.ip = ip, !.ttl = ttl, !.reason = reason]
<1>1. locals.ip = ip /\ locals.release = Empty /\ locals.mode = "simulate"
  BY DEF NoCall
<1>2. /\ pc[t] = "idle" /\ pc' = [pc EXCEPT ![t] = "checked"] /\ op' = [op EXCEPT ![t] = locals]
      /\ UNCHANGED <<blocked, file, behind, rules, misread>>
  BY DEF BlockIp
<1> HIDE DEF locals
<1>3. pc'[t] = "checked" /\ op'[t] = locals /\ OthersStay(t)
  BY <1>1, <1>2 DEF OthersStay, TypeOK
<1>4. CallsAreSound'
  BY <1>1, <1>3, OneCall DEF ApartIInv
<1>5. \A x \in IPs : (Backs(x)' <=> Backs(x)) /\ ~Promises(t, x) /\ ~Promises(t, x)' /\ op'[t].release[x] = None
  BY <1>1, <1>2, <1>3, NothingTakenOff DEF Backs, Claims, Promises
<1> QED  BY <1>2, <1>3, <1>4, <1>5, QuietCallKeeps

(* The command is run before anybody relies on its rule.                       *)
LEMMA EnforceApart ==
    ASSUME TypeOK, TypeOK', ApartIInv, NEW t \in Threads, Enforce(t)
    PROVE  ApartIInv'
<1> DEFINE a == op[t].ip
<1>1. /\ pc[t] = "checked" /\ pc' = [pc EXCEPT ![t] = "enforced"]
      /\ a \in IPs /\ op[t].release = Empty /\ op[t].mode = "simulate"
      /\ UNCHANGED <<blocked, file, behind, misread>>
  BY DEF Enforce, ApartIInv, CallsAreSound
<1>2. /\ op'[t].ip = a /\ op'[t].release = Empty /\ OthersStay(t) /\ pc'[t] = "enforced"
      /\ rules' = rules \/ (mode # "simulate" /\ rules' = Inserted(a))
      /\ op'[t].mode = "simulate" \/ (mode # "simulate" /\ rules' = Inserted(a))
  <2>1. CASE op' = op /\ rules' = rules
    BY <1>1, <2>1 DEF OthersStay, TypeOK
  <2>2. CASE mode # "simulate" /\ \E ok \in BOOLEAN :
                RunFirewall(Inserted(a), ok) /\ op' = [op EXCEPT ![t].mode = RecordedMode(ok)]
    <3>1. PICK ok \in BOOLEAN : RunFirewall(Inserted(a), ok) /\ op' = [op EXCEPT ![t].mode = RecordedMode(ok)]
      BY <2>2
    <3>2. /\ op'[t].ip = a /\ op'[t].release = Empty /\ OthersStay(t) /\ pc'[t] = "enforced"
          /\ op'[t].mode = RecordedMode(ok)
      BY <1>1, <3>1 DEF OthersStay, TypeOK, Locals
    <3>3. rules' \in {rules, Inserted(a)} /\ (ok => rules' = Inserted(a))
      BY <3>1 DEF RunFirewall
    <3> QED  BY <2>2, <3>2, <3>3 DEF RecordedMode
  <2> QED  BY <2>1, <2>2 DEF Enforce
<1>3. CallsAreSound'
  BY <1>1, <1>2, OneCall DEF ApartIInv
<1>4. /\ \A x \in IPs : rules[x] > 0 => rules'[x] > 0
      /\ rules' = Inserted(a) => rules'[a] > 0
  BY <1>1, <1>2 DEF Inserted, TypeOK
<1>5. \A x \in IPs : Backs(x)' <=> Backs(x)
  BY <1>1 DEF Backs, Claims
<1> HIDE DEF a
<1>6. TakenOffIsGone'
  BY <1>2, <1>5, NothingTakenOff DEF ApartIInv, TakenOffIsGone, OthersStay
<1>7. \A s \in Threads \ {t}, x \in IPs : Promises(s, x)' <=> Promises(s, x)
  BY <1>2 DEF Promises, OthersStay
<1>8. \A x \in IPs : Promises(t, x)' => rules'[x] > 0
  BY <1>2, <1>4 DEF Promises
<1>9. ClaimsHaveRules'
  <2> SUFFICES ASSUME ~misread, NEW x \in IPs, Backs(x)' \/ \E s \in Threads : Promises(s, x)'
               PROVE  rules'[x] > 0
    BY <1>1 DEF ClaimsHaveRules
  <2>1. CASE Promises(t, x)'
    BY <2>1, <1>8
  <2>2. CASE ~Promises(t, x)'
    <3>1. Backs(x) \/ \E s \in Threads : Promises(s, x)
      BY <2>2, <1>5, <1>7
    <3> QED  BY <3>1, <1>4 DEF ApartIInv, ClaimsHaveRules
  <2> QED  BY <2>1, <2>2
<1> QED  BY <1>3, <1>6, <1>9 DEF ApartIInv

(* The record of a call is about its own address, which nobody else is busy    *)
(* with.                                                                       *)
LEMMA RecordApart ==
    ASSUME TypeOK, TypeOK', ApartIInv, CallsApart, NEW t \in Threads, Record(t)
    PROVE  ApartIInv'
<1> DEFINE a == op[t].ip
<1>1. /\ pc[t] = "enforced" /\ a \in IPs /\ a # None /\ op[t].release = Empty /\ op' = op
      /\ UNCHANGED <<rules, misread>>
  BY NoneAssumption DEF Record, ApartIInv, CallsAreSound
<1>2. pc'[t] \in {"saving", "recorded"} /\ OthersStay(t)
  BY <1>1 DEF Record, OpenFile, OthersStay, TypeOK
<1>3. \A x \in IPs \ {a} : blocked'[x] = blocked[x]
  BY DEF Record, TypeOK, Lists
<1>4. blocked'[a].mode = op[t].mode
  BY <1>1 DEF Record, TypeOK, Lists
<1>5. \A x \in IPs : ~behind' /\ Claims(file', x) => ~behind /\ Claims(file, x)
  BY NoDebt DEF Record, OpenFile
<1>6. CallsAreSound'
  BY <1>1, <1>2, OneCall DEF ApartIInv
<1>7. \A s \in Threads \ {t} : op[s].release[a] = None
  <2> SUFFICES ASSUME NEW s \in Threads \ {t}, op[s].release[a] # None PROVE FALSE
    OBVIOUS
  <2>1. pc[s] # "idle"
    BY <1>1, NothingTakenOff DEF ApartIInv, CallsAreSound
  <2>2. s \in BusyWith(a) /\ t \in BusyWith(a)
    BY <1>1, <2>1 DEF BusyWith
  <2> QED  BY <1>1, <2>2 DEF CallsApart
<1> HIDE DEF a
<1>8. \A x \in IPs : Backs(x)' => Backs(x) \/ (x = a /\ op[t].mode # "simulate")
  BY <1>3, <1>4, <1>5 DEF Backs, Claims
<1>9. TakenOffIsGone'
  <2> SUFFICES ASSUME NEW s \in Threads, NEW x \in IPs, op'[s].release[x] # None, Backs(x)' PROVE FALSE
    BY DEF TakenOffIsGone
  <2>1. op[s].release[x] # None /\ s # t /\ x # a
    BY <1>1, <1>7, NothingTakenOff
  <2> QED  BY <2>1, <1>8 DEF ApartIInv, TakenOffIsGone
<1>10. ClaimsHaveRules'
  <2> SUFFICES ASSUME ~misread, NEW x \in IPs, Backs(x)' \/ \E s \in Threads : Promises(s, x)'
               PROVE  rules[x] > 0
    BY <1>1 DEF ClaimsHaveRules
  <2>1. (\E s \in Threads : Promises(s, x)') => \E s \in Threads : Promises(s, x)
    BY <1>1, <1>2 DEF Promises, OthersStay
  <2>2. x = a /\ op[t].mode # "simulate" => Promises(t, x)
    BY <1>1 DEF Promises, a
  <2> QED  BY <1>8, <2>1, <2>2 DEF ApartIInv, ClaimsHaveRules
<1> QED  BY <1>6, <1>9, <1>10 DEF ApartIInv

LEMMA WriteFileApart ==
    ASSUME TypeOK, TypeOK', ApartIInv, NEW t \in Threads, WriteFile(t)
    PROVE  ApartIInv'
<1>1. /\ pc[t] = "saving" /\ pc'[t] = (IF op[t].ip = None THEN "releasing" ELSE "recorded") /\ op' = op
      /\ OthersStay(t) /\ UNCHANGED <<rules, misread, blocked>>
  BY DEF WriteFile, OthersStay, TypeOK
<1>2. \A x \in IPs : Backs(x)' => Backs(x)
  BY DEF WriteFile, Backs, Claims
<1>3. CallsAreSound'
  BY <1>1, OneCall DEF ApartIInv, CallsAreSound
<1>4. \A x \in IPs : ~Promises(t, x) /\ ~Promises(t, x)'
  BY <1>1 DEF Promises
<1>5. \A x \in IPs : op'[t].release[x] # None => ~Backs(x)'
  BY <1>1, <1>2 DEF ApartIInv, TakenOffIsGone
<1> QED  BY <1>1, <1>2, <1>3, <1>4, <1>5, QuietCallKeeps

LEMMA FinishApart ==
    ASSUME TypeOK, TypeOK', ApartIInv, NEW t \in Threads, Finish(t)
    PROVE  ApartIInv'
<1>1. /\ pc[t] = "recorded" /\ pc'[t] = "idle" /\ op'[t] = NoCall /\ OthersStay(t)
      /\ UNCHANGED <<rules, misread, blocked, file, behind>>
  BY DEF Finish, OthersStay, TypeOK
<1>2. \A x \in IPs : Backs(x)' <=> Backs(x)
  BY <1>1 DEF Backs, Claims
<1>3. CallsAreSound' /\ op'[t].release = Empty
  BY <1>1, OneCall DEF ApartIInv, NoCall
<1>4. \A x \in IPs : ~Promises(t, x) /\ ~Promises(t, x)' /\ op'[t].release[x] = None
  BY <1>1, <1>3, NothingTakenOff DEF Promises
<1> QED  BY <1>1, <1>2, <1>3, <1>4, QuietCallKeeps

(* What is taken off is gone from the list, and from the file or the file is   *)
(* known to be behind.                                                         *)
LEMMA TakeOffApart ==
    ASSUME TypeOK, TypeOK', ApartIInv, NEW t \in Threads, NEW gone \in SUBSET IPs,
           pc[t] = "idle", TakeOff(t, gone)
    PROVE  ApartIInv'
<1> DEFINE locals == [NoCall EXCEPT !.release = Only(blocked, gone)]
<1>1. locals.ip = None /\ locals.release = Only(blocked, gone) /\ locals.mode = "simulate"
  BY DEF NoCall
<1>2. op' = [op EXCEPT ![t] = locals] /\ blocked' = Without(blocked, gone) /\ UNCHANGED <<rules, misread>>
  BY DEF TakeOff
<1> HIDE DEF locals
<1>3. op'[t] = locals /\ pc'[t] \in {"saving", "releasing"} /\ OthersStay(t)
  BY <1>1, <1>2 DEF TakeOff, OpenFile, OthersStay, TypeOK
<1>4. \A x \in IPs : ~behind' /\ Claims(file', x) => FALSE
  BY NoDebt DEF TakeOff, OpenFile
<1>5. \A x \in IPs : /\ Claims(blocked', x) => Claims(blocked, x) /\ x \notin gone
                     /\ locals.release[x] # None => x \in gone
  BY <1>1, <1>2 DEF Without, Only, Claims
<1>6. CallsAreSound'
  BY <1>1, <1>3, OneCall DEF ApartIInv
<1>7. \A x \in IPs : (Backs(x)' => Backs(x)) /\ ~Promises(t, x) /\ ~Promises(t, x)'
                     /\ (op'[t].release[x] # None => ~Backs(x)')
  BY <1>3, <1>4, <1>5 DEF Backs, Promises
<1> QED  BY <1>2, <1>3, <1>6, <1>7, QuietCallKeeps

(* The rule that goes belongs to nobody: its address is off the list, and who  *)
(* takes it away is the only one busy with it.                                 *)
LEMMA ReleaseRuleApart ==
    ASSUME TypeOK, TypeOK', ApartIInv, CallsApart, NEW t \in Threads, NEW ip \in IPs, ReleaseRule(t, ip)
    PROVE  ApartIInv'
<1> DEFINE rest == Without(op[t].release, {ip})
<1>1. /\ pc[t] = "releasing" /\ op[t].release[ip] # None
      /\ UNCHANGED <<blocked, file, behind, misread>>
  BY DEF ReleaseRule, Listed
<1>2. /\ op' = [op EXCEPT ![t].release = rest]
      /\ pc' = [pc EXCEPT ![t] = IF rest = Empty THEN "idle" ELSE @]
  BY DEF ReleaseRule
<1>3. op[t].ip = None
  BY <1>1, NothingTakenOff DEF ApartIInv, CallsAreSound
<1> HIDE DEF rest
<1>4. /\ op'[t].release = rest /\ op'[t].ip = None /\ OthersStay(t)
      /\ pc'[t] \in {"idle", "releasing"} /\ (pc'[t] = "idle" => rest = Empty)
  BY <1>1, <1>2, <1>3 DEF OthersStay, TypeOK, Locals
<1>5. CallsAreSound'
  BY <1>4, OneCall DEF ApartIInv
<1>6. \A x \in IPs : Backs(x)' <=> Backs(x)
  BY <1>1 DEF Backs, Claims
<1>7. \A x \in IPs : rest[x] # None => op[t].release[x] # None
  BY DEF rest, Without
<1>8. TakenOffIsGone'
  BY <1>4, <1>6, <1>7 DEF ApartIInv, TakenOffIsGone, OthersStay
<1>9. \A x \in IPs \ {ip} : rules'[x] = rules[x]
  BY DEF ReleaseRule, RunFirewall, Deleted, TypeOK
<1>10. \A s \in Threads : ~Promises(s, ip)
  <2> SUFFICES ASSUME NEW s \in Threads, Promises(s, ip) PROVE FALSE
    OBVIOUS
  <2>1. s \in BusyWith(ip) /\ t \in BusyWith(ip) /\ s # t
    BY <1>1 DEF Promises, BusyWith
  <2> QED  BY <2>1 DEF CallsApart
<1>11. \A s \in Threads, x \in IPs : Promises(s, x)' => Promises(s, x)
  BY <1>4 DEF Promises, OthersStay
<1>12. ~Backs(ip)
  BY <1>1 DEF ApartIInv, TakenOffIsGone
<1>13. ClaimsHaveRules'
  BY <1>1, <1>6, <1>9, <1>10, <1>11, <1>12 DEF ApartIInv, ClaimsHaveRules
<1> QED  BY <1>5, <1>8, <1>13 DEF ApartIInv

LEMMA RestartApart ==
    ASSUME TypeOK, TypeOK', ApartIInv, Restart
    PROVE  ApartIInv'
<1>1. /\ \A t \in Threads : pc'[t] = "idle" /\ op'[t] = NoCall
      /\ UNCHANGED <<file, rules>> /\ ~behind' /\ misread' = (misread \/ behind \/ Broken(file))
  BY DEF Restart
<1>2. ~misread' => \A ip \in IPs : Claims(blocked', ip) => Claims(file, ip)
  <2> SUFFICES ASSUME ~misread', NEW ip \in IPs, Claims(blocked', ip) PROVE Claims(file, ip)
    OBVIOUS
  <2>1. ~Broken(file) /\ blocked' \in Loaded(file)
    BY <1>1, Zenon DEF Restart
  <2> QED  BY <2>1, LoadedIsPart DEF Claims, TypeOK
<1>3. CallsAreSound' /\ TakenOffIsGone'
  BY <1>1, NothingTakenOff DEF CallsAreSound, TakenOffIsGone, NoCall
<1>4. ASSUME ~misread' PROVE \A ip \in IPs : Backs(ip)' => Backs(ip)
  BY <1>1, <1>2, <1>4 DEF Backs, Claims
<1>5. \A t \in Threads, ip \in IPs : ~Promises(t, ip)'
  BY <1>1 DEF Promises
<1> QED  BY <1>1, <1>3, <1>4, <1>5 DEF ApartIInv, ClaimsHaveRules

LEMMA ApartPreserved == TypeOK /\ TypeOK' /\ ApartIInv /\ CallsApart /\ [Next]_vars => ApartIInv'
<1> SUFFICES ASSUME TypeOK, TypeOK', ApartIInv, CallsApart, [Next]_vars PROVE ApartIInv'
  OBVIOUS
<1>1. ASSUME NEW t \in Threads, NEW ip \in IPs, ManualUnblock(t, ip) PROVE ApartIInv'
  BY <1>1, TakeOffApart DEF ManualUnblock
<1>2. ASSUME NEW t \in Threads, ExpireBlocks(t) PROVE ApartIInv'
  <2>1. Due(blocked) \in SUBSET IPs
    BY DEF Due, Listed
  <2> QED  BY <1>2, <2>1, TakeOffApart DEF ExpireBlocks
<1>3. CASE Tick \/ UNCHANGED vars
  <2>1. UNCHANGED <<pc, op, blocked, file, behind, rules, misread>>
    BY <1>3 DEF Tick, vars
  <2> QED  BY <2>1 DEF ApartIInv, CallsAreSound, TakenOffIsGone, ClaimsHaveRules, Backs, Promises, Claims
<1> QED  BY <1>1, <1>2, <1>3, BlockIpApart, EnforceApart, RecordApart, WriteFileApart, FinishApart,
            ReleaseRuleApart, RestartApart DEF Next, Step

(* With any firewall, ufw too: a block that the list calls enforced is         *)
(* enforced, through failing commands and writes, expiries and crashes, as     *)
(* long as no two calls for one address cross.  Nothing but a crossing can     *)
(* leave a record without its rule, apart from a restart that reads a file     *)
(* which a failed save has left behind or a line break in a reason has broken  *)
(* up: the property excepts that one.                                          *)
THEOREM RuleIsThereApart == Spec /\ []CallsApart => []RecordIsEnforced
<1>1. Init => ApartIInv
  <2> SUFFICES ASSUME Init PROVE ApartIInv
    OBVIOUS
  <2>1. CallsAreSound /\ TakenOffIsGone
    BY NothingTakenOff DEF Init, CallsAreSound, TakenOffIsGone, NoCall
  <2>2. \A ip \in IPs : ~Backs(ip) /\ \A t \in Threads : ~Promises(t, ip)
    BY NoDebt DEF Init, Backs, Promises
  <2> QED  BY <2>1, <2>2 DEF ApartIInv, ClaimsHaveRules
<1>2. ApartIInv => RecordIsEnforced
  BY DEF ApartIInv, ClaimsHaveRules, RecordIsEnforced, Enforced, Backs, Claims
<1> QED  BY <1>1, <1>2, TypeCorrect, ApartPreserved, PTL DEF Spec

(* A single caller needs no condition on the calls: what goes wrong with ufw   *)
(* takes two of them.                                                          *)
THEOREM OneCallerRuleIsThere ==
    ASSUME \A s, t \in Threads : s = t PROVE Spec => []RecordIsEnforced
<1>1. CallsApart
  BY DEF CallsApart, BusyWith
<1> QED  BY <1>1, RuleIsThereApart, PTL
=============================================================================
