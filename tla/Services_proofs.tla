--------------------------- MODULE Services_proofs ----------------------------
(* Theorems about the services beside the pipeline.                          *)
EXTENDS RetentionSweep, AggregateCache, ModelRetrain, HostSensors, Lookups,
        IdentityDirectory, FeatureStore, SigmaRules, FiniteSetTheorems,
        WellFoundedInduction, TLAPS

-------------------------------------------------------------------------------
(* Numbers: a set of them that is not empty has a least one, and a greatest  *)
(* one where it is bounded.                                                  *)

(* A set of numbers that is not empty has a least one.                       *)
LEMMA LeastNatural == \A T \in SUBSET Nat : T # {} => \E x \in T : \A y \in T : x <= y
  <1> SUFFICES ASSUME NEW T \in SUBSET Nat, T # {} PROVE \E x \in T : \A y \in T : x <= y
    OBVIOUS
  <1>1. PICK x \in T : \A y \in T : ~(<<y, x>> \in OpToRel(<, Nat))
    BY NatLessThanWellFounded, WFMin, Zenon
  <1>2. \A y \in T : ~(y < x)
    <2>1. SUFFICES ASSUME NEW y \in T, y < x PROVE FALSE
      OBVIOUS
    <2>2. <<y, x>> \in OpToRel(<, Nat)
      BY <2>1 DEF OpToRel
    <2> QED  BY <1>1, <2>2
  <1> QED  BY <1>2

(* A set of numbers up to n that is not empty has a greatest one.            *)
LEMMA GreatestBelow ==
    ASSUME NEW n \in Nat, NEW S \in SUBSET (1..n), S # {}
    PROVE  \E m \in S : \A x \in S : x <= m
  <1> DEFINE T == {n - x : x \in S}
  <1>1. T \in SUBSET Nat /\ T # {}
    OBVIOUS
  <1>2. PICK least \in T : \A y \in T : least <= y
    BY <1>1, LeastNatural
  <1>3. PICK m \in S : least = n - m
    BY <1>2
  <1>4. ASSUME NEW x \in S PROVE x <= m
    <2>1. n - m <= n - x
      BY <1>2, <1>3
    <2> QED  BY <2>1
  <1> QED  BY <1>4


-------------------------------------------------------------------------------
(* Retention. Nothing is destroyed before its time, for any policy, any      *)
(* number of items and sweeps, and whatever analysts do between the turns of *)
(* two sweeps.                                                               *)

\* What the argument needs to know of an item: it goes by a time that is not before
\* the one it has been out of use since; a file is never open.
SoundItem(i) ==
    /\ i.at \in Nat /\ i.since \in Nat /\ i.since <= i.at /\ i.at <= now
    /\ i.store = "files" => ~i.open
ItemsAreSound == \A i \in items : SoundItem(i)
\* No two items share a name, and the next one is new.
ItemsAreNamed ==
    /\ made \in Nat
    /\ \A i \in items : i.n \in Nat /\ i.n < made
    /\ \A i, j \in items : i.n = j.n => i = j

\* What a sweep listed was due then, and what goes by its name now is it or was
\* written since.
SameFile(f, listed, i) == i.store = "files" /\ (i.since = f.since \/ listed <= i.since)
ListedFile(f, listed) ==
    /\ f.store = "files" /\ SoundItem(f) /\ f.n \in Nat /\ f.n < made
    /\ f.since + Policy("files") < listed
    /\ \A i \in items : i.n = f.n => SameFile(f, listed, i)
\* The list is made at the last turn and not before.
ProperSweep(x) ==
    /\ x \in [turn : Nat \ {0}, files : {x.files}, listed : {x.listed}]
    /\ x.turn < Len(Turns) => x.files = None
    /\ x.files # None => x.listed \in Nat /\ x.listed <= now /\ \A f \in x.files : ListedFile(f, x.listed)
SweepsAreProper ==
    /\ DOMAIN sweep = Sweepers
    /\ \A s \in Sweepers : sweep[s] # None => ProperSweep(sweep[s])

SweepIInv == now \in Nat /\ ItemsAreSound /\ ItemsAreNamed /\ SweepsAreProper /\ DestroyedWasDue

LEMMA PolicyIsNumber == \A turn \in Range(Turns) : Policy(turn) \in Int
  BY SweepAssumption DEF Policy

LEMMA TurnsInRange ==
    /\ Len(Turns) = 10 /\ Turns[10] = "files"
    /\ \A n \in 1..9 : Turns[n] # "files"
    /\ \A n \in 1..10 : Turns[n] \in Range(Turns)
  BY DEF Turns, Range

LEMMA SweepInitHolds == SweepInit => SweepIInv
  BY DEF SweepInit, SweepIInv, ItemsAreSound, ItemsAreNamed, SweepsAreProper, DestroyedWasDue, Sweepers

(* What a step may do to the items, as far as a list is concerned: a new name, *)
(* a file written now, or an item that keeps its name and, if it is a file,    *)
(* everything else.                                                            *)
Comes(j) ==
    \/ j.n = made /\ made < made'
    \/ j.store = "files" /\ j.since = now
    \/ \E i \in items : i.n = j.n /\ (i.store = "files" => j = i)
Carried ==
    /\ now' \in Nat /\ now <= now' /\ made' \in Nat /\ made <= made'
    /\ \A j \in items' : Comes(j)

LEMMA SoundStays ==
    ASSUME now \in Nat, now' \in Nat, now <= now', NEW i, SoundItem(i)
    PROVE  SoundItem(i)'
  BY DEF SoundItem

LEMMA ListedStays ==
    ASSUME SweepIInv, Carried, NEW f, NEW listed \in Nat, listed <= now, ListedFile(f, listed)
    PROVE  ListedFile(f, listed)'
  <1>1. now \in Nat /\ made \in Nat /\ now' \in Nat /\ now <= now' /\ made' \in Nat /\ made <= made'
    BY DEF SweepIInv, ItemsAreNamed, Carried
  <1>2. f.store = "files" /\ SoundItem(f) /\ f.n \in Nat /\ f.n < made /\ f.since + Policy("files") < listed
    BY DEF ListedFile
  <1>3. SoundItem(f)'
    BY <1>1, <1>2, SoundStays
  <1>4. ASSUME NEW j \in items', j.n = f.n PROVE SameFile(f, listed, j)
    <2>1. Comes(j)
      BY <1>4 DEF Carried
    <2>2. CASE j.n = made
      BY <1>1, <1>2, <1>4, <2>2
    <2>3. CASE j.store = "files" /\ j.since = now
      BY <2>3 DEF SameFile
    <2>4. CASE \E i \in items : i.n = j.n /\ (i.store = "files" => j = i)
      <3>1. PICK i \in items : i.n = j.n /\ (i.store = "files" => j = i)
        BY <2>4
      <3>2. SameFile(f, listed, i)
        BY <1>4, <3>1 DEF ListedFile
      <3> QED  BY <3>1, <3>2 DEF SameFile
    <2> QED  BY <2>1, <2>2, <2>3, <2>4 DEF Comes
  <1>5. f.n < made'
    BY <1>1, <1>2
  <1>6. \A j \in items' : j.n = f.n => SameFile(f, listed, j)'
    BY <1>4 DEF SameFile
  <1> QED  BY <1>2, <1>3, <1>5, <1>6 DEF ListedFile, Policy

LEMMA ProperStays ==
    ASSUME SweepIInv, Carried, NEW x, ProperSweep(x)
    PROVE  ProperSweep(x)'
  <1>1. x.files # None => x.listed \in Nat /\ x.listed <= now /\ \A f \in x.files : ListedFile(f, x.listed)
    BY DEF ProperSweep
  <1>2. x.files # None => \A f \in x.files : ListedFile(f, x.listed)'
    BY <1>1, ListedStays
  <1>3. x.files # None => x.listed <= now'
    BY <1>1 DEF Carried, SweepIInv
  <1> QED  BY <1>1, <1>2, <1>3 DEF ProperSweep

LEMMA ProperInPlace ==
    ASSUME SweepIInv, Carried, NEW s \in Sweepers, NEW x, x = sweep'[s], ProperSweep(x)
    PROVE  ProperSweep(sweep[s])'
  <1>1. ProperSweep(x)'
    BY ProperStays
  <1> QED  BY <1>1 DEF ProperSweep

LEMMA SweepsStay ==
    ASSUME SweepIInv, Carried, sweep' = sweep
    PROVE  SweepsAreProper'
  <1>1. ASSUME NEW s \in Sweepers, sweep'[s] # None PROVE ProperSweep(sweep[s])'
    BY <1>1, ProperInPlace DEF SweepIInv, SweepsAreProper
  <1> QED  BY <1>1 DEF SweepIInv, SweepsAreProper

(* A step of one sweep.                                                        *)
LEMMA SweepChange ==
    ASSUME SweepIInv, Carried, NEW s \in Sweepers, NEW x,
           sweep' = [sweep EXCEPT ![s] = x], x # None => ProperSweep(x)
    PROVE  SweepsAreProper'
  <1>1. DOMAIN sweep = Sweepers
    BY DEF SweepIInv, SweepsAreProper
  <1>2. \A t \in Sweepers : sweep'[t] = IF t = s THEN x ELSE sweep[t]
    BY <1>1
  <1>3. \A t \in Sweepers : sweep'[t] # None => ProperSweep(sweep'[t])
    BY <1>2 DEF SweepIInv, SweepsAreProper
  <1>4. ASSUME NEW t \in Sweepers, sweep'[t] # None PROVE ProperSweep(sweep[t])'
    BY <1>3, <1>4, ProperInPlace
  <1> QED  BY <1>1, <1>4 DEF SweepsAreProper

LEMMA NextTurnIsProper ==
    ASSUME SweepIInv, Carried, NEW s \in Sweepers, sweep[s] # None, sweep[s].turn < Len(Turns),
           sweep' = NextTurn(s)
    PROVE  SweepsAreProper'
  <1> DEFINE x == [sweep[s] EXCEPT !.turn = @ + 1]
  <1>1. ProperSweep(sweep[s]) /\ DOMAIN sweep = Sweepers
    BY DEF SweepIInv, SweepsAreProper
  <1>2. sweep' = [sweep EXCEPT ![s] = x]
    BY <1>1 DEF NextTurn
  <1>3. sweep[s].files = None /\ x = [turn |-> sweep[s].turn + 1, files |-> None, listed |-> sweep[s].listed]
    BY <1>1 DEF ProperSweep
  <1>4. ProperSweep(x)
    BY <1>1, <1>3 DEF ProperSweep
  <1> QED  BY <1>2, <1>4, SweepChange

LEMMA AtOtherTurn ==
    ASSUME NEW s \in Sweepers, SweepIInv, NEW turn, turn # "files", AtTurn(s, turn)
    PROVE  sweep[s] # None /\ sweep[s].turn < Len(Turns)
  <1>1. sweep[s] # None /\ ProperSweep(sweep[s]) /\ sweep[s].turn \in 1..10 /\ Turns[sweep[s].turn] = turn
    BY TurnsInRange DEF AtTurn, SweepIInv, SweepsAreProper, ProperSweep
  <1> QED  BY <1>1, TurnsInRange

(* What is due is out of use for as long as its policy says.                   *)
LEMMA DueIsDue ==
    ASSUME SweepIInv, NEW turn \in Range(Turns) \ {"quiet"}, NEW i \in Due(turn)
    PROVE  i \in items /\ i.store = turn /\ ~i.open /\ SoundItem(i) /\ i.since + Policy(turn) < now
  <1>1. i \in items /\ i.store = turn /\ ~i.open /\ Overdue(turn, i)
    BY DEF Due
  <1>2. SoundItem(i) /\ Policy(turn) \in Int /\ now \in Nat
    BY <1>1, PolicyIsNumber DEF SweepIInv, ItemsAreSound
  <1> QED  BY <1>1, <1>2 DEF Overdue, SoundItem

(* Items that go, and nothing else.                                            *)
LEMMA FewerItems ==
    ASSUME SweepIInv, items' \subseteq items, UNCHANGED <<now, made>>
    PROVE  Carried /\ ItemsAreSound' /\ ItemsAreNamed'
  <1>1. now \in Nat /\ made \in Nat
    BY DEF SweepIInv, ItemsAreNamed
  <1>2. \A j \in items' : Comes(j)
    BY DEF Comes
  <1> QED  BY <1>1, <1>2 DEF Carried, SweepIInv, ItemsAreSound, ItemsAreNamed, SoundItem

(* An item that takes another's place under its name.                          *)
LEMMA ItemReplaced ==
    ASSUME SweepIInv, NEW i \in items, NEW j, j.n = i.n, SoundItem(j), items' = {o \in items : o.n # i.n} \cup {j},
           UNCHANGED <<now, made>>
    PROVE  ItemsAreSound' /\ ItemsAreNamed'
  <1>1. ItemsAreSound'
    BY DEF SweepIInv, ItemsAreSound, SoundItem
  <1> QED  BY <1>1 DEF SweepIInv, ItemsAreNamed

LEMMA AddItemKeeps ==
    ASSUME SweepIInv, NEW store, AddItem(store)
    PROVE  SweepIInv'
  <1> DEFINE i == [n |-> made, store |-> store, at |-> now, open |-> Opens(store), since |-> now]
  <1>1. /\ items' = items \cup {i} /\ made' = made + 1 /\ made \in Nat /\ now \in Nat
        /\ UNCHANGED <<now, sweep, destroyed>>
    BY DEF AddItem, SweepIInv, ItemsAreNamed
  <1>2. SoundItem(i)
    <2>1. store = "files" => ~Opens(store)
      BY DEF Opens
    <2> QED  BY <1>1, <2>1 DEF SoundItem
  <1>3. ItemsAreSound'
    BY <1>1, <1>2 DEF SweepIInv, ItemsAreSound, SoundItem
  <1>4. \A o \in items : o.n # i.n /\ o.n \in Nat /\ o.n < made'
    BY <1>1 DEF SweepIInv, ItemsAreNamed
  <1>5. ItemsAreNamed'
    <2>1. \A a, b \in items' : a.n = b.n => a = b
      BY <1>1, <1>4 DEF SweepIInv, ItemsAreNamed
    <2>2. \A a \in items' : a.n \in Nat /\ a.n < made'
      BY <1>1, <1>4
    <2> QED  BY <1>1, <2>1, <2>2 DEF ItemsAreNamed
  <1>6. Carried
    <2>1. \A o \in items' : Comes(o)
      BY <1>1 DEF Comes
    <2> QED  BY <1>1, <2>1 DEF Carried
  <1>7. SweepsAreProper'
    BY <1>1, <1>6, SweepsStay
  <1> QED  BY <1>1, <1>3, <1>5, <1>7 DEF SweepIInv, DestroyedWasDue, Policy

LEMMA WorkOnKeeps ==
    ASSUME SweepIInv, NEW i \in items, NEW open \in BOOLEAN, NEW stamped \in BOOLEAN, WorkOn(i, open, stamped)
    PROVE  SweepIInv'
  <1> DEFINE j == [i EXCEPT !.open = open, !.at = IF stamped THEN now ELSE @, !.since = IF stamped THEN now ELSE @]
  <1>1. /\ items' = (items \ {i}) \cup {j} /\ i.store # "files"
        /\ UNCHANGED <<now, sweep, destroyed, made>>
    BY DEF WorkOn, Opens
  <1>2. SoundItem(i) /\ now \in Nat /\ made \in Nat
    BY DEF SweepIInv, ItemsAreSound, ItemsAreNamed
  <1>3. j.n = i.n /\ SoundItem(j) /\ j.store = i.store
    BY <1>1, <1>2 DEF SoundItem, WorkOn, Opens
  <1>4. items' = {o \in items : o.n # i.n} \cup {j}
    BY <1>1 DEF SweepIInv, ItemsAreNamed
  <1>5. ItemsAreSound' /\ ItemsAreNamed'
    <2> HIDE DEF j
    <2> QED  BY <1>1, <1>3, <1>4, ItemReplaced
  <1>6. Carried
    <2> HIDE DEF j
    <2>1. \A o \in items' : Comes(o)
      BY <1>1, <1>3 DEF Comes
    <2> QED  BY <1>1, <1>2, <2>1 DEF Carried
  <1>7. SweepsAreProper'
    BY <1>1, <1>6, SweepsStay
  <1> QED  BY <1>1, <1>2, <1>5, <1>7 DEF SweepIInv, DestroyedWasDue, Policy

LEMMA WriteFileKeeps ==
    ASSUME SweepIInv, NEW f \in Files, WriteFile(f)
    PROVE  SweepIInv'
  <1> DEFINE j == [f EXCEPT !.at = now, !.since = now]
  <1>1. /\ items' = {i \in items : i.n # f.n} \cup {j}
        /\ UNCHANGED <<now, sweep, destroyed, made>>
    BY DEF WriteFile
  <1>2. now \in Nat /\ made \in Nat
    BY DEF SweepIInv, ItemsAreNamed
  <1>3. f.store = "files" /\ SoundItem(f) /\ f.n \in Nat /\ f.n < made
    <2>1. CASE f \in items /\ f.store = "files"
      BY <2>1 DEF SweepIInv, ItemsAreSound, ItemsAreNamed
    <2>2. CASE \E s \in Sweepers : sweep[s] # None /\ sweep[s].files # None /\ f \in sweep[s].files
      <3>1. PICK s \in Sweepers : sweep[s] # None /\ sweep[s].files # None /\ f \in sweep[s].files
        BY <2>2
      <3>2. ProperSweep(sweep[s])
        BY <3>1 DEF SweepIInv, SweepsAreProper
      <3>3. ListedFile(f, sweep[s].listed)
        BY <3>1, <3>2 DEF ProperSweep
      <3> QED  BY <3>3 DEF ListedFile
    <2> QED  BY <2>1, <2>2 DEF Files
  <1>4. j.n = f.n /\ j.store = "files" /\ j.since = now /\ SoundItem(j)
    BY <1>2, <1>3 DEF SoundItem
  <1> HIDE DEF j
  <1>5. ItemsAreSound' /\ ItemsAreNamed'
    <2>1. ItemsAreSound'
      BY <1>1, <1>4 DEF SweepIInv, ItemsAreSound, SoundItem
    <2>2. \A a, b \in items' : a.n = b.n => a = b
      BY <1>1, <1>4 DEF SweepIInv, ItemsAreNamed
    <2>3. \A a \in items' : a.n \in Nat /\ a.n < made
      BY <1>1, <1>3, <1>4 DEF SweepIInv, ItemsAreNamed
    <2> QED  BY <1>1, <1>2, <2>1, <2>2, <2>3 DEF ItemsAreNamed
  <1>6. Carried
    <2>1. \A o \in items' : Comes(o)
      BY <1>1, <1>4 DEF Comes
    <2> QED  BY <1>1, <1>2, <2>1 DEF Carried
  <1>7. SweepsAreProper'
    BY <1>1, <1>6, SweepsStay
  <1> QED  BY <1>1, <1>2, <1>5, <1>7 DEF SweepIInv, DestroyedWasDue, Policy

LEMMA SweepEndsKeeps ==
    ASSUME SweepIInv, NEW s \in Sweepers, sweep' = [sweep EXCEPT ![s] = None], UNCHANGED <<now, items, made, destroyed>>
    PROVE  SweepIInv'
  <1>1. Carried /\ ItemsAreSound' /\ ItemsAreNamed'
    BY FewerItems
  <1>2. SweepsAreProper'
    BY <1>1, SweepChange
  <1> QED  BY <1>1, <1>2 DEF SweepIInv, DestroyedWasDue, Policy

LEMMA BeginSweepKeeps ==
    ASSUME SweepIInv, NEW s \in Sweepers, NEW confirmed, BeginSweep(s, confirmed)
    PROVE  SweepIInv'
  <1> DEFINE x == [turn |-> 1, files |-> None, listed |-> None]
  <1>1. ProperSweep(x)
    BY DEF ProperSweep
  <1>2. sweep' = [sweep EXCEPT ![s] = x] /\ UNCHANGED <<now, items, made, destroyed>>
    BY DEF BeginSweep
  <1>3. Carried /\ ItemsAreSound' /\ ItemsAreNamed'
    BY <1>2, FewerItems
  <1>4. SweepsAreProper'
    BY <1>1, <1>2, <1>3, SweepChange
  <1> QED  BY <1>2, <1>3, <1>4 DEF SweepIInv, DestroyedWasDue, Policy

(* A turn that changes items which are no files and leaves their names.        *)
LEMMA ItemsRenewed ==
    ASSUME SweepIInv, NEW due, due \subseteq items, NEW new, \A i \in due : i.store # "files",
           \A i \in due : new[i].n = i.n /\ SoundItem(new[i]),
           items' = (items \ due) \cup {new[i] : i \in due}, UNCHANGED <<now, made>>
    PROVE  Carried /\ ItemsAreSound' /\ ItemsAreNamed'
  <1>1. now \in Nat /\ made \in Nat
    BY DEF SweepIInv, ItemsAreNamed
  <1>2. \A o \in items' : Comes(o)
    BY DEF Comes
  <1>3. ItemsAreSound'
    BY DEF SweepIInv, ItemsAreSound, SoundItem
  <1>4. \A a \in items' : \E i \in items : a.n = i.n /\ a = IF i \in due THEN new[i] ELSE i
    OBVIOUS
  <1>5. ASSUME NEW a \in items', NEW b \in items', a.n = b.n PROVE a = b
    <2>1. PICK i \in items : a.n = i.n /\ a = IF i \in due THEN new[i] ELSE i
      BY <1>4
    <2>2. PICK k \in items : b.n = k.n /\ b = IF k \in due THEN new[k] ELSE k
      BY <1>4
    <2>3. i = k
      BY <1>5, <2>1, <2>2 DEF SweepIInv, ItemsAreNamed
    <2> QED  BY <2>1, <2>2, <2>3
  <1>6. \A a \in items' : a.n \in Nat /\ a.n < made
    BY <1>4 DEF SweepIInv, ItemsAreNamed
  <1> QED  BY <1>1, <1>2, <1>3, <1>5, <1>6 DEF Carried, ItemsAreNamed

LEMMA MoveAlertsKeeps ==
    ASSUME SweepIInv, NEW s \in Sweepers, MoveAlerts(s)
    PROVE  SweepIInv'
  <1> DEFINE New(i) == [i EXCEPT !.store = "archive", !.at = now, !.since = now]
  <1>1. /\ items' = (items \ Due("alerts")) \cup {New(i) : i \in Due("alerts")}
        /\ sweep' = NextTurn(s) /\ UNCHANGED <<now, destroyed, made>>
    BY DEF MoveAlerts
  <1>2. \A i \in Due("alerts") : i \in items /\ i.store = "alerts" /\ SoundItem(i)
    BY DEF Due, SweepIInv, ItemsAreSound
  <1>3. \A i \in Due("alerts") : New(i).n = i.n /\ SoundItem(New(i))
    <2>1. now \in Nat
      BY DEF SweepIInv
    <2> QED  BY <1>2, <2>1 DEF SoundItem
  <1> HIDE DEF New
  <1>4. Carried /\ ItemsAreSound' /\ ItemsAreNamed'
    <2> DEFINE new == [i \in Due("alerts") |-> New(i)]
    <2>1. \A i \in Due("alerts") : new[i] = New(i)
      OBVIOUS
    <2> HIDE DEF new
    <2>2. \A i \in Due("alerts") : new[i].n = i.n /\ SoundItem(new[i])
      BY <1>3, <2>1
    <2>3. items' = (items \ Due("alerts")) \cup {new[i] : i \in Due("alerts")}
      BY <1>1, <2>1
    <2>4. Due("alerts") \subseteq items /\ \A i \in Due("alerts") : i.store # "files"
      BY <1>2
    <2>5. UNCHANGED <<now, made>>
      BY <1>1
    <2> HIDE DEF Due
    <2> QED  BY <2>2, <2>3, <2>4, <2>5, ItemsRenewed
  <1>5. SweepsAreProper'
    BY <1>4, AtOtherTurn, NextTurnIsProper DEF MoveAlerts
  <1> QED  BY <1>1, <1>4, <1>5 DEF SweepIInv, DestroyedWasDue, Policy

LEMMA ResolveKeeps ==
    ASSUME SweepIInv, NEW s \in Sweepers, ResolveQuiet(s)
    PROVE  SweepIInv'
  <1>1. /\ items' = (items \ Due("quiet")) \cup {Resolved(i) : i \in Due("quiet")}
        /\ sweep' = NextTurn(s) /\ UNCHANGED <<now, destroyed, made>>
    BY DEF ResolveQuiet
  <1>2. \A i \in Due("quiet") : i \in items /\ i.store = "incidents" /\ SoundItem(i)
    BY DEF Due, SweepIInv, ItemsAreSound
  <1>3. \A i \in Due("quiet") : Resolved(i).n = i.n /\ SoundItem(Resolved(i))
    <2>1. now \in Nat
      BY DEF SweepIInv
    <2> QED  BY <1>2, <2>1 DEF SoundItem, Resolved
  <1>4. Carried /\ ItemsAreSound' /\ ItemsAreNamed'
    <2> DEFINE new == [i \in Due("quiet") |-> Resolved(i)]
    <2>1. \A i \in Due("quiet") : new[i] = Resolved(i)
      OBVIOUS
    <2> HIDE DEF new
    <2>2. \A i \in Due("quiet") : new[i].n = i.n /\ SoundItem(new[i])
      BY <1>3, <2>1
    <2>3. items' = (items \ Due("quiet")) \cup {new[i] : i \in Due("quiet")}
      BY <1>1, <2>1
    <2>4. Due("quiet") \subseteq items /\ \A i \in Due("quiet") : i.store # "files"
      BY <1>2
    <2>5. UNCHANGED <<now, made>>
      BY <1>1
    <2> HIDE DEF Due
    <2> QED  BY <2>2, <2>3, <2>4, <2>5, ItemsRenewed
  <1>5. SweepsAreProper'
    BY <1>4, AtOtherTurn, NextTurnIsProper DEF ResolveQuiet
  <1> QED  BY <1>1, <1>4, <1>5 DEF SweepIInv, DestroyedWasDue, Policy

LEMMA PurgeKeeps ==
    ASSUME SweepIInv, NEW s \in Sweepers, NEW turn \in Stores, PurgeStore(s, turn)
    PROVE  SweepIInv'
  <1>1. turn \in Range(Turns) \ {"quiet"} /\ AtTurn(s, turn) /\ turn # "files"
    BY DEF Stores, PurgeStore
  <1>2. /\ items' = items \ Due(turn) /\ destroyed' = destroyed \cup {Lost(i, i.since, now) : i \in Due(turn)}
        /\ UNCHANGED <<now, made>> /\ sweep' = NextTurn(s)
    BY DEF PurgeStore, Destroy
  <1>3. Carried /\ ItemsAreSound' /\ ItemsAreNamed'
    BY <1>2, FewerItems
  <1>4. SweepsAreProper'
    BY <1>1, <1>2, <1>3, AtOtherTurn, NextTurnIsProper
  <1>5. DestroyedWasDue'
    <2>1. ASSUME NEW i \in Due(turn), NEW d, d = Lost(i, i.since, now)
          PROVE  ~d.open /\ d.was + Policy(d.store) < d.tested /\ d.since = d.was
      BY <1>1, <2>1, DueIsDue DEF Lost
    <2> QED  BY <1>2, <2>1 DEF SweepIInv, DestroyedWasDue, Policy
  <1> QED  BY <1>2, <1>3, <1>4, <1>5 DEF SweepIInv

LEMMA StoreFailsKeeps ==
    ASSUME SweepIInv, NEW s \in Sweepers, StoreFails(s)
    PROVE  SweepIInv'
  <1>1. UNCHANGED <<now, items, made, destroyed>>
    BY DEF StoreFails
  <1>2. CASE sweep' = [sweep EXCEPT ![s] = None]
    BY <1>1, <1>2, SweepEndsKeeps
  <1>3. CASE sweep' = NextTurn(s)
    <2>1. Carried /\ ItemsAreSound' /\ ItemsAreNamed'
      BY <1>1, FewerItems
    <2>2. SweepsAreProper'
      BY <1>3, <2>1, NextTurnIsProper DEF StoreFails
    <2> QED  BY <1>1, <2>1, <2>2 DEF SweepIInv, DestroyedWasDue, Policy
  <1> QED  BY <1>2, <1>3 DEF StoreFails

\* A sweep that goes on with other files is still at its turn.
LEMMA FilesReplaced ==
    ASSUME NEW r, NEW fs, NEW l, r \in [turn : Nat \ {0}, files : {fs}, listed : {l}], NEW g
    PROVE  [r EXCEPT !.files = g] = [turn |-> r.turn, files |-> g, listed |-> r.listed]
  OBVIOUS

LEMMA ListFilesKeeps ==
    ASSUME SweepIInv, NEW s \in Sweepers, ListFiles(s)
    PROVE  SweepIInv'
  <1> DEFINE x == [turn |-> sweep[s].turn, files |-> Due("files"), listed |-> now]
  <1>1. /\ ProperSweep(sweep[s]) /\ DOMAIN sweep = Sweepers /\ sweep[s].turn = Len(Turns)
        /\ now \in Nat
    BY TurnsInRange DEF ListFiles, AtTurn, SweepIInv, SweepsAreProper, ProperSweep
  <1>2. sweep' = [sweep EXCEPT ![s] = x] /\ UNCHANGED <<now, items, made, destroyed>>
    BY <1>1 DEF ListFiles
  <1>3. x = [turn |-> Len(Turns), files |-> Due("files"), listed |-> now]
    BY <1>1
  <1>4. ASSUME NEW f \in Due("files") PROVE ListedFile(f, now)
    <2>1. f \in items /\ f.store = "files" /\ SoundItem(f) /\ f.since + Policy("files") < now
      BY <1>4, DueIsDue, TurnsInRange
    <2>2. f.n \in Nat /\ f.n < made /\ \A i \in items : i.n = f.n => i = f
      BY <2>1 DEF SweepIInv, ItemsAreNamed
    <2> QED  BY <2>1, <2>2 DEF ListedFile, SameFile
  <1>5. ProperSweep(x)
    BY <1>1, <1>3, <1>4, TurnsInRange DEF ProperSweep
  <1>6. Carried /\ ItemsAreSound' /\ ItemsAreNamed'
    BY <1>2, FewerItems
  <1>7. SweepsAreProper'
    BY <1>2, <1>5, <1>6, SweepChange
  <1> QED  BY <1>2, <1>6, <1>7 DEF SweepIInv, DestroyedWasDue, Policy

LEMMA RemoveFileKeeps ==
    ASSUME SweepIInv, NEW s \in Sweepers, NEW refuses \in BOOLEAN, RemoveFile(s, refuses)
    PROVE  SweepIInv'
  <1> DEFINE there(f) == {i \in items : i.n = f.n}
  <1>1. PICK f \in sweep[s].files :
          /\ sweep' = [sweep EXCEPT ![s].files = @ \ {f}]
          /\ IF refuses THEN UNCHANGED <<items, destroyed>>
             ELSE Destroy(there(f), {Lost(i, f.since, sweep[s].listed) : i \in there(f)})
    BY DEF RemoveFile
  <1> DEFINE x == [sweep[s] EXCEPT !.files = @ \ {f}]
             listed == sweep[s].listed
  <1>2. /\ ProperSweep(sweep[s]) /\ DOMAIN sweep = Sweepers /\ sweep[s].turn = Len(Turns)
        /\ sweep[s].files # None /\ UNCHANGED <<now, made>> /\ now \in Nat
    BY TurnsInRange DEF RemoveFile, AtTurn, SweepIInv, SweepsAreProper, ProperSweep
  <1>3. sweep' = [sweep EXCEPT ![s] = x]
    BY <1>1, <1>2
  <1>4. x = [turn |-> Len(Turns), files |-> sweep[s].files \ {f}, listed |-> listed]
    BY <1>2, FilesReplaced DEF ProperSweep
  <1>5. ProperSweep(x)
    BY <1>2, <1>4, TurnsInRange DEF ProperSweep
  <1>6. Carried /\ ItemsAreSound' /\ ItemsAreNamed'
    BY <1>1, <1>2, FewerItems DEF Destroy
  <1>7. SweepsAreProper'
    BY <1>3, <1>5, <1>6, SweepChange
  <1>8. DestroyedWasDue'
    <2>1. ListedFile(f, listed) /\ listed \in Nat
      BY <1>1, <1>2 DEF ProperSweep
    <2>2. CASE refuses
      BY <1>1, <2>2 DEF SweepIInv, DestroyedWasDue, Policy
    <2>3. CASE ~refuses
      <3>1. destroyed' = destroyed \cup {Lost(i, f.since, listed) : i \in there(f)}
        BY <1>1, <2>3 DEF Destroy
      <3>2. ASSUME NEW i \in there(f), NEW d, d = Lost(i, f.since, listed)
            PROVE  /\ ~d.open /\ d.was + Policy(d.store) < d.tested
                   /\ d.since # d.was => d.store = "files" /\ d.tested <= d.since
        <4>1. SameFile(f, listed, i) /\ SoundItem(i) /\ f.since + Policy("files") < listed
          BY <2>1, <3>2 DEF ListedFile, SweepIInv, ItemsAreSound
        <4> QED  BY <3>2, <4>1 DEF SameFile, SoundItem, Lost
      <3> QED  BY <3>1, <3>2 DEF SweepIInv, DestroyedWasDue, Policy
    <2> QED  BY <2>2, <2>3
  <1> QED  BY <1>2, <1>6, <1>7, <1>8 DEF SweepIInv

LEMMA SweepTickKeeps ==
    ASSUME SweepIInv, SweepTick
    PROVE  SweepIInv'
  <1>1. now \in Nat /\ made \in Nat /\ now' = now + 1 /\ UNCHANGED <<items, made, sweep, destroyed>>
    BY DEF SweepTick, SweepIInv, ItemsAreNamed
  <1>2. Carried
    <2>1. \A j \in items' : Comes(j)
      BY <1>1 DEF Comes
    <2> QED  BY <1>1, <2>1 DEF Carried
  <1>3. SweepsAreProper'
    BY <1>1, <1>2, SweepsStay
  <1>4. ItemsAreSound'
    BY <1>1 DEF SweepIInv, ItemsAreSound, SoundItem
  <1> QED  BY <1>1, <1>3, <1>4 DEF SweepIInv, ItemsAreNamed, DestroyedWasDue, Policy

LEMMA SweepStepKeeps == SweepIInv /\ [SweepNext]_sweepVars => SweepIInv'
  <1> SUFFICES ASSUME SweepIInv, [SweepNext]_sweepVars PROVE SweepIInv'
    OBVIOUS
  <1>1. ASSUME NEW store \in Stores, AddItem(store) PROVE SweepIInv'
    BY <1>1, AddItemKeeps
  <1>2. ASSUME NEW i \in items, NEW open \in BOOLEAN, NEW stamped \in BOOLEAN, WorkOn(i, open, stamped)
        PROVE  SweepIInv'
    BY <1>2, WorkOnKeeps
  <1>3. ASSUME NEW s \in Sweepers, NEW confirmed \in BOOLEAN, BeginSweep(s, confirmed) PROVE SweepIInv'
    BY <1>3, BeginSweepKeeps
  <1>4. ASSUME NEW s \in Sweepers, MoveAlerts(s) PROVE SweepIInv'
    BY <1>4, MoveAlertsKeeps
  <1>5. ASSUME NEW s \in Sweepers, ResolveQuiet(s) PROVE SweepIInv'
    BY <1>5, ResolveKeeps
  <1>6. ASSUME NEW s \in Sweepers, StoreFails(s) PROVE SweepIInv'
    BY <1>6, StoreFailsKeeps
  <1>7. ASSUME NEW s \in Sweepers, ListFiles(s) PROVE SweepIInv'
    BY <1>7, ListFilesKeeps
  <1>8. ASSUME NEW s \in Sweepers, ListingFails(s) PROVE SweepIInv'
    BY <1>8, SweepEndsKeeps DEF ListingFails
  <1>9. ASSUME NEW s \in Sweepers, NEW turn \in Stores, PurgeStore(s, turn) PROVE SweepIInv'
    BY <1>9, PurgeKeeps
  <1>10. ASSUME NEW s \in Sweepers, NEW refuses \in BOOLEAN, RemoveFile(s, refuses) PROVE SweepIInv'
    BY <1>10, RemoveFileKeeps
  <1>11. ASSUME NEW s \in Sweepers, FinishSweep(s) PROVE SweepIInv'
    BY <1>11, SweepEndsKeeps DEF FinishSweep
  <1>12. ASSUME NEW f \in Files, WriteFile(f) PROVE SweepIInv'
    BY <1>12, WriteFileKeeps
  <1>13. CASE SweepTick
    BY <1>13, SweepTickKeeps
  <1>14. CASE UNCHANGED sweepVars
    <2>1. UNCHANGED <<now, items, sweep, destroyed, made>>
      BY <1>14 DEF sweepVars
    <2>2. Carried /\ ItemsAreSound' /\ ItemsAreNamed'
      BY <2>1, FewerItems
    <2>3. SweepsAreProper'
      BY <2>1, <2>2, SweepsStay
    <2> QED  BY <2>1, <2>2, <2>3 DEF SweepIInv, DestroyedWasDue, Policy
  <1> QED  BY <1>1, <1>2, <1>3, <1>4, <1>5, <1>6, <1>7, <1>8, <1>9, <1>10, <1>11, <1>12, <1>13, <1>14 DEF SweepNext

(* Whatever two sweeps, a failing store, the analysts and the writers of the   *)
(* logs do between each other's turns, what is destroyed was closed and, when  *)
(* it was tested, out of use for as long as the policy of its store says; it   *)
(* has been used since only if it is a file.                                   *)
THEOREM NothingGoesEarly == SweepSpec => []DestroyedWasDue
  <1>1. SweepIInv => DestroyedWasDue
    BY DEF SweepIInv
  <1> QED  BY SweepInitHolds, SweepStepKeeps, <1>1, PTL DEF SweepSpec

-------------------------------------------------------------------------------
(* Counts of the dashboard.  A follower takes what the cache holds when it is  *)
(* woken, without a look at its age: that this is young enough for it rests on *)
(* events being landed only after their counts were cached, and on no event    *)
(* being handed out twice.                                                     *)

Views == [pc : {"away", "board", "compute", "land", "wait"}, life : Nat, asked : Nat,
          flight : Nat \cup {None}, rows : Nat, failed : BOOLEAN, answer : Nat \cup {None},
          from : {"self", "flight", "cache"}, excused : BOOLEAN]
(* The clock, the views, and the time of what the cache holds, which is      *)
(* never to come.                                                            *)
AggTypes ==
    /\ now \in Nat /\ viewer \in [Viewers -> Views]
    /\ computed \in Nat \cup {None} /\ (computed # None => computed <= now) /\ readSince \in Nat
    /\ \A v \in Viewers : viewer[v].asked <= now

\* Events are numbered in the order they are landed.
EventsInOrder ==
    /\ \E n \in Nat : landed = 0..(n - 1) /\ inflight \in {None, n}
    /\ \A v \in Viewers : viewer[v].pc = "wait" =>
          viewer[v].flight \in Nat /\ (viewer[v].flight \notin landed => viewer[v].flight = inflight)

\* Steps that take no time.
Prompt ==
    \A v \in Viewers :
        /\ viewer[v].pc = "board" => viewer[v].asked = now
        /\ viewer[v].pc \in {"board", "compute", "wait"} => viewer[v].answer = None /\ ~viewer[v].failed
        /\ viewer[v].pc = "compute" => viewer[v].rows >= viewer[v].asked
        /\ viewer[v].pc = "land" =>
              IF viewer[v].failed THEN viewer[v].answer = None
              ELSE viewer[v].answer = now /\ computed = now /\ viewer[v].rows >= viewer[v].asked

\* Who waits for an event that landed finds counts that are young enough.
Awaited ==
    \A v \in Viewers :
        viewer[v].pc = "wait" /\ viewer[v].flight \in landed /\ ~viewer[v].excused =>
            computed # None /\ computed >= viewer[v].asked

AggIInv == AggTypes /\ EventsInOrder /\ Prompt /\ Awaited /\ AnswersAreCurrent

LEMMA AggInitHolds == AggInit => AggIInv
  <1> SUFFICES ASSUME AggInit PROVE AggIInv
    OBVIOUS
  <1>1. Away \in Views
    BY DEF Away, Views
  <1>2. AggTypes
    BY <1>1 DEF AggInit, AggTypes, Away
  <1>3. EventsInOrder
    <2>1. {} = 0..(0 - 1)
      OBVIOUS
    <2> QED  BY <2>1 DEF AggInit, EventsInOrder, Away
  <1> QED  BY <1>2, <1>3 DEF AggInit, AggIInv, Prompt, Awaited, AnswersAreCurrent, Current, Away

(* One viewer moves on and the rest of the cache stays as it is.               *)
LEMMA ViewerMoves ==
    ASSUME AggIInv, NEW v \in Viewers, NEW x \in Views, viewer' = [viewer EXCEPT ![v] = x],
           UNCHANGED <<now, computed, readSince, inflight, landed>>,
           x.asked <= now,
           x.pc = "wait" => x.flight \in Nat /\ (x.flight \notin landed => x.flight = inflight),
           x.pc = "board" => x.asked = now,
           x.pc \in {"board", "compute", "wait"} => x.answer = None /\ ~x.failed,
           x.pc = "compute" => x.rows >= x.asked,
           x.pc = "land" => IF x.failed THEN x.answer = None
                            ELSE x.answer = now /\ computed = now /\ x.rows >= x.asked,
           x.pc = "wait" /\ x.flight \in landed /\ ~x.excused => computed # None /\ computed >= x.asked,
           x.pc = "away" => Current(x)
    PROVE  AggIInv'
  <1>1. \A w \in Viewers : viewer'[w] = IF w = v THEN x ELSE viewer[w]
    BY DEF AggIInv, AggTypes
  <1>2. AggTypes'
    BY <1>1 DEF AggIInv, AggTypes
  <1>3. EventsInOrder' /\ Prompt' /\ Awaited' /\ AnswersAreCurrent'
    BY <1>1 DEF AggIInv, EventsInOrder, Prompt, Awaited, AnswersAreCurrent, Current
  <1> QED  BY <1>2, <1>3 DEF AggIInv

(* The two ways out of a look at the cache.                                    *)
LEMMA FindsFields ==
    ASSUME AggIInv, NEW x \in Views, NEW from \in {"self", "flight", "cache"}
    PROVE  /\ Finds(x, from) \in Views
           /\ Finds(x, from).pc = "away" /\ Finds(x, from).life = x.life /\ Finds(x, from).asked = x.asked
           /\ Finds(x, from).answer = computed /\ Finds(x, from).from = from
           /\ Finds(x, from).excused = x.excused
  <1> DEFINE a == [x EXCEPT !.pc = "away"]
             b == [a EXCEPT !.answer = computed]
             c == [b EXCEPT !.rows = readSince]
             d == [c EXCEPT !.from = from]
  <1>1. computed \in Nat \cup {None} /\ readSince \in Nat
    BY DEF AggIInv, AggTypes
  <1>2. Finds(x, from) = d
    BY DEF Finds
  <1>3. a \in Views /\ a.pc = "away" /\ a.life = x.life /\ a.asked = x.asked /\ a.excused = x.excused
    BY DEF Views
  <1> HIDE DEF a
  <1>4. b \in Views /\ b.pc = "away" /\ b.life = x.life /\ b.asked = x.asked /\ b.excused = x.excused /\ b.answer = computed
    BY <1>1, <1>3 DEF Views
  <1> HIDE DEF b
  <1>5. c \in Views /\ c.pc = "away" /\ c.life = x.life /\ c.asked = x.asked /\ c.excused = x.excused /\ c.answer = computed
    BY <1>1, <1>4 DEF Views
  <1> HIDE DEF c
  <1>6. /\ d \in Views /\ d.pc = "away" /\ d.life = x.life /\ d.asked = x.asked /\ d.excused = x.excused
        /\ d.answer = computed /\ d.from = from
    BY <1>5 DEF Views
  <1> HIDE DEF d
  <1> QED  BY <1>2, <1>6

LEMMA ReadsFields ==
    ASSUME AggIInv, NEW x \in Views
    PROVE  /\ Reads(x) \in Views /\ Reads(x).pc = "compute" /\ Reads(x).rows = now /\ Reads(x).asked = x.asked
           /\ Reads(x).answer = x.answer /\ Reads(x).failed = x.failed
  <1> DEFINE a == [x EXCEPT !.pc = "compute"]
             b == [a EXCEPT !.rows = now]
  <1>1. now \in Nat
    BY DEF AggIInv, AggTypes
  <1>2. Reads(x) = b
    BY DEF Reads
  <1>3. a \in Views /\ a.pc = "compute" /\ a.asked = x.asked /\ a.answer = x.answer /\ a.failed = x.failed
    BY DEF Views
  <1> HIDE DEF a
  <1>4. b \in Views /\ b.pc = "compute" /\ b.rows = now /\ b.asked = x.asked /\ b.answer = x.answer /\ b.failed = x.failed
    BY <1>1, <1>3 DEF Views
  <1> HIDE DEF b
  <1> QED  BY <1>2, <1>4

(* A view asks: a fresh answer is taken at once, otherwise it goes to the    *)
(* board.                                                                    *)
LEMMA AskKeeps ==
    ASSUME AggIInv, NEW v \in Viewers, NEW life \in AggLives, AskCounts(v, life)
    PROVE  AggIInv'
  <1> DEFINE a1 == [Away EXCEPT !.pc = "board"]
             a2 == [a1 EXCEPT !.life = life]
             a == [a2 EXCEPT !.asked = now]
             b == Finds(a, "cache")
  <1>1. life \in Nat /\ now \in Nat /\ computed \in Nat \cup {None}
    BY AggAssumption DEF AggIInv, AggTypes
  <1>2. /\ UNCHANGED <<now, computed, readSince, inflight, landed>>
        /\ viewer' = [viewer EXCEPT ![v] = IF life > 0 /\ Fresh(life) THEN b ELSE a]
    BY DEF AskCounts
  <1>3. a1 \in Views /\ a1.pc = "board" /\ a1.answer = None /\ ~a1.failed
    BY DEF Views, Away
  <1> HIDE DEF a1
  <1>4. a2 \in Views /\ a2.pc = "board" /\ a2.answer = None /\ ~a2.failed /\ a2.life = life
    BY <1>1, <1>3 DEF Views
  <1> HIDE DEF a2
  <1>5. /\ a \in Views /\ a.pc = "board" /\ a.answer = None /\ ~a.failed /\ a.life = life
        /\ a.asked = now
    BY <1>1, <1>4 DEF Views
  <1> HIDE DEF a
  <1>7. b \in Views /\ b.pc = "away" /\ b.life = life /\ b.asked = now /\ b.answer = computed /\ b.from = "cache"
    BY <1>5, FindsFields
  <1> HIDE DEF b
  <1>8. CASE life > 0 /\ Fresh(life)
    <2>1. computed + life >= now
      BY <1>1, <1>8, NoneIsNoNumber DEF Fresh
    <2>2. viewer' = [viewer EXCEPT ![v] = b]
      BY <1>2, <1>8
    <2>3. b.asked <= now /\ Current(b)
      BY <1>1, <1>7, <2>1 DEF Current
    <2> QED  BY <1>2, <1>7, <2>2, <2>3, ViewerMoves
  <1>9. CASE ~(life > 0 /\ Fresh(life))
    <2>1. viewer' = [viewer EXCEPT ![v] = a]
      BY <1>2, <1>9
    <2>2. a.asked <= now
      BY <1>1, <1>5
    <2> QED  BY <1>2, <1>5, <2>1, <2>2, ViewerMoves
  <1> QED  BY <1>8, <1>9

(* At the board it leads, or follows the event that is in flight.            *)
LEMMA BoardKeeps ==
    ASSUME AggIInv, NEW v \in Viewers, Board(v)
    PROVE  AggIInv'
  <1>1. viewer[v] \in Views /\ viewer[v].pc = "board" /\ viewer[v].asked = now /\ viewer[v].answer = None
        /\ ~viewer[v].failed /\ now \in Nat
    BY DEF Board, AggIInv, AggTypes, Prompt
  <1>2. PICK n \in Nat : landed = 0..(n - 1) /\ inflight \in {None, n}
    BY DEF AggIInv, EventsInOrder
  <1>3. CASE inflight = None
    <2> DEFINE x == Reads(viewer[v])
    <2>1. x \in Views /\ x.pc = "compute" /\ x.asked = now /\ x.rows = now /\ x.answer = None /\ ~x.failed
      BY <1>1, ReadsFields
    <2>2. /\ viewer' = [viewer EXCEPT ![v] = x] /\ inflight' = Cardinality(landed)
          /\ UNCHANGED <<now, computed, readSince, landed>>
      BY <1>3 DEF Board
    <2> HIDE DEF x
    <2>3. Cardinality(landed) = n
      BY <1>2, FS_Interval
    <2>4. \A w \in Viewers : viewer'[w] = IF w = v THEN x ELSE viewer[w]
      BY <2>2 DEF AggIInv, AggTypes
    <2>5. AggTypes'
      BY <1>1, <2>1, <2>2, <2>4 DEF AggIInv, AggTypes
    <2>6. EventsInOrder'
      <3>1. \E m \in Nat : landed' = 0..(m - 1) /\ inflight' \in {None, m}
        BY <1>2, <2>2, <2>3
      <3>2. ASSUME NEW w \in Viewers, viewer'[w].pc = "wait"
            PROVE  viewer'[w].flight \in Nat /\ viewer'[w].flight \in landed
        BY <1>3, <2>1, <2>4, <3>2, NoneIsNoNumber DEF AggIInv, EventsInOrder
      <3> QED  BY <2>2, <3>1, <3>2 DEF EventsInOrder
    <2>7. Prompt' /\ Awaited' /\ AnswersAreCurrent'
      BY <1>1, <2>1, <2>2, <2>4 DEF AggIInv, Prompt, Awaited, AnswersAreCurrent
    <2> QED  BY <2>5, <2>6, <2>7 DEF AggIInv
  <1>4. CASE inflight # None
    <2> DEFINE y == [viewer[v] EXCEPT !.pc = "wait"]
               x == [y EXCEPT !.flight = inflight]
    <2>0. inflight = n
      BY <1>2, <1>4
    <2>1. y \in Views /\ y.pc = "wait" /\ y.asked = now /\ y.answer = None /\ ~y.failed
      BY <1>1 DEF Views
    <2>2. /\ viewer' = [viewer EXCEPT ![v] = x]
          /\ UNCHANGED <<now, computed, readSince, inflight, landed>>
      BY <1>4 DEF Board
    <2> HIDE DEF y
    <2>3. x \in Views /\ x.pc = "wait" /\ x.asked = now /\ x.answer = None /\ x.flight = inflight /\ ~x.failed
      BY <2>0, <2>1 DEF Views
    <2> HIDE DEF x
    <2>4. x.flight \in Nat /\ x.flight \notin landed /\ x.asked <= now
      BY <1>1, <1>2, <2>0, <2>3
    <2> QED  BY <2>2, <2>3, <2>4, ViewerMoves
  <1> QED  BY <1>3, <1>4

(* A leader reads the store, and what it read is cached before its event is  *)
(* landed.                                                                   *)
LEMMA ComputeKeeps ==
    ASSUME AggIInv, NEW v \in Viewers, Compute(v)
    PROVE  AggIInv'
  <1> DEFINE y == [viewer[v] EXCEPT !.pc = "land"]
             x == [y EXCEPT !.answer = now]
  <1>1. /\ viewer[v] \in Views /\ viewer[v].pc = "compute" /\ now \in Nat /\ ~viewer[v].failed
        /\ viewer[v].rows >= viewer[v].asked
    BY DEF Compute, AggIInv, AggTypes, Prompt
  <1>2. /\ viewer' = [viewer EXCEPT ![v] = x]
        /\ computed' = now /\ readSince' = viewer[v].rows /\ UNCHANGED <<now, inflight, landed>>
    BY DEF Compute, AggIInv, AggTypes
  <1>3. y \in Views /\ y.pc = "land" /\ y.asked = viewer[v].asked /\ y.rows = viewer[v].rows /\ ~y.failed
    BY <1>1 DEF Views
  <1> HIDE DEF y
  <1>5. /\ x \in Views /\ x.pc = "land" /\ x.answer = now /\ x.asked = viewer[v].asked /\ ~x.failed
        /\ x.rows >= x.asked
    BY <1>1, <1>3 DEF Views
  <1> HIDE DEF x
  <1>6. \A w \in Viewers : viewer'[w] = IF w = v THEN x ELSE viewer[w]
    BY <1>2 DEF AggIInv, AggTypes
  <1>7. AggTypes'
    BY <1>1, <1>2, <1>5, <1>6 DEF AggIInv, AggTypes, Views
  <1>8. EventsInOrder'
    BY <1>2, <1>5, <1>6 DEF AggIInv, EventsInOrder
  <1>9. Prompt' /\ AnswersAreCurrent'
    BY <1>2, <1>5, <1>6 DEF AggIInv, Prompt, AnswersAreCurrent, Current
  <1>10. Awaited'
    <2>1. \A w \in Viewers : viewer[w].asked <= now
      BY DEF AggIInv, AggTypes
    <2>2. now # None
      BY <1>1, NoneIsNoNumber
    <2> QED  BY <1>1, <1>2, <1>5, <1>6, <2>1, <2>2 DEF Awaited, AggIInv, AggTypes, Views
  <1> QED  BY <1>7, <1>8, <1>9, <1>10 DEF AggIInv

(* Its read fails: it has nothing to show but lands its event all the same.  *)
LEMMA ComputeFailsKeeps ==
    ASSUME AggIInv, NEW v \in Viewers, ComputeFails(v)
    PROVE  AggIInv'
  <1> DEFINE y == [viewer[v] EXCEPT !.pc = "land"]
             x == [y EXCEPT !.failed = TRUE]
  <1>1. viewer[v] \in Views /\ viewer[v].pc = "compute" /\ viewer[v].answer = None /\ viewer[v].asked <= now
    BY DEF ComputeFails, AggIInv, AggTypes, Prompt
  <1>2. /\ viewer' = [viewer EXCEPT ![v] = x] /\ UNCHANGED <<now, computed, readSince, inflight, landed>>
    BY DEF ComputeFails, AggIInv, AggTypes
  <1>3. y \in Views /\ y.pc = "land" /\ y.answer = None /\ y.asked = viewer[v].asked
    BY <1>1 DEF Views
  <1> HIDE DEF y
  <1>4. x \in Views /\ x.pc = "land" /\ x.answer = None /\ x.asked = viewer[v].asked /\ x.failed
    BY <1>3 DEF Views
  <1> HIDE DEF x
  <1> QED  BY <1>1, <1>2, <1>4, ViewerMoves

(* A follower is woken or gives up, and takes what the cache holds by then.  *)
LEMMA WakeKeeps ==
    ASSUME AggIInv, NEW v \in Viewers, Wake(v)
    PROVE  AggIInv'
  <1> DEFINE e == viewer[v].excused \/ viewer[v].flight \notin landed
             y == [viewer[v] EXCEPT !.excused = e]
  <1>1. /\ viewer[v] \in Views /\ viewer[v].pc = "wait" /\ viewer[v].answer = None /\ ~viewer[v].failed
        /\ viewer[v].asked <= now /\ viewer[v].asked \in Nat /\ now \in Nat /\ computed \in Nat \cup {None}
        /\ UNCHANGED <<now, computed, readSince, inflight, landed>>
    BY DEF Wake, AggIInv, AggTypes, Prompt, Views
  <1>2. /\ y \in Views /\ y.asked = viewer[v].asked /\ y.answer = None /\ ~y.failed
        /\ y.life = viewer[v].life /\ (y.excused <=> e)
    BY <1>1 DEF Views
  <1>3. ~e => computed # None /\ computed >= viewer[v].asked
    BY <1>1 DEF AggIInv, Awaited
  <1> DEFINE timely == [viewer EXCEPT ![v].excused = @ \/ viewer[v].flight \notin landed]
  <1>4. timely = [viewer EXCEPT ![v] = y]
    OBVIOUS
  <1>5. viewer' = IF computed # None
                  THEN [timely EXCEPT ![v] = Finds(@, "flight")]
                  ELSE [timely EXCEPT ![v] = Reads(@)]
    BY DEF Wake
  <1> HIDE DEF e, y
  <1>6. CASE computed # None
    <2> DEFINE x == Finds(y, "flight")
    <2>1. viewer' = [viewer EXCEPT ![v] = x]
      BY <1>4, <1>5, <1>6 DEF AggIInv, AggTypes
    <2>3. /\ x \in Views /\ x.pc = "away" /\ x.asked = viewer[v].asked
          /\ x.life = viewer[v].life /\ (x.excused <=> e) /\ x.answer = computed /\ x.from = "flight"
      BY <1>2, FindsFields
    <2> HIDE DEF x
    <2>4. Current(x)
      BY <1>1, <1>3, <2>3, NoneIsNoNumber DEF Current
    <2> QED  BY <1>1, <2>1, <2>3, <2>4, ViewerMoves
  <1>7. CASE computed = None
    <2> DEFINE x == Reads(y)
    <2>1. viewer' = [viewer EXCEPT ![v] = x]
      BY <1>4, <1>5, <1>7 DEF AggIInv, AggTypes
    <2>2. /\ x \in Views /\ x.pc = "compute" /\ x.asked = viewer[v].asked /\ x.answer = None /\ ~x.failed
          /\ x.rows >= x.asked
      BY <1>1, <1>2, ReadsFields
    <2> HIDE DEF x
    <2> QED  BY <1>1, <2>1, <2>2, ViewerMoves
  <1> QED  BY <1>6, <1>7

(* The event is landed: those who wait for it find the counts that the       *)
(* leader read.                                                              *)
LEMMA LandKeeps ==
    ASSUME AggIInv, NEW v \in Viewers, Land(v)
    PROVE  AggIInv'
  <1>1. PICK n \in Nat : landed = 0..(n - 1) /\ inflight \in {None, n}
    BY DEF AggIInv, EventsInOrder
  <1>2. /\ inflight' = None /\ landed' = landed \cup ({inflight} \ {None})
        /\ UNCHANGED <<now, computed, readSince>> /\ viewer[v].pc = "land"
    BY DEF Land, TakenOff
  <1> DEFINE hit(w) == viewer[v].failed /\ viewer[w].pc = "wait" /\ viewer[w].flight = inflight
  <1>3. /\ viewer' \in [Viewers -> Views]
        /\ \A w \in Viewers :
              /\ viewer'[w].pc = IF w = v THEN "away" ELSE viewer[w].pc
              /\ viewer'[w].life = viewer[w].life /\ viewer'[w].asked = viewer[w].asked
              /\ viewer'[w].flight = viewer[w].flight /\ viewer'[w].failed = viewer[w].failed
              /\ viewer'[w].answer = viewer[w].answer
              /\ viewer'[w].rows = viewer[w].rows /\ viewer'[w].from = viewer[w].from
              /\ viewer'[w].excused <=> viewer[w].excused \/ (w # v /\ hit(w))
    <2>1. viewer \in [Viewers -> Views]
      BY DEF AggIInv, AggTypes
    <2>2. viewer' = [w \in Viewers |->
             IF w = v THEN [viewer[v] EXCEPT !.pc = "away"]
             ELSE IF hit(w) THEN [viewer[w] EXCEPT !.excused = TRUE] ELSE viewer[w]]
      BY DEF Land
    <2>3. ASSUME NEW w \in Viewers
          PROVE  /\ viewer'[w] \in Views
                 /\ viewer'[w].pc = IF w = v THEN "away" ELSE viewer[w].pc
                 /\ viewer'[w].life = viewer[w].life /\ viewer'[w].asked = viewer[w].asked
                 /\ viewer'[w].flight = viewer[w].flight /\ viewer'[w].failed = viewer[w].failed
                 /\ viewer'[w].answer = viewer[w].answer
                 /\ viewer'[w].rows = viewer[w].rows /\ viewer'[w].from = viewer[w].from
                 /\ viewer'[w].excused <=> viewer[w].excused \/ (w # v /\ hit(w))
      <3>1. viewer[w] \in Views
        BY <2>1
      <3>2. CASE w = v
        BY <2>2, <3>1, <3>2 DEF Views
      <3>3. CASE w # v /\ hit(w)
        <4>1. viewer'[w] = [viewer[w] EXCEPT !.excused = TRUE]
          BY <2>2, <3>3
        <4> HIDE DEF hit
        <4> QED  BY <3>1, <3>3, <4>1 DEF Views
      <3>4. CASE w # v /\ ~hit(w)
        BY <2>2, <3>1, <3>4
      <3> QED  BY <3>2, <3>3, <3>4
    <2> HIDE DEF hit
    <2> QED  BY <2>2, <2>3
  <1>4. AggTypes'
    BY <1>2, <1>3 DEF AggIInv, AggTypes
  <1>5. EventsInOrder'
    <2>1. \E m \in Nat : landed' = 0..(m - 1)
      <3>1. CASE inflight = None
        BY <1>1, <1>2, <3>1
      <3>2. CASE inflight = n
        <4>1. landed' = 0..((n + 1) - 1)
          BY <1>1, <1>2, <3>2, NoneIsNoNumber
        <4> QED  BY <4>1
      <3> QED  BY <1>1, <3>1, <3>2
    <2>2. ASSUME NEW w \in Viewers, viewer'[w].pc = "wait"
          PROVE  viewer'[w].flight \in Nat /\ viewer'[w].flight \in landed'
      <3>1. /\ viewer[w].flight \in Nat /\ viewer'[w].flight = viewer[w].flight
            /\ viewer[w].flight \in landed \/ viewer[w].flight = inflight
        BY <1>3, <2>2 DEF AggIInv, EventsInOrder
      <3> QED  BY <1>2, <3>1, NoneIsNoNumber
    <2> QED  BY <1>2, <2>1, <2>2 DEF EventsInOrder
  <1>6. Prompt'
    BY <1>2, <1>3 DEF AggIInv, Prompt
  <1>7. Awaited'
    <2> SUFFICES ASSUME NEW w \in Viewers, viewer'[w].pc = "wait", viewer'[w].flight \in landed',
                        ~viewer'[w].excused
                 PROVE  computed # None /\ computed >= viewer[w].asked
      BY <1>2, <1>3 DEF Awaited
    <2>1. w # v /\ viewer[w].pc = "wait" /\ ~viewer[w].excused /\ ~hit(w) /\ viewer[w].flight \in landed'
      BY <1>3
    <2>2. CASE viewer[w].flight \in landed
      BY <2>1, <2>2 DEF AggIInv, Awaited
    <2>3. CASE viewer[w].flight \notin landed
      <3>1. ~viewer[v].failed
        BY <1>2, <2>1, <2>3
      <3>2. computed = now /\ now \in Nat /\ viewer[w].asked <= now
        BY <1>2, <3>1 DEF AggIInv, Prompt, AggTypes
      <3>3. viewer[w].asked \in Nat
        BY DEF AggIInv, AggTypes, Views
      <3> QED  BY <3>2, <3>3, NoneIsNoNumber
    <2> QED  BY <2>2, <2>3
  <1>8. AnswersAreCurrent'
    <2>1. ASSUME NEW w \in Viewers, viewer'[w].pc = "away" PROVE Current(viewer[w])
      <3>1. CASE w # v
        BY <1>3, <2>1, <3>1 DEF AggIInv, AnswersAreCurrent
      <3>2. CASE w = v
        <4>1. /\ viewer[w] \in Views /\ viewer[w].asked <= now /\ now \in Nat
              /\ viewer[w].answer # None => viewer[w].answer = now /\ viewer[w].rows >= viewer[w].asked
          BY <1>2, <3>2 DEF AggIInv, Prompt, AggTypes
        <4> QED  BY <4>1 DEF Views, Current
      <3> QED  BY <3>1, <3>2
    <2>2. ASSUME NEW w \in Viewers, Current(viewer[w]) PROVE Current(viewer[w])'
      <3>1. /\ viewer'[w].answer = viewer[w].answer /\ viewer'[w].rows = viewer[w].rows
            /\ viewer'[w].from = viewer[w].from /\ viewer'[w].life = viewer[w].life
            /\ viewer'[w].asked = viewer[w].asked /\ (viewer[w].excused => viewer'[w].excused)
        BY <1>3
      <3> QED  BY <2>2, <3>1 DEF Current
    <2> QED  BY <2>1, <2>2 DEF AnswersAreCurrent
  <1> QED  BY <1>4, <1>5, <1>6, <1>7, <1>8 DEF AggIInv

LEMMA AggStepKeeps == AggIInv /\ [AggNext]_aggVars => AggIInv'
  <1> SUFFICES ASSUME AggIInv, [AggNext]_aggVars PROVE AggIInv'
    OBVIOUS
  <1>1. ASSUME NEW v \in Viewers, NEW life \in AggLives, AskCounts(v, life) PROVE AggIInv'
    BY <1>1, AskKeeps
  <1>2. ASSUME NEW v \in Viewers, Board(v) PROVE AggIInv'
    BY <1>2, BoardKeeps
  <1>3. ASSUME NEW v \in Viewers, Compute(v) PROVE AggIInv'
    BY <1>3, ComputeKeeps
  <1>4. ASSUME NEW v \in Viewers, ComputeFails(v) PROVE AggIInv'
    BY <1>4, ComputeFailsKeeps
  <1>5. ASSUME NEW v \in Viewers, Land(v) PROVE AggIInv'
    BY <1>5, LandKeeps
  <1>6. ASSUME NEW v \in Viewers, Wake(v) PROVE AggIInv'
    BY <1>6, WakeKeeps
  <1>7. CASE AggTick
    <2>1. /\ now' = now + 1 /\ UNCHANGED <<computed, readSince, inflight, landed, viewer>>
          /\ \A v \in Viewers : viewer[v].pc \notin {"board", "land"}
      BY <1>7 DEF AggTick
    <2>2. AggTypes'
      BY <2>1 DEF AggIInv, AggTypes, Views
    <2> QED  BY <2>1, <2>2 DEF AggIInv, EventsInOrder, Prompt, Awaited, AnswersAreCurrent, Current
  <1>8. CASE UNCHANGED aggVars
    BY <1>8 DEF aggVars, AggIInv, AggTypes, EventsInOrder, Prompt, Awaited, AnswersAreCurrent
  <1> QED  BY <1>1, <1>2, <1>3, <1>4, <1>5, <1>6, <1>7, <1>8 DEF AggNext

(* However requests for the same counts cross, and with any number of them:    *)
(* who computes has read rows since it asked, who takes the cache takes counts *)
(* stamped within the age it asked for, and who joins a computation gets       *)
(* counts stamped since it asked, unless one failed or it gave up waiting.     *)
THEOREM CountsAreCurrent == AggSpec => []AnswersAreCurrent
  <1>1. AggIInv => AnswersAreCurrent
    BY DEF AggIInv
  <1> QED  BY AggInitHolds, AggStepKeeps, <1>1, PTL DEF AggSpec

-------------------------------------------------------------------------------
(* Retraining.  Three files written one after the other hold one training as   *)
(* long as nobody else writes in between and nothing stops the writer; what is *)
(* installed is one, and what a start loads is one when the files were.        *)

(* A trainer writes what it made, to files that hold one training or none.   *)
RetrainTypes ==
    /\ now \in Nat /\ trained \in Nat
    /\ trainer \in [Trainers -> Jobs \cup {None}]
    /\ modelFiles \in [Parts3 -> Marks \cup {None}]
    /\ disorder \in BOOLEAN

(* The start is through, with its loops or without.                          *)
Ended == {"done", "dead"}

(* What is in use, what reads it, and the start that loads it.               *)
UsedTypes ==
    /\ starting \in [step : Parts3 \cup {"put", "profile", "scaler left", "forest left"} \cup Ended,
                     got : [Parts3 -> Marks \cup {None}], doubt : BOOLEAN]
    /\ inUse \in [model : Marks \cup {None}, scaler : Marks \cup {None}, meta : Marks \cup {None},
                  on : {"synthetic", "real"}, doubt : BOOLEAN]
    /\ since \in [of : Marks \cup {None}, foreign : [Analysts -> Nat]]
    /\ analysis \in [Analysts -> Analyses \cup {None}]
    /\ overtaken \in BOOLEAN

\* A writer that is alone has written its own so far, and one that is not has
\* left its mark.
WrittenSoFar ==
    \A t \in Trainers : Writing(t) =>
        IF trainer[t].alone
        THEN /\ \A u \in Trainers : Writing(u) => u = t
             /\ trainer[t].step \in {"scaler", "meta"} => modelFiles["model"] = trainer[t].made
             /\ trainer[t].step = "meta" => modelFiles["scaler"] = trainer[t].made
        ELSE disorder

(* Files nobody writes are of one training.                                  *)
FilesAreOne ==
    disorder \/ (\E t \in Trainers : Writing(t)) \/ \A p, q \in Parts3 : modelFiles[p] = modelFiles[q]

\* What the start has got, and has still to get, is one.
LoadIsOne ==
    \/ starting.doubt
    \/ starting.step = "scaler" /\ {modelFiles["scaler"], modelFiles["meta"]} \subseteq {starting.got["model"], Torn}
    \/ /\ starting.step = "meta" /\ starting.got["scaler"] = starting.got["model"]
       /\ modelFiles["meta"] \in {starting.got["model"], Torn}
    \/ /\ starting.step = "put" /\ starting.got["scaler"] = starting.got["model"]
       /\ starting.got["meta"] = starting.got["model"]
    \/ starting.step \notin {"scaler", "meta", "put"}

\* Before the end of the start, where nothing was installed yet.
Untrained ==
    /\ inUse.on = "synthetic" /\ inUse.meta = None /\ since.of = None
    /\ inUse.model \in {None, Profile} /\ inUse.scaler \in {None, Profile}
    /\ starting.step = "scaler left" => inUse.model = Profile
    /\ starting.step = "forest left" => inUse.scaler = Profile

(* What is in use comes from one training.                                   *)
IsOne == inUse.model = inUse.scaler /\ (inUse.on = "real" <=> inUse.meta = inUse.model)

(* It does after the start, and is the one that was installed last where one *)
(* was.                                                                      *)
UsedIsOne ==
    /\ overtaken \/ IF starting.step \in Ended THEN inUse.doubt \/ IsOne ELSE Untrained
    /\ since.of # None /\ ~overtaken => inUse.model = since.of /\ inUse.scaler = since.of

\* What an analysis has read, and what its thread has counted.
AnalysesAreOne ==
    \A a \in Analysts :
       /\ since.of = None => since.foreign[a] = 0
       /\ analysis[a] # None /\ analysis[a].left < 3 => analysis[a].used # {}
       /\ since.of # None /\ ~overtaken =>
             /\ since.foreign[a] <= 1
             /\ analysis[a] # None =>
                   IF analysis[a].late THEN since.foreign[a] = 0 ELSE analysis[a].used \subseteq {since.of}

RetrainIInv ==
    RetrainTypes /\ UsedTypes /\ WrittenSoFar /\ FilesAreOne /\ LoadIsOne /\ UsedIsOne /\ AnalysesAreOne

LEMMA RetrainInitHolds == RetrainInit => RetrainIInv
  <1> SUFFICES ASSUME RetrainInit PROVE RetrainIInv
    OBVIOUS
  <1>1. /\ trainer = [t \in Trainers |-> None] /\ modelFiles = [p \in Parts3 |-> None]
        /\ starting.step = "model" /\ inUse = NotReady /\ since.of = None
        /\ analysis = [a \in Analysts |-> None] /\ since.foreign = [a \in Analysts |-> 0]
    BY DEF RetrainInit, Nothing, Started
  <1>2. RetrainTypes
    BY <1>1 DEF RetrainInit, RetrainTypes
  <1>3. UsedTypes
    <2>1. starting = [step |-> "model", got |-> [p \in Parts3 |-> None], doubt |-> FALSE]
      BY DEF RetrainInit, Started, Nothing
    <2>2. starting \in [step : Parts3 \cup {"put", "profile", "scaler left", "forest left"} \cup Ended,
                         got : [Parts3 -> Marks \cup {None}], doubt : BOOLEAN]
      BY <2>1 DEF Parts3
    <2>3. inUse \in [model : Marks \cup {None}, scaler : Marks \cup {None}, meta : Marks \cup {None},
                      on : {"synthetic", "real"}, doubt : BOOLEAN]
      BY <1>1 DEF NotReady
    <2>4. since \in [of : Marks \cup {None}, foreign : [Analysts -> Nat]]
      BY <1>1 DEF RetrainInit
    <2>5. analysis \in [Analysts -> Analyses \cup {None}] /\ overtaken \in BOOLEAN
      BY <1>1 DEF RetrainInit
    <2> QED  BY <2>2, <2>3, <2>4, <2>5 DEF UsedTypes
  <1>4. WrittenSoFar /\ FilesAreOne
    BY <1>1 DEF WrittenSoFar, FilesAreOne, Writing
  <1>5. LoadIsOne
    BY <1>1 DEF LoadIsOne
  <1>6. UsedIsOne
    BY <1>1 DEF UsedIsOne, Untrained, NotReady, Ended
  <1>7. AnalysesAreOne
    BY <1>1 DEF AnalysesAreOne
  <1> QED  BY <1>2, <1>3, <1>4, <1>5, <1>6, <1>7 DEF RetrainIInv

(* A step beside what is in use.                                             *)
LEMMA UsedStays ==
    ASSUME RetrainIInv, UNCHANGED <<inUse, since, analysis, overtaken>>, starting'.step = starting.step
    PROVE  UsedIsOne' /\ AnalysesAreOne'
  <1>1. UsedIsOne /\ AnalysesAreOne
    BY DEF RetrainIInv
  <1> QED  BY <1>1 DEF UsedIsOne, AnalysesAreOne, Untrained, IsOne

(* A step beside the files.                                                  *)
LEMMA FilesStay ==
    ASSUME RetrainIInv, UNCHANGED <<trainer, modelFiles, disorder>>
    PROVE  WrittenSoFar' /\ FilesAreOne'
  <1>1. WrittenSoFar /\ FilesAreOne
    BY DEF RetrainIInv
  <1> QED  BY <1>1 DEF WrittenSoFar, FilesAreOne, Writing

(* A step beside files and start.                                            *)
LEMMA LoadStays ==
    ASSUME RetrainIInv, UNCHANGED <<starting, modelFiles>>
    PROVE  LoadIsOne'
  BY DEF RetrainIInv, LoadIsOne

(* A trainer that comes to another point of its work, and touches no file.     *)
LEMMA NoFileTouched ==
    ASSUME RetrainIInv, NEW t \in Trainers, NEW x \in Jobs \cup {None},
           trainer' = [trainer EXCEPT ![t] = x], x # None => x.step \notin Parts3,
           UNCHANGED <<modelFiles, disorder, starting>>, now' \in Nat, trained' \in Nat, ~Writing(t)
    PROVE  RetrainTypes' /\ WrittenSoFar' /\ FilesAreOne' /\ LoadIsOne'
  <1>1. \A u \in Trainers : trainer'[u] = IF u = t THEN x ELSE trainer[u]
    BY DEF RetrainIInv, RetrainTypes
  <1>2. \A u \in Trainers : (Writing(u)' <=> Writing(u)) /\ (Writing(u) => trainer'[u] = trainer[u])
    BY <1>1 DEF Writing
  <1>3. RetrainTypes'
    BY <1>1 DEF RetrainIInv, RetrainTypes
  <1>4. WrittenSoFar'
    BY <1>2 DEF RetrainIInv, WrittenSoFar
  <1>5. FilesAreOne'
    BY <1>2 DEF RetrainIInv, FilesAreOne
  <1> QED  BY <1>3, <1>4, <1>5, LoadStays

(* A trainer takes up a job.                                                 *)
LEMMA BeginsKeeps ==
    ASSUME RetrainIInv, NEW t \in Trainers, NEW forced \in BOOLEAN, Begins(t, forced)
    PROVE  RetrainIInv'
  <1> DEFINE x == [step |-> "fit", forced |-> forced, made |-> Training("real", trained + 1), alone |-> FALSE]
  <1>1. /\ trainer' = [trainer EXCEPT ![t] = x] /\ trained' = trained + 1
        /\ UNCHANGED <<modelFiles, disorder, now, usedRest>> /\ ~Writing(t)
    BY DEF Begins, Writing
  <1>2. now \in Nat /\ trained \in Nat
    BY DEF RetrainIInv, RetrainTypes
  <1>3. x \in Jobs /\ x.step = "fit"
    BY <1>2 DEF Jobs, Marks, Training
  <1> HIDE DEF x
  <1>4. x.step \notin Parts3 /\ now' \in Nat /\ trained' \in Nat
    BY <1>1, <1>2, <1>3 DEF Parts3
  <1>5. UNCHANGED <<starting, inUse, analysis, since, overtaken>>
    BY <1>1 DEF usedRest
  <1>6. UsedTypes'
    BY <1>5 DEF RetrainIInv, UsedTypes
  <1>7. UsedIsOne' /\ AnalysesAreOne'
    BY <1>5, UsedStays
  <1>8. RetrainTypes' /\ WrittenSoFar' /\ FilesAreOne' /\ LoadIsOne'
    BY <1>1, <1>3, <1>4, <1>5, NoFileTouched
  <1> QED  BY <1>6, <1>7, <1>8 DEF RetrainIInv

(* What was fitted is put in use, and the analyses under way are late.       *)
LEMMA InstallKeeps ==
    ASSUME RetrainIInv, NEW t \in Trainers, Install(t)
    PROVE  RetrainIInv'
  <1>1. /\ trainer' = [trainer EXCEPT ![t] = None] /\ trainer[t] \in Jobs
        /\ UNCHANGED <<modelFiles, disorder, now, trained, starting>> /\ ~Writing(t)
    BY DEF Install, Writing, Parts3, RetrainIInv, RetrainTypes
  <1>2. RetrainTypes' /\ WrittenSoFar' /\ FilesAreOne' /\ LoadIsOne'
    BY <1>1, NoFileTouched DEF RetrainIInv, RetrainTypes
  <1>3. CASE t = "script"
    <2>1. UNCHANGED <<inUse, analysis, since, overtaken>>
      BY <1>3 DEF Install
    <2>2. UsedTypes'
      BY <1>1, <2>1 DEF RetrainIInv, UsedTypes
    <2> QED  BY <1>1, <1>2, <2>1, <2>2, UsedStays DEF RetrainIInv
  <1>4. CASE t # "script"
    <2>1. PICK fitted \in Marks : fitted = trainer[t].made
      BY <1>1 DEF Jobs
    <2>2. /\ inUse' = [model |-> fitted, scaler |-> fitted, meta |-> fitted, on |-> "real", doubt |-> FALSE]
          /\ since' = [of |-> fitted, foreign |-> [a \in Analysts |-> 0]]
          /\ analysis' = [a \in Analysts |-> IF analysis[a] = None THEN None ELSE [analysis[a] EXCEPT !.late = TRUE]]
          /\ overtaken' = (starting.step \notin Ended)
      BY <1>4, <2>1 DEF Install, Ended
    <2>3. \A a \in Analysts : analysis[a] \in Analyses \cup {None}
      BY DEF RetrainIInv, UsedTypes
    <2>4. ASSUME NEW a \in Analysts
          PROVE  /\ analysis'[a] \in Analyses \cup {None}
                 /\ analysis'[a] # None =>
                       /\ analysis[a] # None /\ analysis'[a].late
                       /\ analysis'[a].left = analysis[a].left /\ analysis'[a].used = analysis[a].used
      <3>1. CASE analysis[a] = None
        BY <2>2, <3>1
      <3>2. CASE analysis[a] # None
        <4>1. PICK run \in Analyses : run = analysis[a]
          BY <2>3, <3>2
        <4>2. analysis'[a] = [run EXCEPT !.late = TRUE]
          BY <2>2, <3>2, <4>1
        <4> QED  BY <3>2, <4>1, <4>2 DEF Analyses
      <3> QED  BY <3>1, <3>2
    <2>5. analysis' \in [Analysts -> Analyses \cup {None}]
      <3>1. analysis' = [a \in Analysts |-> analysis'[a]]
        BY <2>2
      <3> QED  BY <2>4, <3>1
    <2>6. UsedTypes'
      <3>1. starting' = starting /\ UsedTypes
        BY <1>1 DEF RetrainIInv
      <3>2. since' \in [of : Marks \cup {None}, foreign : [Analysts -> Nat]]
        BY <2>1, <2>2
      <3>3. inUse' \in [model : Marks \cup {None}, scaler : Marks \cup {None}, meta : Marks \cup {None},
                        on : {"synthetic", "real"}, doubt : BOOLEAN]
        BY <2>1, <2>2
      <3>4. overtaken' \in BOOLEAN
        BY <2>2
      <3> QED  BY <2>5, <3>1, <3>2, <3>3, <3>4 DEF UsedTypes
    <2>7. UsedIsOne'
      BY <1>1, <2>2 DEF UsedIsOne, IsOne
    <2>8. AnalysesAreOne'
      <3>1. fitted # None
        BY <2>1, NoneIsNoJob
      <3>2. since'.of = fitted /\ \A a \in Analysts : since'.foreign[a] = 0
        BY <2>2
      <3>3. AnalysesAreOne
        BY DEF RetrainIInv
      <3> QED  BY <2>4, <3>1, <3>2, <3>3 DEF AnalysesAreOne
    <2> QED  BY <1>2, <2>6, <2>7, <2>8 DEF RetrainIInv
  <1> QED  BY <1>3, <1>4

(* The fit ends and writing begins, alone or not.                            *)
LEMMA FitKeeps ==
    ASSUME RetrainIInv, NEW t \in Trainers, Fit(t)
    PROVE  RetrainIInv'
  <1>1. /\ trainer[t] \in Jobs /\ ~Writing(t)
        /\ UNCHANGED <<modelFiles, now, trained, usedRest>> /\ now \in Nat /\ trained \in Nat
    BY DEF Fit, RetrainIInv, RetrainTypes, Writing, Parts3
  <1>2. UNCHANGED <<starting, inUse, analysis, since, overtaken>>
    BY <1>1 DEF usedRest
  <1>3. UsedTypes' /\ UsedIsOne' /\ AnalysesAreOne' /\ LoadIsOne'
    BY <1>1, <1>2, UsedStays, LoadStays DEF RetrainIInv, UsedTypes
  <1>4. CASE trainer' = [trainer EXCEPT ![t] = None] /\ UNCHANGED disorder
    BY <1>1, <1>2, <1>3, <1>4, NoFileTouched DEF RetrainIInv
  <1>5. CASE ~(trainer' = [trainer EXCEPT ![t] = None] /\ UNCHANGED disorder)
    <2> DEFINE overlaps == \E other \in Trainers \ {t} : Writing(other)
               x == [step |-> "model", forced |-> FALSE, made |-> Training("real", trainer[t].made.n), alone |-> ~overlaps]
    <2>1. /\ trainer' = [u \in Trainers |-> IF u = t THEN x
                            ELSE IF Writing(u) THEN [trainer[u] EXCEPT !.alone = FALSE] ELSE trainer[u]]
          /\ disorder' = (disorder \/ overlaps)
      BY <1>5 DEF Fit
    <2>2. x \in Jobs /\ x.step = "model" /\ x.alone = ~overlaps
      <3>1. trainer[t].made.n \in Nat
        BY <1>1 DEF Jobs, Marks
      <3>2. Training("real", trainer[t].made.n) \in Marks
        BY <1>1, <3>1 DEF Marks, Training
      <3> QED  BY <3>2 DEF Jobs, Parts3
    <2> HIDE DEF x
    <2>3. ASSUME NEW u \in Trainers \ {t}
          PROVE  /\ trainer'[u] \in Jobs \cup {None} /\ (Writing(u)' <=> Writing(u))
                 /\ Writing(u) => ~trainer'[u].alone
      <3>1. CASE Writing(u)
        <4>1. PICK job \in Jobs : job = trainer[u]
          BY <3>1 DEF Writing, RetrainIInv, RetrainTypes
        <4>2. trainer'[u] = [job EXCEPT !.alone = FALSE]
          BY <2>1, <3>1, <4>1
        <4>3. trainer'[u] \in Jobs /\ trainer'[u].step = job.step /\ ~trainer'[u].alone
          BY <4>2 DEF Jobs
        <4> QED  BY <3>1, <4>1, <4>3, NoneIsNoJob DEF Writing
      <3>2. CASE ~Writing(u)
        BY <2>1, <3>2 DEF Writing, RetrainIInv, RetrainTypes
      <3> QED  BY <3>1, <3>2
    <2>4. trainer'[t] = x /\ Writing(t)'
      BY <2>1, <2>2, NoneIsNoJob DEF Writing, Parts3
    <2>5. RetrainTypes'
      <3>1. trainer' = [u \in Trainers |-> trainer'[u]]
        BY <2>1
      <3>2. \A u \in Trainers : trainer'[u] \in Jobs \cup {None}
        BY <2>2, <2>3, <2>4
      <3>3. trainer' \in [Trainers -> Jobs \cup {None}]
        BY <3>1, <3>2
      <3> QED  BY <1>1, <2>1, <3>3 DEF RetrainIInv, RetrainTypes
    <2>6. WrittenSoFar'
      <3>1. CASE overlaps
        BY <2>1, <2>2, <2>3, <2>4, <3>1 DEF WrittenSoFar
      <3>2. CASE ~overlaps
        BY <2>2, <2>3, <2>4, <3>2 DEF WrittenSoFar
      <3> QED  BY <3>1, <3>2
    <2>7. FilesAreOne'
      BY <2>4 DEF FilesAreOne
    <2> QED  BY <1>3, <2>5, <2>6, <2>7 DEF RetrainIInv
  <1> QED  BY <1>4, <1>5

(* One file is written; after the last one of an undisturbed writer they are *)
(* of one training.                                                          *)
LEMMA WriteKeeps ==
    ASSUME RetrainIInv, NEW t \in Trainers, WriteModelFile(t)
    PROVE  RetrainIInv'
  <1> DEFINE mark == trainer[t].made
             step == trainer[t].step
             alone == trainer[t].alone
             x == [trainer[t] EXCEPT !.step = AfterFile(step)]
  <1>1. /\ trainer[t] \in Jobs /\ step \in Parts3 /\ Writing(t)
        /\ UNCHANGED <<now, trained, inUse, analysis, since, overtaken>>
        /\ disorder' = (disorder /\ ~(alone /\ step = "meta")) /\ starting' = Passed(starting)
    BY DEF WriteModelFile, Writing, RetrainIInv, RetrainTypes
  <1>2. /\ modelFiles' = [modelFiles EXCEPT ![step] = mark]
        /\ trainer' = [trainer EXCEPT ![t] = x]
    BY DEF WriteModelFile
  <1>3. /\ AfterFile("model") = "scaler" /\ AfterFile("scaler") = "meta" /\ AfterFile("meta") = "install"
    BY DEF AfterFile
  <1>4. /\ x \in Jobs /\ x.made = mark /\ x.step = AfterFile(step) /\ mark \in Marks /\ x.alone = alone
    BY <1>1, <1>3 DEF Jobs, Parts3
  <1> HIDE DEF x
  <1>5. /\ \A u \in Trainers : trainer'[u] = IF u = t THEN x ELSE trainer[u]
        /\ \A p \in Parts3 : modelFiles'[p] = IF p = step THEN mark ELSE modelFiles[p]
    BY <1>1, <1>2 DEF RetrainIInv, RetrainTypes
  <1>6. RetrainTypes'
    BY <1>1, <1>2, <1>4, <1>5 DEF RetrainIInv, RetrainTypes
  <1>7. /\ starting'.step = starting.step /\ starting'.got = starting.got
        /\ starting.step \in {"scaler", "meta"} => starting'.doubt
        /\ UsedTypes'
    <2>1. UsedTypes
      BY DEF RetrainIInv
    <2> QED  BY <1>1, <2>1 DEF UsedTypes, Passed
  <1>8. UsedIsOne' /\ AnalysesAreOne'
    BY <1>1, <1>7, UsedStays
  <1>9. LoadIsOne'
    <2>1. LoadIsOne /\ (starting.doubt => starting'.doubt)
      BY <1>1 DEF RetrainIInv, UsedTypes, Passed
    <2> QED  BY <1>7, <2>1 DEF LoadIsOne
  <1>10. WrittenSoFar' /\ FilesAreOne'
    <2>1. \A u \in Trainers : u # t => (Writing(u)' <=> Writing(u)) /\ trainer'[u] = trainer[u]
      BY <1>5 DEF Writing
    <2>2. WrittenSoFar
      BY DEF RetrainIInv
    <2>3. trainer'[t] = x /\ x # None
      BY <1>4, <1>5, NoneIsNoJob
    <2>4. CASE alone
      <3>1. /\ \A u \in Trainers : u # t => ~Writing(u)'
            /\ step \in {"scaler", "meta"} => modelFiles["model"] = mark
            /\ step = "meta" => modelFiles["scaler"] = mark
        BY <1>1, <2>1, <2>2, <2>4 DEF WrittenSoFar
      <3>2. CASE step = "meta"
        <4>1. ~Writing(t)'
          BY <1>3, <1>4, <2>3, <3>2 DEF Writing, Parts3
        <4>2. \A p \in Parts3 : modelFiles'[p] = mark
          BY <1>5, <3>1, <3>2 DEF Parts3
        <4> QED  BY <3>1, <4>1, <4>2 DEF WrittenSoFar, FilesAreOne
      <3>3. CASE step \in {"model", "scaler"}
        <4>1. Writing(t)'
          BY <1>3, <1>4, <2>3, <3>3 DEF Writing, Parts3
        <4>2. /\ x.step \in {"scaler", "meta"} => modelFiles'["model"] = x.made
              /\ x.step = "meta" => modelFiles'["scaler"] = x.made
          BY <1>3, <1>4, <1>5, <3>1, <3>3 DEF Parts3
        <4> QED  BY <1>4, <2>3, <2>4, <3>1, <4>1, <4>2 DEF WrittenSoFar, FilesAreOne
      <3> QED  BY <1>1, <3>2, <3>3 DEF Parts3
    <2>5. CASE ~alone
      <3>1. disorder /\ disorder'
        BY <1>1, <2>2, <2>5 DEF WrittenSoFar
      <3>2. \A u \in Trainers : Writing(u)' => ~trainer'[u].alone
        BY <1>1, <1>4, <2>1, <2>2, <2>3, <2>5 DEF WrittenSoFar
      <3> QED  BY <3>1, <3>2 DEF WrittenSoFar, FilesAreOne
    <2> QED  BY <2>4, <2>5
  <1> QED  BY <1>6, <1>7, <1>8, <1>9, <1>10 DEF RetrainIInv

(* A write fails and leaves the files in disorder.                           *)
LEMMA WriteFailsKeeps ==
    ASSUME RetrainIInv, NEW t \in Trainers, WriteFails(t)
    PROVE  RetrainIInv'
  <1>1. Torn \in Marks
    BY DEF Torn, Marks
  <1>2. /\ UNCHANGED <<now, trained, usedRest>> /\ disorder' = TRUE
        /\ trainer' = [trainer EXCEPT ![t] = None] /\ Writing(t)
        /\ modelFiles' = [modelFiles EXCEPT ![trainer[t].step] = Torn]
    BY DEF WriteFails
  <1>3. RetrainTypes'
    BY <1>1, <1>2 DEF RetrainIInv, RetrainTypes
  <1>4. UNCHANGED <<starting, inUse, analysis, since, overtaken>>
    BY <1>2 DEF usedRest
  <1>5. UsedTypes' /\ UsedIsOne' /\ AnalysesAreOne'
    BY <1>4, UsedStays DEF RetrainIInv, UsedTypes
  <1>6. LoadIsOne'
    <2>1. \A p \in Parts3 : modelFiles'[p] \in {modelFiles[p], Torn}
      BY <1>2 DEF RetrainIInv, RetrainTypes
    <2>2. LoadIsOne
      BY DEF RetrainIInv
    <2> QED  BY <1>4, <2>1, <2>2 DEF LoadIsOne, Parts3
  <1>7. WrittenSoFar'
    <2>1. \A u \in Trainers : Writing(u)' => Writing(u) /\ u # t /\ trainer'[u] = trainer[u]
      BY <1>2 DEF Writing, RetrainIInv, RetrainTypes
    <2>2. \A u \in Trainers : Writing(u)' => ~trainer'[u].alone
      BY <1>2, <2>1 DEF RetrainIInv, WrittenSoFar
    <2> QED  BY <1>2, <2>2 DEF WrittenSoFar
  <1> QED  BY <1>2, <1>3, <1>5, <1>6, <1>7 DEF RetrainIInv, FilesAreOne

(* A restart begins with nothing, and stops who was writing.                 *)
LEMMA ModelRestartKeeps ==
    ASSUME RetrainIInv, RestartAnalyst
    PROVE  RetrainIInv'
  <1>1. PICK torn \in SUBSET {trainer[t].step : t \in {u \in {"auto", "manual"} : Writing(u)}} :
           modelFiles' = [p \in Parts3 |-> IF p \in torn THEN Torn ELSE modelFiles[p]]
    BY DEF RestartAnalyst
  <1>2. /\ disorder' = (disorder \/ \E t \in {"auto", "manual"} : Writing(t))
        /\ trainer' = [trainer EXCEPT !["auto"] = None, !["manual"] = None]
        /\ starting' = Started /\ inUse' = NotReady /\ overtaken' = FALSE
        /\ analysis' = [a \in Analysts |-> None] /\ since' = [of |-> None, foreign |-> [a \in Analysts |-> 0]]
        /\ UNCHANGED <<now, trained>>
    BY DEF RestartAnalyst
  <1>3. \A t \in Trainers : trainer'[t] = IF t = "script" THEN trainer[t] ELSE None
    BY <1>2 DEF RetrainIInv, RetrainTypes, Trainers
  <1>4. RetrainTypes'
    <2>1. Torn \in Marks
      BY DEF Torn, Marks
    <2>2. modelFiles' \in [Parts3 -> Marks \cup {None}]
      BY <1>1, <2>1 DEF RetrainIInv, RetrainTypes
    <2>3. disorder' \in BOOLEAN
      BY <1>2
    <2>4. trainer' \in [Trainers -> Jobs \cup {None}]
      BY <1>2 DEF RetrainIInv, RetrainTypes
    <2> QED  BY <1>2, <2>2, <2>3, <2>4 DEF RetrainIInv, RetrainTypes
  <1>5. starting'.step = "model" /\ since'.of = None /\ \A a \in Analysts : since'.foreign[a] = 0
    BY <1>2 DEF Started
  <1>6. UsedTypes'
    <2>1. starting' = [step |-> "model", got |-> [p \in Parts3 |-> None], doubt |-> FALSE]
      BY <1>2 DEF Started, Nothing
    <2>2. starting' \in [step : Parts3 \cup {"put", "profile", "scaler left", "forest left"} \cup Ended,
                         got : [Parts3 -> Marks \cup {None}], doubt : BOOLEAN]
      BY <2>1 DEF Parts3
    <2>3. inUse' \in [model : Marks \cup {None}, scaler : Marks \cup {None}, meta : Marks \cup {None},
                      on : {"synthetic", "real"}, doubt : BOOLEAN]
      BY <1>2 DEF NotReady
    <2>4. since' \in [of : Marks \cup {None}, foreign : [Analysts -> Nat]]
      BY <1>2
    <2>5. analysis' \in [Analysts -> Analyses \cup {None}] /\ overtaken' \in BOOLEAN
      BY <1>2
    <2> QED  BY <2>2, <2>3, <2>4, <2>5 DEF UsedTypes
  <1>7. UsedIsOne' /\ AnalysesAreOne' /\ LoadIsOne'
    <2>1. UsedIsOne'
      BY <1>2, <1>5 DEF UsedIsOne, Untrained, NotReady, Ended
    <2>2. AnalysesAreOne'
      BY <1>2, <1>5 DEF AnalysesAreOne
    <2>3. LoadIsOne'
      BY <1>5 DEF LoadIsOne
    <2> QED  BY <2>1, <2>2, <2>3
  <1>8. ~Writing("auto")' /\ ~Writing("manual")' /\ (Writing("script")' <=> Writing("script"))
    BY <1>3 DEF Writing, Trainers
  <1>9. (\E t \in {"auto", "manual"} : Writing(t)) \/ (disorder' = disorder /\ modelFiles' = modelFiles)
    BY <1>1, <1>2 DEF RetrainIInv, RetrainTypes
  <1>10. WrittenSoFar'
    <2> SUFFICES ASSUME Writing("script"), trainer'["script"] = trainer["script"]
                 PROVE  WrittenSoFar'
      BY <1>3, <1>8 DEF WrittenSoFar, Trainers
    <2>1. WrittenSoFar
      BY DEF RetrainIInv
    <2>2. CASE trainer["script"].alone
      <3>1. ~(\E t \in {"auto", "manual"} : Writing(t))
        BY <2>1, <2>2 DEF WrittenSoFar, Trainers
      <3> QED  BY <1>3, <1>8, <1>9, <2>1, <2>2, <3>1 DEF WrittenSoFar, Trainers
    <2>3. CASE ~trainer["script"].alone
      <3>1. disorder'
        BY <1>2, <2>1, <2>3 DEF WrittenSoFar, Trainers
      <3> QED  BY <1>8, <2>3, <3>1 DEF WrittenSoFar, Trainers
    <2> QED  BY <2>2, <2>3
  <1>11. FilesAreOne'
    <2>1. CASE \E t \in {"auto", "manual"} : Writing(t)
      BY <1>2, <2>1 DEF FilesAreOne
    <2>2. CASE ~(\E t \in {"auto", "manual"} : Writing(t))
      BY <1>8, <1>9, <2>2 DEF RetrainIInv, FilesAreOne, Trainers
    <2> QED  BY <2>1, <2>2
  <1> QED  BY <1>4, <1>6, <1>7, <1>10, <1>11 DEF RetrainIInv

(* The steps of the start touch no file and no training.                       *)
LEMMA LoadKeeps ==
    ASSUME RetrainIInv, NEW p \in Parts3, NEW mark \in Readable(p), LoadFile(p, mark)
    PROVE  RetrainIInv'
  <1>1. /\ UNCHANGED <<now, trained, trainer, modelFiles, disorder>>
        /\ UNCHANGED <<inUse, analysis, since, overtaken>> /\ starting.step = p
    BY DEF LoadFile, filesRest
  <1>2. RetrainTypes' /\ WrittenSoFar' /\ FilesAreOne'
    BY <1>1, FilesStay DEF RetrainIInv, RetrainTypes
  <1>3. mark \in Marks \cup {None} /\ (mark = modelFiles[p] \/ mark = Torn)
    <2>1. Torn \in Marks
      BY DEF Torn, Marks
    <2> QED  BY <2>1 DEF Readable, RetrainIInv, RetrainTypes
  <1>4. /\ starting.got \in [Parts3 -> Marks \cup {None}] /\ starting.doubt \in BOOLEAN
    BY DEF RetrainIInv, UsedTypes
  <1> DEFINE doubt == starting.doubt \/ (p = "model" /\ (disorder \/ \E t \in Trainers : Writing(t)))
             next == [model |-> "scaler", scaler |-> "meta", meta |-> "put"][p]
             got == [starting.got EXCEPT ![p] = mark]
  <1>5. CASE starting' = [starting EXCEPT !.step = "profile"]
    <2>1. UsedTypes' /\ starting'.step = "profile"
      BY <1>1, <1>5 DEF RetrainIInv, UsedTypes
    <2>2. UsedIsOne'
      BY <1>1, <2>1 DEF RetrainIInv, UsedIsOne, Untrained, Ended, Parts3
    <2>3. AnalysesAreOne'
      BY <1>1 DEF RetrainIInv, AnalysesAreOne
    <2>4. LoadIsOne'
      BY <2>1 DEF LoadIsOne
    <2> QED  BY <1>2, <2>1, <2>2, <2>3, <2>4 DEF RetrainIInv
  <1>6. CASE /\ starting' = [step |-> next, got |-> got, doubt |-> doubt] /\ mark # Torn
             /\ p = "model" => None \notin {modelFiles.model, modelFiles.scaler}
    <2>1. /\ starting'.step = next /\ starting'.got = got /\ starting'.doubt = doubt
          /\ next \in {"scaler", "meta", "put"} /\ doubt \in BOOLEAN /\ got \in [Parts3 -> Marks \cup {None}]
          /\ got[p] = mark /\ \A q \in Parts3 \ {p} : got[q] = starting.got[q]
      BY <1>3, <1>4, <1>6 DEF Parts3
    <2>2. UsedTypes'
      <3>1. starting' \in [step : Parts3 \cup {"put", "profile", "scaler left", "forest left"} \cup Ended,
                           got : [Parts3 -> Marks \cup {None}], doubt : BOOLEAN]
        BY <1>6, <2>1 DEF Parts3
      <3> QED  BY <1>1, <3>1 DEF RetrainIInv, UsedTypes
    <2>3. UsedIsOne'
      BY <1>1, <2>1 DEF RetrainIInv, UsedIsOne, Untrained, Ended, Parts3
    <2>4. AnalysesAreOne'
      BY <1>1 DEF RetrainIInv, AnalysesAreOne
    <2>5. mark = modelFiles[p]
      BY <1>3, <1>6
    <2>6. LoadIsOne'
      <3> SUFFICES ASSUME ~doubt PROVE LoadIsOne'
        BY <2>1 DEF LoadIsOne
      <3>1. ~starting.doubt
        OBVIOUS
      <3>2. CASE p = "model"
        <4>1. \A q, r \in Parts3 : modelFiles[q] = modelFiles[r]
          BY <3>2 DEF RetrainIInv, FilesAreOne
        <4>2. next = "scaler"
          BY <3>2
        <4> QED  BY <1>1, <2>1, <2>5, <3>2, <4>1, <4>2 DEF LoadIsOne, Parts3
      <3>3. CASE p = "scaler"
        <4>1. {modelFiles["scaler"], modelFiles["meta"]} \subseteq {starting.got["model"], Torn}
          BY <1>1, <3>1, <3>3 DEF RetrainIInv, LoadIsOne
        <4>2. next = "meta"
          BY <3>3
        <4> QED  BY <1>1, <1>6, <2>1, <2>5, <3>3, <4>1, <4>2 DEF LoadIsOne, Parts3
      <3>4. CASE p = "meta"
        <4>1. starting.got["scaler"] = starting.got["model"] /\ modelFiles["meta"] \in {starting.got["model"], Torn}
          BY <1>1, <3>1, <3>4 DEF RetrainIInv, LoadIsOne
        <4>2. next = "put"
          BY <3>4
        <4> QED  BY <1>1, <1>6, <2>1, <2>5, <3>4, <4>1, <4>2 DEF LoadIsOne, Parts3
      <3> QED  BY <3>2, <3>3, <3>4 DEF Parts3
    <2> QED  BY <1>2, <2>2, <2>3, <2>4, <2>6 DEF RetrainIInv
  <1> QED  BY <1>1, <1>5, <1>6 DEF LoadFile

(* What was loaded is put in use.                                            *)
LEMMA PutKeeps ==
    ASSUME RetrainIInv, PutLoaded
    PROVE  RetrainIInv'
  <1>1. /\ UNCHANGED <<now, trained, trainer, modelFiles, disorder>>
        /\ UNCHANGED <<analysis, since, overtaken>> /\ starting.step = "put"
        /\ inUse' = [model |-> starting.got.model, scaler |-> starting.got.scaler, meta |-> starting.got.meta,
                     on |-> "real", doubt |-> starting.doubt]
        /\ starting' = [starting EXCEPT !.step = "done"]
    BY DEF PutLoaded, filesRest
  <1>2. RetrainTypes' /\ WrittenSoFar' /\ FilesAreOne'
    BY <1>1, FilesStay DEF RetrainIInv, RetrainTypes
  <1>3. UsedTypes' /\ starting'.step = "done"
    <2>1. UsedTypes
      BY DEF RetrainIInv
    <2> QED  BY <1>1, <2>1 DEF UsedTypes, Ended, Parts3
  <1>4. overtaken \/ since.of = None
    BY <1>1 DEF RetrainIInv, UsedIsOne, Untrained, Ended
  <1>5. starting.doubt \/ (starting.got.scaler = starting.got.model /\ starting.got.meta = starting.got.model)
    BY <1>1 DEF RetrainIInv, LoadIsOne
  <1>6. UsedIsOne'
    BY <1>1, <1>3, <1>4, <1>5 DEF UsedIsOne, IsOne, Ended
  <1>7. AnalysesAreOne'
    BY <1>1 DEF RetrainIInv, AnalysesAreOne
  <1> QED  BY <1>2, <1>3, <1>6, <1>7 DEF RetrainIInv, LoadIsOne

(* Half of the synthetic profile is put in use.                              *)
LEMMA ProfileKeeps ==
    ASSUME RetrainIInv, NEW part \in {"model", "scaler"}, NEW next \in {"scaler left", "forest left", "done", "dead"},
           TakeProfile(part, next)
    PROVE  RetrainIInv'
  <1>1. /\ UNCHANGED <<now, trained, trainer, modelFiles, disorder>>
        /\ UNCHANGED <<analysis, since, overtaken>>
        /\ inUse' = [inUse EXCEPT ![part] = Profile]
        /\ starting' = [starting EXCEPT !.step = next]
        /\ \/ starting.step = "profile" /\ part = "model" /\ next = "scaler left"
           \/ starting.step = "profile" /\ part = "scaler" /\ next = "forest left"
           \/ starting.step = "scaler left" /\ part = "scaler" /\ next \in {"done", "forest left"}
           \/ starting.step = "forest left" /\ part = "model" /\ next \in {"done", "dead"}
    BY DEF TakeProfile, filesRest
  <1>2. RetrainTypes' /\ WrittenSoFar' /\ FilesAreOne'
    BY <1>1, FilesStay DEF RetrainIInv, RetrainTypes
  <1>3. Profile \in Marks /\ Profile # None
    <2>1. Profile \in Marks
      BY DEF Profile, Marks
    <2> QED  BY <2>1, NoneIsNoJob
  <1>4. UsedTypes
    BY DEF RetrainIInv
  <1>5. /\ starting'.step = next /\ inUse'.on = inUse.on /\ inUse'.meta = inUse.meta
        /\ inUse'.model = (IF part = "model" THEN Profile ELSE inUse.model)
        /\ inUse'.scaler = (IF part = "scaler" THEN Profile ELSE inUse.scaler)
    BY <1>1, <1>4 DEF UsedTypes
  <1>6. UsedTypes'
    <2>1. starting' \in [step : Parts3 \cup {"put", "profile", "scaler left", "forest left"} \cup Ended,
                         got : [Parts3 -> Marks \cup {None}], doubt : BOOLEAN]
      BY <1>1, <1>4 DEF UsedTypes, Ended
    <2>2. inUse' \in [model : Marks \cup {None}, scaler : Marks \cup {None}, meta : Marks \cup {None},
                      on : {"synthetic", "real"}, doubt : BOOLEAN]
      <3>1. CASE part = "model"
        BY <1>1, <1>3, <1>4, <3>1 DEF UsedTypes
      <3>2. CASE part = "scaler"
        BY <1>1, <1>3, <1>4, <3>2 DEF UsedTypes
      <3> QED  BY <3>1, <3>2
    <2> QED  BY <1>1, <1>4, <2>1, <2>2 DEF UsedTypes
  <1>7. starting.step \notin Ended /\ starting.step \in {"profile", "scaler left", "forest left"}
    BY <1>1 DEF Ended
  <1>8. overtaken \/ Untrained
    BY <1>7 DEF RetrainIInv, UsedIsOne
  <1>9. UsedIsOne'
    <2>1. CASE overtaken
      BY <1>1, <2>1 DEF UsedIsOne
    <2>2. CASE ~overtaken /\ next \in Ended
      <3>1. inUse'.model = Profile /\ inUse'.scaler = Profile
        BY <1>1, <1>5, <1>8, <2>2 DEF Untrained, Ended
      <3>2. since'.of = None /\ inUse'.on = "synthetic" /\ inUse'.meta = None
        BY <1>1, <1>5, <1>8, <2>2 DEF Untrained
      <3> QED  BY <1>3, <1>5, <2>2, <3>1, <3>2 DEF UsedIsOne, IsOne
    <2>3. CASE ~overtaken /\ next \notin Ended
      <3>1. Untrained'
        BY <1>1, <1>5, <1>8, <2>3 DEF Untrained, Ended
      <3> QED  BY <1>5, <2>3, <3>1 DEF UsedIsOne, Untrained
    <2> QED  BY <2>1, <2>2, <2>3
  <1>10. AnalysesAreOne'
    BY <1>1 DEF RetrainIInv, AnalysesAreOne
  <1>11. LoadIsOne'
    BY <1>5 DEF LoadIsOne
  <1> QED  BY <1>2, <1>6, <1>9, <1>10, <1>11 DEF RetrainIInv

(* An analysis begins, reads, or counts.                                     *)
LEMMA AnalysisKeeps ==
    ASSUME RetrainIInv, NEW a \in Analysts, BeginAnalysis(a) \/ ReadModel(a) \/ CountAnalysis(a)
    PROVE  RetrainIInv'
  <1>1. /\ UNCHANGED <<now, trained, trainer, modelFiles, disorder>>
        /\ UNCHANGED <<starting, inUse, overtaken>>
    BY DEF BeginAnalysis, ReadModel, CountAnalysis, filesRest
  <1>2. RetrainTypes' /\ WrittenSoFar' /\ FilesAreOne' /\ LoadIsOne'
    BY <1>1, FilesStay, LoadStays DEF RetrainIInv, RetrainTypes
  <1>3. UsedTypes /\ UsedIsOne /\ AnalysesAreOne
    BY DEF RetrainIInv
  <1>4. ASSUME NEW x \in Analyses \cup {None}, analysis' = [analysis EXCEPT ![a] = x], since' = since,
               x # None => IF x.left = 3 THEN x.used = {} ELSE x.used # {},
               x # None /\ since.of # None /\ ~overtaken =>
                  IF x.late THEN since.foreign[a] = 0 ELSE x.used \subseteq {since.of}
        PROVE  RetrainIInv'
    <2>1. UsedTypes'
      BY <1>1, <1>3, <1>4 DEF UsedTypes
    <2>2. UsedIsOne'
      BY <1>1, <1>3, <1>4 DEF UsedIsOne, Untrained, IsOne
    <2>3. \A b \in Analysts : analysis'[b] = IF b = a THEN x ELSE analysis[b]
      BY <1>3, <1>4 DEF UsedTypes
    <2>4. AnalysesAreOne'
      <3> SUFFICES ASSUME NEW b \in Analysts
                   PROVE  /\ since'.of = None => since'.foreign[b] = 0
                          /\ analysis'[b] # None /\ analysis'[b].left < 3 => analysis'[b].used # {}
                          /\ since'.of # None /\ ~overtaken' =>
                                /\ since'.foreign[b] <= 1
                                /\ analysis'[b] # None =>
                                      IF analysis'[b].late THEN since'.foreign[b] = 0
                                                           ELSE analysis'[b].used \subseteq {since'.of}
        BY DEF AnalysesAreOne
      <3>1. CASE b = a
        <4>1. analysis'[b] = x /\ since' = since /\ overtaken' = overtaken
          BY <1>1, <1>4, <2>3, <3>1
        <4>2. x # None /\ x.left < 3 => x.used # {}
          BY <1>4
        <4> QED  BY <1>3, <1>4, <3>1, <4>1, <4>2 DEF AnalysesAreOne
      <3>2. CASE b # a
        BY <1>1, <1>3, <1>4, <2>3, <3>2 DEF AnalysesAreOne
      <3> QED  BY <3>1, <3>2
    <2> QED  BY <1>2, <2>1, <2>2, <2>4 DEF RetrainIInv
  <1>5. CASE BeginAnalysis(a)
    <2> DEFINE x == [left |-> 3, used |-> {}, late |-> FALSE]
    <2>1. x \in Analyses /\ x.left = 3 /\ x.used = {} /\ ~x.late
      BY DEF Analyses
    <2>2. analysis' = [analysis EXCEPT ![a] = x] /\ since' = since
      BY <1>5 DEF BeginAnalysis
    <2> HIDE DEF x
    <2> QED  BY <1>4, <2>1, <2>2
  <1>6. CASE ReadModel(a)
    <2>1. PICK run \in Analyses : run = analysis[a] /\ run.left > 0 /\ run # None
      BY <1>3, <1>6 DEF ReadModel, UsedTypes
    <2>2. PICK mark \in Marks \cup {None} : mark = IF run.left = 3 THEN inUse.scaler ELSE inUse.model
      BY <1>3 DEF UsedTypes
    <2>3. PICK x : x = [run EXCEPT !.left = run.left - 1, !.used = run.used \cup {mark}]
      OBVIOUS
    <2>4. analysis' = [analysis EXCEPT ![a] = x] /\ since' = since
      BY <1>3, <1>6, <2>1, <2>2, <2>3 DEF ReadModel, UsedTypes
    <2>5. x \in Analyses /\ x.left = run.left - 1 /\ x.used = run.used \cup {mark} /\ x.late = run.late
      <3>1. x.left = run.left - 1 /\ x.used = run.used \cup {mark} /\ x.late = run.late
        BY <2>1, <2>3 DEF Analyses
      <3>2. run.left \in 0..3 /\ run.used \in SUBSET (Marks \cup {None}) /\ run.late \in BOOLEAN
        BY <2>1 DEF Analyses
      <3>3. run.left - 1 \in 0..3
        BY <2>1, <3>2
      <3>4. run.used \cup {mark} \in SUBSET (Marks \cup {None})
        BY <2>2, <3>2
      <3>5. x = [left |-> run.left - 1, used |-> run.used \cup {mark}, late |-> run.late]
        BY <2>1, <2>3 DEF Analyses
      <3> QED  BY <3>1, <3>2, <3>3, <3>4, <3>5 DEF Analyses
    <2>6. x.left # 3 /\ x.used # {}
      BY <2>1, <2>5 DEF Analyses
    <2>7. since.of # None /\ ~overtaken => mark = since.of
      BY <1>3, <2>2 DEF UsedIsOne
    <2>8. since.of # None /\ ~overtaken => IF x.late THEN since.foreign[a] = 0 ELSE x.used \subseteq {since.of}
      <3>1. since.of # None /\ ~overtaken => IF run.late THEN since.foreign[a] = 0 ELSE run.used \subseteq {since.of}
        BY <1>3, <2>1 DEF AnalysesAreOne
      <3> QED  BY <2>5, <2>7, <3>1
    <2> QED  BY <1>4, <2>4, <2>5, <2>6, <2>8
  <1>7. CASE CountAnalysis(a)
    <2>1. PICK run \in Analyses : run = analysis[a] /\ run.left = 0 /\ run # None
      BY <1>3, <1>7 DEF CountAnalysis, UsedTypes
    <2>2. run.used # {}
      BY <1>3, <2>1 DEF AnalysesAreOne
    <2>3. analysis' = [analysis EXCEPT ![a] = None]
      BY <1>7 DEF CountAnalysis
    <2>4. CASE ~(since.of # None /\ run.used # {since.of})
      <3>1. since' = since
        BY <1>7, <2>1, <2>4 DEF CountAnalysis
      <3> QED  BY <1>4, <2>3, <3>1
    <2>5. CASE since.of # None /\ run.used # {since.of}
      <3>0. since \in [of : Marks \cup {None}, foreign : [Analysts -> Nat]]
        BY <1>3 DEF UsedTypes
      <3> DEFINE added == [since.foreign EXCEPT ![a] = since.foreign[a] + 1]
      <3>a. /\ added \in [Analysts -> Nat]
            /\ \A b \in Analysts : added[b] = IF b = a THEN since.foreign[a] + 1 ELSE since.foreign[b]
        <4>1. since.foreign \in [Analysts -> Nat]
          BY <3>0
        <4> QED  BY <4>1
      <3> HIDE DEF added
      <3>1. since' = [of |-> since.of, foreign |-> added]
        BY <1>7, <2>1, <2>5, <3>0 DEF CountAnalysis, added
      <3>2. /\ since'.of = since.of /\ since'.foreign \in [Analysts -> Nat]
            /\ since' \in [of : Marks \cup {None}, foreign : [Analysts -> Nat]]
            /\ \A b \in Analysts : since'.foreign[b] = IF b = a THEN since.foreign[a] + 1 ELSE since.foreign[b]
        BY <3>0, <3>1, <3>a
      <3>3. \A b \in Analysts : analysis'[b] = IF b = a THEN None ELSE analysis[b]
        BY <1>3, <2>3 DEF UsedTypes
      <3>4. UsedTypes'
        <4>1. analysis' \in [Analysts -> Analyses \cup {None}]
          BY <1>3, <2>3 DEF UsedTypes
        <4> QED  BY <1>1, <1>3, <3>2, <4>1 DEF UsedTypes
      <3>5. UsedIsOne'
        BY <1>1, <1>3, <3>2 DEF UsedIsOne, Untrained, IsOne
      <3>6. ~overtaken => since.foreign[a] = 0
        <4>1. ~overtaken => IF run.late THEN since.foreign[a] = 0 ELSE run.used \subseteq {since.of}
          BY <1>3, <2>1, <2>5 DEF AnalysesAreOne
        <4>2. ~(run.used \subseteq {since.of})
          BY <2>2, <2>5
        <4> QED  BY <4>1, <4>2
      <3>7. AnalysesAreOne'
        <4> SUFFICES ASSUME NEW b \in Analysts
                     PROVE  /\ since'.of = None => since'.foreign[b] = 0
                            /\ analysis'[b] # None /\ analysis'[b].left < 3 => analysis'[b].used # {}
                            /\ since'.of # None /\ ~overtaken' =>
                                  /\ since'.foreign[b] <= 1
                                  /\ analysis'[b] # None =>
                                        IF analysis'[b].late THEN since'.foreign[b] = 0
                                                             ELSE analysis'[b].used \subseteq {since'.of}
          BY DEF AnalysesAreOne
        <4>1. CASE b = a
          <5>1. analysis'[b] = None /\ since'.of # None /\ since'.foreign[b] = since.foreign[a] + 1
            BY <2>5, <3>2, <3>3, <4>1
          <5>2. ~overtaken' => since'.foreign[b] = 1
            BY <1>1, <3>6, <5>1
          <5> QED  BY <5>1, <5>2
        <4>2. CASE b # a
          <5>1. analysis'[b] = analysis[b] /\ since'.of = since.of /\ since'.foreign[b] = since.foreign[b]
            BY <3>2, <3>3, <4>2
          <5> QED  BY <1>1, <1>3, <5>1 DEF AnalysesAreOne
        <4> QED  BY <4>1, <4>2
      <3> QED  BY <1>2, <3>4, <3>5, <3>7 DEF RetrainIInv
    <2> QED  BY <2>4, <2>5
  <1> QED  BY <1>5, <1>6, <1>7

(* One step per action.                                                      *)
LEMMA RetrainStepKeeps == RetrainIInv /\ [RetrainNext]_retrainVars => RetrainIInv'
  <1> SUFFICES ASSUME RetrainIInv, [RetrainNext]_retrainVars PROVE RetrainIInv'
    OBVIOUS
  <1>1. ASSUME UNCHANGED <<filesRest, usedRest>>, now' \in Nat PROVE RetrainIInv'
    <2>1. /\ UNCHANGED <<trained, trainer, modelFiles, disorder>>
          /\ UNCHANGED <<starting, inUse, analysis, since, overtaken>>
      BY <1>1 DEF filesRest, usedRest
    <2>2. RetrainTypes' /\ UsedTypes'
      BY <1>1, <2>1 DEF RetrainIInv, RetrainTypes, UsedTypes
    <2> QED  BY <2>1, <2>2, FilesStay, UsedStays, LoadStays DEF RetrainIInv
  <1>2. now \in Nat
    BY DEF RetrainIInv, RetrainTypes
  <1>3. ASSUME NEW traffic \in BOOLEAN, RecordWindow(traffic) PROVE RetrainIInv'
    BY <1>1, <1>2, <1>3 DEF RecordWindow
  <1>4. CASE AutoBegins
    BY <1>4, BeginsKeeps DEF AutoBegins, Trainers
  <1>5. ASSUME NEW forced \in BOOLEAN, RequestBegins(forced) \/ ScriptBegins(forced) PROVE RetrainIInv'
    BY <1>5, BeginsKeeps DEF RequestBegins, ScriptBegins, Trainers
  <1>6. ASSUME NEW t \in Trainers, Fit(t) \/ WriteModelFile(t) \/ WriteFails(t) \/ Install(t) PROVE RetrainIInv'
    BY <1>6, FitKeeps, WriteKeeps, WriteFailsKeeps, InstallKeeps
  <1>7. CASE RestartAnalyst
    BY <1>7, ModelRestartKeeps
  <1>8. CASE RetrainTick
    BY <1>1, <1>2, <1>8 DEF RetrainTick
  <1>9. CASE UNCHANGED retrainVars
    BY <1>1, <1>2, <1>9 DEF retrainVars
  <1>10. CASE \E p \in Parts3 : \E mark \in Readable(p) : LoadFile(p, mark)
    BY <1>10, LoadKeeps
  <1>11. CASE PutLoaded
    BY <1>11, PutKeeps
  <1>12. CASE \E part \in {"model", "scaler"}, next \in {"scaler left", "forest left", "done", "dead"} : TakeProfile(part, next)
    BY <1>12, ProfileKeeps
  <1>13. CASE \E a \in Analysts : BeginAnalysis(a) \/ ReadModel(a) \/ CountAnalysis(a)
    BY <1>13, AnalysisKeeps
  <1> QED  BY <1>3, <1>4, <1>5, <1>6, <1>7, <1>8, <1>9, <1>10, <1>11, <1>12, <1>13 DEF RetrainNext

(* What is in use is of one training after every installation that does not    *)
(* fall into the start, and after every start that loaded files in order while *)
(* nobody wrote them; one training that nobody crosses and nothing stops puts  *)
(* the files in order; and an analysis thread adds at most one verdict of      *)
(* another model to the counts of the one that was installed.                  *)
THEOREM ModelInUseIsOne == RetrainSpec => []ModelIsOne
  <1>1. RetrainIInv => ModelIsOne
    <2> SUFFICES ASSUME RetrainIInv PROVE ModelIsOne
      OBVIOUS
    <2>1. inUse.doubt \/ overtaken \/ None \in {inUse.model, inUse.scaler} \/ IsOne
      <3>1. CASE ~overtaken /\ starting.step \notin Ended /\ None \notin {inUse.model, inUse.scaler}
        <4>1. Profile # None
          <5>1. Profile \in Marks
            BY DEF Profile, Marks
          <5> QED  BY <5>1, NoneIsNoJob
        <4> QED  BY <3>1, <4>1 DEF RetrainIInv, UsedIsOne, Untrained, IsOne
      <3>2. CASE ~overtaken /\ starting.step \in Ended
        BY <3>2 DEF RetrainIInv, UsedIsOne
      <3> QED  BY <3>1, <3>2
    <2>2. ASSUME NEW a \in Analysts, ~overtaken PROVE since.foreign[a] <= 1
      BY <2>2 DEF RetrainIInv, AnalysesAreOne
    <2> QED  BY <2>1, <2>2 DEF RetrainIInv, ModelIsOne, IsOne, FilesAreOne
  <1> QED  BY RetrainInitHolds, RetrainStepKeeps, <1>1, PTL DEF RetrainSpec

-------------------------------------------------------------------------------
(* Sensors. What a sensor passes over because it has dealt with it before it *)
(* has dealt with, in the version it passes over, for any number of scans,   *)
(* files, versions and ports.                                                *)

(* The network monitor: what it keeps.                                       *)
NetTypes ==
    /\ alertedIps \subseteq BadPeers
    /\ netPass = [peers |-> netPass.peers, event |-> netPass.event]
    /\ drillPass = [peers |-> drillPass.peers, event |-> drillPass.event]

NetIInv == NetTypes /\ AlertedWasReported

LEMMA NetInitHolds == NetInit => NetIInv
  BY DEF NetInit, NetIInv, NetTypes, AlertedWasReported, Quiet

(* One step per action. A peer that is alerted is in the reports, or on its  *)
(* way there in a pass or a drill.                                           *)
LEMMA NetStepKeeps == NetIInv /\ (NetNext \/ UNCHANGED netRest) => NetIInv'
  <1> SUFFICES ASSUME NetIInv, NetNext \/ UNCHANGED netRest PROVE NetIInv'
    OBVIOUS
  <1> USE DEF NetIInv, NetTypes, AlertedWasReported
  <1>1. ASSUME NEW p \in NetPorts, OpenPort(p) \/ ClosePort(p) PROVE NetIInv'
    BY <1>1, PeersAreNoPorts DEF OpenPort, ClosePort
  <1>2. ASSUME NEW peers \in SUBSET BadPeers, NEW b \in BOOLEAN, CollectPass(peers, b) PROVE NetIInv'
    BY <1>2, PeersAreNoPorts DEF CollectPass, Learn, Idle, Quiet
  <1>3. ASSUME NEW peer \in BadPeers, NEW a, LookUp(peer, a) PROVE NetIInv'
    BY <1>3, PeersAreNoPorts DEF LookUp, Looked, Marked
  <1>4. ASSUME NEW peer \in BadPeers, NEW a, DrillLookUp(peer, a) PROVE NetIInv'
    BY <1>4, PeersAreNoPorts DEF DrillLookUp, Looked, Marked
  <1>5. CASE Drill
    BY <1>5, PeersAreNoPorts DEF Drill, Learn, Idle, Quiet
  <1>6. CASE RaiseEvent \/ DrillEvent
    BY <1>6, PeersAreNoPorts DEF RaiseEvent, DrillEvent
  <1>7. CASE UNCHANGED netRest
    BY <1>7 DEF netRest
  <1> QED  BY <1>1, <1>2, <1>3, <1>4, <1>5, <1>6, <1>7 DEF NetNext

-----------------------------------------------------------------------------
(* The directory watch: what it keeps.                                       *)
YaraTypes ==
    /\ now \in Nat /\ IsFiniteSet(writes)
    /\ files \in [FilePaths -> FileVersion \cup {None}]
    /\ scanning \in [Scans -> FileScan \cup {None}]
    /\ fileSeen \subseteq FilePaths \X {"small", "big"} \X Nat
    /\ yaraSkipped \subseteq FilePaths \X Nat

\* Versions are given out in order, and a key is used once.
FilesAreNumbered ==
    \A p \in FilePaths : files[p] # None =>
        SeenKey(p) \in writes /\ files[p].version < Cardinality(writes)

\* What is being scanned was on the disk, in this version or before it.
ScansAreOfFiles ==
    \A c \in Scans : LET s == scanning[c] IN s # None =>
        /\ files[s.path] # None /\ s.version <= files[s.path].version
        /\ s.key \in writes /\ s.key[1] = s.path

\* Somebody deals with this version, has, or could not.
Handled(path, version) ==
    \/ \E r \in yaraRead : r.path = path /\ r.version >= version
    \/ <<path, version>> \in yaraLost
    \/ \E c \in Scans : /\ scanning[c] # None /\ scanning[c].marked
                        /\ scanning[c].path = path /\ scanning[c].version = version

\* A key stands for one version.
StandsFor(key, version) ==
    /\ \A c \in Scans : scanning[c] # None /\ scanning[c].key = key => scanning[c].version = version
    /\ \A p \in FilePaths : files[p] # None /\ SeenKey(p) = key => files[p].version = version

ScansAgree == \A c \in Scans : scanning[c] # None => StandsFor(scanning[c].key, scanning[c].version)
SeenWasHandled ==
    \A key \in fileSeen : key \in writes /\ \E v \in Nat : Handled(key[1], v) /\ StandsFor(key, v)
SkippedWasHandled == \A s \in yaraSkipped : Handled(s[1], s[2])

YaraIInv ==
    YaraTypes /\ FilesAreNumbered /\ ScansAreOfFiles /\ ScansAgree /\ SeenWasHandled /\ SkippedWasHandled

LEMMA YaraInitHolds == YaraInit => YaraIInv
  <1> SUFFICES ASSUME YaraInit PROVE YaraIInv
    OBVIOUS
  <1>1. IsFiniteSet({})
    BY FS_EmptySet
  <1>2. YaraTypes
    BY <1>1 DEF YaraInit, YaraTypes
  <1> QED
    BY <1>2 DEF YaraInit, YaraIInv, FilesAreNumbered, ScansAreOfFiles, ScansAgree, SeenWasHandled, SkippedWasHandled

\* A file is written under a key that is new, as the next version.
LEMMA WriteKeepsYara ==
    ASSUME YaraIInv, NEW p \in FilePaths, NEW size \in {"small", "big"}, NEW bad \in BOOLEAN,
           WriteFileAt(p, size, bad)
    PROVE  YaraIInv'
  <1> DEFINE n == Cardinality(writes)
             key == <<p, size, now>>
             f == [version |-> n, size |-> size, second |-> now, bad |-> bad]
  <1>1. /\ key \notin writes /\ writes' = writes \cup {key} /\ files' = [files EXCEPT ![p] = f]
        /\ UNCHANGED <<now, fileSeen, scanning, yaraRules, yaraRead, yaraLost, yaraSkipped>>
    BY DEF WriteFileAt
  <1>2. n \in Nat /\ IsFiniteSet(writes') /\ Cardinality(writes') = n + 1
    BY <1>1, FS_CardinalityType, FS_AddElement DEF YaraIInv, YaraTypes
  <1>3. f \in FileVersion /\ f.version = n /\ f.size = size /\ f.second = now /\ f # None
    BY <1>2, NoneIsNoFile DEF FileVersion, YaraIInv, YaraTypes
  <1> HIDE DEF f, n
  <1>4. YaraTypes'
    BY <1>1, <1>2, <1>3 DEF YaraIInv, YaraTypes
  <1>5. /\ files'[p] = f /\ SeenKey(p)' = key
        /\ \A q \in FilePaths \ {p} : files'[q] = files[q] /\ SeenKey(q)' = SeenKey(q)
    BY <1>1, <1>3 DEF YaraIInv, YaraTypes, SeenKey
  <1>6. FilesAreNumbered'
    <2>1. ASSUME NEW q \in FilePaths, files'[q] # None
          PROVE  SeenKey(q)' \in writes' /\ files'[q].version < n + 1
      <3>1. CASE q = p
        BY <1>1, <1>2, <1>3, <1>5, <3>1
      <3>2. CASE q # p
        <4>1. SeenKey(q) \in writes /\ files[q].version < n /\ files[q].version \in Nat
          BY <1>5, <2>1, <3>2 DEF YaraIInv, YaraTypes, FilesAreNumbered, FileVersion, n
        <4> QED  BY <1>1, <1>2, <1>5, <3>2, <4>1
      <3> QED  BY <3>1, <3>2
    <2> QED  BY <1>2, <2>1 DEF FilesAreNumbered
  <1>7. ScansAreOfFiles'
    <2>1. ASSUME NEW c \in Scans, scanning[c] # None
          PROVE  LET s == scanning[c] IN
                 /\ files'[s.path] # None /\ s.version <= files'[s.path].version
                 /\ s.key \in writes' /\ s.key[1] = s.path
      <3> DEFINE s == scanning[c]
      <3>1. /\ s.path \in FilePaths /\ s.version \in Nat /\ files[s.path] # None
            /\ s.version <= files[s.path].version /\ s.key \in writes /\ s.key[1] = s.path
            /\ files[s.path].version \in Nat /\ files[s.path].version < n
        BY <2>1 DEF YaraIInv, YaraTypes, ScansAreOfFiles, FileScan, FileVersion, FilesAreNumbered, n
      <3>2. files'[s.path] # None /\ s.version <= files'[s.path].version
        <4>1. CASE s.path = p
          BY <1>2, <1>3, <1>5, <3>1, <4>1
        <4>2. CASE s.path # p
          BY <1>5, <3>1, <4>2
        <4> QED  BY <4>1, <4>2
      <3> QED  BY <1>1, <3>1, <3>2
    <2> QED  BY <1>1, <2>1 DEF ScansAreOfFiles
  <1>8. \A k \in writes : \A v : StandsFor(k, v) => StandsFor(k, v)'
    BY <1>1, <1>5 DEF StandsFor
  <1>9. \A q, v : Handled(q, v) => Handled(q, v)'
    BY <1>1 DEF Handled
  <1>10. ScansAgree'
    BY <1>1, <1>8 DEF YaraIInv, ScansAgree, ScansAreOfFiles
  <1>11. SeenWasHandled'
    BY <1>1, <1>8, <1>9 DEF YaraIInv, SeenWasHandled
  <1>12. SkippedWasHandled'
    BY <1>1, <1>9 DEF YaraIInv, SkippedWasHandled
  <1> QED  BY <1>4, <1>6, <1>7, <1>10, <1>11, <1>12 DEF YaraIInv

(* A scan takes a look at a file and notes the key and the version of the    *)
(* file.                                                                     *)
LEMMA StatKeepsYara ==
    ASSUME YaraIInv, NEW c \in Scans, NEW p \in FilePaths, StatFile(c, p)
    PROVE  YaraIInv'
  <1>0. PICK s : s = [path |-> p, key |-> SeenKey(p), version |-> files[p].version, marked |-> FALSE]
    OBVIOUS
  <1>1. /\ scanning[c] = None /\ files[p] # None /\ scanning' = [scanning EXCEPT ![c] = s]
        /\ UNCHANGED <<now, files, fileSeen, yaraRules, yaraRead, yaraLost, yaraSkipped, writes>>
    BY <1>0 DEF StatFile
  <1>2. files[p] \in FileVersion
    BY <1>1 DEF YaraIInv, YaraTypes
  <1>3. SeenKey(p) \in FilePaths \X {"small", "big"} \X Nat /\ SeenKey(p)[1] = p
    BY <1>2 DEF SeenKey, FileVersion
  <1>4. s \in FileScan /\ s # None /\ s.path = p /\ s.key = SeenKey(p) /\ s.version = files[p].version /\ ~s.marked
    <2>1. files[p].version \in Nat
      BY <1>2 DEF FileVersion
    <2>2. s \in FileScan
      BY <1>0, <1>3, <2>1 DEF FileScan
    <2> QED  BY <1>0, <2>2, NoneIsNoFile
  <1>5. \A d \in Scans : scanning'[d] = IF d = c THEN s ELSE scanning[d]
    BY <1>1 DEF YaraIInv, YaraTypes
  <1>6. YaraTypes'
    BY <1>1, <1>4 DEF YaraIInv, YaraTypes
  <1>7. FilesAreNumbered'
    BY <1>1 DEF YaraIInv, FilesAreNumbered, SeenKey
  <1>8. ScansAreOfFiles'
    <2>1. s.version <= files[p].version /\ SeenKey(p) \in writes
      BY <1>1, <1>2, <1>4 DEF FileVersion, YaraIInv, FilesAreNumbered
    <2> QED  BY <1>1, <1>3, <1>4, <1>5, <2>1 DEF YaraIInv, ScansAreOfFiles
  <1>9. \A q : SeenKey(q)' = SeenKey(q)
    BY <1>1 DEF SeenKey
  <1>10. \A q \in FilePaths : files[q] # None /\ SeenKey(q) = SeenKey(p) => q = p
    BY DEF SeenKey
  <1>11. StandsFor(s.key, s.version)'
    <2>1. ASSUME NEW d \in Scans, scanning'[d] # None, scanning'[d].key = s.key
          PROVE  scanning'[d].version = s.version
      <3>1. CASE d = c
        BY <1>5, <3>1
      <3>2. CASE d # c
        BY <1>1, <1>4, <1>5, <2>1, <3>2 DEF YaraIInv, ScansAgree, StandsFor
      <3> QED  BY <3>1, <3>2
    <2> QED  BY <1>1, <1>4, <1>9, <1>10, <2>1 DEF StandsFor
  <1>12. ASSUME NEW k, NEW v, StandsFor(k, v) PROVE StandsFor(k, v)'
    <2>1. s.key = k => s.version = v
      BY <1>1, <1>4, <1>12 DEF StandsFor
    <2> QED  BY <1>1, <1>5, <1>9, <1>12, <2>1 DEF StandsFor
  <1>13. ScansAgree'
    BY <1>5, <1>11, <1>12 DEF YaraIInv, ScansAgree
  <1>14. \A q, v : Handled(q, v) => Handled(q, v)'
    BY <1>1, <1>5 DEF Handled
  <1>15. SeenWasHandled' /\ SkippedWasHandled'
    BY <1>1, <1>12, <1>14 DEF YaraIInv, SeenWasHandled, SkippedWasHandled
  <1> QED  BY <1>6, <1>7, <1>8, <1>13, <1>15 DEF YaraIInv

\* A scan that ends or goes on keeps its key and version.
LEMMA ScanMoves ==
    ASSUME YaraIInv, NEW c \in Scans, NEW s, scanning' = [scanning EXCEPT ![c] = s], scanning[c] # None,
           \/ s = None
           \/ s \in FileScan /\ s.path = scanning[c].path /\ s.key = scanning[c].key /\ s.version = scanning[c].version,
           UNCHANGED <<now, files, writes>>, fileSeen' \subseteq fileSeen \cup {scanning[c].key},
           yaraSkipped' \subseteq yaraSkipped \cup {<<scanning[c].path, scanning[c].version>>}
    PROVE  /\ YaraTypes' /\ FilesAreNumbered' /\ ScansAreOfFiles' /\ ScansAgree'
           /\ \A k, v : StandsFor(k, v) => StandsFor(k, v)'
  <1>1. \A d \in Scans : scanning'[d] = IF d = c THEN s ELSE scanning[d]
    BY DEF YaraIInv, YaraTypes
  <1>2. YaraTypes'
    BY DEF YaraIInv, YaraTypes, FileScan
  <1>3. FilesAreNumbered'
    BY DEF YaraIInv, FilesAreNumbered, SeenKey
  <1>4. ScansAreOfFiles'
    BY <1>1 DEF YaraIInv, ScansAreOfFiles
  <1>5. \A q : SeenKey(q)' = SeenKey(q)
    BY DEF SeenKey
  <1>6. \A k, v : StandsFor(k, v) => StandsFor(k, v)'
    BY <1>1, <1>5 DEF StandsFor
  <1>7. ScansAgree'
    BY <1>1, <1>6 DEF YaraIInv, ScansAgree
  <1> QED  BY <1>2, <1>3, <1>4, <1>6, <1>7

\* A key is marked, or found marked: then its version was dealt with.
LEMMA MarkKeepsYara ==
    ASSUME YaraIInv, NEW c \in Scans, MarkSeen(c)
    PROVE  YaraIInv'
  <1>0. PICK s : s = scanning[c]
    OBVIOUS
  <1>1. /\ s # None /\ ~s.marked /\ UNCHANGED <<now, files, yaraRules, yaraRead, yaraLost, writes>>
        /\ s \in FileScan /\ s.key \in writes /\ s.key[1] = s.path /\ s.version \in Nat /\ s.path \in FilePaths
    BY <1>0 DEF MarkSeen, YaraIInv, YaraTypes, ScansAreOfFiles, FileScan
  <1>2. CASE s.key \in fileSeen
    <2>1. /\ yaraSkipped' = yaraSkipped \cup {<<s.path, s.version>>}
          /\ scanning' = [scanning EXCEPT ![c] = None] /\ fileSeen' = fileSeen
      BY <1>0, <1>2 DEF MarkSeen
    <2>2. /\ YaraTypes' /\ FilesAreNumbered' /\ ScansAreOfFiles' /\ ScansAgree'
          /\ \A k, v : StandsFor(k, v) => StandsFor(k, v)'
      BY <1>0, <1>1, <2>1, ScanMoves
    <2>3. \A d \in Scans : scanning'[d] = IF d = c THEN None ELSE scanning[d]
      BY <2>1 DEF YaraIInv, YaraTypes
    <2>4. \A q, v : Handled(q, v) => Handled(q, v)'
      BY <1>0, <1>1, <2>3 DEF Handled
    <2>5. Handled(s.path, s.version)
      <3>1. PICK v \in Nat : Handled(s.key[1], v) /\ StandsFor(s.key, v)
        BY <1>2 DEF YaraIInv, SeenWasHandled
      <3>2. s.version = v
        BY <1>0, <1>1, <3>1 DEF StandsFor
      <3> QED  BY <1>1, <3>1, <3>2
    <2>6. SeenWasHandled' /\ SkippedWasHandled'
      BY <1>1, <2>1, <2>2, <2>4, <2>5 DEF YaraIInv, SeenWasHandled, SkippedWasHandled
    <2> QED  BY <2>2, <2>6 DEF YaraIInv
  <1>3. CASE s.key \notin fileSeen
    <2>0. PICK x : x = [s EXCEPT !.marked = TRUE]
      OBVIOUS
    <2>1. /\ scanning' = [scanning EXCEPT ![c].marked = TRUE] /\ yaraSkipped' = yaraSkipped
          /\ fileSeen' \subseteq fileSeen \cup {s.key}
      BY <1>0, <1>3 DEF MarkSeen
    <2>2. x \in FileScan /\ x.path = s.path /\ x.key = s.key /\ x.version = s.version /\ x.marked /\ x # None
      BY <1>1, <2>0, NoneIsNoFile DEF FileScan
    <2>3. scanning' = [scanning EXCEPT ![c] = x]
      BY <1>0, <2>0, <2>1 DEF YaraIInv, YaraTypes
    <2>4. /\ YaraTypes' /\ FilesAreNumbered' /\ ScansAreOfFiles' /\ ScansAgree'
          /\ \A k, v : StandsFor(k, v) => StandsFor(k, v)'
      BY <1>0, <1>1, <2>1, <2>2, <2>3, ScanMoves
    <2>5. \A d \in Scans : scanning'[d] = IF d = c THEN x ELSE scanning[d]
      BY <2>3 DEF YaraIInv, YaraTypes
    <2>6. \A q, v : Handled(q, v) => Handled(q, v)'
      BY <1>0, <1>1, <2>2, <2>5 DEF Handled
    <2>7. Handled(s.path, s.version)'
      BY <2>2, <2>5 DEF Handled
    <2>8. StandsFor(s.key, s.version)'
      BY <1>0, <1>1, <2>4 DEF YaraIInv, ScansAgree
    <2>9. SeenWasHandled' /\ SkippedWasHandled'
      BY <1>1, <2>1, <2>4, <2>6, <2>7, <2>8 DEF YaraIInv, SeenWasHandled, SkippedWasHandled
    <2> QED  BY <2>4, <2>9 DEF YaraIInv
  <1> QED  BY <1>2, <1>3

\* The scan reads the file as it is by now, or loses the version it had noted.
LEMMA ScanKeepsYara ==
    ASSUME YaraIInv, NEW c \in Scans, NEW failing, ScanFile(c, failing)
    PROVE  YaraIInv'
  <1>0. PICK s, file : s = scanning[c] /\ file = files[s.path]
    OBVIOUS
  <1>1. /\ s # None /\ UNCHANGED <<now, files, fileSeen, yaraRules, yaraSkipped, writes>>
        /\ scanning' = [scanning EXCEPT ![c] = None]
    BY <1>0 DEF ScanFile
  <1>2. \/ /\ yaraRead' = yaraRead \cup {[path |-> s.path, version |-> file.version, reported |-> file.bad]}
           /\ yaraLost' = yaraLost
        \/ yaraRead' = yaraRead /\ yaraLost' = yaraLost \cup {<<s.path, s.version>>}
    BY <1>0 DEF ScanFile
  <1>3. s.version <= file.version
    BY <1>0, <1>1 DEF YaraIInv, ScansAreOfFiles
  <1>4. /\ YaraTypes' /\ FilesAreNumbered' /\ ScansAreOfFiles' /\ ScansAgree'
        /\ \A k, v : StandsFor(k, v) => StandsFor(k, v)'
    BY <1>0, <1>1, ScanMoves
  <1>5. \A d \in Scans : scanning'[d] = IF d = c THEN None ELSE scanning[d]
    BY <1>1 DEF YaraIInv, YaraTypes
  <1>6. Handled(s.path, s.version)'
    <2>1. CASE yaraRead' = yaraRead \cup {[path |-> s.path, version |-> file.version, reported |-> file.bad]}
      <3> DEFINE r == [path |-> s.path, version |-> file.version, reported |-> file.bad]
      <3>1. r \in yaraRead' /\ r.path = s.path /\ r.version >= s.version
        BY <1>3, <2>1
      <3> HIDE DEF r
      <3> QED  BY <3>1 DEF Handled
    <2>2. CASE yaraLost' = yaraLost \cup {<<s.path, s.version>>}
      BY <2>2 DEF Handled
    <2> QED  BY <1>2, <2>1, <2>2
  <1>7. ASSUME NEW q, NEW v, Handled(q, v) PROVE Handled(q, v)'
    <2>1. CASE s.path = q /\ s.version = v
      BY <1>6, <2>1
    <2>2. CASE ~(s.path = q /\ s.version = v)
      <3>1. yaraRead \subseteq yaraRead' /\ yaraLost \subseteq yaraLost'
        BY <1>2
      <3> QED  BY <1>0, <1>5, <1>7, <2>2, <3>1 DEF Handled
    <2> QED  BY <2>1, <2>2
  <1>8. SeenWasHandled' /\ SkippedWasHandled'
    BY <1>1, <1>4, <1>7 DEF YaraIInv, SeenWasHandled, SkippedWasHandled
  <1> QED  BY <1>4, <1>8 DEF YaraIInv

(* The watch through every step.                                             *)
LEMMA YaraStepKeeps == YaraIInv /\ (YaraNext \/ UNCHANGED <<now, yaraRest>>) => YaraIInv'
  <1> SUFFICES ASSUME YaraIInv, YaraNext \/ UNCHANGED <<now, yaraRest>> PROVE YaraIInv'
    OBVIOUS
  <1>1. ASSUME NEW p \in FilePaths, NEW s \in {"small", "big"}, NEW b \in BOOLEAN, WriteFileAt(p, s, b) PROVE YaraIInv'
    BY <1>1, WriteKeepsYara
  <1>2. ASSUME NEW c \in Scans, NEW p \in FilePaths, StatFile(c, p) PROVE YaraIInv'
    BY <1>2, StatKeepsYara
  <1>3. ASSUME NEW c \in Scans, NEW b, ScanFile(c, b) PROVE YaraIInv'
    BY <1>3, ScanKeepsYara
  <1>4. ASSUME NEW c \in Scans, MarkSeen(c) PROVE YaraIInv'
    BY <1>4, MarkKeepsYara
  <1>5. ASSUME UNCHANGED <<files, fileSeen, scanning, yaraRead, yaraLost, yaraSkipped, writes>>, now' \in Nat PROVE YaraIInv'
    BY <1>5 DEF YaraIInv, YaraTypes, FilesAreNumbered, ScansAreOfFiles, ScansAgree, SeenWasHandled, SkippedWasHandled,
                StandsFor, Handled, SeenKey
  <1>6. now \in Nat
    BY DEF YaraIInv, YaraTypes
  <1>7. CASE (\E b \in BOOLEAN : LoadRules(b)) \/ YaraTick \/ UNCHANGED <<now, yaraRest>>
    BY <1>5, <1>6, <1>7 DEF LoadRules, YaraTick, yaraRest
  <1> QED  BY <1>1, <1>2, <1>3, <1>4, <1>7 DEF YaraNext

-----------------------------------------------------------------------------

(* A peer that is no longer looked up was reported or is about to be, and a  *)
(* version of a file that a scan passes over for its key was read by a scan, *)
(* is about to be, or was lost to a failed read: two scans that cross        *)
(* between the look at a file and the mark pass nothing over. The argument   *)
(* needs that a key, made of path, size and second, stands for one version;  *)
(* a file rewritten in its second at its size is outside the model.          *)
THEOREM NothingIsPassedOver == SensorSpec => []PassedOverWasHandled
  <1>1. SensorInit => NetIInv /\ YaraIInv
    BY NetInitHolds, YaraInitHolds DEF SensorInit
  <1>2. NetIInv /\ YaraIInv /\ [SensorNext]_sensorVars => NetIInv' /\ YaraIInv'
    <2> SUFFICES ASSUME NetIInv, YaraIInv, [SensorNext]_sensorVars PROVE NetIInv' /\ YaraIInv'
      OBVIOUS
    <2>1. CASE EdrNext /\ UNCHANGED <<netRest, yaraRest>>
      <3>1. UNCHANGED now
        BY <2>1 DEF EdrNext, StartProcess, ExitProcess, RaiseDetection, AskKill, TerminateProcess
      <3> QED  BY <2>1, <3>1, NetStepKeeps, YaraStepKeeps
    <2>2. CASE NetNext /\ UNCHANGED <<edrRest, yaraRest>>
      <3>1. UNCHANGED now
        BY <2>2 DEF NetNext, OpenPort, ClosePort, CollectPass, LookUp, DrillLookUp, Drill, RaiseEvent, DrillEvent
      <3> QED  BY <2>2, <3>1, NetStepKeeps, YaraStepKeeps
    <2>3. CASE YaraNext /\ UNCHANGED <<edrRest, netRest>>
      BY <2>3, NetStepKeeps, YaraStepKeeps
    <2>4. CASE UNCHANGED sensorVars
      BY <2>4, NetStepKeeps, YaraStepKeeps DEF sensorVars
    <2> QED  BY <2>1, <2>2, <2>3, <2>4 DEF SensorNext
  <1>3. NetIInv /\ YaraIInv => PassedOverWasHandled
    <2>1. YaraIInv => \A s \in yaraSkipped : s = <<s[1], s[2]>> /\ Handled(s[1], s[2])
      BY DEF YaraIInv, YaraTypes, SkippedWasHandled
    <2> QED  BY <2>1 DEF NetIInv, Handled, PassedOverWasHandled, SkippedWasRead
  <1> QED  BY <1>1, <1>2, <1>3, PTL DEF SensorSpec

-------------------------------------------------------------------------------
(* Look-ups and the watchlist. What is answered from a cache is what the     *)
(* service said within the life of an entry, no address of the house is sent *)
(* outside, and the list that alerts are matched against is the table unless *)
(* two writers crossed.                                                      *)

(* What the variables hold.                                                  *)
Results == {"bad", "clean", "unavailable", "error", "demo"}
LookupTasks == [pc : {"rest", "call", "reload", "replace"}, service : Services \cup {None},
                subject : Subjects \cup {None}, since : Nat, values : SUBSET Iocs]
CacheEntries == [result : Results, since : Nat, until : Nat]
ListRows == [value : Iocs, hits : Nat]

LookupTypes ==
    /\ now \in Nat /\ asker \in [Askers -> LookupTasks]
    /\ cache \in [Services -> [Subjects -> CacheEntries \cup {None}]]
    /\ rows \subseteq ListRows /\ crossed \in BOOLEAN

\* What an answer says the service said.
Backed(service, x, result, from) ==
    [service |-> service, subject |-> x, result |-> result, since |-> from] \in calls
(* Nothing of the house is asked outside, and no verdict is made up.         *)
Truthful(c) ==
    /\ c.subject \notin Own
    /\ c.result \in {"bad", "clean"} => KeyGiven
    /\ c.result = "demo" => DemoAllowed

(* Who waits for a service asks about a foreign subject.                     *)
AsksAreOutside ==
    \A a \in Askers : asker[a].pc = "call" =>
        asker[a].service \in Services /\ asker[a].subject \in Subjects \ Own
CacheIsBacked ==
    \A s \in Services, x \in Subjects : LET entry == cache[s][x] IN entry # None =>
        Backed(s, x, entry.result, entry.since) /\ entry.until = entry.since + CacheLife
AnswersAreBacked ==
    /\ \A s \in served : s.result # "internal" =>
          Backed(s.service, s.subject, s.result, s.since) /\ (s.cached => s.at - s.since < CacheLife)
    /\ \A c \in calls : Truthful(c)

\* Threads that carry a write into the cache; alone, one carries the list as it is.
ListIsCarried ==
    /\ writers = {a \in Askers : asker[a].pc \in {"reload", "replace"}}
    /\ ~crossed =>
          /\ \A a, b \in writers : a = b
          /\ \A a \in writers : asker[a].pc = "replace" => asker[a].values = Values
          /\ writers = {} => watched = Values

LookupIInv == LookupTypes /\ AsksAreOutside /\ CacheIsBacked /\ AnswersAreBacked /\ ListIsCarried

LEMMA LookupInitHolds == LookupInit => LookupIInv
  <1> SUFFICES ASSUME LookupInit PROVE LookupIInv
    OBVIOUS
  <1>1. Rest \in LookupTasks /\ Rest.pc = "rest"
    BY DEF Rest, LookupTasks
  <1>2. LookupTypes
    BY <1>1 DEF LookupInit, LookupTypes
  <1>3. ListIsCarried
    BY <1>1 DEF LookupInit, ListIsCarried, Values
  <1> QED
    BY <1>1, <1>2, <1>3 DEF LookupInit, LookupIInv, AsksAreOutside, CacheIsBacked, AnswersAreBacked

\* The list is left alone by a thread that was, and stays, away from it.
LEMMA ListUntouched ==
    ASSUME LookupIInv, UNCHANGED <<writers, crossed, watched>>, Values' = Values,
           \/ asker' = asker
           \/ \E a \in Askers : \E x : asker' = [asker EXCEPT ![a] = x] /\ asker[a].pc \in {"rest", "call"} /\ x.pc \in {"rest", "call"}
    PROVE  ListIsCarried'
  <1>1. CASE asker' = asker
    BY <1>1 DEF LookupIInv, ListIsCarried
  <1>2. ASSUME NEW a \in Askers, NEW x, asker' = [asker EXCEPT ![a] = x], asker[a].pc \in {"rest", "call"}, x.pc \in {"rest", "call"}
        PROVE  ListIsCarried'
    <2>1. \A b \in Askers : asker'[b] = IF b = a THEN x ELSE asker[b]
      BY <1>2 DEF LookupIInv, LookupTypes
    <2>2. a \notin writers /\ writers \subseteq Askers
      BY <1>2 DEF LookupIInv, ListIsCarried
    <2>3. writers' = {b \in Askers : asker'[b].pc \in {"reload", "replace"}}
      BY <1>2, <2>1 DEF LookupIInv, ListIsCarried
    <2>4. \A b \in writers : asker'[b] = asker[b]
      BY <2>1, <2>2
    <2> QED  BY <2>3, <2>4 DEF LookupIInv, ListIsCarried
  <1> QED  BY <1>1, <1>2

LEMMA SameRows == ASSUME UNCHANGED rows PROVE Values' = Values
  BY DEF Values

(* An inside subject is answered without a call.                             *)
LEMMA AnswerInsideKeeps ==
    ASSUME LookupIInv, NEW a \in Askers, NEW s \in Services, AnswerInside(a, s)
    PROVE  LookupIInv'
  <1>1. /\ UNCHANGED <<now, asker, cache, calls, repStats, rows, watched, writers, crossed>>
        /\ \A e \in served' : e \in served \/ e.result = "internal"
    BY DEF AnswerInside, Give
  <1>2. ListIsCarried'
    BY <1>1, SameRows, ListUntouched
  <1>3. AnswersAreBacked'
    BY <1>1 DEF LookupIInv, AnswersAreBacked, Backed
  <1> QED
    BY <1>1, <1>2, <1>3 DEF LookupIInv, LookupTypes, AsksAreOutside, CacheIsBacked, Backed

(* A subject is asked for: a live entry answers, otherwise the service is    *)
(* called.                                                                   *)
LEMMA AskForKeeps ==
    ASSUME LookupIInv, NEW a \in Askers, NEW service \in Services, NEW x \in Subjects, NEW force \in BOOLEAN,
           AskFor(a, service, x, force)
    PROVE  LookupIInv'
  <1> DEFINE entry == cache[service][x]
             hit == entry # None /\ Serves(entry) /\ ~force
  <1>1. /\ x \notin Own /\ asker[a].pc = "rest"
        /\ UNCHANGED <<now, cache, calls, rows, watched, writers, crossed>>
        /\ IF hit THEN Give(service, x, entry.result, entry.since, TRUE) /\ UNCHANGED asker
           ELSE /\ Becomes(a, [Rest EXCEPT !.pc = "call", !.service = service, !.subject = x, !.since = now])
                /\ UNCHANGED served
    BY DEF AskFor, Turn
  <1>2. CASE hit
    <2>1. entry \in CacheEntries /\ now < entry.until
      BY <1>2 DEF LookupIInv, LookupTypes, Serves
    <2>2. Backed(service, x, entry.result, entry.since) /\ entry.until = entry.since + CacheLife
      BY <1>2 DEF LookupIInv, CacheIsBacked
    <2>3. entry.since \in Nat /\ now \in Nat /\ CacheLife \in Nat
      BY <2>1, LookupNumbers DEF CacheEntries, LookupIInv, LookupTypes
    <2>4. PICK e : e = [service |-> service, subject |-> x, result |-> entry.result, since |-> entry.since,
                        at |-> now, cached |-> TRUE]
      OBVIOUS
    <2>5. served' = served \cup {e} /\ asker' = asker
      BY <1>1, <1>2, <2>4 DEF Give
    <2>6. Backed(e.service, e.subject, e.result, e.since) /\ e.at - e.since < CacheLife
      BY <2>1, <2>2, <2>3, <2>4
    <2>7. AnswersAreBacked'
      BY <1>1, <2>5, <2>6 DEF LookupIInv, AnswersAreBacked, Backed
    <2>8. ListIsCarried'
      BY <1>1, <2>5, SameRows, ListUntouched
    <2> QED
      BY <1>1, <2>5, <2>7, <2>8 DEF LookupIInv, LookupTypes, AsksAreOutside, CacheIsBacked, Backed
  <1>3. CASE ~hit
    <2>1. PICK task : task = [Rest EXCEPT !.pc = "call", !.service = service, !.subject = x, !.since = now]
      OBVIOUS
    <2>2. task \in LookupTasks /\ task.pc = "call" /\ task.service = service /\ task.subject = x
      BY <2>1 DEF Rest, LookupTasks, LookupIInv, LookupTypes
    <2>3. asker' = [asker EXCEPT ![a] = task] /\ served' = served
      BY <1>1, <1>3, <2>1 DEF Becomes
    <2>4. ListIsCarried'
      BY <1>1, <2>2, <2>3, SameRows, ListUntouched
    <2>5. LookupTypes' /\ AsksAreOutside'
      BY <1>1, <2>2, <2>3 DEF LookupIInv, LookupTypes, AsksAreOutside
    <2> QED
      BY <1>1, <2>3, <2>4, <2>5 DEF LookupIInv, CacheIsBacked, AnswersAreBacked, Backed
  <1> QED  BY <1>2, <1>3

\* An answer arrives: it is kept, and it is what the service said.
LEMMA AnswerArrivesKeeps ==
    ASSUME LookupIInv, NEW a \in Askers, AnswerArrives(a)
    PROVE  LookupIInv'
  <1>1. PICK task \in LookupTasks : task = asker[a]
    BY DEF LookupIInv, LookupTypes
  <1>2. PICK stamp \in Nat : stamp = (IF task.service = "abuseipdb" THEN task.since ELSE now)
    BY <1>1 DEF LookupTasks, LookupIInv, LookupTypes
  <1>21. PICK outcome \in Outcomes(task.service) :
           LET result == Settled(task.service, outcome)
           IN /\ cache' = [cache EXCEPT ![task.service][task.subject] =
                              [result |-> result, since |-> stamp, until |-> stamp + CacheLife]]
              /\ Give(task.service, task.subject, result, stamp, FALSE)
              /\ calls' = calls \cup {[service |-> task.service, subject |-> task.subject, result |-> result, since |-> stamp]}
    BY <1>1, <1>2 DEF AnswerArrives
  <1>22. PICK result \in Results : result = Settled(task.service, outcome)
    BY DEF Outcomes, Settled, Results
  <1>3. /\ cache' = [cache EXCEPT ![task.service][task.subject] =
                        [result |-> result, since |-> stamp, until |-> stamp + CacheLife]]
        /\ Give(task.service, task.subject, result, stamp, FALSE)
        /\ calls' = calls \cup {[service |-> task.service, subject |-> task.subject, result |-> result, since |-> stamp]}
    BY <1>21, <1>22
  <1>4. /\ task.pc = "call" /\ asker' = [asker EXCEPT ![a] = Rest]
        /\ UNCHANGED <<now, rows, watched, writers, crossed>>
    BY <1>1 DEF AnswerArrives, Becomes
  <1>5. task.service \in Services /\ task.subject \in Subjects /\ task.subject \notin Own
    BY <1>1, <1>4 DEF LookupIInv, AsksAreOutside
  <1>6. /\ result \in Results
        /\ result \in {"bad", "clean"} => KeyGiven
        /\ result = "demo" => DemoAllowed
    BY <1>22 DEF Outcomes, Settled, Results
  <1>7. Rest \in LookupTasks /\ Rest.pc = "rest"
    BY DEF Rest, LookupTasks
  <1>8. PICK entry : entry = [result |-> result, since |-> stamp, until |-> stamp + CacheLife]
    OBVIOUS
  <1>9. entry \in CacheEntries /\ entry.result = result /\ entry.since = stamp /\ entry.until = stamp + CacheLife
    BY <1>6, <1>8, LookupNumbers DEF CacheEntries
  <1>10. /\ cache' = [cache EXCEPT ![task.service][task.subject] = entry]
         /\ \A s \in Services, x \in Subjects :
               cache'[s][x] = IF s = task.service /\ x = task.subject THEN entry ELSE cache[s][x]
    BY <1>3, <1>5, <1>8 DEF LookupIInv, LookupTypes
  <1>11. LookupTypes'
    <2>1. cache' \in [Services -> [Subjects -> CacheEntries \cup {None}]]
      BY <1>5, <1>9, <1>10 DEF LookupIInv, LookupTypes
    <2> QED  BY <1>4, <1>7, <2>1 DEF LookupIInv, LookupTypes
  <1>12. AsksAreOutside'
    BY <1>4, <1>7 DEF LookupIInv, LookupTypes, AsksAreOutside
  <1>13. /\ Backed(task.service, task.subject, result, stamp)'
         /\ \A s, x, r, t : Backed(s, x, r, t) => Backed(s, x, r, t)'
    BY <1>3 DEF Backed
  <1>14. CacheIsBacked'
    BY <1>9, <1>10, <1>13 DEF LookupIInv, CacheIsBacked
  <1>15. AnswersAreBacked'
    <2>1. PICK e : e = [service |-> task.service, subject |-> task.subject, result |-> result, since |-> stamp,
                        at |-> now, cached |-> FALSE]
      OBVIOUS
    <2>2. served' = served \cup {e}
      BY <1>3, <2>1 DEF Give
    <2>3. Backed(e.service, e.subject, e.result, e.since)' /\ ~e.cached
      BY <1>13, <2>1
    <2>4. \A c \in calls' : Truthful(c)
      BY <1>3, <1>5, <1>6 DEF LookupIInv, AnswersAreBacked, Truthful
    <2> QED  BY <1>13, <2>2, <2>3, <2>4 DEF LookupIInv, AnswersAreBacked
  <1>16. ListIsCarried'
    BY <1>1, <1>4, <1>7, SameRows, ListUntouched
  <1> QED  BY <1>11, <1>12, <1>14, <1>15, <1>16 DEF LookupIInv

\* A row is written: whoever is on the way already, the list and the cache part.
LEMMA RowWrittenKeeps ==
    ASSUME LookupIInv, NEW a \in Askers, asker[a].pc = "rest", rows' \subseteq ListRows,
           Enter(a), Becomes(a, [Rest EXCEPT !.pc = "reload"]),
           UNCHANGED <<now, cache, served, calls, watched>>
    PROVE  LookupIInv'
  <1>1. PICK task : task = [Rest EXCEPT !.pc = "reload"]
    OBVIOUS
  <1>2. task \in LookupTasks /\ task.pc = "reload"
    BY <1>1 DEF Rest, LookupTasks
  <1>3. asker' = [asker EXCEPT ![a] = task] /\ \A b \in Askers : asker'[b] = IF b = a THEN task ELSE asker[b]
    BY <1>1 DEF Becomes, LookupIInv, LookupTypes
  <1>4. crossed' \in BOOLEAN /\ (~crossed' => writers = {}) /\ writers' = writers \cup {a}
    BY DEF Enter, LookupIInv, LookupTypes
  <1>5. LookupTypes' /\ AsksAreOutside'
    BY <1>2, <1>3, <1>4 DEF LookupIInv, LookupTypes, AsksAreOutside
  <1>6. ListIsCarried'
    <2>1. writers' = {b \in Askers : asker'[b].pc \in {"reload", "replace"}}
      BY <1>2, <1>3, <1>4 DEF LookupIInv, ListIsCarried
    <2> QED  BY <1>2, <1>3, <1>4, <2>1 DEF ListIsCarried
  <1> QED  BY <1>5, <1>6 DEF LookupIInv, CacheIsBacked, AnswersAreBacked, Backed

LEMMA WatchlistKeeps ==
    ASSUME LookupIInv, NEW a \in Askers, NEW v \in Iocs, AddIoc(a, v) \/ RemoveIoc(a, v) \/ MatchAlert(a, v)
    PROVE  LookupIInv'
  <1>1. CASE AddIoc(a, v) \/ RemoveIoc(a, v)
    <2>1. [value |-> v, hits |-> 0] \in ListRows
      BY DEF ListRows
    <2>2. rows' \subseteq ListRows
      BY <1>1, <2>1 DEF AddIoc, RemoveIoc, LookupIInv, LookupTypes
    <2> QED  BY <1>1, <2>2, RowWrittenKeeps DEF AddIoc, RemoveIoc, Turn
  <1>2. CASE MatchAlert(a, v)
    <2> DEFINE Counted(r) == IF r.value = v THEN [r EXCEPT !.hits = @ + 1] ELSE r
    <2>1. /\ rows' = {Counted(r) : r \in rows}
          /\ UNCHANGED <<now, asker, cache, served, calls, watched, writers, crossed>>
      BY <1>2 DEF MatchAlert
    <2>2. \A r \in ListRows : Counted(r) \in ListRows /\ Counted(r).value = r.value
      BY DEF ListRows
    <2> HIDE DEF Counted
    <2>3. rows \subseteq ListRows
      BY DEF LookupIInv, LookupTypes
    <2>4. rows' \subseteq ListRows /\ Values' = Values
      BY <2>1, <2>2, <2>3 DEF Values
    <2>5. ListIsCarried'
      BY <2>1, <2>4, ListUntouched
    <2> QED
      BY <2>1, <2>4, <2>5 DEF LookupIInv, LookupTypes, AsksAreOutside, CacheIsBacked, AnswersAreBacked, Backed
  <1> QED  BY <1>1, <1>2

\* The rows are read, and later take effect.
LEMMA ReloadKeeps ==
    ASSUME LookupIInv, NEW a \in Askers, ReadRows(a) \/ ReplaceCache(a)
    PROVE  LookupIInv'
  <1>1. PICK task : task = IF asker[a].pc = "reload" THEN [Rest EXCEPT !.pc = "replace", !.values = Values] ELSE Rest
    OBVIOUS
  <1>2. Values \subseteq Iocs
    BY DEF LookupIInv, LookupTypes, Values, ListRows
  <1>3. /\ task \in LookupTasks
        /\ task.pc = IF asker[a].pc = "reload" THEN "replace" ELSE "rest"
        /\ asker[a].pc = "reload" => task.values = Values
    BY <1>1, <1>2 DEF Rest, LookupTasks
  <1>4. /\ asker' = [asker EXCEPT ![a] = task] /\ asker[a].pc \in {"reload", "replace"}
        /\ UNCHANGED <<now, cache, served, calls, rows, crossed>>
        /\ asker[a].pc = "reload" => UNCHANGED <<writers, watched>>
        /\ asker[a].pc = "replace" => writers' = writers \ {a} /\ watched' = asker[a].values
    BY <1>1 DEF ReadRows, ReplaceCache, Becomes
  <1>5. \A b \in Askers : asker'[b] = IF b = a THEN task ELSE asker[b]
    BY <1>4 DEF LookupIInv, LookupTypes
  <1>6. LookupTypes' /\ AsksAreOutside'
    BY <1>3, <1>4, <1>5 DEF LookupIInv, LookupTypes, AsksAreOutside
  <1>7. Values' = Values
    BY <1>4, SameRows
  <1>8. ListIsCarried'
    <2>1. writers' = {b \in Askers : asker'[b].pc \in {"reload", "replace"}}
      BY <1>3, <1>4, <1>5 DEF LookupIInv, ListIsCarried
    <2>2. a \in writers
      BY <1>4 DEF LookupIInv, ListIsCarried
    <2> QED  BY <1>3, <1>4, <1>5, <1>7, <2>1, <2>2 DEF LookupIInv, ListIsCarried
  <1> QED  BY <1>4, <1>6, <1>8 DEF LookupIInv, CacheIsBacked, AnswersAreBacked, Backed

(* The invariant through every step.                                         *)
LEMMA LookupStepKeeps == LookupIInv /\ [LookupNext]_lookupVars => LookupIInv'
  <1> SUFFICES ASSUME LookupIInv, [LookupNext]_lookupVars PROVE LookupIInv'
    OBVIOUS
  <1>1. ASSUME NEW a \in Askers, NEW s \in Services, AnswerInside(a, s) PROVE LookupIInv'
    BY <1>1, AnswerInsideKeeps
  <1>2. ASSUME NEW a \in Askers, NEW s \in Services, NEW x \in Subjects, NEW force \in BOOLEAN, AskFor(a, s, x, force)
        PROVE LookupIInv'
    BY <1>2, AskForKeeps
  <1>3. ASSUME NEW a \in Askers, NEW v \in Iocs, AddIoc(a, v) \/ RemoveIoc(a, v) \/ MatchAlert(a, v) PROVE LookupIInv'
    BY <1>3, WatchlistKeeps
  <1>4. ASSUME NEW a \in Askers, AnswerArrives(a) PROVE LookupIInv'
    BY <1>4, AnswerArrivesKeeps
  <1>5. ASSUME NEW a \in Askers, ReadRows(a) \/ ReplaceCache(a) PROVE LookupIInv'
    BY <1>5, ReloadKeeps
  <1>6. CASE LookupTick \/ UNCHANGED lookupVars
    <2>1. now' \in Nat /\ UNCHANGED <<asker, cache, served, calls, rows, watched, writers, crossed>>
      BY <1>6 DEF LookupTick, lookupVars, LookupIInv, LookupTypes
    <2>2. ListIsCarried'
      BY <2>1, SameRows, ListUntouched
    <2> QED
      BY <2>1, <2>2 DEF LookupIInv, LookupTypes, AsksAreOutside, CacheIsBacked, AnswersAreBacked, Backed
  <1> QED  BY <1>1, <1>2, <1>3, <1>4, <1>5, <1>6 DEF LookupNext

(* Every answer, fresh or cached, is what the service said of that subject   *)
(* less than the life of an entry ago, verdicts only with a key and          *)
(* demonstration scores only where they are allowed, for any number of       *)
(* threads that ask at once; and the watchlist is the table whenever no      *)
(* thread is between its row and the reload and no two writers crossed.      *)
THEOREM CachesTellTruth == LookupSpec => []CachesAreTrue
  <1>1. LookupIInv => CachesAreTrue
    BY DEF LookupIInv, AnswersAreBacked, Backed, Truthful, ListIsCarried, CachesAreTrue
  <1> QED  BY <1>1, LookupInitHolds, LookupStepKeeps, PTL DEF LookupSpec

-------------------------------------------------------------------------------
(* The identity directory. The audit trail carries the authority of          *)
(* everybody in it, and a revoked session loses its sockets, for any number  *)
(* of accounts, request threads and sockets, any cap of sessions and any     *)
(* life of a token.                                                          *)

(* What a trail says of an account. *)
Said(tr, i, u) ==
    LET about == {k \in 1..(i - 1) : tr[k].target = u}
    IN IF about = {} THEN None ELSE tr[CHOOSE k \in about : \A x \in about : x <= k]

(* Nothing is said of an account that no entry is about.                     *)
LEMMA SaidIsNone ==
    ASSUME NEW tr, NEW i, NEW u, \A k \in 1..(i - 1) : tr[k].target # u
    PROVE  Said(tr, i, u) = None
  BY DEF Said

(* The last entry about an account is what is said of it.                    *)
LEMMA SaidIsLast ==
    ASSUME NEW tr, NEW i \in Nat, NEW u, NEW k \in 1..(i - 1), tr[k].target = u,
           \A x \in 1..(i - 1) : tr[x].target = u => x <= k
    PROVE  Said(tr, i, u) = tr[k]
  <1> DEFINE about == {j \in 1..(i - 1) : tr[j].target = u}
             last == CHOOSE j \in about : \A x \in about : x <= j
  <1>1. k \in about /\ \A x \in about : x <= k
    OBVIOUS
  <1>2. last \in about /\ \A x \in about : x <= last
    BY <1>1
  <1>3. last = k
    <2>1. last <= k /\ k <= last /\ last \in Nat /\ k \in Nat
      BY <1>1, <1>2
    <2> HIDE DEF last
    <2> QED  BY <2>1
  <1> QED  BY <1>1, <1>3 DEF Said

(* Something is said of an account by its last entry, or nothing.            *)
LEMMA SaidHasLast ==
    ASSUME NEW tr, NEW i \in Nat, i > 0, NEW u
    PROVE  \/ \A k \in 1..(i - 1) : tr[k].target # u
           \/ \E k \in 1..(i - 1) : tr[k].target = u /\ \A x \in 1..(i - 1) : tr[x].target = u => x <= k
  <1> DEFINE about == {k \in 1..(i - 1) : tr[k].target = u}
  <1>1. CASE about = {}
    BY <1>1
  <1>2. CASE about # {}
    <2>1. i - 1 \in Nat /\ about \in SUBSET (1..(i - 1))
      OBVIOUS
    <2>2. PICK k \in about : \A x \in about : x <= k
      BY <1>2, <2>1, GreatestBelow
    <2> QED  BY <2>2
  <1> QED  BY <1>1, <1>2

\* One more entry: it is the last word on its account and says nothing of others.
LEMMA SaidAppends ==
    ASSUME NEW tr \in Seq(TrailRow), NEW e \in TrailRow, NEW u
    PROVE  /\ \A i \in 1..(Len(tr) + 1) : Said(Append(tr, e), i, u) = Said(tr, i, u)
           /\ Said(Append(tr, e), Len(tr) + 2, u) = IF e.target = u THEN e ELSE Said(tr, Len(tr) + 1, u)
  <1> DEFINE n == Len(tr)
             to == Append(tr, e)
  <1>1. /\ n \in Nat /\ to[n + 1] = e /\ \A k \in 1..n : to[k] = tr[k]
    OBVIOUS
  <1> HIDE DEF n, to
  <1>2. ASSUME NEW i \in 1..(n + 1) PROVE Said(to, i, u) = Said(tr, i, u)
    <2>0. i \in Nat /\ i > 0 /\ 1..(i - 1) \subseteq 1..n
      BY <1>1
    <2>1. CASE \A k \in 1..(i - 1) : tr[k].target # u
      <3>1. \A k \in 1..(i - 1) : to[k].target # u
        BY <1>1, <2>0, <2>1
      <3> QED  BY <2>1, <3>1, SaidIsNone
    <2>2. CASE \E k \in 1..(i - 1) : tr[k].target = u /\ \A x \in 1..(i - 1) : tr[x].target = u => x <= k
      <3>1. PICK k \in 1..(i - 1) : tr[k].target = u /\ \A x \in 1..(i - 1) : tr[x].target = u => x <= k
        BY <2>2
      <3>2. to[k] = tr[k] /\ \A x \in 1..(i - 1) : to[x].target = u => x <= k
        BY <1>1, <2>0, <3>1
      <3> QED  BY <2>0, <3>1, <3>2, SaidIsLast
    <2> QED  BY <2>0, <2>1, <2>2, SaidHasLast
  <1>3. Said(to, n + 2, u) = IF e.target = u THEN e ELSE Said(tr, n + 1, u)
    <2>0. n + 2 \in Nat /\ n + 1 \in 1..((n + 2) - 1) /\ (n + 2) - 1 = n + 1 /\ (n + 1) - 1 = n
      BY <1>1
    <2>1. CASE e.target = u
      <3>1. \A x \in 1..((n + 2) - 1) : x <= n + 1
        BY <1>1
      <3> QED  BY <1>1, <2>0, <2>1, <3>1, SaidIsLast
    <2>2. CASE e.target # u
      <3>1. CASE \A k \in 1..((n + 1) - 1) : tr[k].target # u
        <4>1. \A k \in 1..((n + 2) - 1) : to[k].target # u
          BY <1>1, <2>0, <2>2, <3>1
        <4> QED  BY <2>2, <3>1, <4>1, SaidIsNone
      <3>2. CASE \E k \in 1..((n + 1) - 1) : tr[k].target = u /\ \A x \in 1..((n + 1) - 1) : tr[x].target = u => x <= k
        <4>1. PICK k \in 1..((n + 1) - 1) : tr[k].target = u /\ \A x \in 1..((n + 1) - 1) : tr[x].target = u => x <= k
          BY <3>2
        <4>2. k \in 1..((n + 2) - 1) /\ to[k] = tr[k] /\ \A x \in 1..((n + 2) - 1) : to[x].target = u => x <= k
          BY <1>1, <2>0, <2>2, <4>1
        <4>3. Said(to, n + 2, u) = to[k]
          <5>1. to[k].target = u
            BY <4>1, <4>2
          <5>2. n + 2 \in Nat
            BY <1>1
          <5>3. k \in 1..((n + 2) - 1)
            BY <4>2
          <5> QED  BY <4>2, <5>1, <5>2, <5>3, SaidIsLast
        <4>4. Said(tr, n + 1, u) = tr[k]
          <5>1. n + 1 \in Nat
            BY <1>1
          <5> QED  BY <4>1, <5>1, SaidIsLast
        <4> QED  BY <2>2, <4>2, <4>3, <4>4
      <3>3. n + 1 \in Nat /\ n + 1 > 0
        BY <1>1
      <3>4. \/ \A k \in 1..((n + 1) - 1) : tr[k].target # u
            \/ \E k \in 1..((n + 1) - 1) : tr[k].target = u /\ \A x \in 1..((n + 1) - 1) : tr[x].target = u => x <= k
        BY <3>3, SaidHasLast
      <3> QED  BY <3>1, <3>2, <3>4
    <2> QED  BY <2>1, <2>2
  <1> QED  BY <1>2, <1>3 DEF n, to

-----------------------------------------------------------------------------
(* Where a thread is and what it has with it.                                *)
Places == {"idle", "write", "issue", "adopt", "dial", "sweep", "drop"}
IdTasks == [pc : Places, kind : {None, "create", "change", "password"}, user : Names \cup {None},
            version : Nat, token : Nat, sid : Sids \cup {None}, left : SUBSET (Sids \cup Nat)]
(* What the tables hold.                                                     *)
TokenRow == [user : Names, expires : Nat]
SessionRow == [token : Nat, version : Nat]

DirectoryTypes == users \in [Names -> AccountRow \cup {None}] /\ trail \in Seq(TrailRow)

(* A thread on the way has what its next step needs.                         *)
SoundTask(x) ==
    /\ x \in IdTasks
    /\ x.pc \in {"write", "issue"} => x.user \in Names
    /\ x.pc \in {"adopt", "dial"} => x.token \in DOMAIN tokens
    /\ x.pc = "dial" => x.sid \in Sids /\ x.left \in {{1, 2}, {2}}

IdTypes ==
    /\ now \in Nat /\ DirectoryTypes
    /\ tokens \in Seq(TokenRow)
    /\ sessions \subseteq SessionRow /\ \A s \in sessions : s.token \in DOMAIN tokens
    /\ wires \in [Sids -> Int] /\ \A sid \in Sids : wires[sid] > 0 => wires[sid] \in DOMAIN tokens
    /\ thread \in [Threads -> IdTasks] /\ \A t \in Threads : SoundTask(thread[t])

(* Tokens have a number, an owner and an expiry.                             *)
LEMMA TokensAre == ASSUME IdTypes PROVE \A k \in DOMAIN tokens : k \in Nat /\ tokens[k] \in TokenRow /\ tokens[k].expires \in Nat
  <1>1. tokens \in Seq(TokenRow)
    BY DEF IdTypes
  <1>2. \A k \in DOMAIN tokens : k \in Nat /\ tokens[k] \in TokenRow
    BY <1>1
  <1> QED  BY <1>2 DEF TokenRow

(* The model's operator is the one of these lemmas, now and in the next      *)
(* state.                                                                    *)
LEMMA SaidBeforeIs == \A i, u : SaidBefore(i, u) = Said(trail, i, u) /\ SaidBefore(i, u)' = Said(trail', i, u)
  BY DEF SaidBefore, Said

\* A set of accounts, one after the other.
LEMMA CountedOnce ==
    ASSUME NEW S \in SUBSET Names
    PROVE  /\ Cardinality(S) \in Nat /\ SetToSeq(S) \in [1..Cardinality(S) -> S]
           /\ \A u \in S : \E i \in 1..Cardinality(S) : SetToSeq(S)[i] = u
  <1>1. IsFiniteSet(S)
    BY NamesAreFew, FS_Subset
  <1>2. PICK n \in Nat : ExistsBijection(1..n, S)
    BY <1>1, FS_NatBijection
  <1>3. Cardinality(S) = n
    BY <1>2, FS_CountingElements
  <1>4. PICK g : g \in Bijection(1..n, S)
    BY <1>2 DEF ExistsBijection
  <1>5. g \in [1..Cardinality(S) -> S] /\ IsInjective(g)
    BY <1>3, <1>4 DEF Bijection, Injection
  <1>6. PICK f : f = SetToSeq(S)
    OBVIOUS
  <1>7. f \in [1..Cardinality(S) -> S] /\ IsInjective(f)
    BY <1>5, <1>6 DEF SetToSeq
  <1>8. f \in Injection(1..n, S)
    BY <1>3, <1>7 DEF Injection
  <1>9. Cardinality(1..n) = n
    BY FS_Interval
  <1>10. f \in Surjection(1..n, S)
    BY <1>1, <1>3, <1>8, <1>9, FS_Injection
  <1> QED  BY <1>3, <1>6, <1>7, <1>10 DEF Surjection

(* The first entries are those of the first administrators, one for each.    *)
LEMMA TrailInitHolds == IdentityInit => DirectoryTypes /\ TrailHasAuthority
  <1> SUFFICES ASSUME IdentityInit PROVE DirectoryTypes /\ TrailHasAuthority
    OBVIOUS
  <1>1. PICK first \in SUBSET Names :
          /\ users = [u \in Names |-> IF u \in first THEN Account("admin", TRUE, 1) ELSE None]
          /\ trail = [i \in 1..Cardinality(first) |->
                         [by |-> None, target |-> SetToSeq(first)[i], role |-> "admin", active |-> TRUE]]
    BY DEF IdentityInit
  <1>0. PICK n \in Nat : n = Cardinality(first)
    BY CountedOnce
  <1>2. PICK f \in [1..n -> first] : n = Cardinality(first) /\ f = SetToSeq(first)
    BY <1>0, CountedOnce
  <1>3. \A u \in first : \E i \in 1..n : f[i] = u
    BY <1>2, CountedOnce
  <1>4. "admin" \in DOMAIN ROLES
    BY DEF ROLES
  <1>5. trail = [i \in 1..n |-> [by |-> None, target |-> f[i], role |-> "admin", active |-> TRUE]]
    BY <1>1, <1>2
  <1>6. \A i \in 1..n : [by |-> None, target |-> f[i], role |-> "admin", active |-> TRUE] \in TrailRow
    BY <1>2, <1>4 DEF TrailRow
  <1>7. trail \in Seq(TrailRow) /\ Len(trail) = n /\ DOMAIN trail = 1..n
    <2>1. trail \in [1..n -> TrailRow]
      BY <1>5, <1>6
    <2> QED  BY <2>1
  <1>8. Account("admin", TRUE, 1) \in AccountRow /\ Account("admin", TRUE, 1).role = "admin" /\ Account("admin", TRUE, 1).active
    BY <1>4 DEF Account, AccountRow
  <1>9. DirectoryTypes
    BY <1>1, <1>7, <1>8 DEF DirectoryTypes
  <1>10. \A i \in 1..n : trail[i].target = f[i] /\ trail[i].role = "admin" /\ trail[i].active = TRUE /\ trail[i].by = None
    BY <1>5
  <1>11. ASSUME NEW u \in Names
         PROVE  LET said == SaidBefore(Len(trail) + 1, u)
                IN IF Exists(u) THEN said # None /\ said.role = users[u].role /\ said.active = users[u].active
                   ELSE said = None
    <2>1. n + 1 \in Nat /\ n + 1 > 0 /\ (n + 1) - 1 = n
      OBVIOUS
    <2>2. CASE u \in first
      <3>1. Exists(u) /\ users[u].role = "admin" /\ users[u].active = TRUE
        BY <1>1, <1>8, <2>2, NoneIsNoRow DEF Exists
      <3>2. PICK i \in 1..((n + 1) - 1) : trail[i].target = u
        BY <1>3, <1>10, <2>1, <2>2
      <3>3. PICK k \in 1..((n + 1) - 1) :
              trail[k].target = u /\ \A x \in 1..((n + 1) - 1) : trail[x].target = u => x <= k
        <4>1. PICK tr : tr = trail
          OBVIOUS
        <4>2. \/ \A k \in 1..((n + 1) - 1) : tr[k].target # u
              \/ \E k \in 1..((n + 1) - 1) : tr[k].target = u /\ \A x \in 1..((n + 1) - 1) : tr[x].target = u => x <= k
          <5>1. n + 1 \in Nat /\ n + 1 > 0
            OBVIOUS
          <5> QED  BY <5>1, SaidHasLast
        <4> QED  BY <3>2, <4>1, <4>2
      <3>4. Said(trail, n + 1, u) = trail[k]
        BY <2>1, <3>3, SaidIsLast
      <3>5. trail[k] \in TrailRow
        BY <1>7
      <3>6. trail[k] # None /\ trail[k].role = "admin" /\ trail[k].active = TRUE
        BY <1>10, <3>5, NoneIsNoRow
      <3> QED  BY <1>7, <3>1, <3>4, <3>6, SaidBeforeIs
    <2>3. CASE u \notin first
      <3>1. \A k \in 1..((n + 1) - 1) : trail[k].target # u
        BY <1>2, <1>10, <2>1, <2>3
      <3>2. Said(trail, n + 1, u) = None
        BY <3>1, SaidIsNone
      <3>3. ~Exists(u)
        BY <1>1, <2>3 DEF Exists
      <3> QED  BY <1>7, <3>2, <3>3, SaidBeforeIs
    <2> QED  BY <2>2, <2>3
  <1>12. TrailHasAuthority
    BY <1>7, <1>10, <1>11 DEF TrailHasAuthority
  <1> QED  BY <1>9, <1>12

\* One account is written, and one entry, by somebody whose standing was compared.
LEMMA WritingKeepsTrail ==
    ASSUME DirectoryTypes, TrailHasAuthority, NEW by \in Names \cup {None}, NEW u \in Names, NEW row \in AccountRow,
           users' = [users EXCEPT ![u] = row], Audited(by, u, row.role, row.active),
           by # None => by \in Names /\ Active(by) /\ (by # u => users[by].role = "admin")
    PROVE  DirectoryTypes' /\ TrailHasAuthority'
  <1>1. PICK e : e = [by |-> by, target |-> u, role |-> row.role, active |-> row.active]
    OBVIOUS
  <1>2. e \in TrailRow /\ e.by = by /\ e.target = u /\ e.role = row.role /\ e.active = row.active /\ e # None
    <2>1. e \in TrailRow
      BY <1>1 DEF TrailRow, AccountRow
    <2> QED  BY <1>1, <2>1, NoneIsNoRow
  <1>3. PICK n \in Nat : n = Len(trail)
    BY DEF DirectoryTypes
  <1>4. /\ trail' = Append(trail, e) /\ trail' \in Seq(TrailRow) /\ Len(trail') = n + 1
        /\ DOMAIN trail = 1..n /\ DOMAIN trail' = 1..(n + 1)
        /\ trail'[n + 1] = e /\ \A i \in 1..n : trail'[i] = trail[i]
    BY <1>1, <1>2, <1>3 DEF Audited, DirectoryTypes
  <1>5. DirectoryTypes'
    BY <1>4 DEF DirectoryTypes
  <1>6. trail \in Seq(TrailRow)
    BY DEF DirectoryTypes
  <1>7. ASSUME NEW v
        PROVE  /\ \A i \in 1..(n + 1) : Said(trail', i, v) = SaidBefore(i, v)
               /\ Said(trail', n + 2, v) = IF v = u THEN e ELSE SaidBefore(n + 1, v)
    <2>1. PICK tr \in Seq(TrailRow) : tr = trail
      BY <1>6
    <2>2. /\ \A i \in 1..(Len(tr) + 1) : Said(Append(tr, e), i, v) = Said(tr, i, v)
          /\ Said(Append(tr, e), Len(tr) + 2, v) = IF e.target = v THEN e ELSE Said(tr, Len(tr) + 1, v)
      BY <1>2, SaidAppends
    <2> QED  BY <1>2, <1>3, <1>4, <2>1, <2>2, SaidBeforeIs
  <1>8. \A v \in Names : users'[v] = IF v = u THEN row ELSE users[v]
    BY DEF DirectoryTypes
  <1>9. row # None
    BY NoneIsNoRow
  <1>10. ASSUME NEW v \in Names
         PROVE  LET said == SaidBefore(Len(trail) + 1, v)'
                IN IF Exists(v)' THEN said # None /\ said.role = users'[v].role /\ said.active = users'[v].active
                   ELSE said = None
    <2>1. SaidBefore(Len(trail) + 1, v)' = IF v = u THEN e ELSE SaidBefore(n + 1, v)
      <3>1. SaidBefore(Len(trail) + 1, v)' = Said(trail', Len(trail') + 1, v)
        BY DEF SaidBefore, Said
      <3>2. Len(trail') + 1 = n + 2
        BY <1>4
      <3> QED  BY <1>7, <3>1, <3>2
    <2>2. CASE v = u
      BY <1>2, <1>8, <1>9, <2>1, <2>2 DEF Exists
    <2>3. CASE v # u
      BY <1>3, <1>8, <2>1, <2>3 DEF TrailHasAuthority, Exists
    <2> QED  BY <2>2, <2>3
  <1>11. ASSUME NEW i \in 1..(n + 1), NEW a, a = trail'[i].by, a # None
         PROVE  /\ Said(trail', i, a) # None /\ Said(trail', i, a).active
                /\ a # trail'[i].target => Said(trail', i, a).role = "admin"
    <2>0. Said(trail', i, a) = SaidBefore(i, a)
      BY <1>7
    <2>1. CASE i = n + 1
      <3>1. a = by /\ trail'[i].target = u /\ by \in Names /\ Active(by) /\ (by # u => users[by].role = "admin")
        BY <1>2, <1>4, <1>11, <2>1
      <3> QED  BY <1>3, <2>0, <2>1, <3>1 DEF TrailHasAuthority, Active, Exists
    <2>2. CASE i \in 1..n
      BY <1>4, <1>11, <2>0, <2>2 DEF TrailHasAuthority
    <2> QED  BY <2>1, <2>2
  <1>12. \A i \in DOMAIN trail' : LET a == trail'[i].by IN
            a # None => /\ Said(trail', i, a) # None /\ Said(trail', i, a).active
                        /\ a # trail'[i].target => Said(trail', i, a).role = "admin"
    BY <1>4, <1>11
  <1>13. TrailHasAuthority'
    BY <1>10, <1>12 DEF TrailHasAuthority, SaidBefore, Said
  <1> QED  BY <1>5, <1>13

\* An account is created, or changed: nobody else's is touched.
LEMMA CreateIs ==
    ASSUME IdTypes, TrailHasAuthority, NEW by \in Names \cup {None}, NEW u \in Names, NEW role \in RolesGiven,
           CreateUser(by, u, role), by # None => by \in Names /\ Active(by) /\ (by # u => users[by].role = "admin")
    PROVE  /\ DirectoryTypes' /\ TrailHasAuthority' /\ sessions' = sessions
           /\ ~Exists(u) /\ \A v \in Names \ {u} : users'[v] = users[v]
  <1>1. PICK row : row = Account(role, TRUE, 1)
    OBVIOUS
  <1>2. row \in AccountRow /\ row.role = role /\ row.active = TRUE
    BY <1>1, IdentityNumbers DEF Account, AccountRow
  <1>3. users' = [users EXCEPT ![u] = row] /\ Audited(by, u, row.role, row.active) /\ sessions' = sessions /\ ~Exists(u)
    BY <1>1, <1>2 DEF CreateUser
  <1>4. DirectoryTypes
    BY DEF IdTypes
  <1> QED  BY <1>2, <1>3, <1>4, WritingKeepsTrail DEF DirectoryTypes

LEMMA ChangeIs ==
    ASSUME IdTypes, TrailHasAuthority, NEW by \in Names \cup {None}, NEW u \in Names, NEW role \in DOMAIN ROLES,
           NEW active \in BOOLEAN, ChangeUser(by, u, role, active),
           by # None => by \in Names /\ Active(by) /\ (by # u => users[by].role = "admin")
    PROVE  /\ DirectoryTypes' /\ TrailHasAuthority' /\ sessions' = sessions \ Of(u)
           /\ \A v \in Names \ {u} : users'[v] = users[v]
  <1>1. PICK row : row = Account(role, active, users[u].version + 1)
    OBVIOUS
  <1>2. users[u] \in AccountRow
    BY DEF ChangeUser, Exists, IdTypes, DirectoryTypes
  <1>3. row \in AccountRow /\ row.role = role /\ row.active = active
    BY <1>1, <1>2 DEF Account, AccountRow
  <1>4. users' = [users EXCEPT ![u] = row] /\ Audited(by, u, row.role, row.active) /\ sessions' = sessions \ Of(u)
    BY <1>1, <1>3 DEF ChangeUser
  <1>5. DirectoryTypes
    BY DEF IdTypes
  <1> QED  BY <1>3, <1>4, <1>5, WritingKeepsTrail DEF DirectoryTypes

-----------------------------------------------------------------------------
(* Later tokens expire no earlier, and none expires later than one that is   *)
(* issued now.                                                               *)
TokensInOrder ==
    /\ \A i, j \in DOMAIN tokens : i <= j => tokens[i].expires <= tokens[j].expires
    /\ \A i \in DOMAIN tokens : tokens[i].expires <= now + SessionLife

(* Two threads never connect one socket; between registering and looking the *)
(* socket has that token or is gone.                                         *)
DialsAreApart ==
    /\ \A s, t \in Threads :
          thread[s].pc = "dial" /\ thread[t].pc = "dial" /\ thread[s].sid = thread[t].sid => s = t
    /\ \A t \in Threads : thread[t].pc = "dial" /\ thread[t].left = {2} =>
          wires[thread[t].sid] \in {thread[t].token, -1}

\* A token whose socket may stay, and who is to look at a socket otherwise.
Fine(k) == Principal(k) \/ tokens[k].expires <= now \/ UserOf(k) \in outside
OwesLook(x, sid) ==
    \/ x.pc = "sweep"
    \/ x.pc = "drop" /\ sid \in x.left
    \/ x.pc = "dial" /\ x.sid = sid
    \/ /\ x.pc = "adopt" /\ UserOf(x.token) = UserOf(wires[sid])
       /\ wires[sid] < x.token /\ Principal(x.token)
(* A registered socket may stay or somebody is to look at it.                *)
Plugged == \A sid \in Registered : Fine(wires[sid]) \/ \E t \in Threads : OwesLook(thread[t], sid)

(* The invariant of the directory.                                           *)
IdIInv == IdTypes /\ TrailHasAuthority /\ TokensInOrder /\ DialsAreApart /\ Plugged

(* A thread at rest.                                                         *)
LEMMA EaseIsSound == AtEase \in IdTasks /\ AtEase.pc = "idle" /\ AtEase.sid = None /\ SoundTask(AtEase)
  <1>1. AtEase \in IdTasks
    BY DEF AtEase, IdTasks, Places
  <1> QED  BY <1>1 DEF AtEase, SoundTask

(* A thread that sweeps.                                                     *)
LEMMA SweeperIsSound ==
    LET x == [AtEase EXCEPT !.pc = "sweep"] IN x \in IdTasks /\ x.pc = "sweep" /\ SoundTask(x)
  <1>1. [AtEase EXCEPT !.pc = "sweep"] \in IdTasks
    BY DEF AtEase, IdTasks, Places
  <1> QED  BY <1>1 DEF AtEase, SoundTask

(* Accounts and trail stay as they are.                                      *)
LEMMA SameTrail == ASSUME TrailHasAuthority, UNCHANGED <<users, trail>> PROVE TrailHasAuthority'
  <1>1. ASSUME NEW v \in Names
        PROVE  LET said == SaidBefore(Len(trail) + 1, v)'
               IN IF Exists(v)' THEN said # None /\ said.role = users'[v].role /\ said.active = users'[v].active
                  ELSE said = None
    <2>1. SaidBefore(Len(trail) + 1, v)' = SaidBefore(Len(trail) + 1, v)
      BY DEF SaidBefore
    <2> QED  BY <2>1 DEF TrailHasAuthority, Exists
  <1>2. \A i \in DOMAIN trail' : LET a == trail'[i].by IN
            a # None => /\ Said(trail', i, a) # None /\ Said(trail', i, a).active
                        /\ a # trail'[i].target => Said(trail', i, a).role = "admin"
    BY SaidBeforeIs DEF TrailHasAuthority
  <1> QED  BY <1>1, <1>2 DEF TrailHasAuthority, SaidBefore, Said

(* At the start no session is on record and no socket is connected.          *)
LEMMA IdentityInitHolds == IdentityInit => IdIInv
  <1> SUFFICES ASSUME IdentityInit PROVE IdIInv
    OBVIOUS
  <1>1. now = 0 /\ sessions = {} /\ tokens = <<>> /\ wires = [s \in Sids |-> 0] /\ thread = [t \in Threads |-> AtEase]
    BY DEF IdentityInit
  <1>2. IdTypes
    BY <1>1, TrailInitHolds, EaseIsSound DEF IdTypes
  <1>3. TokensInOrder /\ DialsAreApart /\ Plugged
    BY <1>1, EaseIsSound DEF TokensInOrder, DialsAreApart, Plugged, Registered
  <1> QED  BY <1>2, <1>3, TrailInitHolds DEF IdIInv

\* A thread goes on and nothing changes but sockets: what it owed is settled or still owed.
LEMMA GoingOnKeeps ==
    ASSUME IdIInv, NEW t \in Threads, NEW x, thread' = [thread EXCEPT ![t] = x], SoundTask(x),
           UNCHANGED <<now, users, sessions, trail, tokens, outside>>, wires' \in [Sids -> Int],
           \A sid \in Sids : \/ wires'[sid] \in {wires[sid], -1}
                            \/ /\ thread[t].pc = "dial" /\ thread[t].sid = sid /\ wires'[sid] = thread[t].token
                               /\ x.pc = "dial" /\ x.sid = sid,
           x.pc = "dial" => /\ (thread[t].pc = "dial" /\ x.sid = thread[t].sid) \/ \A s \in Threads : thread[s].sid # x.sid
                            /\ x.left = {2} => wires'[x.sid] \in {x.token, -1},
           \A sid \in Sids : wires'[sid] = wires[sid] /\ wires[sid] > 0 /\ OwesLook(thread[t], sid) =>
               Fine(wires[sid]) \/ OwesLook(x, sid)
    PROVE  IdIInv'
  <1>1. /\ thread' \in [Threads -> IdTasks] /\ \A s \in Threads : thread'[s] = IF s = t THEN x ELSE thread[s]
    BY DEF IdIInv, IdTypes, SoundTask
  <1>2. \A k : /\ Principal(k)' = Principal(k) /\ UserOf(k)' = UserOf(k) /\ Fine(k)' = Fine(k)
    BY DEF Principal, UserOf, Active, Exists, Fine
  <1>3. \A y : SoundTask(y) => SoundTask(y)'
    BY DEF SoundTask
  <1>4. \A s \in Threads : SoundTask(thread'[s])
    BY <1>1 DEF IdIInv, IdTypes
  <1>5. \A s \in Threads : SoundTask(thread[s])'
    BY <1>4 DEF SoundTask
  <1>6. \A sid \in Sids : wires'[sid] > 0 => wires'[sid] \in DOMAIN tokens
    <2> SUFFICES ASSUME NEW sid \in Sids, wires'[sid] > 0 PROVE wires'[sid] \in DOMAIN tokens
      OBVIOUS
    <2>1. CASE wires'[sid] = wires[sid]
      BY <2>1 DEF IdIInv, IdTypes
    <2>2. CASE thread[t].pc = "dial" /\ wires'[sid] = thread[t].token
      BY <2>2 DEF IdIInv, IdTypes, SoundTask
    <2> QED  BY <2>1, <2>2
  <1>7. IdTypes'
    BY <1>1, <1>5, <1>6 DEF IdIInv, IdTypes, DirectoryTypes
  <1>8. TrailHasAuthority' /\ TokensInOrder'
    <2>1. TrailHasAuthority'
      BY SameTrail DEF IdIInv
    <2> QED  BY <2>1 DEF IdIInv, TokensInOrder
  <1>9. DialsAreApart'
    <2>1. ASSUME NEW a \in Threads, NEW b \in Threads, thread'[a].pc = "dial", thread'[b].pc = "dial",
                 thread'[a].sid = thread'[b].sid
          PROVE  a = b
      BY <1>1, <2>1 DEF IdIInv, DialsAreApart
    <2>2. ASSUME NEW a \in Threads, thread'[a].pc = "dial", thread'[a].left = {2}
          PROVE  wires'[thread'[a].sid] \in {thread'[a].token, -1}
      <3>1. CASE a = t
        BY <1>1, <2>2, <3>1
      <3>2. CASE a # t
        <4>1. thread'[a] = thread[a] /\ thread[a].sid \in Sids
          BY <1>1, <2>2, <3>2 DEF IdIInv, IdTypes, SoundTask
        <4>2. wires[thread[a].sid] \in {thread[a].token, -1}
          BY <2>2, <4>1 DEF IdIInv, DialsAreApart
        <4>3. ~(thread[t].pc = "dial" /\ thread[t].sid = thread[a].sid)
          BY <2>2, <3>2, <4>1 DEF IdIInv, DialsAreApart
        <4> QED  BY <4>1, <4>2, <4>3
      <3> QED  BY <3>1, <3>2
    <2> QED  BY <2>1, <2>2 DEF DialsAreApart
  <1>10. ASSUME NEW sid \in Sids, wires'[sid] > 0
         PROVE  Fine(wires[sid])' \/ \E s \in Threads : OwesLook(thread[s], sid)'
    <2>1. CASE wires'[sid] = wires[sid]
      <3>1. PICK k \in Int : k = wires[sid]
        BY DEF IdIInv, IdTypes
      <3>2. \A y : OwesLook(y, sid)' = OwesLook(y, sid)
        BY <1>2, <2>1, <3>1 DEF OwesLook, UserOf, Principal, Active, Exists
      <3>3. CASE Fine(k)
        BY <1>2, <2>1, <3>1, <3>3 DEF Fine, Principal, UserOf, Active, Exists
      <3>4. ASSUME NEW s \in Threads, OwesLook(thread[s], sid)
            PROVE  Fine(k) \/ \E a \in Threads : OwesLook(thread'[a], sid)
        BY <1>1, <1>10, <2>1, <3>1, <3>4
      <3>5. \A a \in Threads : OwesLook(thread'[a], sid) => OwesLook(thread[a], sid)'
        BY <2>1 DEF OwesLook, UserOf, Principal, Active, Exists
      <3>6. Fine(k) \/ \E s \in Threads : OwesLook(thread[s], sid)
        BY <1>10, <2>1, <3>1 DEF IdIInv, Plugged, Registered
      <3> QED  BY <3>3, <3>4, <3>5, <3>6
    <2>2. CASE wires'[sid] # wires[sid]
      <3>1. x.pc = "dial" /\ x.sid = sid
        BY <1>10, <2>2
      <3>2. OwesLook(thread[t], sid)'
        BY <1>1, <3>1 DEF OwesLook
      <3> QED  BY <3>2
    <2> QED  BY <2>1, <2>2
  <1>11. Plugged'
    <2>1. Registered' = {sid \in Sids : wires'[sid] > 0}
      BY DEF Registered
    <2> QED  BY <1>10, <2>1 DEF Plugged
  <1> QED  BY <1>7, <1>8, <1>9, <1>11 DEF IdIInv

\* A change that is followed by a sweep owes every socket a look.
LEMMA SweepFollows ==
    ASSUME IdIInv, NEW t \in Threads, thread' = [thread EXCEPT ![t] = [AtEase EXCEPT !.pc = "sweep"]],
           UNCHANGED <<now, tokens, wires, outside>>, sessions' \subseteq sessions,
           DirectoryTypes', TrailHasAuthority'
    PROVE  IdIInv'
  <1>0. PICK x : x = [AtEase EXCEPT !.pc = "sweep"]
    OBVIOUS
  <1>1. /\ thread' \in [Threads -> IdTasks] /\ SoundTask(x) /\ x.pc = "sweep"
        /\ \A s \in Threads : thread'[s] = IF s = t THEN x ELSE thread[s]
    BY <1>0, SweeperIsSound DEF IdIInv, IdTypes
  <1>2. \A s \in Threads : SoundTask(thread[s])'
    BY <1>1 DEF IdIInv, IdTypes, SoundTask
  <1>3. IdTypes'
    BY <1>1, <1>2 DEF IdIInv, IdTypes
  <1>4. TokensInOrder' /\ DialsAreApart'
    BY <1>1 DEF IdIInv, TokensInOrder, DialsAreApart
  <1>5. \A sid : OwesLook(thread[t], sid)'
    BY <1>1 DEF OwesLook
  <1> QED  BY <1>3, <1>4, <1>5 DEF IdIInv, Plugged

\* Accounts move, and no session of an account that is not the operator's ends.
LEMMA AccountsMove ==
    ASSUME IdIInv, UNCHANGED <<now, tokens, wires>>, sessions' \subseteq sessions, outside \subseteq outside',
           DirectoryTypes', TrailHasAuthority',
           thread' = thread \/ \E t \in Threads : thread[t].pc = "write" /\ thread' = [thread EXCEPT ![t] = AtEase],
           \A k \in DOMAIN tokens : Principal(k) => Principal(k)' \/ UserOf(k) \in outside'
    PROVE  IdIInv'
  <1>1. /\ thread' \in [Threads -> IdTasks]
        /\ \A s \in Threads : \/ thread'[s] = thread[s]
                              \/ thread[s].pc = "write" /\ thread'[s] = AtEase
    BY EaseIsSound DEF IdIInv, IdTypes
  <1>2. \A s \in Threads : SoundTask(thread[s])'
    BY <1>1, EaseIsSound DEF IdIInv, IdTypes, SoundTask
  <1>3. IdTypes'
    BY <1>1, <1>2 DEF IdIInv, IdTypes
  <1>4. TokensInOrder' /\ DialsAreApart'
    BY <1>1, EaseIsSound DEF IdIInv, TokensInOrder, DialsAreApart
  <1>5. \A k \in DOMAIN tokens : (Fine(k) => Fine(k)') /\ UserOf(k)' = UserOf(k)
    BY DEF Fine, UserOf
  <1>6. ASSUME NEW sid \in Registered PROVE Fine(wires[sid])' \/ \E s \in Threads : OwesLook(thread[s], sid)'
    <2>1. PICK k \in DOMAIN tokens : k = wires[sid]
      BY DEF IdIInv, IdTypes, Registered
    <2>2. Fine(k)' = Fine(wires[sid])'
      BY <2>1 DEF Fine, Principal, UserOf
    <2>3. CASE Fine(k)
      BY <1>5, <2>2, <2>3
    <2>4. ASSUME NEW s \in Threads, OwesLook(thread[s], sid) PROVE Fine(k)' \/ OwesLook(thread[s], sid)'
      <3>1. thread'[s] = thread[s]
        BY <1>1, <2>4 DEF OwesLook
      <3>2. CASE thread[s].pc \in {"sweep", "drop", "dial"}
        BY <2>4, <3>1, <3>2 DEF OwesLook
      <3>3. CASE /\ thread[s].pc = "adopt" /\ UserOf(thread[s].token) = UserOf(wires[sid])
                 /\ wires[sid] < thread[s].token /\ Principal(thread[s].token)
        <4>1. PICK m \in DOMAIN tokens : m = thread[s].token
          BY <3>3 DEF IdIInv, IdTypes, SoundTask
        <4>2. CASE Principal(m)'
          BY <1>5, <2>1, <3>1, <3>3, <4>1, <4>2 DEF OwesLook, UserOf, Principal
        <4>3. CASE UserOf(m) \in outside'
          BY <1>5, <2>1, <3>3, <4>1, <4>3 DEF Fine
        <4> QED  BY <3>3, <4>1, <4>2, <4>3
      <3> QED  BY <2>4, <3>2, <3>3 DEF OwesLook
    <2>5. Fine(k) \/ \E s \in Threads : OwesLook(thread[s], sid)
      BY <2>1 DEF IdIInv, Plugged
    <2> QED  BY <2>2, <2>3, <2>4, <2>5
  <1>7. Plugged'
    BY <1>6 DEF Plugged, Registered
  <1> QED  BY <1>3, <1>4, <1>7 DEF IdIInv

\* Time passes: tokens expire, the older ones first.
LEMMA TickKeepsIdentity == ASSUME IdIInv, IdentityTick PROVE IdIInv'
  <1>1. now' = now + 1 /\ now \in Nat /\ UNCHANGED <<users, sessions, trail, tokens, wires, thread, outside>>
    BY DEF IdentityTick, IdIInv, IdTypes
  <1>2. IdTypes'
    BY <1>1 DEF IdIInv, IdTypes, DirectoryTypes, SoundTask
  <1>3. TrailHasAuthority' /\ DialsAreApart'
    BY <1>1, SameTrail DEF IdIInv, DialsAreApart
  <1>4. \A i \in DOMAIN tokens : tokens[i].expires \in Nat
    BY TokensAre DEF IdIInv
  <1>5. TokensInOrder'
    BY <1>1, <1>4, IdentityNumbers DEF IdIInv, TokensInOrder
  <1>6. \A k \in DOMAIN tokens : Principal(k) => Principal(k)' \/ tokens[k].expires <= now'
    BY <1>1, <1>4 DEF Principal, UserOf, Active, Exists
  <1>7. \A k \in DOMAIN tokens : tokens[k].expires <= now' => Fine(k)'
    BY <1>1 DEF Fine
  <1>8. \A k \in DOMAIN tokens : Fine(k) => Fine(k)'
    BY <1>1, <1>4, <1>6, <1>7 DEF Fine, UserOf
  <1>9. ASSUME NEW sid \in Registered PROVE Fine(wires[sid])' \/ \E s \in Threads : OwesLook(thread[s], sid)'
    <2>1. PICK k \in DOMAIN tokens : k = wires[sid]
      BY DEF IdIInv, IdTypes, Registered
    <2>2. Fine(k)' = Fine(wires[sid])'
      BY <1>1, <2>1 DEF Fine, Principal, UserOf
    <2>3. CASE Fine(k)
      BY <1>8, <2>2, <2>3
    <2>4. ASSUME NEW s \in Threads, OwesLook(thread[s], sid) PROVE Fine(k)' \/ OwesLook(thread[s], sid)'
      <3>1. CASE thread[s].pc \in {"sweep", "drop", "dial"}
        BY <1>1, <2>4, <3>1 DEF OwesLook
      <3>2. CASE /\ thread[s].pc = "adopt" /\ UserOf(thread[s].token) = UserOf(wires[sid])
                 /\ wires[sid] < thread[s].token /\ Principal(thread[s].token)
        <4>1. PICK m \in DOMAIN tokens : m = thread[s].token
          BY <3>2 DEF IdIInv, IdTypes, SoundTask
        <4>2. CASE Principal(m)'
          BY <1>1, <3>2, <4>1, <4>2 DEF OwesLook, UserOf, Principal
        <4>3. CASE tokens[m].expires <= now'
          <5>1. tokens[k].expires <= tokens[m].expires /\ k \in Nat /\ m \in Nat
            <6>1. k \in Nat /\ m \in Nat
              BY DEF IdIInv, IdTypes
            <6> QED  BY <2>1, <3>2, <4>1, <6>1 DEF IdIInv, TokensInOrder
          <5>2. tokens[k].expires <= now'
            BY <1>1, <1>4, <4>3, <5>1
          <5> QED  BY <1>7, <5>2
        <4> QED  BY <1>6, <3>2, <4>1, <4>2, <4>3
      <3> QED  BY <2>4, <3>1, <3>2 DEF OwesLook
    <2>5. Fine(k) \/ \E s \in Threads : OwesLook(thread[s], sid)
      BY <2>1 DEF IdIInv, Plugged
    <2> QED  BY <2>2, <2>3, <2>4, <2>5
  <1>10. Plugged'
    BY <1>1, <1>9 DEF Plugged, Registered
  <1> QED  BY <1>2, <1>3, <1>5, <1>10 DEF IdIInv

\* The browser goes away, which settles what was owed to its socket.
LEMMA DisconnectKeeps == ASSUME IdIInv, Disconnect PROVE IdIInv'
  <1>1. PICK gone \in Registered : wires' = [wires EXCEPT ![gone] = -1]
    BY DEF Disconnect
  <1>2. UNCHANGED <<now, users, sessions, trail, tokens, thread, outside>>
    BY DEF Disconnect
  <1>3. \A sid \in Sids : wires'[sid] \in {wires[sid], -1}
    <2>1. wires \in [Sids -> Int] /\ gone \in Sids
      BY DEF IdIInv, IdTypes, Registered
    <2> QED  BY <1>1, <2>1
  <1>4. \A sid \in Sids : wires'[sid] > 0 => wires'[sid] = wires[sid]
    BY <1>3
  <1>5. wires' \in [Sids -> Int]
    <2>1. wires \in [Sids -> Int] /\ gone \in Sids
      BY DEF IdIInv, IdTypes, Registered
    <2>2. PICK minus \in Int : minus = -1
      OBVIOUS
    <2>3. [wires EXCEPT ![gone] = minus] \in [Sids -> Int]
      BY <2>1
    <2> QED  BY <1>1, <2>2, <2>3
  <1>6. IdTypes'
    BY <1>2, <1>4, <1>5 DEF IdIInv, IdTypes, DirectoryTypes, SoundTask
  <1>7. TrailHasAuthority' /\ TokensInOrder'
    BY <1>2, SameTrail DEF IdIInv, TokensInOrder
  <1>8. DialsAreApart'
    <2>1. \A t \in Threads : thread[t].pc = "dial" => thread[t].sid \in Sids
      BY DEF IdIInv, IdTypes, SoundTask
    <2> QED  BY <1>2, <1>3, <2>1 DEF IdIInv, DialsAreApart
  <1>9. Plugged'
    <2> SUFFICES ASSUME NEW sid \in Sids, wires'[sid] > 0
                 PROVE  Fine(wires[sid])' \/ \E s \in Threads : OwesLook(thread[s], sid)'
      BY DEF Plugged, Registered
    <2>1. wires'[sid] = wires[sid] /\ sid \in Registered
      BY <1>4 DEF Registered
    <2>2. Fine(wires[sid]) => Fine(wires[sid])'
      BY <1>2, <2>1 DEF Fine, Principal, UserOf, Active, Exists
    <2>3. \A s \in Threads : OwesLook(thread[s], sid) => OwesLook(thread[s], sid)'
      BY <1>2, <2>1 DEF OwesLook, UserOf, Principal, Active, Exists
    <2> QED  BY <2>1, <2>2, <2>3 DEF IdIInv, Plugged
  <1> QED  BY <1>6, <1>7, <1>8, <1>9 DEF IdIInv

\* A session is issued: for those it pushes out the new token's thread has to look.
LEMMA IssueKeeps == ASSUME IdIInv, NEW t \in Threads, Issue(t) PROVE IdIInv'
  <1>1. PICK u \in Names : u = thread[t].user
    BY DEF Issue, At, IdIInv, IdTypes, SoundTask
  <1>2. thread[t].pc = "issue" /\ UNCHANGED <<now, users, trail, wires, outside>>
    BY DEF Issue, At
  <1>3. CASE ~(Active(u) /\ users[u].version = thread[t].version)
    <2>1. thread' = [thread EXCEPT ![t] = AtEase] /\ UNCHANGED <<now, users, sessions, trail, tokens, outside, wires>>
      BY <1>1, <1>2, <1>3 DEF Issue, Done, Go
    <2>2. \A sid : ~OwesLook(thread[t], sid)
      BY <1>2 DEF OwesLook
    <2>3. wires' \in [Sids -> Int]
      BY <2>1 DEF IdIInv, IdTypes
    <2>4. \A sid \in Sids : wires'[sid] \in {wires[sid], -1}
      BY <2>1
    <2>5. PICK x : x = AtEase
      OBVIOUS
    <2>6. thread' = [thread EXCEPT ![t] = x] /\ SoundTask(x) /\ x.pc # "dial"
      BY <2>1, <2>5, EaseIsSound
    <2> QED  BY <2>1, <2>2, <2>3, <2>4, <2>6, GoingOnKeeps
  <1>4. CASE Active(u) /\ users[u].version = thread[t].version
    <2>1. PICK new \in Nat : new = Len(tokens) + 1
      BY DEF IdIInv, IdTypes
    <2>2. PICK row \in TokenRow : row = [user |-> u, expires |-> now + SessionLife]
      <3>1. now \in Nat /\ SessionLife \in Nat
        BY IdentityNumbers DEF IdIInv, IdTypes
      <3>2. [user |-> u, expires |-> now + SessionLife] \in TokenRow
        BY <3>1 DEF TokenRow
      <3> QED  BY <3>2
    <2>3. PICK x : x = [AtEase EXCEPT !.pc = "adopt", !.token = new]
      OBVIOUS
    <2>4. PICK own \in SessionRow : own = [token |-> new, version |-> thread[t].version]
      <3>1. thread[t].version \in Nat
        BY DEF IdIInv, IdTypes, IdTasks
      <3> QED  BY <3>1 DEF SessionRow
    <2>5. /\ tokens' = Append(tokens, row) /\ thread' = [thread EXCEPT ![t] = x]
          /\ LET kept == {s \in sessions : tokens[s.token].expires > now}
             IN sessions' = (kept \ Of(u)) \cup Newest(kept \cap Of(u)) \cup {own}
      BY <1>1, <1>4, <2>1, <2>2, <2>3, <2>4 DEF Issue, Go
    <2>6. /\ sessions' \subseteq sessions \cup {own} /\ own \in sessions'
          /\ \A s \in sessions : tokens[s.token].expires > now /\ UserOf(s.token) # u => s \in sessions'
      BY <2>5 DEF Newest, Of
    <2>7. /\ tokens' \in Seq(TokenRow) /\ DOMAIN tokens = 1..(new - 1) /\ DOMAIN tokens' = 1..new
          /\ tokens'[new] = row /\ \A k \in DOMAIN tokens : tokens'[k] = tokens[k]
      BY <2>1, <2>2, <2>5 DEF IdIInv, IdTypes
    <2>8. x \in IdTasks /\ x.pc = "adopt" /\ x.token = new /\ SoundTask(x)'
      <3>1. x \in IdTasks /\ x.pc = "adopt" /\ x.token = new
        BY <2>3 DEF AtEase, IdTasks, Places
      <3>2. new \in DOMAIN tokens'
        BY <2>1, <2>7
      <3> QED  BY <3>1, <3>2 DEF SoundTask
    <2>9. /\ thread' \in [Threads -> IdTasks] /\ \A s \in Threads : thread'[s] = IF s = t THEN x ELSE thread[s]
      BY <2>5, <2>8 DEF IdIInv, IdTypes
    <2>10. \A s \in Threads : SoundTask(thread[s])'
      <3>1. DOMAIN tokens \subseteq DOMAIN tokens'
        BY <2>1, <2>7
      <3> QED  BY <2>8, <2>9, <3>1 DEF IdIInv, IdTypes, SoundTask
    <2>11. IdTypes'
      <3>1. sessions' \subseteq SessionRow /\ \A s \in sessions' : s.token \in DOMAIN tokens'
        <4>1. DOMAIN tokens \subseteq DOMAIN tokens' /\ new \in DOMAIN tokens' /\ own.token = new
          BY <2>1, <2>4, <2>7
        <4> QED  BY <2>4, <2>6, <4>1 DEF IdIInv, IdTypes
      <3>2. \A sid \in Sids : wires'[sid] > 0 => wires'[sid] \in DOMAIN tokens'
        BY <1>2, <2>1, <2>7 DEF IdIInv, IdTypes
      <3> QED  BY <1>2, <2>7, <2>9, <2>10, <3>1, <3>2 DEF IdIInv, IdTypes, DirectoryTypes
    <2>12. TrailHasAuthority'
      BY <1>2, SameTrail DEF IdIInv
    <2>13. TokensInOrder'
      <3>1. \A k \in DOMAIN tokens : tokens[k].expires \in Nat /\ tokens[k].expires <= row.expires
        BY <2>2, TokensAre DEF IdIInv, TokensInOrder
      <3>2. row.expires = now' + SessionLife /\ row.expires \in Nat
        BY <1>2, <2>2 DEF TokenRow
      <3>3. \A i \in DOMAIN tokens' : i = new \/ i \in DOMAIN tokens
        BY <2>1, <2>7
      <3>4. ASSUME NEW i \in DOMAIN tokens', NEW j \in DOMAIN tokens', i <= j
            PROVE  tokens'[i].expires <= tokens'[j].expires
        <4>1. CASE j = new
          BY <2>7, <3>1, <3>2, <3>3, <4>1
        <4>2. CASE j # new
          <5>1. i \in DOMAIN tokens /\ j \in DOMAIN tokens
            BY <2>1, <2>7, <3>3, <3>4, <4>2
          <5> QED  BY <2>7, <3>4, <5>1 DEF IdIInv, TokensInOrder
        <4> QED  BY <4>1, <4>2
      <3>5. \A i \in DOMAIN tokens' : tokens'[i].expires <= now' + SessionLife
        BY <1>2, <2>7, <3>1, <3>2, <3>3
      <3> QED  BY <3>4, <3>5 DEF TokensInOrder
    <2>14. DialsAreApart'
      BY <1>2, <2>8, <2>9 DEF IdIInv, DialsAreApart
    <2>15. Principal(new)' /\ UserOf(new)' = u
      <3>1. own.token = new /\ own.version = users'[u].version
        BY <1>2, <1>4, <2>4
      <3>2. UserOf(new)' = u /\ tokens'[new].expires > now'
        BY <1>2, <2>2, <2>7, IdentityNumbers DEF UserOf, IdIInv, IdTypes
      <3>3. Active(u)'
        BY <1>2, <1>4 DEF Active, Exists
      <3> QED  BY <2>6, <3>1, <3>2, <3>3 DEF Principal, UserOf, Active, Exists
    <2>16. \A k \in DOMAIN tokens : UserOf(k)' = UserOf(k) /\ (Principal(k) /\ UserOf(k) # u => Principal(k)')
                                    /\ (Fine(k) /\ UserOf(k) # u => Fine(k)')
      <3>1. \A k \in DOMAIN tokens : UserOf(k)' = UserOf(k)
        BY <2>7 DEF UserOf
      <3>2. \A k \in DOMAIN tokens : Principal(k) /\ UserOf(k) # u => Principal(k)'
        BY <1>2, <2>6, <2>7 DEF Principal, UserOf, Active, Exists
      <3> QED  BY <1>2, <2>7, <3>1, <3>2 DEF Fine
    <2>17. ASSUME NEW sid \in Registered PROVE Fine(wires[sid])' \/ \E s \in Threads : OwesLook(thread[s], sid)'
      <3>1. PICK k \in DOMAIN tokens : k = wires[sid]
        BY DEF IdIInv, IdTypes, Registered
      <3>2. Fine(k)' = Fine(wires[sid])' /\ wires'[sid] = k
        BY <1>2, <3>1 DEF Fine, Principal, UserOf
      <3>3. CASE UserOf(k) = u
        <4>1. k < new
          BY <2>1, <2>7
        <4>2. OwesLook(x, sid)'
          BY <2>8, <2>15, <2>16, <3>2, <3>3, <4>1 DEF OwesLook, UserOf
        <4>3. OwesLook(thread[t], sid)'
          BY <2>9, <4>2 DEF OwesLook, UserOf, Principal
        <4> QED  BY <4>3
      <3>4. CASE UserOf(k) # u
        <4>1. ASSUME NEW s \in Threads, OwesLook(thread[s], sid) PROVE OwesLook(thread[s], sid)'
          <5>1. thread'[s] = thread[s]
            BY <1>2, <2>9, <4>1 DEF OwesLook
          <5>2. CASE thread[s].pc \in {"sweep", "drop", "dial"}
            BY <4>1, <5>1, <5>2 DEF OwesLook
          <5>3. CASE /\ thread[s].pc = "adopt" /\ UserOf(thread[s].token) = UserOf(wires[sid])
                     /\ wires[sid] < thread[s].token /\ Principal(thread[s].token)
            <6>1. PICK m \in DOMAIN tokens : m = thread[s].token
              BY <5>3 DEF IdIInv, IdTypes, SoundTask
            <6>2. Principal(m)' /\ UserOf(m)' = UserOf(k)'
              BY <2>16, <3>1, <3>4, <5>3, <6>1
            <6> QED  BY <3>1, <3>2, <5>1, <5>3, <6>1, <6>2 DEF OwesLook, UserOf, Principal
          <5> QED  BY <4>1, <5>2, <5>3 DEF OwesLook
        <4>2. Fine(k) \/ \E s \in Threads : OwesLook(thread[s], sid)
          BY <3>1 DEF IdIInv, Plugged
        <4> QED  BY <2>16, <3>2, <3>4, <4>1, <4>2
      <3> QED  BY <3>3, <3>4
    <2>18. Plugged'
      BY <1>2, <2>17 DEF Plugged, Registered
    <2> QED  BY <2>11, <2>12, <2>13, <2>14, <2>18 DEF IdIInv
  <1> QED  BY <1>3, <1>4

(* A request is let in and takes a copy of who sent it.                      *)
LEMMA AuthoriseKeeps == ASSUME IdIInv, NEW t \in Threads, NEW kind \in {"create", "change", "password"}, Authorise(t, kind) PROVE IdIInv'
  <1>1. PICK token \in Live :
          thread' = [thread EXCEPT ![t] = [AtEase EXCEPT !.pc = "write", !.kind = kind, !.user = UserOf(token),
                                                         !.version = users[UserOf(token)].version]]
    BY DEF Authorise, Go
  <1>2. token \in DOMAIN tokens /\ UserOf(token) \in Names
    <2>1. token \in DOMAIN tokens
      BY DEF Live, Cookies, IdIInv, IdTypes
    <2> QED  BY <2>1, TokensAre DEF UserOf, TokenRow, IdIInv
  <1>3. users[UserOf(token)] \in AccountRow
    BY <1>2 DEF Live, Principal, Active, Exists, IdIInv, IdTypes, DirectoryTypes
  <1>4. PICK x : x = [AtEase EXCEPT !.pc = "write", !.kind = kind, !.user = UserOf(token), !.version = users[UserOf(token)].version]
    OBVIOUS
  <1>5. x \in IdTasks /\ x.pc = "write" /\ x.user \in Names
    BY <1>2, <1>3, <1>4 DEF AtEase, IdTasks, Places, AccountRow
  <1>6. thread' = [thread EXCEPT ![t] = x] /\ SoundTask(x) /\ x.pc # "dial"
    BY <1>1, <1>4, <1>5 DEF SoundTask
  <1>7. UNCHANGED <<now, users, sessions, trail, tokens, outside, wires>> /\ \A sid : ~OwesLook(thread[t], sid)
    BY DEF Authorise, At, OwesLook
  <1>8. wires' \in [Sids -> Int] /\ \A sid \in Sids : wires'[sid] \in {wires[sid], -1}
    BY <1>7 DEF IdIInv, IdTypes
  <1> QED  BY <1>6, <1>7, <1>8, GoingOnKeeps

(* A password is right.                                                      *)
LEMMA LoginKeeps == ASSUME IdIInv, NEW t \in Threads, Login(t) PROVE IdIInv'
  <1>1. PICK u \in Names : Active(u) /\ thread' = [thread EXCEPT ![t] = [AtEase EXCEPT !.pc = "issue", !.user = u, !.version = users[u].version]]
    BY DEF Login, Go
  <1>2. users[u] \in AccountRow
    BY <1>1 DEF Active, Exists, IdIInv, IdTypes, DirectoryTypes
  <1>3. PICK x : x = [AtEase EXCEPT !.pc = "issue", !.user = u, !.version = users[u].version]
    OBVIOUS
  <1>4. x \in IdTasks /\ x.pc = "issue" /\ x.user \in Names
    BY <1>2, <1>3 DEF AtEase, IdTasks, Places, AccountRow
  <1>5. thread' = [thread EXCEPT ![t] = x] /\ SoundTask(x) /\ x.pc # "dial"
    BY <1>1, <1>3, <1>4 DEF SoundTask
  <1>6. UNCHANGED <<now, users, sessions, trail, tokens, outside, wires>> /\ \A sid : ~OwesLook(thread[t], sid)
    BY DEF Login, At, OwesLook
  <1>7. wires' \in [Sids -> Int] /\ \A sid \in Sids : wires'[sid] \in {wires[sid], -1}
    BY <1>6 DEF IdIInv, IdTypes
  <1> QED  BY <1>5, <1>6, <1>7, GoingOnKeeps

\* The transaction of a request.
LEMMA TransactionKeeps == ASSUME IdIInv, NEW t \in Threads, Write(t) PROVE IdIInv'
  <1>1. PICK by \in Names : by = thread[t].user
    BY DEF Write, At, IdIInv, IdTypes, SoundTask
  <1>2. thread[t].pc = "write" /\ UNCHANGED <<now, tokens, wires, outside>> /\ IdTypes /\ TrailHasAuthority /\ by \in Names \cup {None}
    BY DEF Write, At, IdIInv
  <1>3. ASSUME Standing(t), NEW u \in Names, NEW role \in RolesGiven, thread[t].kind = "create",
               CreateUser(by, u, role), Done(t)
        PROVE  IdIInv'
    <2>1. by # None => by \in Names /\ Active(by) /\ (by # u => users[by].role = "admin")
      BY <1>1, <1>3 DEF Standing
    <2>2. /\ DirectoryTypes' /\ TrailHasAuthority' /\ sessions' = sessions
          /\ ~Exists(u) /\ \A v \in Names \ {u} : users'[v] = users[v]
      BY <1>2, <1>3, <2>1, CreateIs
    <2>3. thread' = [thread EXCEPT ![t] = AtEase]
      BY <1>3 DEF Done, Go
    <2>4. \A k \in DOMAIN tokens : Principal(k) => Principal(k)'
      <3>1. \A k \in DOMAIN tokens : UserOf(k) \in Names
        BY <1>2, TokensAre DEF UserOf, TokenRow
      <3> QED  BY <1>2, <2>2, <3>1 DEF Principal, UserOf, Active, Exists
    <2> QED  BY <1>2, <2>2, <2>3, <2>4, AccountsMove
  <1>4. ASSUME Standing(t), NEW u \in Names, NEW role \in DOMAIN ROLES, NEW active \in BOOLEAN,
               thread[t].kind # "password" \/ u = by, ChangeUser(by, u, role, active), Go(t, [AtEase EXCEPT !.pc = "sweep"])
        PROVE  IdIInv'
    <2>1. by # None => by \in Names /\ Active(by) /\ (by # u => users[by].role = "admin")
      BY <1>1, <1>4 DEF Standing
    <2>2. DirectoryTypes' /\ TrailHasAuthority' /\ sessions' = sessions \ Of(u)
      BY <1>2, <1>4, <2>1, ChangeIs
    <2>3. sessions' \subseteq sessions /\ thread' = [thread EXCEPT ![t] = [AtEase EXCEPT !.pc = "sweep"]]
      BY <1>4, <2>2 DEF Go
    <2> QED  BY <1>2, <2>2, <2>3, SweepFollows
  <1>5. CASE Done(t) /\ UNCHANGED <<users, sessions, trail>>
    <2>1. \A k \in DOMAIN tokens : Principal(k) => Principal(k)'
      BY <1>2, <1>5 DEF Principal, UserOf, Active, Exists
    <2>2. DirectoryTypes' /\ TrailHasAuthority'
      BY <1>2, <1>5, SameTrail DEF IdTypes, DirectoryTypes
    <2>3. thread' = [thread EXCEPT ![t] = AtEase] /\ sessions' \subseteq sessions
      BY <1>5 DEF Done, Go
    <2> QED  BY <1>2, <2>1, <2>2, <2>3, AccountsMove
  <1>6. ASSUME Standing(t), thread[t].kind = "create",
               \E u \in Names, role \in RolesGiven : CreateUser(by, u, role), Done(t)
        PROVE  IdIInv'
    BY <1>3, <1>6
  <1>7. ASSUME Standing(t), thread[t].kind = "change", Go(t, [AtEase EXCEPT !.pc = "sweep"]),
               \E u \in Names, role \in RolesGiven, active \in BOOLEAN : ChangeUser(by, u, role, active)
        PROVE  IdIInv'
    <2>1. RolesGiven \subseteq DOMAIN ROLES
      BY IdentityNumbers
    <2> QED  BY <1>4, <1>7, <2>1
  <1>8. ASSUME Standing(t), thread[t].kind = "password", Go(t, [AtEase EXCEPT !.pc = "sweep"]),
               ChangeUser(by, by, users[by].role, users[by].active)
        PROVE  IdIInv'
    <2>1. users[by] \in AccountRow
      BY <1>8 DEF ChangeUser, Exists, IdIInv, IdTypes, DirectoryTypes
    <2>2. PICK role \in DOMAIN ROLES, active \in BOOLEAN : role = users[by].role /\ active = users[by].active
      BY <2>1 DEF AccountRow
    <2>3. ChangeUser(by, by, role, active)
      BY <1>8, <2>2
    <2> QED  BY <1>4, <1>8, <2>3
  <1> QED  BY <1>1, <1>5, <1>6, <1>7, <1>8 DEF Write

(* The operator writes from another process.                                 *)
LEMMA OperatorKeeps == ASSUME IdIInv, Operator PROVE IdIInv'
  <1>1. PICK u \in Names : /\ \/ \E role \in RolesGiven : CreateUser(None, u, role)
                              \/ Exists(u) /\ ChangeUser(None, u, users[u].role, users[u].active)
                           /\ outside' = outside \cup {u}
    BY DEF Operator
  <1>2. UNCHANGED <<now, tokens, wires, thread>> /\ IdTypes /\ TrailHasAuthority
    BY DEF Operator, IdIInv
  <1>3. \A k \in DOMAIN tokens : UserOf(k) \in Names
    BY <1>2, TokensAre DEF UserOf, TokenRow
  <1>4. /\ DirectoryTypes' /\ TrailHasAuthority' /\ sessions' \subseteq sessions /\ sessions \ sessions' \subseteq Of(u)
        /\ \A v \in Names \ {u} : users'[v] = users[v]
    <2>1. ASSUME NEW role \in RolesGiven, CreateUser(None, u, role)
          PROVE  /\ DirectoryTypes' /\ TrailHasAuthority' /\ sessions' = sessions
                 /\ ~Exists(u) /\ \A v \in Names \ {u} : users'[v] = users[v]
      BY <1>2, <2>1, CreateIs
    <2>2. ASSUME Exists(u), ChangeUser(None, u, users[u].role, users[u].active)
          PROVE  /\ DirectoryTypes' /\ TrailHasAuthority' /\ sessions' = sessions \ Of(u)
                 /\ \A v \in Names \ {u} : users'[v] = users[v]
      <3>1. users[u] \in AccountRow
        BY <1>2, <2>2 DEF Exists, IdTypes, DirectoryTypes
      <3>2. PICK role \in DOMAIN ROLES, active \in BOOLEAN : role = users[u].role /\ active = users[u].active
        BY <3>1 DEF AccountRow
      <3>3. ChangeUser(None, u, role, active)
        BY <2>2, <3>2
      <3> QED  BY <1>2, <3>3, ChangeIs
    <2> QED  BY <1>1, <2>1, <2>2
  <1>5. \A k \in DOMAIN tokens : Principal(k) => Principal(k)' \/ UserOf(k) \in outside'
    BY <1>1, <1>2, <1>3, <1>4 DEF Principal, UserOf, Active, Exists, Of
  <1>6. outside \subseteq outside'
    BY <1>1
  <1> QED  BY <1>2, <1>4, <1>5, <1>6, AccountsMove

(* A thread at rest takes up a task that needs no look.                      *)
LEMMA IdleKeeps ==
    ASSUME IdIInv, NEW t \in Threads, thread' = [thread EXCEPT ![t] = AtEase],
           UNCHANGED <<now, users, sessions, trail, tokens, outside, wires>>,
           \A sid \in Sids : wires[sid] > 0 /\ OwesLook(thread[t], sid) => Fine(wires[sid])
    PROVE  IdIInv'
  <1>1. PICK x : x = AtEase
    OBVIOUS
  <1>2. thread' = [thread EXCEPT ![t] = x] /\ SoundTask(x) /\ x.pc # "dial"
    BY <1>1, EaseIsSound
  <1>3. wires' \in [Sids -> Int] /\ \A sid \in Sids : wires'[sid] \in {wires[sid], -1}
    BY DEF IdIInv, IdTypes
  <1> QED  BY <1>2, <1>3, GoingOnKeeps

(* A session ends with a newer login or a logout, and a sweep is owed.       *)
LEMMA RevokeKeeps == ASSUME IdIInv, NEW t \in Threads, Adopt(t) \/ Logout(t) PROVE IdIInv'
  <1>1. UNCHANGED <<now, users, trail, tokens, wires, outside>>
    BY DEF Adopt, Logout
  <1>2. DirectoryTypes' /\ TrailHasAuthority'
    BY <1>1, SameTrail DEF IdIInv, IdTypes, DirectoryTypes
  <1>3. CASE sessions' \subseteq sessions /\ Go(t, [AtEase EXCEPT !.pc = "sweep"])
    <2>1. thread' = [thread EXCEPT ![t] = [AtEase EXCEPT !.pc = "sweep"]]
      BY <1>3 DEF Go
    <2> QED  BY <1>1, <1>2, <1>3, <2>1, SweepFollows
  <1>4. CASE Adopt(t) /\ ~Principal(thread[t].token)
    <2>1. thread' = [thread EXCEPT ![t] = AtEase] /\ UNCHANGED <<now, users, sessions, trail, tokens, outside, wires>>
      BY <1>4 DEF Adopt, Done, Go
    <2>2. \A sid : ~OwesLook(thread[t], sid)
      BY <1>4 DEF Adopt, At, OwesLook
    <2> QED  BY <2>1, <2>2, IdleKeeps
  <1>5. CASE Adopt(t) /\ Principal(thread[t].token)
    <2>1. sessions' \subseteq sessions /\ Go(t, [AtEase EXCEPT !.pc = "sweep"])
      BY <1>5 DEF Adopt
    <2> QED  BY <1>3, <2>1
  <1>6. CASE Logout(t)
    <2>1. sessions' \subseteq sessions /\ Go(t, [AtEase EXCEPT !.pc = "sweep"])
      BY <1>6 DEF Logout
    <2> QED  BY <1>3, <2>1
  <1> QED  BY <1>4, <1>5, <1>6

(* An event is to be delivered.                                              *)
LEMMA EmitKeeps == ASSUME IdIInv, NEW t \in Threads, Emit(t) PROVE IdIInv'
  <1>1. thread' = [thread EXCEPT ![t] = [AtEase EXCEPT !.pc = "sweep"]] /\ UNCHANGED <<now, users, sessions, trail, tokens, wires, outside>>
    BY DEF Emit, Go
  <1>2. DirectoryTypes' /\ TrailHasAuthority' /\ sessions' \subseteq sessions
    BY <1>1, SameTrail DEF IdIInv, IdTypes, DirectoryTypes
  <1> QED  BY <1>1, <1>2, SweepFollows

\* A sweep takes down which sockets there are: all that it owed a look.
LEMMA SweepKeeps == ASSUME IdIInv, NEW t \in Threads, Sweep(t) PROVE IdIInv'
  <1>1. thread[t].pc = "sweep" /\ UNCHANGED <<now, users, sessions, trail, tokens, outside, wires>>
    BY DEF Sweep, At
  <1>2. CASE Registered = {}
    <2>1. thread' = [thread EXCEPT ![t] = AtEase]
      BY <1>2 DEF Sweep, Go
    <2>2. \A sid \in Sids : ~(wires[sid] > 0)
      BY <1>2 DEF Registered
    <2> QED  BY <1>1, <2>1, <2>2, IdleKeeps
  <1>3. CASE Registered # {}
    <2>1. PICK x : x = [AtEase EXCEPT !.pc = "drop", !.left = Registered]
      OBVIOUS
    <2>2. x \in IdTasks /\ x.pc = "drop" /\ x.left = Registered
      BY <2>1 DEF AtEase, IdTasks, Places, Registered
    <2>3. thread' = [thread EXCEPT ![t] = x] /\ SoundTask(x) /\ x.pc # "dial"
      BY <1>3, <2>1, <2>2 DEF Sweep, Go, SoundTask
    <2>4. \A sid \in Sids : wires[sid] > 0 => OwesLook(x, sid)
      BY <2>2 DEF OwesLook, Registered
    <2>5. wires' \in [Sids -> Int] /\ \A sid \in Sids : wires'[sid] \in {wires[sid], -1}
      BY <1>1 DEF IdIInv, IdTypes
    <2> QED  BY <1>1, <2>3, <2>4, <2>5, GoingOnKeeps
  <1> QED  BY <1>2, <1>3

\* One socket is looked at: it goes, or its token is good.
LEMMA DropOneKeeps == ASSUME IdIInv, NEW t \in Threads, DropOne(t) PROVE IdIInv'
  <1>1. thread[t].pc = "drop" /\ UNCHANGED <<now, users, sessions, trail, tokens, outside>>
    BY DEF DropOne, At
  <1>2. PICK sid \in thread[t].left :
          /\ wires' = IF sid \in Registered /\ ~Principal(wires[sid]) THEN [wires EXCEPT ![sid] = -1] ELSE wires
          /\ thread' = [thread EXCEPT ![t] = IF thread[t].left = {sid} THEN AtEase ELSE [thread[t] EXCEPT !.left = @ \ {sid}]]
    BY DEF DropOne, Go
  <1>3. PICK x : x = IF thread[t].left = {sid} THEN AtEase ELSE [thread[t] EXCEPT !.left = @ \ {sid}]
    OBVIOUS
  <1>4. thread[t] \in IdTasks
    BY DEF IdIInv, IdTypes
  <1>5. /\ x \in IdTasks
        /\ \/ thread[t].left = {sid} /\ x.pc = "idle"
           \/ x.pc = "drop" /\ x.left = thread[t].left \ {sid}
    <2>1. CASE thread[t].left = {sid}
      BY <1>3, <2>1, EaseIsSound
    <2>2. CASE thread[t].left # {sid}
      <3>1. x = [thread[t] EXCEPT !.left = @ \ {sid}]
        BY <1>3, <2>2
      <3> QED  BY <1>1, <1>4, <3>1 DEF IdTasks
    <2> QED  BY <2>1, <2>2
  <1>6. thread' = [thread EXCEPT ![t] = x] /\ SoundTask(x) /\ x.pc # "dial"
    BY <1>2, <1>3, <1>5 DEF SoundTask
  <1>7. PICK minus \in Int : minus = -1
    OBVIOUS
  <1>8. wires \in [Sids -> Int]
    BY DEF IdIInv, IdTypes
  <1>9. wires' \in [Sids -> Int] /\ \A d \in Sids : wires'[d] = IF d = sid /\ sid \in Registered /\ ~Principal(wires[sid]) THEN minus ELSE wires[d]
    BY <1>2, <1>7, <1>8 DEF Registered
  <1>10. \A d \in Sids : wires'[d] \in {wires[d], -1}
    BY <1>7, <1>9
  <1>11. ASSUME NEW d \in Sids, wires'[d] = wires[d], wires[d] > 0, OwesLook(thread[t], d)
         PROVE  Fine(wires[d]) \/ OwesLook(x, d)
    <2>1. d \in thread[t].left
      BY <1>1, <1>11 DEF OwesLook
    <2>2. CASE d = sid
      BY <1>7, <1>9, <1>11, <2>2 DEF Fine, Registered
    <2>3. CASE d # sid
      BY <1>5, <2>1, <2>3 DEF OwesLook
    <2> QED  BY <2>2, <2>3
  <1> QED  BY <1>1, <1>6, <1>9, <1>10, <1>11, GoingOnKeeps

(* A socket is being connected.                                              *)
LEMMA ConnectKeeps == ASSUME IdIInv, NEW t \in Threads, Connect(t) PROVE IdIInv'
  <1>1. UNCHANGED <<now, users, sessions, trail, tokens, outside, wires>> /\ thread[t].pc = "idle"
    BY DEF Connect, At
  <1>2. PICK sid \in Sids, s \in Cookies :
          /\ \A a \in Threads : thread[a].sid # sid
          /\ thread' = [thread EXCEPT ![t] = [AtEase EXCEPT !.pc = "dial", !.sid = sid, !.token = s.token, !.left = {1, 2}]]
    BY DEF Connect, Go
  <1>3. PICK x : x = [AtEase EXCEPT !.pc = "dial", !.sid = sid, !.token = s.token, !.left = {1, 2}]
    OBVIOUS
  <1>4. s.token \in DOMAIN tokens /\ s.token \in Nat
    BY TokensAre DEF Cookies, IdIInv, IdTypes
  <1>5. x \in IdTasks /\ x.pc = "dial" /\ x.sid = sid /\ x.token = s.token /\ x.left = {1, 2}
    <2>1. PICK both \in SUBSET (Sids \cup Nat) : both = {1, 2}
      <3>1. 1 \in Sids \cup Nat /\ 2 \in Sids \cup Nat
        OBVIOUS
      <3>2. {1, 2} \subseteq Sids \cup Nat
        BY <3>1, Zenon
      <3>3. {1, 2} \in SUBSET (Sids \cup Nat)
        BY <3>2, Zenon
      <3> QED  BY <3>3, Zenon
    <2>2. x = [AtEase EXCEPT !.pc = "dial", !.sid = sid, !.token = s.token, !.left = both]
      BY <1>3, <2>1
    <2>3. x.pc = "dial" /\ x.sid = sid /\ x.token = s.token /\ x.left = both
      BY <2>2 DEF AtEase
    <2>4. x \in IdTasks
      BY <1>4, <2>2 DEF AtEase, IdTasks, Places
    <2> QED  BY <2>1, <2>3, <2>4
  <1>6. thread' = [thread EXCEPT ![t] = x] /\ SoundTask(x)
    BY <1>2, <1>3, <1>4, <1>5 DEF SoundTask
  <1>7. x.pc = "dial" => /\ (thread[t].pc = "dial" /\ x.sid = thread[t].sid) \/ \A a \in Threads : thread[a].sid # x.sid
                         /\ x.left = {2} => wires'[x.sid] \in {x.token, -1}
    BY <1>2, <1>5
  <1>8. wires' \in [Sids -> Int] /\ \A d \in Sids : wires'[d] \in {wires[d], -1}
    BY <1>1 DEF IdIInv, IdTypes
  <1>9. \A d : ~OwesLook(thread[t], d)
    BY <1>1 DEF OwesLook
  <1> QED  BY <1>1, <1>6, <1>7, <1>8, <1>9, GoingOnKeeps

\* The token is registered; the look at it comes after, so that it misses no revocation.
LEMMA DialKeeps == ASSUME IdIInv, NEW t \in Threads, Dial(t) PROVE IdIInv'
  <1>1. PICK task \in IdTasks : task = thread[t]
    BY DEF IdIInv, IdTypes
  <1>2. /\ task.pc = "dial" /\ task.sid \in Sids /\ task.token \in DOMAIN tokens /\ task.token \in Nat
        /\ task.left \in {{1, 2}, {2}} /\ UNCHANGED <<now, users, sessions, trail, tokens, outside>>
    BY <1>1, TokensAre DEF Dial, At, IdIInv, IdTypes, SoundTask
  <1>3. wires \in [Sids -> Int] /\ SoundTask(task)
    BY <1>1 DEF IdIInv, IdTypes
  <1>4. CASE task.left = {1, 2}
    <2>1. Cardinality(task.left) = 2
      <3>1. IsFiniteSet({1}) /\ Cardinality({1}) = 1
        BY FS_Singleton
      <3>2. {1, 2} = {1} \cup {2} /\ 2 \notin {1}
        OBVIOUS
      <3>3. Cardinality({1} \cup {2}) = Cardinality({1}) + 1
        BY <3>1, <3>2, FS_AddElement
      <3> QED  BY <1>4, <3>1, <3>2, <3>3
    <2>2. PICK x : x = [task EXCEPT !.left = {2}]
      OBVIOUS
    <2>3. wires' = [wires EXCEPT ![task.sid] = task.token] /\ thread' = [thread EXCEPT ![t] = x]
      BY <1>1, <2>1, <2>2 DEF Dial, DialOrder, Go
    <2>4. x \in IdTasks /\ x.pc = "dial" /\ x.sid = task.sid /\ x.token = task.token /\ x.left = {2}
      BY <1>2, <2>2 DEF IdTasks
    <2>5. SoundTask(x)
      BY <1>2, <2>4 DEF SoundTask
    <2>6. /\ wires' \in [Sids -> Int] /\ wires'[task.sid] = task.token
          /\ \A d \in Sids : d # task.sid => wires'[d] = wires[d]
      BY <1>2, <1>3, <2>3
    <2>7. \A d \in Sids : \/ wires'[d] \in {wires[d], -1}
                         \/ /\ thread[t].pc = "dial" /\ thread[t].sid = d /\ wires'[d] = thread[t].token
                            /\ x.pc = "dial" /\ x.sid = d
      BY <1>1, <1>2, <2>4, <2>6
    <2>8. x.pc = "dial" => /\ (thread[t].pc = "dial" /\ x.sid = thread[t].sid) \/ \A a \in Threads : thread[a].sid # x.sid
                           /\ x.left = {2} => wires'[x.sid] \in {x.token, -1}
      BY <1>1, <1>2, <2>4, <2>6
    <2>9. \A d \in Sids : OwesLook(thread[t], d) => OwesLook(x, d)
      BY <1>1, <1>2, <2>4 DEF OwesLook
    <2> QED  BY <1>2, <2>3, <2>5, <2>6, <2>7, <2>8, <2>9, GoingOnKeeps
  <1>5. CASE task.left = {2}
    <2>1. Cardinality(task.left) = 1
      BY <1>5, FS_Singleton
    <2>2. wires[task.sid] \in {task.token, -1}
      BY <1>1, <1>2, <1>5 DEF IdIInv, DialsAreApart
    <2>3. PICK minus \in Int : minus = -1
      OBVIOUS
    <2>4. /\ thread' = [thread EXCEPT ![t] = AtEase]
          /\ \/ Principal(task.token) /\ wires' = wires
             \/ wires' = [wires EXCEPT ![task.sid] = minus]
      BY <1>1, <2>1, <2>3 DEF Dial, DialOrder, Done, Go
    <2>5. PICK x : x = AtEase
      OBVIOUS
    <2>6. thread' = [thread EXCEPT ![t] = x] /\ SoundTask(x) /\ x.pc # "dial"
      BY <2>4, <2>5, EaseIsSound
    <2>7. wires' \in [Sids -> Int] /\ \A d \in Sids : wires'[d] = wires[d] \/ (d = task.sid /\ wires'[d] = minus)
      <3>1. PICK d \in Sids : d = task.sid
        BY <1>2
      <3>2. PICK were \in [Sids -> Int] : were = wires
        BY <1>3
      <3>3. [were EXCEPT ![d] = minus] \in [Sids -> Int]
        OBVIOUS
      <3>4. wires' = were \/ wires' = [were EXCEPT ![d] = minus]
        BY <2>4, <3>1, <3>2
      <3>5. wires' \in [Sids -> Int]
        BY <3>3, <3>4
      <3>6. \A e \in Sids : wires'[e] = were[e] \/ (e = d /\ wires'[e] = minus)
        BY <3>4
      <3> QED  BY <3>1, <3>2, <3>5, <3>6
    <2>8. \A d \in Sids : wires'[d] \in {wires[d], -1}
      BY <2>3, <2>7
    <2>9. ASSUME NEW d \in Sids, wires'[d] = wires[d], wires[d] > 0, OwesLook(thread[t], d)
          PROVE  Fine(wires[d])
      <3>1. d = task.sid
        BY <1>1, <1>2, <2>9 DEF OwesLook
      <3>2. wires[d] = task.token
        BY <2>2, <2>9, <3>1
      <3>3. Principal(task.token)
        BY <1>2, <1>3, <2>3, <2>4, <2>9, <3>1
      <3> QED  BY <3>2, <3>3 DEF Fine
    <2> QED  BY <1>2, <2>6, <2>7, <2>8, <2>9, GoingOnKeeps
  <1> QED  BY <1>2, <1>4, <1>5

(* The invariant through every step.                                         *)
LEMMA IdentityStepKeeps == IdIInv /\ [IdentityNext]_identityVars => IdIInv'
  <1> SUFFICES ASSUME IdIInv, [IdentityNext]_identityVars PROVE IdIInv'
    OBVIOUS
  <1>1. ASSUME NEW t \in Threads, NEW kind \in {"create", "change", "password"}, Authorise(t, kind) PROVE IdIInv'
    BY <1>1, AuthoriseKeeps
  <1>2. ASSUME NEW t \in Threads, Write(t) \/ Login(t) \/ Issue(t) PROVE IdIInv'
    BY <1>2, TransactionKeeps, LoginKeeps, IssueKeeps
  <1>3. ASSUME NEW t \in Threads, Adopt(t) \/ Logout(t) PROVE IdIInv'
    BY <1>3, RevokeKeeps
  <1>4. ASSUME NEW t \in Threads, Connect(t) \/ Dial(t) PROVE IdIInv'
    BY <1>4, ConnectKeeps, DialKeeps
  <1>5. ASSUME NEW t \in Threads, Emit(t) \/ Sweep(t) \/ DropOne(t) PROVE IdIInv'
    BY <1>5, EmitKeeps, SweepKeeps, DropOneKeeps
  <1>6. CASE UNCHANGED identityVars
    <2>1. UNCHANGED <<now, users, sessions, trail, tokens, wires, thread, outside>>
      BY <1>6 DEF identityVars
    <2>2. \A k \in DOMAIN tokens : Principal(k) => Principal(k)'
      BY <2>1 DEF Principal, UserOf, Active, Exists
    <2>3. DirectoryTypes' /\ TrailHasAuthority' /\ sessions' \subseteq sessions /\ outside \subseteq outside'
      BY <2>1, SameTrail DEF IdIInv, IdTypes, DirectoryTypes
    <2> QED  BY <2>1, <2>2, <2>3, AccountsMove
  <1> QED  BY <1>1, <1>2, <1>3, <1>4, <1>5, <1>6, OperatorKeeps, DisconnectKeeps, TickKeepsIdentity DEF IdentityNext

(* However requests, logins and the operator's process cross: the trail,     *)
(* replayed, gives the directory as it is, and whoever acts in it had, going *)
(* by the entries before, an active account, and the role of an              *)
(* administrator for what concerns others. The rights a request was let in   *)
(* with are compared again inside its transaction, which is what the         *)
(* argument rests on.                                                        *)
THEOREM TrailTellsAll == IdentitySpec => []TrailHasAuthority
  <1>1. IdIInv => TrailHasAuthority
    BY DEF IdIInv
  <1> QED  BY <1>1, IdentityInitHolds, IdentityStepKeeps, PTL DEF IdentitySpec

(* When no request is under way a registered socket has a session that       *)
(* stands, or one that merely expired, or an account that the operator's     *)
(* process changed: a session that is revoked while its socket connects is   *)
(* found by the look that follows the registration, and one whose socket is  *)
(* registered is found by the sweep that follows the revocation. The         *)
(* argument needs that an earlier token of an account expires no later than  *)
(* the one that pushes it out.                                               *)
THEOREM RevokedLoseSockets == IdentitySpec => []RevokedIsUnplugged
  <1>1. IdIInv => RevokedIsUnplugged
    BY DEF IdIInv, Plugged, OwesLook, Fine, RevokedIsUnplugged
  <1> QED  BY <1>1, IdentityInitHolds, IdentityStepKeeps, PTL DEF IdentitySpec

-------------------------------------------------------------------------------
(* The Sigma engine. What is passed over as told before was told, for any    *)
(* rules, events, feeds, reloads and capacity of what is remembered.         *)

(* Rules as they are loaded, by the place of their file.                     *)
Loads == UNION {[places -> [doc : RuleDocs, enabled : BOOLEAN]] : places \in SUBSET (1..SigmaFiles)}

(* What the engine and its feeds hold.                                       *)
SigmaTypes ==
    /\ ruleFiles \in [1..SigmaFiles -> SigmaDocs \cup {None}]
    /\ rules \in Loads /\ reload \in [Reloaders -> Loads \cup {None}]
    /\ feeds \in [Feeders -> SigmaFeed \cup {None}]
    /\ sigmaSeen \subseteq SigmaKeys /\ swallowed \subseteq SigmaKeys /\ \A m \in matched : m[1] \in SigmaKeys

(* What is marked or passed over has matched, and a severe match has its     *)
(* report.                                                                   *)
SeenWasTold ==
    /\ \A key \in sigmaSeen \cup swallowed : \E m \in matched : m[1] = key
    /\ \A m \in matched : m[2] \in Severe => ToldOf(m[1])

SigmaIInv == SigmaTypes /\ SeenWasTold

(* What is loaded is a rule for each file that holds one.                    *)
LEMMA LoadedIs == ASSUME NEW held \in [1..SigmaFiles -> SigmaDocs \cup {None}] PROVE LoadedFrom(held) \in Loads
  <1> DEFINE places == {m \in DOMAIN held : IsRule(held[m])}
  <1>1. places \in SUBSET (1..SigmaFiles)
    OBVIOUS
  <1>2. \A n \in places : held[n] \in RuleDocs
    BY DEF IsRule, RuleDocs
  <1>3. LoadedFrom(held) \in [places -> [doc : RuleDocs, enabled : BOOLEAN]]
    BY <1>2 DEF LoadedFrom
  <1> HIDE DEF places
  <1> QED  BY <1>1, <1>3 DEF Loads

(* What a feed holds.                                                        *)
LEMMA FeedFieldsAre ==
    ASSUME NEW x \in SigmaFeed
    PROVE  /\ x.event \in ProcessEvents /\ x.told \in {None} \cup SigmaKeys
           /\ DOMAIN x.left \in (SUBSET (1..SigmaFiles)) \ {{}} /\ x.left \in [DOMAIN x.left -> RuleDocs]
           /\ x # None
  BY NoneIsNoFeed DEF SigmaFeed, Lefts

(* A feed that has matches left has a first one.                             *)
LEMMA FirstIs == ASSUME NEW x \in SigmaFeed PROVE First(x) \in DOMAIN x.left /\ x.left[First(x)] \in RuleDocs
  <1>1. DOMAIN x.left \in SUBSET Nat /\ DOMAIN x.left # {}
    <2>1. DOMAIN x.left \in (SUBSET (1..SigmaFiles)) \ {{}}
      BY FeedFieldsAre
    <2>2. \A n \in 1..SigmaFiles : n \in Nat
      BY SigmaAssumption
    <2> QED  BY <2>1, <2>2
  <1>2. \E n \in DOMAIN x.left : \A m \in DOMAIN x.left : n <= m
    BY <1>1, LeastNatural
  <1>3. First(x) \in DOMAIN x.left
    BY <1>2 DEF First, Min
  <1> QED  BY <1>3, FeedFieldsAre

(* After it a feed has fewer, or is over.                                    *)
LEMMA AfterIs == ASSUME NEW x \in SigmaFeed PROVE After(x) \in SigmaFeed \cup {None} /\ (After(x) # None => After(x).told = None)
  <1> DEFINE rest == DOMAIN x.left \ {First(x)}
             less == Restrict(x.left, rest)
  <1>1. CASE rest = {}
    BY <1>1 DEF After
  <1>2. CASE rest # {}
    <2>1. rest \in (SUBSET (1..SigmaFiles)) \ {{}}
      BY <1>2, FeedFieldsAre
    <2>2. less \in [rest -> RuleDocs]
      BY FeedFieldsAre DEF Restrict
    <2>3. less \in Lefts
      BY <2>1, <2>2 DEF Lefts
    <2>4. After(x) = [x EXCEPT !.left = less, !.told = None]
      BY <1>2 DEF After
    <2> HIDE DEF rest, less
    <2> QED  BY <2>3, <2>4 DEF SigmaFeed
  <1> QED  BY <1>1, <1>2

LEMMA SigmaInitHolds == SigmaInit => SigmaIInv
  <1> SUFFICES ASSUME SigmaInit PROVE SigmaIInv
    OBVIOUS
  <1>1. ruleFiles \in [1..SigmaFiles -> SigmaDocs \cup {None}] /\ rules \in Loads
    BY SigmaAssumption, LoadedIs DEF SigmaInit
  <1> QED  BY <1>1 DEF SigmaInit, SigmaIInv, SigmaTypes, SeenWasTold

\* Nobody who was being told is dropped without a report.
LEMMA ToldStays ==
    ASSUME SigmaIInv, SigmaTypes', UNCHANGED <<matched, sigmaSeen, swallowed>>,
           \A key : ToldOf(key) /\ key # None => ToldOf(key)'
    PROVE  SigmaIInv'
  <1>1. ASSUME NEW m \in matched, m[2] \in Severe PROVE ToldOf(m[1])'
    <2>1. m[1] # None /\ ToldOf(m[1])
      BY <1>1, NoneIsNoFeed DEF SigmaIInv, SigmaTypes, SeenWasTold
    <2> QED  BY <2>1
  <1> QED  BY <1>1 DEF SigmaIInv, SeenWasTold

\* A feed goes on: what it was telling is told.
LEMMA FeedGoesOn ==
    ASSUME SigmaTypes, NEW f \in Feeders, NEW x \in SigmaFeed \cup {None}, feeds' = [feeds EXCEPT ![f] = x],
           UNCHANGED <<ruleFiles, rules, reload>>
    PROVE  /\ feeds' \in [Feeders -> SigmaFeed \cup {None}]
           /\ \A g \in Feeders : feeds'[g] = IF g = f THEN x ELSE feeds[g]
           /\ BeingTold' \subseteq BeingTold \cup (IF x = None THEN {} ELSE {x.told})
           /\ \A told \in BeingTold : told \in BeingTold' \/ (feeds[f] # None /\ told = feeds[f].told)
           /\ x # None => x.told \in BeingTold'
  <1>1. feeds' \in [Feeders -> SigmaFeed \cup {None}] /\ \A g \in Feeders : feeds'[g] = IF g = f THEN x ELSE feeds[g]
    BY DEF SigmaTypes
  <1>2. ASSUME NEW told \in BeingTold PROVE told \in BeingTold' \/ (feeds[f] # None /\ told = feeds[f].told)
    <2>1. PICK g \in Feeders : feeds[g] # None /\ told = feeds[g].told
      BY DEF BeingTold
    <2> QED  BY <1>1, <2>1 DEF BeingTold
  <1>3. ASSUME NEW told \in BeingTold' PROVE told \in BeingTold \cup (IF x = None THEN {} ELSE {x.told})
    <2>1. PICK g \in Feeders : feeds'[g] # None /\ told = feeds'[g].told
      BY <1>3 DEF BeingTold
    <2> QED  BY <1>1, <2>1 DEF BeingTold
  <1>4. x # None => x.told \in BeingTold'
    BY <1>1 DEF BeingTold
  <1> QED  BY <1>1, <1>2, <1>3, <1>4

(* One lemma for each step of a feed: it starts with what matched, records a *)
(* match, and reports it.                                                    *)
LEMMA FeedKeeps == ASSUME SigmaIInv, NEW f \in Feeders, NEW event \in ProcessEvents, FeedProcess(f, event) PROVE SigmaIInv'
  <1> DEFINE hits == {n \in DOMAIN rules : rules[n].enabled /\ MatchRule(rules[n].doc, event)}
             left == [n \in hits |-> rules[n].doc]
  <1>1. UNCHANGED <<ruleFiles, rules, reload, sigmaSeen, matched, swallowed, sigmaReports, unreported>> /\ feeds[f] = None
    BY DEF FeedProcess
  <1>2. CASE hits = {}
    <2>1. feeds' = feeds
      BY <1>2 DEF FeedProcess
    <2> QED  BY <1>1, <2>1, ToldStays DEF SigmaIInv, SigmaTypes, ToldOf, BeingTold
  <1>3. CASE hits # {}
    <2>1. PICK places \in SUBSET (1..SigmaFiles) : rules \in [places -> [doc : RuleDocs, enabled : BOOLEAN]]
      BY DEF SigmaIInv, SigmaTypes, Loads
    <2>2. hits \in (SUBSET (1..SigmaFiles)) \ {{}} /\ left \in [hits -> RuleDocs]
      <3>1. DOMAIN rules = places /\ \A n \in places : rules[n].doc \in RuleDocs
        BY <2>1
      <3>2. hits \subseteq places
        BY <3>1
      <3>3. \A n \in hits : rules[n].doc \in RuleDocs
        BY <3>1
      <3>4. left \in [hits -> RuleDocs]
        <4> HIDE DEF hits
        <4> QED  BY <3>3
      <3> HIDE DEF hits, left
      <3> QED  BY <1>3, <3>2, <3>4
    <2>3. left \in Lefts
      <3> HIDE DEF hits, left
      <3> QED  BY <2>2 DEF Lefts
    <2>4. PICK x \in SigmaFeed : x = [event |-> event, left |-> left, told |-> None]
      <3> HIDE DEF hits, left
      <3> QED  BY <2>3 DEF SigmaFeed
    <2>5. feeds' = [feeds EXCEPT ![f] = x]
      BY <1>3, <2>4 DEF FeedProcess
    <2> HIDE DEF hits, left
    <2>6. SigmaTypes
      BY DEF SigmaIInv
    <2>7. /\ feeds' \in [Feeders -> SigmaFeed \cup {None}]
          /\ \A told \in BeingTold : told \in BeingTold' \/ (feeds[f] # None /\ told = feeds[f].told)
      BY <1>1, <2>5, <2>6, FeedGoesOn
    <2>8. SigmaTypes'
      BY <1>1, <2>6, <2>7 DEF SigmaTypes
    <2>9. \A key : ToldOf(key) /\ key # None => ToldOf(key)'
      BY <1>1, <2>7 DEF ToldOf
    <2> QED  BY <1>1, <2>8, <2>9, ToldStays
  <1> QED  BY <1>2, <1>3

LEMMA ReportKeeps == ASSUME SigmaIInv, NEW f \in Feeders, NEW failing \in BOOLEAN, ReportMatch(f, failing) PROVE SigmaIInv'
  <1>1. /\ UNCHANGED <<ruleFiles, rules, reload, sigmaSeen, matched, swallowed>> /\ feeds[f] # None
        /\ sigmaReports' = (IF failing THEN sigmaReports ELSE sigmaReports \cup {feeds[f].told})
        /\ unreported' = (IF failing THEN unreported \cup {feeds[f].told} ELSE unreported)
        /\ feeds' = [feeds EXCEPT ![f] = After(feeds[f])]
    BY DEF ReportMatch, SigmaIInv, SigmaTypes
  <1>2. SigmaTypes /\ feeds[f] \in SigmaFeed
    BY <1>1 DEF SigmaIInv, SigmaTypes
  <1>3. PICK x \in SigmaFeed \cup {None} : x = After(feeds[f])
    BY <1>2, AfterIs
  <1>4. /\ feeds' \in [Feeders -> SigmaFeed \cup {None}]
        /\ \A told \in BeingTold : told \in BeingTold' \/ (feeds[f] # None /\ told = feeds[f].told)
    BY <1>1, <1>2, <1>3, FeedGoesOn
  <1>5. SigmaTypes'
    BY <1>1, <1>2, <1>4 DEF SigmaTypes
  <1>6. \A key : ToldOf(key) /\ key # None => ToldOf(key)'
    BY <1>1, <1>4 DEF ToldOf
  <1> QED  BY <1>1, <1>5, <1>6, ToldStays

LEMMA RecordKeeps == ASSUME SigmaIInv, NEW f \in Feeders, RecordMatch(f) PROVE SigmaIInv'
  <1>1. PICK x \in SigmaFeed : x = feeds[f] /\ x.told = None
    BY DEF RecordMatch, SigmaIInv, SigmaTypes
  <1>2. PICK doc \in RuleDocs : doc = x.left[First(x)]
    BY FirstIs
  <1>3. PICK key \in SigmaKeys : key = SigmaKey(doc, x.event) /\ key # None /\ key[1] = doc.id
    <2>1. x.event \in ProcessEvents
      BY FeedFieldsAre
    <2>2. SigmaKey(doc, x.event) \in SigmaKeys
      BY <2>1 DEF SigmaKeys
    <2>3. SigmaKey(doc, x.event)[1] = doc.id
      BY DEF SigmaKey
    <2> QED  BY <2>2, <2>3, NoneIsNoFeed
  <1>4. UNCHANGED <<ruleFiles, rules, reload, sigmaReports, unreported>> /\ SigmaTypes
    BY DEF RecordMatch, SigmaIInv
  <1>5. PICK after \in SigmaFeed \cup {None} : after = After(x)
    BY AfterIs
  <1>6. CASE key \in sigmaSeen
    <2>1. /\ swallowed' = swallowed \cup {key} /\ feeds' = [feeds EXCEPT ![f] = after]
          /\ UNCHANGED <<sigmaSeen, matched>>
      BY <1>1, <1>2, <1>3, <1>5, <1>6 DEF RecordMatch, SigmaKey, SigmaTypes
    <2>2. /\ feeds' \in [Feeders -> SigmaFeed \cup {None}]
          /\ \A told \in BeingTold : told \in BeingTold' \/ (feeds[f] # None /\ told = feeds[f].told)
      BY <1>4, <2>1, FeedGoesOn
    <2>3. SigmaTypes'
      BY <1>4, <2>1, <2>2 DEF SigmaTypes
    <2>4. \A k : ToldOf(k) /\ k # None => ToldOf(k)'
      BY <1>1, <1>4, <2>2 DEF ToldOf
    <2>5. ASSUME NEW m \in matched, m[2] \in Severe PROVE ToldOf(m[1])'
      <3>1. ToldOf(m[1]) /\ m[1] # None
        BY <2>5, <1>4, NoneIsNoFeed DEF SigmaIInv, SeenWasTold, SigmaTypes
      <3> QED  BY <2>4, <3>1
    <2>6. SeenWasTold'
      BY <1>6, <2>1, <2>5 DEF SigmaIInv, SeenWasTold
    <2> QED  BY <2>3, <2>6 DEF SigmaIInv
  <1>7. CASE key \notin sigmaSeen
    <2>1. PICK next \in SigmaFeed \cup {None} :
             /\ next = (IF doc.level \in Severe THEN [x EXCEPT !.told = key] ELSE after)
             /\ doc.level \in Severe => next # None /\ next.told = key
      <3>1. [x EXCEPT !.told = key] \in SigmaFeed /\ [x EXCEPT !.told = key].told = key
        BY DEF SigmaFeed
      <3> QED  BY <3>1, <1>5, NoneIsNoFeed
    <2>2. /\ feeds' = [feeds EXCEPT ![f] = next] /\ swallowed' = swallowed
          /\ sigmaSeen' \in {{}, sigmaSeen \cup {key}} /\ matched' = matched \cup {<<key, doc.level>>}
      BY <1>1, <1>2, <1>3, <1>5, <1>7, <2>1 DEF RecordMatch, SigmaKey, SigmaTypes, Severe
    <2>3. /\ feeds' \in [Feeders -> SigmaFeed \cup {None}]
          /\ \A told \in BeingTold : told \in BeingTold' \/ (feeds[f] # None /\ told = feeds[f].told)
          /\ next # None => next.told \in BeingTold'
      BY <1>4, <2>2, FeedGoesOn
    <2>4. SigmaTypes'
      BY <1>4, <2>2, <2>3 DEF SigmaTypes
    <2>5. \A k : ToldOf(k) /\ k # None => ToldOf(k)'
      BY <1>1, <1>4, <2>3 DEF ToldOf
    <2>6. ASSUME NEW m \in matched', m[2] \in Severe PROVE ToldOf(m[1])'
      <3>1. CASE m \in matched
        <4>1. ToldOf(m[1]) /\ m[1] # None
          BY <2>6, <3>1, <1>4, NoneIsNoFeed DEF SigmaIInv, SeenWasTold, SigmaTypes
        <4> QED  BY <2>5, <4>1
      <3>2. CASE m = <<key, doc.level>>
        <4>1. m[1] = key /\ doc.level \in Severe
          BY <2>6, <3>2
        <4> QED  BY <2>1, <2>3, <4>1 DEF ToldOf
      <3> QED  BY <2>2, <3>1, <3>2
    <2>7. \A k \in (sigmaSeen \cup swallowed)' : \E m \in matched' : m[1] = k
      <3>1. \A k \in sigmaSeen \cup swallowed : \E m \in matched : m[1] = k
        BY DEF SigmaIInv, SeenWasTold
      <3>2. <<key, doc.level>> \in matched' /\ <<key, doc.level>>[1] = key
        BY <2>2
      <3> QED  BY <2>2, <3>1, <3>2
    <2> QED  BY <2>4, <2>6, <2>7 DEF SigmaIInv, SeenWasTold
  <1> QED  BY <1>6, <1>7

(* Files, rules and reloads do not touch what was told.                      *)
LEMMA RulesMove ==
    ASSUME SigmaIInv, SigmaTypes', UNCHANGED <<feeds, sigmaSeen, matched, swallowed, sigmaReports, unreported>>
    PROVE  SigmaIInv'
  <1>1. \A key : ToldOf(key) => ToldOf(key)'
    BY DEF ToldOf, BeingTold
  <1> QED  BY <1>1, ToldStays

LEMMA ToggleKeeps == ASSUME SigmaIInv, NEW n, ToggleRule(n) PROVE SigmaIInv'
  <1>1. PICK places \in SUBSET (1..SigmaFiles) : rules \in [places -> [doc : RuleDocs, enabled : BOOLEAN]]
    BY DEF SigmaIInv, SigmaTypes, Loads
  <1>2. PICK rule \in [doc : RuleDocs, enabled : BOOLEAN] : rule = [rules[n] EXCEPT !.enabled = ~@]
    BY <1>1 DEF ToggleRule
  <1>3. rules' = [rules EXCEPT ![n] = rule]
    BY <1>2 DEF ToggleRule
  <1>4. rules' \in [places -> [doc : RuleDocs, enabled : BOOLEAN]]
    BY <1>1, <1>3
  <1>5. SigmaTypes'
    BY <1>4 DEF SigmaIInv, SigmaTypes, Loads, ToggleRule
  <1> QED  BY <1>5, RulesMove DEF ToggleRule

LEMMA RulesReloadKeeps == ASSUME SigmaIInv, NEW r \in Reloaders, ReadRules(r) \/ ReplaceRules(r) PROVE SigmaIInv'
  <1>1. CASE ReadRules(r)
    <2>1. LoadedFrom(ruleFiles) \in Loads
      BY LoadedIs DEF SigmaIInv, SigmaTypes
    <2>2. SigmaTypes'
      BY <1>1, <2>1 DEF ReadRules, SigmaIInv, SigmaTypes
    <2> QED  BY <1>1, <2>2, RulesMove DEF ReadRules
  <1>2. CASE ReplaceRules(r)
    <2>1. SigmaTypes'
      BY <1>2 DEF ReplaceRules, SigmaIInv, SigmaTypes
    <2> QED  BY <1>2, <2>1, RulesMove DEF ReplaceRules
  <1> QED  BY <1>1, <1>2

LEMMA SigmaStepKeeps == SigmaIInv /\ [SigmaNext]_sigmaVars => SigmaIInv'
  <1> SUFFICES ASSUME SigmaIInv, [SigmaNext]_sigmaVars PROVE SigmaIInv'
    OBVIOUS
  <1>1. CASE \E n \in 1..SigmaFiles, content \in SigmaDocs \cup {None} : EditFile(n, content)
    <2>1. SigmaTypes'
      BY <1>1 DEF EditFile, SigmaIInv, SigmaTypes
    <2> QED  BY <1>1, <2>1, RulesMove DEF EditFile
  <1>2. CASE \E n \in 1..SigmaFiles : ToggleRule(n)
    BY <1>2, ToggleKeeps
  <1>3. CASE \E r \in Reloaders : ReadRules(r) \/ ReplaceRules(r)
    BY <1>3, RulesReloadKeeps
  <1>4. CASE \E f \in Feeders, event \in ProcessEvents : FeedProcess(f, event)
    BY <1>4, FeedKeeps
  <1>5. CASE \E f \in Feeders : RecordMatch(f) \/ \E failing \in BOOLEAN : ReportMatch(f, failing)
    BY <1>5, RecordKeeps, ReportKeeps
  <1>6. CASE SigmaRestart
    <2>1. ruleFiles' \in [1..SigmaFiles -> SigmaDocs \cup {None}]
      BY <1>6, SigmaAssumption DEF SigmaRestart, SigmaIInv, SigmaTypes
    <2>2. rules' \in Loads
      BY <1>6, <2>1, LoadedIs DEF SigmaRestart
    <2> QED  BY <1>6, <2>1, <2>2 DEF SigmaRestart, SigmaIInv, SigmaTypes, SeenWasTold
  <1>7. CASE UNCHANGED sigmaVars
    <2>1. SigmaTypes'
      BY <1>7 DEF sigmaVars, SigmaIInv, SigmaTypes
    <2> QED  BY <1>7, <2>1, RulesMove DEF sigmaVars
  <1> QED  BY <1>1, <1>2, <1>3, <1>4, <1>5, <1>6, <1>7 DEF SigmaNext

(* A match that the engine passes over as told before was recorded for that  *)
(* rule and that process, and if the rule has ever matched that process at a *)
(* severe level its report was made, has failed, or is being made by another *)
(* feed, however feeds cross between the mark and the report, whatever edits *)
(* and reloads do to the levels, and although the memory is emptied when it  *)
(* is full.                                                                  *)
THEOREM SwallowedIsTold == SigmaSpec => []SwallowedWasTold
  <1>1. SigmaIInv => SwallowedWasTold
    BY DEF SigmaIInv, SeenWasTold, SwallowedWasTold, LevelsOf
  <1> QED  BY <1>1, SigmaInitHolds, SigmaStepKeeps, PTL DEF SigmaSpec

-------------------------------------------------------------------------------
(* The feature store. Rows are in the table once and in their order, for any *)
(* thresholds of flushing, any age, any faults and crashes.                  *)

\* The buffer holds the batch that were recorded last, the table some of those before.
Waiting(batch, upTo) ==
    /\ batch \in Seq([n : Nat, at : Int, origin : {"real", "demo"}]) /\ Len(batch) <= upTo
    /\ \A i \in DOMAIN batch : batch[i].n = upTo - Len(batch) + i

(* Ids follow the order of the rows and are no greater than their numbers.   *)
InPlace(table, upTo) ==
    /\ \A r \in table : r.id \in Nat /\ r.row.n \in Nat /\ 1 <= r.id /\ r.id <= r.row.n /\ r.row.n <= upTo
    /\ \A r, s \in table : (r.id = s.id => r = s) /\ (r.id < s.id => r.row.n < s.row.n)

(* The numbers of rows in a table and in a buffer.                           *)
Numbers(table) == {r.row.n : r \in table}
Waits(batch) == {batch[i].n : i \in DOMAIN batch}

(* The buffer holds the last rows, the table some of those before, and the   *)
(* others are accounted for.                                                 *)
FeatureIInv ==
    /\ now \in Int /\ recorded \in Nat /\ features \cap uncommitted = {}
    /\ Waiting(buffer, recorded) /\ InPlace(Table, recorded - Len(buffer))
    /\ Numbers(Table) \cap (discarded \cup purged) = {} /\ discarded \cap purged = {}
    /\ 1..(recorded - Len(buffer)) = Numbers(Table) \cup discarded \cup purged

(* The numbers in the buffer are the last ones.                              *)
LEMMA WaitsAre ==
    ASSUME NEW upTo \in Nat, NEW batch, Waiting(batch, upTo)
    PROVE  Waits(batch) = (upTo - Len(batch) + 1)..upTo
  <1>1. Len(batch) \in Nat /\ DOMAIN batch = 1..Len(batch)
    BY DEF Waiting
  <1>2. ASSUME NEW n \in (upTo - Len(batch) + 1)..upTo PROVE n \in Waits(batch)
    <2>1. PICK i \in 1..Len(batch) : n = upTo - Len(batch) + i
      <3>1. n - (upTo - Len(batch)) \in 1..Len(batch) /\ n = upTo - Len(batch) + (n - (upTo - Len(batch)))
        BY <1>1
      <3> QED  BY <3>1
    <2>2. batch[i].n = n
      BY <1>1, <2>1 DEF Waiting
    <2> QED  BY <1>1, <2>1, <2>2 DEF Waits
  <1>3. ASSUME NEW n \in Waits(batch) PROVE n \in (upTo - Len(batch) + 1)..upTo
    BY <1>1, <1>3 DEF Waits, Waiting
  <1> QED  BY <1>2, <1>3

(* The largest id in the table is found and is no greater than the number of *)
(* the last row there.                                                       *)
LEMMA TopIs ==
    ASSUME NEW upTo \in Nat, InPlace(Table, upTo)
    PROVE  Top \in Nat /\ Top <= upTo /\ \A r \in Table : r.id <= Top
  <1>1. CASE Table = {}
    BY <1>1 DEF Top
  <1>2. CASE Table # {}
    <2> DEFINE ids == {r.id : r \in Table}
    <2>1. ids \in SUBSET (1..upTo) /\ ids # {} /\ \A k \in ids : k \in Nat /\ k <= upTo
      <3>1. \A r \in Table : r.id \in Nat /\ 1 <= r.id /\ r.id <= upTo
        BY DEF InPlace
      <3> QED  BY <1>2, <3>1
    <2> HIDE DEF ids
    <2>2. \E k \in ids : \A m \in ids : m <= k
      BY <2>1, GreatestBelow
    <2>3. Max(ids) \in ids /\ \A m \in ids : m <= Max(ids)
      <3>1. \E k \in ids : \A m \in ids : k >= m
        BY <2>1, <2>2
      <3>2. Max(ids) \in ids /\ \A m \in ids : Max(ids) >= m
        BY <3>1 DEF Max
      <3> QED  BY <2>1, <3>2
    <2>4. Top = Max(ids)
      BY <1>2 DEF Top, ids
    <2>5. \A r \in Table : r.id \in ids
      BY DEF ids
    <2> QED  BY <2>1, <2>3, <2>4, <2>5
  <1> QED  BY <1>1, <1>2

(* Parts of the table that are apart have no number in common.               *)
LEMMA NumbersApart ==
    ASSUME NEW table, NEW upTo, InPlace(table, upTo), NEW some \in SUBSET table, NEW others \in SUBSET table, some \cap others = {}
    PROVE  Numbers(some) \cap Numbers(others) = {}
  <1>1. ASSUME NEW r \in some, NEW s \in others PROVE r.row.n # s.row.n
    <2>1. r.id \in Nat /\ s.id \in Nat /\ r.id # s.id /\ r.row.n \in Nat /\ s.row.n \in Nat
      BY <1>1 DEF InPlace
    <2>2. (r.id < s.id => r.row.n < s.row.n) /\ (s.id < r.id => s.row.n < r.row.n)
      BY <1>1 DEF InPlace
    <2> QED  BY <2>1, <2>2
  <1> QED  BY <1>1 DEF Numbers

\* The first batch of those that waited go in behind the table.
LEMMA InsertedIs ==
    ASSUME NEW upTo \in Nat, NEW batch, Waiting(batch, upTo), InPlace(Table, upTo - Len(batch)), NEW count \in 0..Len(batch)
    PROVE  /\ InPlace(Table \cup Inserted(batch, count), upTo)
           /\ Numbers(Table \cup Inserted(batch, count)) = Numbers(Table) \cup (upTo - Len(batch) + 1)..(upTo - Len(batch) + count)
           /\ Table \cap Inserted(batch, count) = {}
  <1>1. PICK base \in Nat : base = upTo - Len(batch) /\ Len(batch) \in Nat /\ DOMAIN batch = 1..Len(batch)
    <2>1. Len(batch) \in Nat /\ DOMAIN batch = 1..Len(batch) /\ Len(batch) <= upTo
      BY DEF Waiting
    <2>2. upTo - Len(batch) \in Nat
      BY <2>1
    <2> QED  BY <2>1, <2>2
  <1>2. PICK top \in Nat : top = Top /\ top <= base /\ \A r \in Table : r.id <= top
    BY <1>1, TopIs
  <1>3. \A i \in 1..count : batch[i].n = base + i
    BY <1>1 DEF Waiting
  <1>4. PICK fresh : fresh = Inserted(batch, count) /\ fresh = {[id |-> top + i, row |-> batch[i]] : i \in 1..count}
    BY <1>2 DEF Inserted
  <1>5. \A s \in fresh : \E i \in 1..count : s.id = top + i /\ s.row = batch[i] /\ s.row.n = base + i /\ s = [id |-> top + i, row |-> batch[i]]
    <2>1. ASSUME NEW s \in fresh
          PROVE  \E i \in 1..count : s.id = top + i /\ s.row = batch[i] /\ s.row.n = base + i /\ s = [id |-> top + i, row |-> batch[i]]
      <3>1. PICK i \in 1..count : s = [id |-> top + i, row |-> batch[i]]
        BY <1>4, <2>1
      <3>2. s.id = top + i /\ s.row = batch[i] /\ batch[i].n = base + i
        BY <1>3, <3>1
      <3> QED  BY <3>1, <3>2
    <2> QED  BY <2>1
  <1>6. \A r \in Table : r.id \in Nat /\ r.row.n \in Nat /\ 1 <= r.id /\ r.id <= r.row.n /\ r.row.n <= base
    BY <1>1 DEF InPlace
  <1>7. \A s \in fresh : /\ s.id \in Nat /\ s.row.n \in Nat /\ 1 <= s.id /\ s.id <= s.row.n /\ s.row.n <= upTo
                         /\ s.id > top /\ s.row.n > base
    BY <1>1, <1>2, <1>5
  <1>8. ASSUME NEW r \in fresh, NEW s \in fresh PROVE (r.id = s.id => r = s) /\ (r.id < s.id => r.row.n < s.row.n)
    <2>1. PICK i \in 1..count : r.id = top + i /\ r.row.n = base + i /\ r = [id |-> top + i, row |-> batch[i]]
      BY <1>5
    <2>2. PICK j \in 1..count : s.id = top + j /\ s.row.n = base + j /\ s = [id |-> top + j, row |-> batch[j]]
      BY <1>5
    <2>3. r.id = s.id => i = j
      BY <2>1, <2>2
    <2> QED  BY <2>1, <2>2, <2>3
  <1>9. ASSUME NEW r \in Table, NEW s \in fresh PROVE r.id < s.id /\ r.row.n < s.row.n
    BY <1>2, <1>6, <1>7
  <1>10. \A r, s \in Table : (r.id = s.id => r = s) /\ (r.id < s.id => r.row.n < s.row.n)
    BY DEF InPlace
  <1>11. \A r, s \in Table \cup fresh : (r.id = s.id => r = s) /\ (r.id < s.id => r.row.n < s.row.n)
    <2>1. \A r \in Table, s \in fresh : ~(s.id < r.id) /\ r.id # s.id
      BY <1>6, <1>7, <1>9
    <2> QED  BY <1>8, <1>9, <1>10, <2>1
  <1>12. \A r \in Table \cup fresh : r.id \in Nat /\ r.row.n \in Nat /\ 1 <= r.id /\ r.id <= r.row.n /\ r.row.n <= upTo
    BY <1>1, <1>6, <1>7
  <1>13. Numbers(fresh) = (base + 1)..(base + count)
    <2>1. ASSUME NEW n \in (base + 1)..(base + count) PROVE n \in Numbers(fresh)
      <3>1. n - base \in 1..count
        OBVIOUS
      <3>2. [id |-> top + (n - base), row |-> batch[n - base]] \in fresh /\ batch[n - base].n = base + (n - base)
        BY <1>3, <1>4, <3>1
      <3>3. base + (n - base) = n
        OBVIOUS
      <3> QED  BY <3>2, <3>3 DEF Numbers
    <2>2. ASSUME NEW n \in Numbers(fresh) PROVE n \in (base + 1)..(base + count)
      BY <1>5, <2>2 DEF Numbers
    <2> QED  BY <2>1, <2>2
  <1>14. Numbers(Table \cup fresh) = Numbers(Table) \cup Numbers(fresh)
    BY DEF Numbers
  <1>15. Table \cap fresh = {}
    <2>1. \A r \in Table, s \in fresh : r.id # s.id
      BY <1>6, <1>7, <1>9
    <2> QED  BY <2>1
  <1> QED  BY <1>1, <1>4, <1>11, <1>12, <1>13, <1>14, <1>15 DEF InPlace

(* A flush commits what waited, or ends in the middle and drops the rest.    *)
LEMMA FlushKeeps ==
    ASSUME NEW batch, FlushRows(batch), recorded' \in Nat, now' \in Int, Waiting(batch, recorded'), purged' = purged,
           InPlace(Table, recorded' - Len(batch)), features \cap uncommitted = {},
           Numbers(Table) \cap (discarded \cup purged) = {}, discarded \cap purged = {},
           1..(recorded' - Len(batch)) = Numbers(Table) \cup discarded \cup purged
    PROVE  FeatureIInv'
  <1>1. PICK base \in Nat : base = recorded' - Len(batch) /\ Len(batch) \in Nat /\ DOMAIN batch = 1..Len(batch) /\ recorded' = base + Len(batch)
    <2>1. Len(batch) \in Nat /\ DOMAIN batch = 1..Len(batch) /\ Len(batch) <= recorded'
      BY DEF Waiting
    <2>2. recorded' - Len(batch) \in Nat /\ recorded' = (recorded' - Len(batch)) + Len(batch)
      BY <2>1
    <2> QED  BY <2>1, <2>2
  <1>2. Waiting(<<>>, recorded') /\ 1..base = Numbers(Table) \cup discarded \cup purged
    BY <1>1 DEF Waiting
  <1>3. buffer' = <<>> /\ recorded' - Len(buffer') = recorded'
    BY DEF FlushRows, Commit, Fault, BufferAfterFault
  <1>4. CASE Commit(batch)
    <2>1. PICK all : all = Table \cup Inserted(batch, Len(batch)) /\ Table' = all /\ discarded' = discarded
      BY <1>4 DEF Commit, Table
    <2>2. InPlace(all, recorded') /\ Numbers(all) = Numbers(Table) \cup (base + 1)..(base + Len(batch))
      <3>1. Len(batch) \in 0..Len(batch)
        BY <1>1
      <3> QED  BY <1>1, <2>1, <3>1, InsertedIs
    <2>3. Numbers(Table)' = Numbers(all)
      BY <2>1 DEF Numbers
    <2>4. 1..recorded' = Numbers(all) \cup discarded \cup purged
      BY <1>1, <2>2
    <2>5. Numbers(all) \cap (discarded \cup purged) = {}
      <3>1. \A n \in discarded \cup purged : n \in 1..base
        BY <1>2
      <3> QED  BY <2>2, <3>1
    <2>6. features' \cap uncommitted' = {}
      BY <1>4 DEF Commit
    <2> QED  BY <1>2, <1>3, <2>1, <2>2, <2>3, <2>4, <2>5, <2>6 DEF FeatureIInv
  <1>5. CASE Fault(batch)
    <2>1. PICK written \in 0..Len(batch) :
             /\ uncommitted' = uncommitted \cup Inserted(batch, written)
             /\ discarded' = discarded \cup {batch[i].n : i \in (written + 1)..Len(batch)}
      BY <1>5 DEF Fault
    <2>2. PICK all : all = Table \cup Inserted(batch, written) /\ Table' = all
      BY <1>5, <2>1 DEF Fault, Table
    <2>3. /\ InPlace(all, recorded') /\ Numbers(all) = Numbers(Table) \cup (base + 1)..(base + written)
          /\ Table \cap Inserted(batch, written) = {}
      BY <1>1, <2>2, InsertedIs
    <2>4. {batch[i].n : i \in (written + 1)..Len(batch)} = (base + written + 1)..(base + Len(batch))
      <3>1. \A i \in (written + 1)..Len(batch) : batch[i].n = base + i
        BY <1>1 DEF Waiting
      <3>2. ASSUME NEW n \in (base + written + 1)..(base + Len(batch)) PROVE n \in {batch[i].n : i \in (written + 1)..Len(batch)}
        <4>1. n - base \in (written + 1)..Len(batch) /\ base + (n - base) = n
          <5>1. PICK size \in Nat : size = Len(batch) /\ written \in 0..size /\ n \in (base + written + 1)..(base + size)
            BY <1>1
          <5>2. n - base \in (written + 1)..size /\ base + (n - base) = n
            BY <5>1
          <5> QED  BY <5>1, <5>2
        <4> QED  BY <3>1, <4>1
      <3>3. ASSUME NEW i \in (written + 1)..Len(batch) PROVE batch[i].n \in (base + written + 1)..(base + Len(batch))
        BY <1>1, <3>1
      <3> QED  BY <3>2, <3>3
    <2>5. Numbers(Table)' = Numbers(all)
      BY <2>2 DEF Numbers
    <2>6. 1..recorded' = Numbers(all) \cup discarded' \cup purged
      <3>1. (base + 1)..(base + Len(batch)) = (base + 1)..(base + written) \cup (base + written + 1)..(base + Len(batch))
        <4>1. PICK size \in Nat : size = Len(batch) /\ written \in 0..size
          BY <1>1
        <4>2. (base + 1)..(base + size) = (base + 1)..(base + written) \cup (base + written + 1)..(base + size)
          BY <4>1
        <4> QED  BY <4>1, <4>2
      <3>2. 1..recorded' = 1..base \cup (base + 1)..(base + Len(batch))
        BY <1>1
      <3> QED  BY <1>1, <2>1, <2>3, <2>4, <3>1, <3>2
    <2>7. Numbers(all) \cap (discarded' \cup purged) = {} /\ discarded' \cap purged = {}
      <3>1. \A n \in discarded \cup purged \cup Numbers(Table) : n \in 1..base
        BY <1>2
      <3>2. \A n \in discarded' : n \in discarded \/ n \in (base + written + 1)..(base + Len(batch))
        BY <2>1, <2>4
      <3> QED  BY <1>1, <2>3, <3>1, <3>2
    <2>8. features' \cap uncommitted' = {}
      BY <1>5, <2>1, <2>3 DEF Fault, Table
    <2> QED  BY <1>2, <1>3, <2>2, <2>3, <2>5, <2>6, <2>7, <2>8 DEF FeatureIInv
  <1> QED  BY <1>4, <1>5 DEF FlushRows

(* A row is recorded, and may be due to be flushed with the others.          *)
LEMMA RecordFeatureKeeps == ASSUME FeatureIInv, NEW origin \in {"real", "demo"}, RecordFeature(origin) PROVE FeatureIInv'
  <1>1. PICK next \in Nat : next = recorded + 1 /\ recorded' = next
    BY DEF RecordFeature, FeatureIInv
  <1>2. PICK row \in [n : Nat, at : Int, origin : {"real", "demo"}] : row = [n |-> next, at |-> now, origin |-> origin]
    BY DEF FeatureIInv
  <1>3. PICK batch : batch = Append(buffer, row)
    OBVIOUS
  <1>4. /\ Len(batch) = Len(buffer) + 1 /\ Len(buffer) \in Nat
        /\ batch \in Seq([n : Nat, at : Int, origin : {"real", "demo"}])
        /\ \A i \in 1..(Len(buffer) + 1) : batch[i] = IF i <= Len(buffer) THEN buffer[i] ELSE row
    BY <1>2, <1>3 DEF FeatureIInv, Waiting
  <1>5. Waiting(batch, next)
    <2>1. ASSUME NEW i \in DOMAIN batch PROVE batch[i].n = next - Len(batch) + i
      <3>1. i \in 1..(Len(buffer) + 1)
        BY <1>4
      <3>2. CASE i <= Len(buffer)
        <4>1. i \in DOMAIN buffer /\ batch[i] = buffer[i]
          <5>1. DOMAIN buffer = 1..Len(buffer)
            BY DEF FeatureIInv, Waiting
          <5> QED  BY <1>4, <3>1, <3>2, <5>1
        <4>2. buffer[i].n = recorded - Len(buffer) + i
          BY <4>1 DEF FeatureIInv, Waiting
        <4> QED  BY <1>1, <1>4, <3>1, <4>1, <4>2 DEF FeatureIInv
      <3>3. CASE i > Len(buffer)
        <4>1. i = Len(buffer) + 1 /\ batch[i] = row
          BY <1>4, <3>1, <3>3
        <4> QED  BY <1>1, <1>2, <1>4, <4>1 DEF FeatureIInv
      <3> QED  BY <1>4, <3>1, <3>2, <3>3
    <2> QED  BY <1>1, <1>4, <2>1 DEF FeatureIInv, Waiting
  <1>6. next - Len(batch) = recorded - Len(buffer)
    BY <1>1, <1>4 DEF FeatureIInv
  <1>7. /\ now' = now /\ purged' = purged
        /\ \/ FlushRows(batch)
           \/ buffer' = batch /\ UNCHANGED <<uncommitted, features, lastFlush, discarded, flushFaults>>
    BY <1>1, <1>2, <1>3 DEF RecordFeature
  <1>8. CASE FlushRows(batch)
    <2>1. /\ recorded' \in Nat /\ now' \in Int /\ Waiting(batch, recorded') /\ InPlace(Table, recorded' - Len(batch))
          /\ 1..(recorded' - Len(batch)) = Numbers(Table) \cup discarded \cup purged
          /\ Numbers(Table) \cap (discarded \cup purged) = {} /\ discarded \cap purged = {}
          /\ features \cap uncommitted = {}
      BY <1>1, <1>5, <1>6, <1>7 DEF FeatureIInv
    <2> QED  BY <1>7, <1>8, <2>1, FlushKeeps
  <1>9. CASE buffer' = batch /\ UNCHANGED <<uncommitted, features, lastFlush, discarded, flushFaults>>
    BY <1>1, <1>5, <1>6, <1>7, <1>9 DEF FeatureIInv, Table, Numbers
  <1> QED  BY <1>7, <1>8, <1>9

(* Old rows go, and an open transaction is committed with that.              *)
LEMMA PurgeFeaturesKeeps == ASSUME FeatureIInv, PurgeFeatures PROVE FeatureIInv'
  <1>1. PICK kept : kept = InKeeping(Table) /\ kept \subseteq Table
    BY DEF InKeeping
  <1>2. /\ Table' = kept /\ purged' = purged \cup Numbers(Table \ kept)
        /\ UNCHANGED <<now, buffer, recorded, discarded>>
    BY <1>1 DEF PurgeFeatures, Table, Numbers
  <1>3. InPlace(kept, recorded - Len(buffer))
    BY <1>1 DEF FeatureIInv, InPlace
  <1>4. Numbers(Table) = Numbers(kept) \cup Numbers(Table \ kept)
    BY <1>1 DEF Numbers
  <1>5. Numbers(kept) \cap Numbers(Table \ kept) = {}
    BY <1>1, NumbersApart DEF FeatureIInv
  <1>6. Numbers(Table)' = Numbers(kept)
    BY <1>2 DEF Numbers
  <1>7. 1..(recorded - Len(buffer)) = Numbers(kept) \cup discarded \cup purged'
    BY <1>2, <1>4 DEF FeatureIInv
  <1>8. Numbers(kept) \cap (discarded \cup purged') = {} /\ discarded \cap purged' = {}
    BY <1>2, <1>4, <1>5 DEF FeatureIInv
  <1>9. features' \cap uncommitted' = {}
    BY DEF PurgeFeatures
  <1> QED  BY <1>2, <1>3, <1>6, <1>7, <1>8, <1>9 DEF FeatureIInv

(* The process dies with what it had not committed.                          *)
LEMMA FeatureCrashKeeps == ASSUME FeatureIInv, FeatureCrash PROVE FeatureIInv'
  <1>1. Table' = features /\ UNCHANGED <<now, recorded, purged>> /\ buffer' = <<>> /\ features \subseteq Table
        /\ discarded' = discarded \cup Waits(buffer) \cup Numbers(uncommitted)
    BY DEF FeatureCrash, Table, Waits, Numbers
  <1>2. PICK base \in Nat : base = recorded - Len(buffer) /\ Len(buffer) \in Nat /\ recorded = base + Len(buffer) /\ recorded \in Nat
    <2>1. Len(buffer) \in Nat /\ Len(buffer) <= recorded /\ recorded \in Nat
      BY DEF FeatureIInv, Waiting
    <2>2. recorded - Len(buffer) \in Nat /\ recorded = (recorded - Len(buffer)) + Len(buffer)
      BY <2>1
    <2> QED  BY <2>1, <2>2
  <1>3. Waits(buffer) = (base + 1)..recorded
    BY <1>2, WaitsAre DEF FeatureIInv
  <1>4. InPlace(features, recorded)
    BY <1>1, <1>2 DEF FeatureIInv, InPlace
  <1>5. Numbers(Table) = Numbers(features) \cup Numbers(uncommitted) /\ Numbers(Table)' = Numbers(features)
    BY <1>1 DEF Numbers, Table
  <1>6. Numbers(features) \cap Numbers(uncommitted) = {}
    BY NumbersApart DEF FeatureIInv, Table
  <1>7. 1..base = Numbers(Table) \cup discarded \cup purged
    BY <1>2 DEF FeatureIInv
  <1>8. 1..recorded = Numbers(features) \cup discarded' \cup purged
    <2>1. 1..recorded = 1..base \cup (base + 1)..recorded
      BY <1>2
    <2> QED  BY <1>1, <1>3, <1>5, <1>7, <2>1
  <1>9. Numbers(features) \cap (discarded' \cup purged) = {} /\ discarded' \cap purged = {}
    <2>1. \A n \in (base + 1)..recorded : n \notin 1..base
      BY <1>2
    <2> QED  BY <1>1, <1>3, <1>5, <1>6, <1>7, <2>1 DEF FeatureIInv
  <1>10. Waiting(<<>>, recorded) /\ recorded - Len(<<>>) = recorded
    BY <1>2 DEF Waiting
  <1>11. features' \cap uncommitted' = {}
    BY DEF FeatureCrash
  <1> QED  BY <1>1, <1>4, <1>5, <1>8, <1>9, <1>10, <1>11 DEF FeatureIInv

LEMMA FeatureInitHolds == FeatureInit => FeatureIInv
  BY DEF FeatureInit, FeatureIInv, Waiting, InPlace, Table, Numbers

LEMMA FeatureStepKeeps == FeatureIInv /\ [FeatureNext]_featureVars => FeatureIInv'
  <1> SUFFICES ASSUME FeatureIInv, [FeatureNext]_featureVars PROVE FeatureIInv'
    OBVIOUS
  <1>1. CASE \E origin \in {"real", "demo"} : RecordFeature(origin)
    BY <1>1, RecordFeatureKeeps
  <1>2. CASE FlushNow
    <2>1. recorded' = recorded /\ purged' = purged /\ now' = now
      BY <1>2 DEF FlushNow
    <2>2. CASE FlushRows(buffer)
      <3>1. /\ recorded' \in Nat /\ now' \in Int /\ Waiting(buffer, recorded') /\ InPlace(Table, recorded' - Len(buffer))
            /\ 1..(recorded' - Len(buffer)) = Numbers(Table) \cup discarded \cup purged
            /\ Numbers(Table) \cap (discarded \cup purged) = {} /\ discarded \cap purged = {}
            /\ features \cap uncommitted = {}
        BY <2>1 DEF FeatureIInv
      <3> QED  BY <2>1, <2>2, <3>1, FlushKeeps
    <2>3. CASE UNCHANGED <<buffer, uncommitted, features, discarded, flushFaults>>
      BY <2>1, <2>3 DEF FeatureIInv, Table, Numbers
    <2> QED  BY <1>2, <2>2, <2>3 DEF FlushNow
  <1>3. CASE PurgeFeatures
    BY <1>3, PurgeFeaturesKeeps
  <1>4. CASE FeatureCrash
    BY <1>4, FeatureCrashKeeps
  <1>5. CASE FeatureTick
    BY <1>5 DEF FeatureTick, FeatureIInv, Table, Numbers
  <1>6. CASE UNCHANGED featureVars
    BY <1>6 DEF featureVars, FeatureIInv, Table, Numbers
  <1> QED  BY <1>1, <1>2, <1>3, <1>4, <1>5, <1>6 DEF FeatureNext

(* Every row that was recorded is in the table once, in the place its number *)
(* gives it although ids are given again, or waits in the buffer, or is      *)
(* accounted for: lost to an error that was logged or to a crash, or deleted *)
(* for its age. However flushes fail half-way and whoever commits what they  *)
(* left.                                                                     *)
THEOREM EveryRowIsOnce == FeatureSpec => []RowsAreOnce
  <1>1. FeatureIInv => RowsAreOnce
    <2> SUFFICES ASSUME FeatureIInv PROVE RowsAreOnce
      OBVIOUS
    <2>1. PICK base \in Nat : /\ base = recorded - Len(buffer) /\ Len(buffer) \in Nat /\ recorded = base + Len(buffer)
                              /\ recorded \in Nat /\ DOMAIN buffer = 1..Len(buffer)
      <3>1. Len(buffer) \in Nat /\ Len(buffer) <= recorded /\ recorded \in Nat /\ DOMAIN buffer = 1..Len(buffer)
        BY DEF FeatureIInv, Waiting
      <3>2. recorded - Len(buffer) \in Nat /\ recorded = (recorded - Len(buffer)) + Len(buffer)
        BY <3>1
      <3> QED  BY <3>1, <3>2
    <2>2. Waits(buffer) = (base + 1)..recorded
      BY <2>1, WaitsAre DEF FeatureIInv
    <2>3. \A r, s \in Table : (r.id = s.id => r = s) /\ (r.id < s.id => r.row.n < s.row.n)
      BY DEF FeatureIInv, InPlace
    <2>4. \A i, j \in DOMAIN buffer : i < j => buffer[i].n < buffer[j].n
      <3>1. \A i \in 1..Len(buffer) : buffer[i].n = base + i
        BY <2>1 DEF FeatureIInv, Waiting
      <3> QED  BY <2>1, <3>1
    <2>5. 1..base = Numbers(Table) \cup discarded \cup purged
      BY <2>1 DEF FeatureIInv
    <2>6. \A n \in 1..base, m \in (base + 1)..recorded : n < m
      BY <2>1
    <2>7. 1..recorded = Numbers(Table) \cup Waits(buffer) \cup discarded \cup purged
      <3>1. 1..recorded = 1..base \cup (base + 1)..recorded
        BY <2>1
      <3> QED  BY <2>2, <2>5, <3>1
    <2>8. \A n \in Numbers(Table), m \in Waits(buffer) : n < m
      BY <2>2, <2>5, <2>6
    <2>9. (Numbers(Table) \cup Waits(buffer)) \cap (discarded \cup purged) = {} /\ discarded \cap purged = {}
      <3>1. \A n \in discarded \cup purged : n \in 1..base
        BY <2>5
      <3>2. \A n \in 1..base : n \notin (base + 1)..recorded
        OBVIOUS
      <3> QED  BY <2>2, <3>1, <3>2 DEF FeatureIInv
    <2> QED  BY <2>3, <2>4, <2>7, <2>8, <2>9 DEF RowsAreOnce, Numbers, Waits
  <1> QED  BY <1>1, FeatureInitHolds, FeatureStepKeeps, PTL DEF FeatureSpec
===============================================================================
