------------------------ MODULE AlertArchive_proofs -------------------------
(* What holds of the alert store and its archive for any number of alerts and  *)
(* readers, any retention, and any number of failing deletions and crashes.    *)
EXTENDS AlertArchive, TLAPS, WellFoundedInduction

-----------------------------------------------------------------------------
(* The id a restart goes on from.                                              *)

LEMMA LeastNatural == \A T \in SUBSET Nat : T # {} => \E x \in T : \A y \in T : x <= y
<1> SUFFICES ASSUME NEW T \in SUBSET Nat, T # {} PROVE \E x \in T : \A y \in T : x <= y
  OBVIOUS
<1>1. PICK x \in T : \A y \in T : ~(<<y, x>> \in OpToRel(<, Nat))
  BY NatLessThanWellFounded, WFMin, Zenon
<1>2. \A y \in T : ~(y < x)
  <2>1. SUFFICES ASSUME NEW y \in T, y < x PROVE FALSE
    OBVIOUS
  <2>2. <<y, x>> \in OpToRel(<, Nat)
    BY <2>1 DEF OpToRel
  <2> QED  BY <1>1, <2>2
<1> QED  BY <1>2

(* MAX(id) of a table that is not empty is one of its ids.                     *)
LEMMA HighestIsMax ==
    ASSUME NEW ids \in SUBSET Ids
    PROVE  /\ Highest(ids) \in 0..MaxId
           /\ \A i \in ids : i <= Highest(ids)
<1> USE BoundAssumption DEF Ids
<1>1. CASE ids = {}
  BY <1>1 DEF Highest
<1>2. CASE ids # {}
  <2> DEFINE T == {n \in Nat : \A i \in ids : i <= n}
  <2>1. MaxId \in T
    OBVIOUS
  <2>2. PICK n \in T : \A m \in T : n <= m
    BY <2>1, LeastNatural
  <2>3. n \in ids
    <3>1. SUFFICES ASSUME n \notin ids PROVE FALSE
      OBVIOUS
    <3>2. n > 0
      <4>1. PICK i \in ids : TRUE
        BY <1>2
      <4> QED  BY <4>1, <2>2
    <3>3. n - 1 \in T
      BY <3>1, <3>2, <2>2
    <3> QED  BY <2>2, <3>2, <3>3
  <2>4. \E i \in ids : \A j \in ids : j <= i
    BY <2>2, <2>3
  <2>5. Highest(ids) \in ids /\ \A j \in ids : j <= Highest(ids)
    BY <1>2, <2>4 DEF Highest
  <2>6. Highest(ids) \in 1..MaxId
    BY <2>5
  <2> QED  BY <2>5, <2>6
<1> QED  BY <1>1, <1>2

-----------------------------------------------------------------------------
(* The inductive invariant.  A query that has read the live table misses       *)
(* nothing because an id it did not find there does not come back to it, which *)
(* needs that no alert is saved under an id it was asked about.                *)
QueryIsSound ==
    \A r \in Readers : query[r].stage = "begun" =>
        /\ \A i \in query[r].all : i <= counter /\ (live[i] # None => i \in query[r].found)
        /\ \A w \in Waiting : drawn[w].id \notin query[r].all

(* A live row has the verdict last given.  A row in both tables is the same    *)
(* alert, and the copy is not older than the alert; no alert is of the future. *)
RowsAreTrue ==
    /\ \A w \in Waiting : drawn[w].at <= now
    /\ \A i \in Present(live) : live[i].verdict = given[i] /\ live[i].at <= now
    /\ \A i \in Present(arch) : arch[i].at <= arch[i].filed
    /\ \A i \in Present(live) \cap Present(arch) : live[i].at = arch[i].at

(* While no deletion failed, a row is in both tables only during the move that *)
(* has copied it, and every copy has the verdict last given.                   *)
CopiesAreTrue ==
    faults = 0 =>
        /\ \A i \in Present(arch) : arch[i].verdict = given[i]
        /\ \A i \in Present(live) \cap Present(arch) : ~Unlocked /\ live[i].at < Cutoff(mover)

(* With moves of one kind, a copy that an earlier move has left and a later    *)
(* verdict has overtaken is refreshed by the move that deletes the row.        *)
OneKind == ~({"retention", "cutover"} \subseteq Moves)
LeftCopiesAreReplaced ==
    OneKind /\ restarts = 0 =>
        /\ \A i \in Present(arch) \ Present(live) : arch[i].verdict = given[i]
        /\ "retention" \in Moves =>
               \A i \in Present(live) \cap Present(arch) : live[i].at < now - LiveDays
        /\ ~Unlocked => \A i \in Present(live) \cap Present(arch) :
               live[i].at < Cutoff(mover) => arch[i].verdict = given[i]

(* Whatever a cutover is about to delete it has copied.                        *)
CutoverHasCopied ==
    ~Unlocked /\ mover.kind # "retention" =>
        \A i \in Present(live) : live[i].at < mover.cutoff => i \in Present(arch)

IInv == TypeOK /\ FreshIds /\ ReaderMissesNothing /\ QueryIsSound
        /\ RowsAreTrue /\ CopiesAreTrue /\ LeftCopiesAreReplaced /\ CutoverHasCopied

LEMMA InitHolds == Init => IInv
  BY BoundAssumption, VerdictAssumption, NoneAssumption
     DEF Init, IInv, TypeOK, FreshIds, Waiting, ReaderMissesNothing, QueryIsSound, RowsAreTrue,
         CopiesAreTrue, LeftCopiesAreReplaced, CutoverHasCopied, Unlocked, Idle, NoQuery, Present, Stored, Ids

LEMMA RowIsNotNone ==
    /\ \A row \in Rows \cup Filed : row # None
    /\ \A at \in Nat, verdict \in Verdicts : [at |-> at, verdict |-> verdict] # None
  BY NoneAssumption DEF Rows

LEMMA RowJudged ==
    ASSUME NEW row \in Rows, NEW verdict
    PROVE  [row EXCEPT !.verdict = verdict] = [at |-> row.at, verdict |-> verdict]
  BY DEF Rows

LEMMA CopyIsFiled ==
    ASSUME NEW row \in Rows, NEW at \in Nat
    PROVE  [at |-> row.at, verdict |-> row.verdict, filed |-> at] \in Filed
  BY DEF Rows, Filed

LEMMA CutoffIsNumber == TypeOK => Cutoff(mover) \in Int
  BY BoundAssumption, DayAssumption DEF TypeOK, Cutoff

(* The alert of a writer that waits has an id nothing is stored under.         *)
LEMMA WaitingIsFresh ==
    ASSUME IInv, NEW w \in Writers, drawn[w] # None
    PROVE  /\ drawn[w].id \in Ids /\ drawn[w].id \notin Stored /\ drawn[w].id <= counter
           /\ drawn[w].at \in 0..now
  BY BoundAssumption DEF IInv, TypeOK, FreshIds, Waiting, Draws, RowsAreTrue

LEMMA DrawKeeps == ASSUME IInv, NEW w \in Writers, Draw(w) PROVE IInv'
<1> DEFINE new == counter + 1
           draw == [id |-> new, at |-> now]
<1>1. /\ new \in Ids /\ new \notin Stored /\ counter' = new /\ now \in Nat
      /\ UNCHANGED <<live, arch, mover, query, now, faults, restarts, given>>
  BY BoundAssumption DEF IInv, TypeOK, FreshIds, Waiting, Draw, Ids
<1>2. draw \in Draws /\ draw # None /\ draw.id = new /\ draw.at = now
  BY <1>1, NoneAssumption DEF Draws
<1>3. drawn' = [drawn EXCEPT ![w] = draw]
  BY DEF Draw
<1> HIDE DEF draw
<1>4. /\ drawn'[w] = draw /\ \A v \in Writers \ {w} : drawn'[v] = drawn[v]
      /\ drawn' \in [Writers -> Draws \cup {None}]
  BY <1>2, <1>3 DEF IInv, TypeOK
<1>5. Present(live)' = Present(live) /\ Present(arch)' = Present(arch) /\ counter \in Nat
  BY <1>1, BoundAssumption DEF Present, IInv, TypeOK
<1> HIDE DEF new
<1>6. counter' \in 0..MaxId
  BY <1>1 DEF Ids
<1>7. TypeOK'
  BY <1>1, <1>4, <1>6 DEF IInv, TypeOK
<1>8. new > counter
  BY <1>5 DEF new
<1>9. FreshIds'
  <2>1. \A v \in Writers \ {w} : drawn[v] # None =>
            drawn[v].id <= counter /\ drawn[v].id \notin Stored /\ drawn[v].id \in Nat /\ drawn[v].id # new
    <3>1. \A v \in Writers : drawn[v] # None => drawn[v].id \in Nat
      BY WaitingIsFresh DEF Ids
    <3> QED  BY <1>1, <1>5, <1>8, <3>1, WaitingIsFresh DEF Ids
  <2>2. \A i \in Stored' : i <= counter'
    <3>1. \A i \in Stored : i <= counter /\ i \in Nat
      BY DEF IInv, FreshIds, Stored, Present, Ids
    <3> QED  BY <1>1, <1>5, <1>8, <3>1 DEF Stored, Ids
  <2>3. \A v \in Waiting' : drawn'[v].id <= counter' /\ drawn'[v].id \notin Stored'
    <3> SUFFICES ASSUME NEW v \in Writers, drawn'[v] # None
                 PROVE  drawn'[v].id <= counter' /\ drawn'[v].id \notin Stored'
      BY DEF Waiting
    <3>1. CASE v = w
      BY <1>1, <1>2, <1>4, <1>5, <3>1 DEF Stored, Ids
    <3>2. CASE v # w
      BY <1>1, <1>4, <1>5, <1>8, <2>1, <3>2 DEF Stored, Ids
    <3> QED  BY <3>1, <3>2
  <2>4. \A u, v \in Waiting' : drawn'[u].id = drawn'[v].id => u = v
    <3> SUFFICES ASSUME NEW u \in Writers, NEW v \in Writers, drawn'[u] # None, drawn'[v] # None,
                        drawn'[u].id = drawn'[v].id, u # v
                 PROVE  FALSE
      BY DEF Waiting
    <3>1. CASE u = w
      BY <1>2, <1>4, <2>1, <3>1
    <3>2. CASE v = w
      BY <1>2, <1>4, <2>1, <3>2
    <3>3. CASE u # w /\ v # w
      <4>1. drawn'[u] = drawn[u] /\ drawn'[v] = drawn[v]
        BY <1>4, <3>3
      <4> QED  BY <4>1 DEF IInv, FreshIds, Waiting
    <3> QED  BY <3>1, <3>2, <3>3
  <2> QED  BY <2>2, <2>3, <2>4 DEF FreshIds
<1>10. ReaderMissesNothing' /\ CopiesAreTrue' /\ LeftCopiesAreReplaced' /\ CutoverHasCopied'
  BY <1>1, <1>5 DEF IInv, ReaderMissesNothing, CopiesAreTrue, LeftCopiesAreReplaced, CutoverHasCopied,
                    Unlocked, Cutoff
<1>11. QueryIsSound'
  <2> SUFFICES ASSUME NEW r \in Readers, query[r].stage = "begun"
               PROVE  /\ \A i \in query[r].all : i <= counter' /\ (live[i] # None => i \in query[r].found)
                      /\ \A v \in Waiting' : drawn'[v].id \notin query[r].all
    BY <1>1 DEF QueryIsSound, Waiting
  <2>1. \A i \in query[r].all : i <= counter /\ i \in Nat /\ (live[i] # None => i \in query[r].found)
    BY DEF IInv, TypeOK, QueryIsSound, Waiting, Ids
  <2>2. new \notin query[r].all /\ \A i \in query[r].all : i <= counter'
    BY <1>1, <1>5, <1>8, <2>1 DEF Ids
  <2>3. \A v \in Writers \ {w} : drawn[v] # None => drawn[v].id \notin query[r].all
    BY DEF IInv, QueryIsSound, Waiting
  <2> QED  BY <1>2, <1>4, <2>1, <2>2, <2>3 DEF Waiting
<1>12. RowsAreTrue'
  <2>1. \A v \in Waiting' : drawn'[v].at <= now
    <3>1. \A v \in Writers : drawn[v] # None => drawn[v].at <= now
      BY DEF IInv, RowsAreTrue, Waiting
    <3> QED  BY <1>1, <1>2, <1>4, <3>1 DEF Waiting
  <2> QED  BY <1>1, <1>5, <2>1 DEF IInv, RowsAreTrue, Waiting
<1> QED  BY <1>7, <1>9, <1>10, <1>11, <1>12 DEF IInv

(* A draw is over, saved or not: its id waits no more.                         *)
LEMMA DrawEnds ==
    ASSUME IInv, NEW w \in Writers, drawn[w] # None, drawn' = [drawn EXCEPT ![w] = None],
           UNCHANGED <<counter, now>>
    PROVE  /\ Waiting' = Waiting \ {w} /\ drawn' \in [Writers -> Draws \cup {None}]
           /\ \A v \in Waiting' : v \in Waiting /\ drawn'[v] = drawn[v] /\ drawn'[v].id # drawn[w].id
           /\ \A v \in Waiting' : drawn'[v].id <= counter' /\ drawn'[v].id \notin Stored
           /\ \A u, v \in Waiting' : drawn'[u].id = drawn'[v].id => u = v
<1>1. drawn' \in [Writers -> Draws \cup {None}] /\ drawn'[w] = None
      /\ \A v \in Writers \ {w} : drawn'[v] = drawn[v]
  BY DEF IInv, TypeOK
<1>2. Waiting' = Waiting \ {w} /\ w \in Waiting
  BY <1>1 DEF Waiting
<1>3. \A v \in Waiting' : v \in Waiting /\ v \in Writers /\ v # w /\ drawn'[v] = drawn[v]
  BY <1>1, <1>2 DEF Waiting
<1> QED  BY <1>1, <1>2, <1>3 DEF IInv, FreshIds

LEMMA SaveFailsKeeps == ASSUME IInv, NEW w \in Writers, SaveFails(w) PROVE IInv'
<1>1. /\ drawn[w] # None /\ drawn' = [drawn EXCEPT ![w] = None]
      /\ UNCHANGED <<live, arch, counter, mover, query, now, faults, restarts, given>>
  BY DEF SaveFails
<1>2. Present(live)' = Present(live) /\ Present(arch)' = Present(arch) /\ Stored' = Stored
  BY <1>1 DEF Present, Stored
<1>3. FreshIds' /\ drawn' \in [Writers -> Draws \cup {None}]
      /\ \A v \in Waiting' : v \in Waiting /\ drawn'[v] = drawn[v]
  <2>1. \A i \in Stored : i <= counter
    BY DEF IInv, FreshIds
  <2>2. /\ drawn' \in [Writers -> Draws \cup {None}]
        /\ \A v \in Waiting' : v \in Waiting /\ drawn'[v] = drawn[v]
        /\ \A v \in Waiting' : drawn'[v].id <= counter' /\ drawn'[v].id \notin Stored
        /\ \A u, v \in Waiting' : drawn'[u].id = drawn'[v].id => u = v
    BY <1>1, DrawEnds
  <2> QED  BY <1>1, <1>2, <2>1, <2>2 DEF FreshIds
<1>4. TypeOK'
  BY <1>1, <1>3 DEF IInv, TypeOK
<1>5. ReaderMissesNothing' /\ QueryIsSound' /\ RowsAreTrue'
  BY <1>1, <1>2, <1>3 DEF IInv, ReaderMissesNothing, QueryIsSound, Waiting, RowsAreTrue
<1>6. CopiesAreTrue' /\ LeftCopiesAreReplaced' /\ CutoverHasCopied'
  BY <1>1, <1>2 DEF IInv, CopiesAreTrue, LeftCopiesAreReplaced, CutoverHasCopied, Unlocked, Cutoff
<1> QED  BY <1>3, <1>4, <1>5, <1>6 DEF IInv

LEMMA SaveKeeps == ASSUME IInv, NEW w \in Writers, Save(w) PROVE IInv'
<1> DEFINE new == drawn[w].id
           row == [at |-> drawn[w].at, verdict |-> Unreviewed]
<1>1. /\ new \in Ids /\ new \notin Stored /\ new <= counter /\ drawn[w].at \in 0..now
      /\ live' = [live EXCEPT ![new] = row] /\ drawn[w] # None
      /\ given' = [given EXCEPT ![new] = Unreviewed] /\ drawn' = [drawn EXCEPT ![w] = None]
      /\ Unlocked /\ UNCHANGED <<arch, counter, mover, query, now, faults, restarts>>
  BY WaitingIsFresh DEF Save
<1>2. row \in Rows /\ row # None /\ row.at <= now /\ row.verdict = Unreviewed /\ row.at = drawn[w].at
  BY <1>1, RowIsNotNone, VerdictAssumption, BoundAssumption DEF Rows, IInv, TypeOK
<1> HIDE DEF row
<1>3. /\ Present(live)' = Present(live) \cup {new} /\ Present(arch)' = Present(arch)
      /\ new \notin Present(live) /\ new \notin Present(arch)
      /\ live'[new] = row /\ given'[new] = Unreviewed
      /\ \A i \in Ids \ {new} : live'[i] = live[i] /\ given'[i] = given[i]
      /\ live' \in [Ids -> Rows \cup {None}] /\ given' \in [Ids -> Verdicts]
  BY <1>1, <1>2, VerdictAssumption DEF IInv, TypeOK, Present, Stored
<1>4. /\ drawn' \in [Writers -> Draws \cup {None}]
      /\ \A v \in Waiting' : v \in Waiting /\ drawn'[v] = drawn[v] /\ drawn'[v].id # new
      /\ \A v \in Waiting' : drawn'[v].id <= counter' /\ drawn'[v].id \notin Stored
      /\ \A u, v \in Waiting' : drawn'[u].id = drawn'[v].id => u = v
  BY <1>1, DrawEnds
<1> HIDE DEF new
<1>5. TypeOK'
  BY <1>1, <1>3, <1>4 DEF IInv, TypeOK
<1>6. FreshIds'
  <2>1. Stored' = Stored \cup {new}
    BY <1>3 DEF Stored
  <2> QED  BY <1>1, <1>4, <2>1 DEF IInv, FreshIds
<1>7. ReaderMissesNothing'
  BY <1>1 DEF IInv, ReaderMissesNothing
<1>8. QueryIsSound'
  <2>1. \A r \in Readers : query[r].stage = "begun" => new \notin query[r].all
    BY <1>1 DEF IInv, QueryIsSound, Waiting, new
  <2>2. \A r \in Readers : query[r].all \subseteq Ids
    BY DEF IInv, TypeOK
  <2> QED  BY <1>1, <1>3, <1>4, <2>1, <2>2 DEF IInv, QueryIsSound, Waiting
<1>9. RowsAreTrue'
  BY <1>1, <1>2, <1>3, <1>4 DEF IInv, RowsAreTrue, Waiting, Present
<1>10. CopiesAreTrue' /\ LeftCopiesAreReplaced'
  BY <1>1, <1>3 DEF IInv, CopiesAreTrue, LeftCopiesAreReplaced, Present, Unlocked, Cutoff
<1>11. CutoverHasCopied'
  BY <1>1 DEF CutoverHasCopied, Unlocked
<1> QED  BY <1>4, <1>5, <1>6, <1>7, <1>8, <1>9, <1>10, <1>11 DEF IInv

(* A verdict is given between moves: only copies that a failed deletion has    *)
(* left do not follow.                                                         *)
LEMMA SetVerdictKeeps ==
    ASSUME IInv, NEW i \in Ids, NEW verdict \in Verdicts, SetVerdict(i, verdict)
    PROVE  IInv'
<1>0. live[i] \in Rows
  BY DEF IInv, TypeOK, SetVerdict
<1>1. /\ live[i] \in Rows /\ live[i] # None
      /\ live' = [live EXCEPT ![i] = [at |-> live[i].at, verdict |-> verdict]]
      /\ given' = [given EXCEPT ![i] = verdict]
      /\ Unlocked /\ UNCHANGED <<arch, counter, drawn, mover, query, now, faults, restarts>>
  BY <1>0, RowJudged DEF SetVerdict
<1>2. TypeOK'
  BY <1>1 DEF IInv, TypeOK, Rows
<1>3. /\ Present(live)' = Present(live) /\ Present(arch)' = Present(arch)
      /\ \A j \in Present(live) : live'[j].at = live[j].at
      /\ live'[i].verdict = verdict /\ given'[i] = verdict
      /\ \A j \in Ids \ {i} : live'[j] = live[j] /\ given'[j] = given[j]
      /\ i \in Present(live)
  BY <1>1, RowIsNotNone DEF IInv, TypeOK, Present, Rows
<1>4. FreshIds' /\ ReaderMissesNothing'
  BY <1>1, <1>3 DEF IInv, FreshIds, Waiting, Stored, ReaderMissesNothing
<1>5. QueryIsSound'
  BY <1>1, <1>3 DEF IInv, TypeOK, QueryIsSound, Waiting, Present
<1>6. RowsAreTrue'
  BY <1>1, <1>3 DEF IInv, RowsAreTrue, Waiting, Present
<1>7. CopiesAreTrue' /\ LeftCopiesAreReplaced'
  BY <1>1, <1>3 DEF IInv, CopiesAreTrue, LeftCopiesAreReplaced, Present, Unlocked, Cutoff
<1>8. CutoverHasCopied'
  BY <1>1 DEF CutoverHasCopied, Unlocked
<1> QED  BY <1>2, <1>4, <1>5, <1>6, <1>7, <1>8 DEF IInv

(* The copies a move makes are true; those of an earlier move it is not about  *)
(* stay as they are.                                                           *)
LEMMA StartMoveKeeps ==
    ASSUME IInv, NEW move \in [kind : Moves, cutoff : 0..MaxNow], StartMove(move)
    PROVE  IInv'
<1> DEFINE moved == EarlierThan(Cutoff(move))
<1>1. /\ Unlocked /\ mover' = move /\ UNCHANGED <<live, counter, drawn, query, now, faults, restarts, given>>
      /\ \A i \in moved : i \in Present(live) /\ live[i] \in Rows /\ live[i].at < Cutoff(move)
      /\ \A i \in Present(live) \ moved : ~(live[i].at < Cutoff(move))
      /\ arch' \in [Ids -> Filed \cup {None}]
      /\ \A i \in moved : arch'[i] = [at |-> live[i].at, verdict |-> live[i].verdict, filed |-> now]
      /\ \A i \in Ids \ moved : arch'[i] = arch[i]
  BY BoundAssumption DEF IInv, TypeOK, StartMove, Copy, EarlierThan, Present, Filed, Rows
<1>2. (~Unlocked)'
  BY <1>1, MoveAssumption DEF Unlocked, Idle
<1> HIDE DEF moved
<1>3. \A i \in moved : /\ arch'[i] # None /\ i \in Ids /\ arch'[i].at = live[i].at
                      /\ arch'[i].verdict = live[i].verdict /\ arch'[i].filed = now
  <2> SUFFICES ASSUME NEW i \in moved
               PROVE  /\ arch'[i] # None /\ i \in Ids /\ arch'[i].at = live[i].at
                      /\ arch'[i].verdict = live[i].verdict /\ arch'[i].filed = now
    OBVIOUS
  <2>1. now \in Nat /\ live[i] \in Rows /\ i \in Ids
    BY <1>1, BoundAssumption DEF IInv, TypeOK, Present
  <2>2. arch'[i] \in Filed
    BY <1>1, <2>1, CopyIsFiled
  <2>3. arch'[i] # None
    BY <2>2, NoneAssumption
  <2>4. arch'[i] = [at |-> live[i].at, verdict |-> live[i].verdict, filed |-> now]
    BY <1>1
  <2> QED  BY <2>1, <2>3, <2>4
<1>4. Present(arch)' = Present(arch) \cup moved /\ Present(live)' = Present(live)
  BY <1>1, <1>3 DEF Present
<1>5. TypeOK'
  BY <1>1 DEF IInv, TypeOK
<1>6. FreshIds' /\ ReaderMissesNothing' /\ QueryIsSound'
  BY <1>1, <1>4 DEF IInv, FreshIds, Waiting, Stored, ReaderMissesNothing, QueryIsSound
<1>5a. /\ \A i \in Present(live) : live[i].verdict = given[i] /\ live[i].at <= now
       /\ \A i \in Present(arch) \ moved : arch'[i] = arch[i]
       /\ moved \subseteq Present(live)
  BY <1>1 DEF IInv, RowsAreTrue, Waiting, Present
<1>5b. Cutoff(mover)' = Cutoff(move)
  BY <1>1 DEF Cutoff
<1>7. RowsAreTrue'
  BY <1>1, <1>3, <1>4, <1>5a DEF IInv, RowsAreTrue, Waiting
<1>8. CopiesAreTrue'
  BY <1>1, <1>2, <1>3, <1>4, <1>5a, <1>5b DEF IInv, CopiesAreTrue
<1>9. LeftCopiesAreReplaced'
  <2> SUFFICES ASSUME OneKind, restarts = 0 PROVE LeftCopiesAreReplaced'
    BY <1>1 DEF LeftCopiesAreReplaced, OneKind
  <2>1. "retention" \in Moves => Cutoff(move) = now - LiveDays
    BY MoveAssumption DEF OneKind, Cutoff
  <2>2. \A i \in Present(arch)' \ Present(live)' : arch'[i].verdict = given'[i]
    BY <1>1, <1>4, <1>5a DEF IInv, LeftCopiesAreReplaced
  <2>3. "retention" \in Moves =>
          \A i \in Present(live)' \cap Present(arch)' : live'[i].at < now - LiveDays
    BY <1>1, <1>4, <1>5a, <2>1 DEF IInv, LeftCopiesAreReplaced
  <2>4. \A i \in Present(live)' : live'[i].at < Cutoff(move) => arch'[i].verdict = given'[i]
    BY <1>1, <1>3, <1>4, <1>5a
  <2> QED  BY <1>1, <1>5b, <2>2, <2>3, <2>4 DEF LeftCopiesAreReplaced
<1>10. CutoverHasCopied'
  <2>1. mover'.kind # "retention" => Cutoff(move) = mover'.cutoff
    BY <1>1 DEF Cutoff
  <2> QED  BY <1>1, <1>4, <2>1 DEF CutoverHasCopied
<1> QED  BY <1>5, <1>6, <1>7, <1>8, <1>9, <1>10 DEF IInv

LEMMA FinishMoveKeeps == IInv /\ FinishMove => IInv'
<1> SUFFICES ASSUME IInv, FinishMove PROVE IInv'
  OBVIOUS
<1>1. /\ ~Unlocked /\ mover' = Idle /\ Unlocked'
      /\ UNCHANGED <<arch, counter, drawn, query, now, faults, restarts, given>>
      /\ live' = [i \in Ids |-> IF i \in Deleted THEN None ELSE live[i]]
      /\ \A i \in Deleted : i \in Present(live) /\ live[i].at < Cutoff(mover)
      /\ \A i \in Present(live) \ Deleted : ~(live[i].at < Cutoff(mover))
  BY DEF FinishMove, Unlocked, Cleared, Deleted, EarlierThan
<1>2. Present(live)' = Present(live) \ Deleted /\ Present(arch)' = Present(arch)
  BY <1>1 DEF Present
<1>3. \A i \in Present(live)' : live'[i] = live[i]
  BY <1>1, <1>2 DEF Present
<1>4. TypeOK'
  BY <1>1, BoundAssumption DEF IInv, TypeOK, Idle
<1>5. FreshIds' /\ ReaderMissesNothing' /\ QueryIsSound'
  BY <1>1, <1>2 DEF IInv, TypeOK, FreshIds, Waiting, Stored, ReaderMissesNothing, QueryIsSound, Present
<1>6. RowsAreTrue'
  BY <1>1, <1>2, <1>3 DEF IInv, RowsAreTrue, Waiting, Present
<1>7. CopiesAreTrue'
  BY <1>1, <1>2, <1>3 DEF IInv, CopiesAreTrue, Present
<1>8. LeftCopiesAreReplaced'
  BY <1>1, <1>2, <1>3 DEF IInv, LeftCopiesAreReplaced, Present
<1>9. CutoverHasCopied'
  BY <1>1 DEF CutoverHasCopied
<1> QED  BY <1>4, <1>5, <1>6, <1>7, <1>8, <1>9 DEF IInv

LEMMA FailMoveKeeps == IInv /\ FailMove => IInv'
<1> SUFFICES ASSUME IInv, FailMove PROVE IInv'
  OBVIOUS
<1>1. /\ ~Unlocked /\ mover' = Idle /\ Unlocked' /\ faults' = faults + 1 /\ faults < MaxTrouble
      /\ UNCHANGED <<live, arch, counter, drawn, query, now, restarts, given>>
  BY BoundAssumption DEF FailMove, Unlocked, IInv, TypeOK
<1>2. TypeOK'
  BY <1>1, BoundAssumption DEF IInv, TypeOK, Idle
<1>3. Present(live)' = Present(live) /\ Present(arch)' = Present(arch)
  BY <1>1 DEF Present
<1>4. CopiesAreTrue'
  BY <1>1 DEF IInv, TypeOK, CopiesAreTrue
<1>5. LeftCopiesAreReplaced' /\ RowsAreTrue'
  BY <1>1, <1>3 DEF IInv, LeftCopiesAreReplaced, RowsAreTrue, Waiting
<1>6. FreshIds' /\ ReaderMissesNothing' /\ QueryIsSound'
  BY <1>1, <1>3 DEF IInv, FreshIds, Waiting, Stored, ReaderMissesNothing, QueryIsSound
<1>7. CutoverHasCopied'
  BY <1>1 DEF CutoverHasCopied
<1> QED  BY <1>2, <1>4, <1>5, <1>6, <1>7 DEF IInv

LEMMA PurgeArchiveKeeps == IInv /\ PurgeArchive => IInv'
<1> SUFFICES ASSUME IInv, PurgeArchive PROVE IInv'
  OBVIOUS
<1>1. /\ Unlocked /\ Unlocked'
      /\ UNCHANGED <<live, counter, drawn, mover, query, now, faults, restarts, given>>
      /\ arch' = [i \in Ids |-> IF i \in Expired THEN None ELSE arch[i]]
      /\ \A i \in Present(arch)' : i \in Present(arch) /\ arch'[i] = arch[i]
      /\ Present(live)' = Present(live)
  BY DEF PurgeArchive, Unlocked, Cleared, Present
<1>2. TypeOK'
  BY <1>1 DEF IInv, TypeOK
<1>3. FreshIds' /\ ReaderMissesNothing' /\ QueryIsSound'
  BY <1>1 DEF IInv, FreshIds, Waiting, Stored, ReaderMissesNothing, QueryIsSound
<1>4. RowsAreTrue' /\ CopiesAreTrue' /\ LeftCopiesAreReplaced'
  BY <1>1 DEF IInv, RowsAreTrue, Waiting, CopiesAreTrue, LeftCopiesAreReplaced
<1>5. CutoverHasCopied'
  BY <1>1 DEF CutoverHasCopied
<1> QED  BY <1>2, <1>3, <1>4, <1>5 DEF IInv

(* The rows of one alert are equally old: both tables lose it, or neither.     *)
LEMMA PurgeBothKeeps == IInv /\ PurgeBoth => IInv'
<1> SUFFICES ASSUME IInv, PurgeBoth PROVE IInv'
  OBVIOUS
<1> DEFINE old(table) == {i \in Present(table) : table[i].at + ArchiveDays < now}
<1>1. /\ Unlocked /\ Unlocked'
      /\ UNCHANGED <<counter, drawn, mover, query, now, faults, restarts, given>>
      /\ live' = [i \in Ids |-> IF i \in old(live) THEN None ELSE live[i]]
      /\ arch' = [i \in Ids |-> IF i \in old(arch) THEN None ELSE arch[i]]
  BY DEF PurgeBoth, Unlocked, Cleared
<1>2. /\ \A i \in Present(arch)' : i \in Present(arch) /\ arch'[i] = arch[i]
      /\ \A i \in Present(live)' : i \in Present(live) /\ live'[i] = live[i]
  BY <1>1 DEF Present
<1>3. \A i \in Present(arch)' \cap Present(live) : i \in Present(live)'
  BY <1>1 DEF IInv, RowsAreTrue, Waiting, Present
<1>4. TypeOK'
  BY <1>1 DEF IInv, TypeOK
<1> HIDE DEF old
<1>5. FreshIds' /\ ReaderMissesNothing' /\ QueryIsSound'
  BY <1>1, <1>2 DEF IInv, TypeOK, FreshIds, Waiting, Stored, ReaderMissesNothing, QueryIsSound, Present
<1>6. RowsAreTrue' /\ CopiesAreTrue' /\ LeftCopiesAreReplaced'
  BY <1>1, <1>2, <1>3 DEF IInv, RowsAreTrue, Waiting, CopiesAreTrue, LeftCopiesAreReplaced
<1>7. CutoverHasCopied'
  BY <1>1 DEF CutoverHasCopied
<1> QED  BY <1>4, <1>5, <1>6, <1>7 DEF IInv

-----------------------------------------------------------------------------
(* The queries.                                                                *)

LEMMA QueryKeeps ==
    ASSUME IInv, UNCHANGED <<live, arch, counter, drawn, mover, now, faults, restarts, given>>,
           NEW r \in Readers, NEW answer, query' = [query EXCEPT ![r] = answer],
           answer \in [found : SUBSET Ids, all : SUBSET Ids, stage : {"idle", "begun", "answered"}],
           answer.stage = "answered" => answer.all \subseteq answer.found,
           answer.stage = "begun" =>
               /\ \A i \in answer.all : i <= counter /\ (live[i] # None => i \in answer.found)
               /\ \A w \in Waiting : drawn[w].id \notin answer.all
    PROVE  IInv'
<1>1. /\ Present(live)' = Present(live) /\ Present(arch)' = Present(arch) /\ Unlocked' = Unlocked
      /\ Cutoff(mover)' = Cutoff(mover)
  BY DEF Present, Unlocked, Cutoff
<1>2. TypeOK'
  BY DEF IInv, TypeOK
<1>3. FreshIds' /\ RowsAreTrue' /\ CopiesAreTrue' /\ LeftCopiesAreReplaced' /\ CutoverHasCopied'
  BY <1>1 DEF IInv, FreshIds, Waiting, Stored, RowsAreTrue, CopiesAreTrue, LeftCopiesAreReplaced, CutoverHasCopied
<1>4. \A s \in Readers : query'[s] = IF s = r THEN answer ELSE query[s]
  BY DEF IInv, TypeOK
<1>5. ReaderMissesNothing' /\ QueryIsSound'
  BY <1>4 DEF IInv, ReaderMissesNothing, QueryIsSound, Waiting
<1> QED  BY <1>2, <1>3, <1>5 DEF IInv

LEMMA ReadKeeps ==
    ASSUME IInv, NEW r \in Readers, BeginRead(r) \/ EndRead(r) \/ ForgetAnswer(r)
    PROVE  IInv'
<1>1. CASE BeginRead(r)
  <2> DEFINE answer == [found |-> Present(live), all |-> Stored, stage |-> "begun"]
  <2>1. query' = [query EXCEPT ![r] = answer]
    BY <1>1 DEF BeginRead, ReadOrder, Contents
  <2>2. /\ \A i \in answer.all : i <= counter /\ (live[i] # None => i \in answer.found)
        /\ \A w \in Waiting : drawn[w].id \notin answer.all
    BY DEF IInv, FreshIds, Waiting, Present, Stored
  <2>3. answer \in [found : SUBSET Ids, all : SUBSET Ids, stage : {"idle", "begun", "answered"}]
    BY DEF Present, Stored
  <2> HIDE DEF answer
  <2>4. answer.stage = "begun"
    BY DEF answer
  <2> QED  BY <1>1, <2>1, <2>2, <2>3, <2>4, QueryKeeps DEF BeginRead
<1>2. CASE EndRead(r)
  <2> DEFINE answer == [found |-> query[r].found \cup Present(arch),
                        all |-> query[r].all \cap Stored, stage |-> "answered"]
  <2>1. query' = [query EXCEPT ![r] = answer]
    BY <1>2 DEF EndRead, ReadOrder, Contents
  <2>2. answer.all \subseteq answer.found
    BY <1>2 DEF EndRead, IInv, QueryIsSound, Waiting, Stored, Present
  <2>3. answer \in [found : SUBSET Ids, all : SUBSET Ids, stage : {"idle", "begun", "answered"}]
    BY DEF Present, Stored, IInv, TypeOK
  <2> HIDE DEF answer
  <2>4. answer.stage = "answered"
    BY DEF answer
  <2> QED  BY <1>2, <2>1, <2>2, <2>3, <2>4, QueryKeeps DEF EndRead
<1>3. CASE ForgetAnswer(r)
  <2>1. /\ NoQuery.stage = "idle"
        /\ NoQuery \in [found : SUBSET Ids, all : SUBSET Ids, stage : {"idle", "begun", "answered"}]
    BY DEF NoQuery
  <2> QED  BY <1>3, <2>1, QueryKeeps DEF ForgetAnswer
<1> QED  BY <1>1, <1>2, <1>3

-----------------------------------------------------------------------------
(* A move goes on over the clock's next tick: with moves of one kind, what is  *)
(* due by then was due when the copies were made or has no copy at all.        *)
LEMMA TickKeeps == IInv /\ Tick => IInv'
<1> SUFFICES ASSUME IInv, Tick PROVE IInv'
  OBVIOUS
<1> USE BoundAssumption, DayAssumption
<1>1. /\ now' = now + 1 /\ now \in Nat /\ now' \in 0..MaxNow
      /\ UNCHANGED <<live, arch, counter, drawn, mover, query, faults, restarts, given>>
      /\ Present(live)' = Present(live) /\ Present(arch)' = Present(arch) /\ Unlocked' = Unlocked
  BY DEF Tick, IInv, TypeOK, Present, Unlocked
<1>2. \A i \in Present(live) : live[i].at \in Nat
  BY DEF IInv, TypeOK, Present, Rows
<1>3. TypeOK' /\ FreshIds' /\ ReaderMissesNothing' /\ QueryIsSound'
  BY <1>1 DEF IInv, TypeOK, FreshIds, Waiting, Stored, ReaderMissesNothing, QueryIsSound
<1>4. RowsAreTrue'
  <2>1. \A w \in Waiting : drawn[w].at \in Nat
    BY WaitingIsFresh DEF Waiting
  <2> QED  BY <1>1, <1>2, <2>1 DEF IInv, RowsAreTrue, Waiting
<1>5. /\ mover.kind = "retention" => Cutoff(mover) = now - LiveDays /\ Cutoff(mover)' = now + 1 - LiveDays
      /\ mover.kind # "retention" => Cutoff(mover)' = Cutoff(mover)
  BY <1>1 DEF Cutoff
<1>6. CopiesAreTrue'
  <2>1. Cutoff(mover) \in Int /\ Cutoff(mover)' \in Int /\ Cutoff(mover) <= Cutoff(mover)'
    BY <1>1, <1>5, CutoffIsNumber DEF IInv
  <2> QED  BY <1>1, <1>2, <2>1 DEF IInv, CopiesAreTrue
<1>7. LeftCopiesAreReplaced'
  <2> SUFFICES ASSUME OneKind, restarts = 0 PROVE LeftCopiesAreReplaced'
    BY <1>1 DEF LeftCopiesAreReplaced, OneKind
  <2>1. mover.kind = "retention" => "retention" \in Moves
    BY DEF IInv, TypeOK
  <2> QED  BY <1>1, <1>2, <1>5, <2>1 DEF IInv, LeftCopiesAreReplaced
<1>8. CutoverHasCopied'
  BY <1>1 DEF IInv, CutoverHasCopied
<1> QED  BY <1>3, <1>4, <1>6, <1>7, <1>8 DEF IInv

LEMMA RestartKeeps == IInv /\ Restart => IInv'
<1> SUFFICES ASSUME IInv, Restart PROVE IInv'
  OBVIOUS
<1> USE BoundAssumption
<1>1. /\ restarts' = restarts + 1 /\ faults + restarts < MaxTrouble
      /\ live' = [i \in Ids |-> IF i \in Duplicates THEN None ELSE live[i]]
      /\ counter' = StoredHighest /\ mover' = Idle
      /\ query' = [r \in Readers |-> NoQuery]
      /\ drawn' = [w \in Writers |-> None] /\ Waiting' = {}
      /\ UNCHANGED <<arch, now, faults, given>>
  BY DEF Restart, Cleared, Waiting
<1>2. /\ Present(arch)' = Present(arch) /\ Present(live)' = Present(live) \ Present(arch)
      /\ \A i \in Present(live)' : live'[i] = live[i]
  BY <1>1 DEF Present, Duplicates, IInv, RowsAreTrue
<1>3. Stored \in SUBSET Ids
  BY DEF Stored, Present
<1>4. StoredHighest \in 0..MaxId /\ \A i \in Stored : i <= StoredHighest
  BY <1>3, HighestIsMax DEF StoredHighest
<1>5. TypeOK'
  BY <1>1, <1>4 DEF IInv, TypeOK, Idle, NoQuery
<1>6. FreshIds'
  BY <1>1, <1>2, <1>4 DEF FreshIds, Stored
<1>7. ReaderMissesNothing' /\ QueryIsSound'
  BY <1>1 DEF NoQuery, ReaderMissesNothing, QueryIsSound
<1>8. RowsAreTrue' /\ CopiesAreTrue'
  BY <1>1, <1>2 DEF IInv, RowsAreTrue, CopiesAreTrue
<1>9. LeftCopiesAreReplaced'
  BY <1>1 DEF IInv, TypeOK, LeftCopiesAreReplaced
<1>10. CutoverHasCopied'
  BY <1>1 DEF CutoverHasCopied, Unlocked
<1> QED  BY <1>5, <1>6, <1>7, <1>8, <1>9, <1>10 DEF IInv

LEMMA StepKeeps == IInv /\ [Next]_vars => IInv'
<1> SUFFICES ASSUME IInv, [Next]_vars PROVE IInv'
  OBVIOUS
<1>1. CASE Archive
  <2>1. [kind |-> "retention", cutoff |-> 0] \in [kind : Moves, cutoff : 0..MaxNow]
    BY <1>1, BoundAssumption DEF Archive
  <2> QED  BY <1>1, <2>1, StartMoveKeeps DEF Archive
<1>2. ASSUME NEW cutoff \in 1..MaxNow, Cutover(cutoff) PROVE IInv'
  <2>1. [kind |-> "cutover", cutoff |-> cutoff] \in [kind : Moves, cutoff : 0..MaxNow]
    BY <1>2, BoundAssumption DEF Cutover
  <2> QED  BY <1>2, <2>1, StartMoveKeeps DEF Cutover
<1>3. CASE UNCHANGED vars
  BY <1>3 DEF vars, IInv, TypeOK, FreshIds, Waiting, Stored, Present, ReaderMissesNothing, QueryIsSound,
              RowsAreTrue, CopiesAreTrue, LeftCopiesAreReplaced, CutoverHasCopied, Unlocked, Cutoff, OneKind
<1> QED  BY <1>1, <1>2, <1>3, DrawKeeps, SaveKeeps, SaveFailsKeeps, SetVerdictKeeps, FinishMoveKeeps, FailMoveKeeps,
            PurgeArchiveKeeps, PurgeBothKeeps, ReadKeeps, TickKeeps, RestartKeeps DEF Next

LEMMA Invariance == Spec => []IInv
BY InitHolds, StepKeeps, PTL DEF Spec

-----------------------------------------------------------------------------
(* Every variable of the store keeps its type.                                 *)
THEOREM TypeCorrect == Spec => []TypeOK
<1>1. IInv => TypeOK
  BY DEF IInv
<1> QED  BY <1>1, Invariance, PTL

(* An alert that waits to be saved has an id of its own: nothing is stored     *)
(* under it and no other thread has drawn it, through moves, purges, failing   *)
(* saves, crashes and restarts; Alert._id_counter stays above every id.        *)
THEOREM IdIsFresh == Spec => []FreshIds
<1>1. IInv => FreshIds
  BY DEF IInv
<1> QED  BY <1>1, Invariance, PTL

(* A query over alerts_all misses no alert that is stored all the while it     *)
(* runs: a move writes the copy before it deletes the original, and the query  *)
(* reads the original's table first.                                           *)
THEOREM ReadersMissNothing == Spec => []ReaderMissesNothing
<1>1. IInv => ReaderMissesNothing
  BY DEF IInv
<1> QED  BY <1>1, Invariance, PTL

(* Without failing deletions the stored verdict is the last one given,         *)
(* whichever moves happen and however often the process dies in one.           *)
FaultFreeVerdict == faults = 0 => \A i \in Stored : Row(i).verdict = given[i]
THEOREM VerdictSurvivesCrashes == Spec => []FaultFreeVerdict
<1>1. IInv => FaultFreeVerdict
  BY DEF IInv, RowsAreTrue, Waiting, CopiesAreTrue, FaultFreeVerdict, Row, Stored, Present
<1> QED  BY <1>1, Invariance, PTL

(* With failing deletions too, as long as moves of one kind only happen and    *)
(* no restart follows: the next move of that kind replaces the copies that the *)
(* failed one has left.                                                        *)
THEOREM VerdictSurvivesMoves == ASSUME OneKind PROVE Spec => []VerdictKept
<1>1. IInv => VerdictKept
  BY DEF IInv, RowsAreTrue, Waiting, CopiesAreTrue, LeftCopiesAreReplaced, VerdictKept, Row, Stored, Present
<1> QED  BY <1>1, Invariance, PTL

-----------------------------------------------------------------------------
(* The two tables as one record: which alerts there are, and how judged.       *)
Alerts == [i \in Ids |-> Row(i)]
Untroubled == faults = 0 \/ restarts = 0
Same == (\A i \in Ids : Row(i)' = Row(i)) /\ UNCHANGED now

LEMMA SameRecord == Same => UNCHANGED Record!record
<1> SUFFICES ASSUME Same PROVE UNCHANGED Record!record
  OBVIOUS
<1>1. Alerts' = Alerts
  BY DEF Same, Alerts
<1> QED  BY <1>1 DEF Same, Alerts, Record!record

LEMMA RowsAreSame == UNCHANGED <<live, arch, now>> => Same
  BY DEF Same, Row

LEMMA RecordReplaced ==
    ASSUME NEW new \in Ids, NEW row, Row(new)' = row, \A i \in Ids \ {new} : Row(i)' = Row(i)
    PROVE  Alerts' = [Alerts EXCEPT ![new] = row]
<1>1. Alerts' = [i \in Ids |-> IF i = new THEN row ELSE Row(i)]
  BY DEF Alerts
<1> QED  BY <1>1 DEF Alerts

LEMMA DeleteRecord ==
    ASSUME NEW gone \in SUBSET Ids, UNCHANGED now,
           \A i \in gone : Row(i) # None /\ Row(i).at + ArchiveDays < now,
           \A i \in Ids : Row(i)' = IF i \in gone THEN None ELSE Row(i)
    PROVE  Record!Delete(gone)
<1>1. Alerts' = [i \in Ids |-> IF i \in gone THEN None ELSE Alerts[i]]
  BY DEF Alerts
<1>2. \A i \in gone : Alerts[i] # None /\ Alerts[i].at + ArchiveDays < now
  BY DEF Alerts
<1> QED  BY <1>1, <1>2 DEF Alerts, Record!Delete

LEMMA SaveIsAdd == ASSUME IInv, NEW w \in Writers, Save(w) PROVE \E i \in Ids : Record!Add(i)
<1>1. PICK new \in Ids, at \in 0..now :
          /\ new \notin Stored
          /\ live' = [live EXCEPT ![new] = [at |-> at, verdict |-> Unreviewed]]
          /\ UNCHANGED <<arch, now>>
  BY WaitingIsFresh DEF Save
<1>2. [at |-> at, verdict |-> Unreviewed] # None
  BY RowIsNotNone, BoundAssumption, VerdictAssumption DEF IInv, TypeOK
<1>3. /\ live[new] = None /\ arch[new] = None
      /\ live'[new] = [at |-> at, verdict |-> Unreviewed]
      /\ \A i \in Ids \ {new} : live'[i] = live[i]
  BY <1>1 DEF Stored, Present, IInv, TypeOK
<1>4. Alerts' = [Alerts EXCEPT ![new] = [at |-> at, verdict |-> Unreviewed]] /\ Alerts[new] = None
  <2>1. Row(new) = None /\ Row(new)' = [at |-> at, verdict |-> Unreviewed]
    BY <1>1, <1>2, <1>3 DEF Row
  <2>2. \A i \in Ids \ {new} : Row(i)' = Row(i)
    BY <1>1, <1>3 DEF Row
  <2> QED  BY <1>1, <2>1, <2>2, RecordReplaced DEF Alerts
<1>5. Record!Add(new)
  BY <1>1, <1>4 DEF Alerts, Record!Add
<1> QED  BY <1>1, <1>5

LEMMA VerdictIsJudge ==
    ASSUME IInv, NEW i \in Ids, NEW verdict \in Verdicts, SetVerdict(i, verdict)
    PROVE  Record!Judge(i, verdict)
<1>1. /\ live[i] \in Rows /\ live[i] # None /\ UNCHANGED <<arch, now>>
      /\ live' = [live EXCEPT ![i].verdict = verdict]
  BY DEF IInv, TypeOK, SetVerdict
<1>2. /\ live'[i] = [at |-> live[i].at, verdict |-> verdict] /\ live'[i] # None
      /\ \A j \in Ids \ {i} : live'[j] = live[j]
  BY <1>1, RowJudged, RowIsNotNone DEF IInv, TypeOK, Rows
<1>3. /\ Row(i) = [at |-> live[i].at, verdict |-> live[i].verdict] /\ Row(i) # None
      /\ Row(i)' = [at |-> live[i].at, verdict |-> verdict]
      /\ \A j \in Ids \ {i} : Row(j)' = Row(j)
  BY <1>1, <1>2, RowIsNotNone DEF Row, Rows
<1>4. Alerts' = [Alerts EXCEPT ![i] = [at |-> live[i].at, verdict |-> verdict]]
  BY <1>3, RecordReplaced
<1>5. Alerts[i] # None /\ [Alerts EXCEPT ![i].verdict = verdict] = [Alerts EXCEPT ![i] = [at |-> live[i].at, verdict |-> verdict]]
  <2>1. Alerts[i] = Row(i) /\ Row(i) \in Rows /\ Row(i).at = live[i].at
    BY <1>1, <1>3 DEF Alerts, Rows
  <2>2. [Alerts[i] EXCEPT !.verdict = verdict] = [at |-> live[i].at, verdict |-> verdict]
    BY <2>1, RowJudged
  <2> QED  BY <1>3, <2>1, <2>2
<1> QED  BY <1>1, <1>4, <1>5 DEF Alerts, Record!Judge

LEMMA MoveIsHidden ==
    ASSUME IInv, NEW move, StartMove(move)
    PROVE  Same
  BY DEF StartMove, Copy, EarlierThan, Present, Same, Row

(* While retention's clock stands still between its two statements, every move *)
(* deletes only what it has copied, as it is now.  A cutover's cutoff is fixed *)
(* anyway.                                                                     *)
Steady == mover.kind # "retention" \/ now' = now
MoveHasCopied == ~Unlocked => \A i \in Deleted : i \in Present(arch) /\ arch[i].verdict = live[i].verdict

LEMMA SteadyMovesCopy == IInv /\ MoveHasCopied /\ [Next]_vars /\ [Steady]_vars => MoveHasCopied'
<1> SUFFICES ASSUME IInv, MoveHasCopied, [Next]_vars, [Steady]_vars PROVE MoveHasCopied'
  OBVIOUS
<1>1. ASSUME NEW move, StartMove(move) PROVE MoveHasCopied'
  <2> DEFINE moved == EarlierThan(Cutoff(move))
  <2>1. mover' = move /\ UNCHANGED <<live, now>>
        /\ arch' = [i \in Ids |-> IF i \in moved THEN [at |-> live[i].at, verdict |-> live[i].verdict, filed |-> now]
                                  ELSE arch[i]]
    BY <1>1 DEF StartMove, Copy
  <2>2. Deleted' = moved /\ moved \subseteq Present(live) /\ moved \subseteq Ids
    BY <2>1 DEF Deleted, EarlierThan, Cutoff, Present
  <2> HIDE DEF moved
  <2>3. \A i \in moved : arch'[i] # None /\ arch'[i].verdict = live[i].verdict
    <3> SUFFICES ASSUME NEW i \in moved PROVE arch'[i] # None /\ arch'[i].verdict = live[i].verdict
      OBVIOUS
    <3>1. arch'[i] = [at |-> live[i].at, verdict |-> live[i].verdict, filed |-> now]
      BY <2>1, <2>2
    <3>2. live[i] \in Rows /\ now \in Nat
      BY <2>2, BoundAssumption DEF IInv, TypeOK, Present
    <3>3. arch'[i] \in Filed
      BY <3>1, <3>2, CopyIsFiled
    <3> QED  BY <3>1, <3>3, NoneAssumption
  <2> QED  BY <2>1, <2>2, <2>3 DEF MoveHasCopied, Present
<1>2. ASSUME NEW i \in Ids, NEW verdict \in Verdicts, SetVerdict(i, verdict) PROVE MoveHasCopied'
  BY <1>2 DEF SetVerdict, Unlocked, MoveHasCopied
<1>3. ASSUME NEW w \in Writers, Save(w) PROVE MoveHasCopied'
  BY <1>3 DEF Save, Unlocked, MoveHasCopied
<1>7. CASE PurgeArchive \/ PurgeBoth
  BY <1>7 DEF PurgeArchive, PurgeBoth, Unlocked, MoveHasCopied
<1>4. CASE FinishMove \/ FailMove \/ Restart
  BY <1>4 DEF FinishMove, FailMove, Restart, Unlocked, MoveHasCopied
<1>5. CASE \/ \E r \in Readers : BeginRead(r) \/ EndRead(r) \/ ForgetAnswer(r)
           \/ \E w \in Writers : Draw(w) \/ SaveFails(w)
           \/ UNCHANGED vars
  <2>1. UNCHANGED <<live, arch, now, mover>>
    BY <1>5 DEF BeginRead, EndRead, ForgetAnswer, Draw, SaveFails, vars
  <2> QED  BY <2>1 DEF MoveHasCopied, Deleted, EarlierThan, Cutoff, Present, Unlocked
<1>6. CASE Tick
  <2>1. UNCHANGED <<live, arch, mover>> /\ (mover.kind # "retention" \/ now' = now)
    BY <1>6 DEF Tick, Steady, vars
  <2>2. Cutoff(mover)' = Cutoff(mover)
    BY <2>1 DEF Cutoff
  <2> QED  BY <2>1, <2>2 DEF MoveHasCopied, Deleted, EarlierThan, Present, Unlocked
<1> QED  BY <1>1, <1>2, <1>3, <1>4, <1>5, <1>6, <1>7 DEF Next, Archive, Cutover

(* What a move deletes from the live table stands in the archive as it was.    *)
LEMMA FinishIsHidden == IInv /\ MoveHasCopied /\ FinishMove => Same
<1> SUFFICES ASSUME IInv, MoveHasCopied, FinishMove, NEW i \in Ids
             PROVE  Row(i)' = Row(i) /\ UNCHANGED now
  BY DEF Same, FinishMove
<1>1. /\ ~Unlocked /\ UNCHANGED <<arch, now>>
      /\ live' = [j \in Ids |-> IF j \in Deleted THEN None ELSE live[j]]
  BY DEF FinishMove, Cleared
<1>2. CASE i \notin Deleted
  BY <1>1, <1>2 DEF Row
<1>3. CASE i \in Deleted
  <2>1. i \in Present(live) /\ i \in Present(arch) /\ live[i].at = arch[i].at /\ arch[i].verdict = live[i].verdict
    BY <1>1, <1>3 DEF IInv, MoveHasCopied, RowsAreTrue, Waiting, Deleted, EarlierThan
  <2> QED  BY <1>1, <1>3, <2>1 DEF Row, Present
<1> QED  BY <1>2, <1>3

LEMMA PurgeArchiveIsDelete == IInv /\ PurgeArchive => \E gone \in SUBSET Ids : Record!Delete(gone)
<1> SUFFICES ASSUME IInv, PurgeArchive PROVE \E gone \in SUBSET Ids : Record!Delete(gone)
  OBVIOUS
<1> DEFINE gone == Expired \ Present(live)
<1>1. /\ gone \in SUBSET Ids /\ UNCHANGED <<live, now>>
      /\ arch' = [i \in Ids |-> IF i \in Expired THEN None ELSE arch[i]]
      /\ \A i \in Expired : i \in Present(arch) /\ arch[i].filed + ArchiveDays < now
  BY DEF PurgeArchive, Expired, Present, Cleared
<1>2. \A i \in gone : Row(i) # None /\ Row(i).at + ArchiveDays < now
  <2> SUFFICES ASSUME NEW i \in gone PROVE Row(i) # None /\ Row(i).at + ArchiveDays < now
    OBVIOUS
  <2>1. /\ arch[i] \in Filed /\ arch[i].at <= arch[i].filed
        /\ Row(i) = [at |-> arch[i].at, verdict |-> arch[i].verdict]
    BY <1>1 DEF IInv, TypeOK, RowsAreTrue, Waiting, Present, Row
  <2>2. arch[i].at \in Nat /\ arch[i].filed \in Nat /\ arch[i].verdict \in Verdicts /\ now \in Nat
    BY <2>1, BoundAssumption DEF Filed, IInv, TypeOK
  <2>3. Row(i) # None /\ Row(i).at = arch[i].at
    BY <2>1, <2>2, RowIsNotNone
  <2> QED  BY <1>1, <2>1, <2>2, <2>3, DayAssumption
<1>3. \A i \in Ids : Row(i)' = IF i \in gone THEN None ELSE Row(i)
  BY <1>1 DEF Row, Present
<1> HIDE DEF gone
<1> QED  BY <1>1, <1>2, <1>3, DeleteRecord

LEMMA PurgeBothIsDelete == IInv /\ PurgeBoth => \E gone \in SUBSET Ids : Record!Delete(gone)
<1> SUFFICES ASSUME IInv, PurgeBoth PROVE \E gone \in SUBSET Ids : Record!Delete(gone)
  OBVIOUS
<1> DEFINE old(table) == {i \in Present(table) : table[i].at + ArchiveDays < now}
           gone == old(live) \cup old(arch)
<1>1. /\ gone \in SUBSET Ids /\ UNCHANGED now
      /\ live' = [i \in Ids |-> IF i \in old(live) THEN None ELSE live[i]]
      /\ arch' = [i \in Ids |-> IF i \in old(arch) THEN None ELSE arch[i]]
  BY DEF PurgeBoth, Present, Cleared
<1>2. \A i \in Present(live) \cap Present(arch) : i \in old(live) <=> i \in old(arch)
  BY DEF IInv, RowsAreTrue, Waiting
<1>3. \A i \in gone : Row(i) # None /\ Row(i).at + ArchiveDays < now
  <2> SUFFICES ASSUME NEW i \in gone PROVE Row(i) # None /\ Row(i).at + ArchiveDays < now
    OBVIOUS
  <2>1. CASE i \in old(live)
    <3>1. /\ live[i] \in Rows /\ live[i] # None /\ live[i].at + ArchiveDays < now
          /\ Row(i) = [at |-> live[i].at, verdict |-> live[i].verdict]
      BY <2>1 DEF IInv, TypeOK, Present, Row
    <3>2. Row(i) # None
      BY <3>1, RowIsNotNone DEF Rows
    <3> QED  BY <3>1, <3>2
  <2>2. CASE i \notin old(live) /\ i \in old(arch)
    <3>1. /\ arch[i] \in Filed /\ arch[i].at + ArchiveDays < now
          /\ Row(i) = [at |-> arch[i].at, verdict |-> arch[i].verdict]
      BY <1>2, <2>2 DEF IInv, TypeOK, Present, Row
    <3>2. Row(i) # None
      BY <3>1, RowIsNotNone DEF Filed
    <3> QED  BY <3>1, <3>2
  <2> QED  BY <2>1, <2>2
<1>4. \A i \in Ids : Row(i)' = IF i \in gone THEN None ELSE Row(i)
  BY <1>1, <1>2 DEF Row, Present
<1> HIDE DEF gone
<1> QED  BY <1>1, <1>3, <1>4, DeleteRecord

(* Recovery completes moves whose copies are true.                             *)
LEMMA RestartIsHidden == IInv /\ faults = 0 /\ Restart => Same
  BY DEF IInv, RowsAreTrue, Waiting, CopiesAreTrue, Restart, Cleared, Duplicates, Present, Same, Row

LEMMA StepIsLawful ==
    IInv /\ MoveHasCopied /\ Untroubled' /\ [Next]_vars => [Record!RecordNext]_(Record!record)
<1> SUFFICES ASSUME IInv, MoveHasCopied, Untroubled', [Next]_vars
             PROVE  [Record!RecordNext]_(Record!record)
  OBVIOUS
<1>1. ASSUME NEW w \in Writers, Save(w) PROVE [Record!RecordNext]_(Record!record)
  BY <1>1, SaveIsAdd DEF Record!RecordNext
<1>2. ASSUME NEW i \in Ids, NEW verdict \in Verdicts, SetVerdict(i, verdict)
      PROVE  [Record!RecordNext]_(Record!record)
  BY <1>2, VerdictIsJudge DEF Record!RecordNext
<1>3. CASE Archive \/ \E cutoff \in 1..MaxNow : Cutover(cutoff)
  BY <1>3, MoveIsHidden, SameRecord DEF Archive, Cutover
<1>4. CASE FinishMove
  BY <1>4, FinishIsHidden, SameRecord
<1>5. CASE \/ FailMove
           \/ \E r \in Readers : BeginRead(r) \/ EndRead(r) \/ ForgetAnswer(r)
           \/ \E w \in Writers : Draw(w) \/ SaveFails(w)
  <2>1. UNCHANGED <<live, arch, now>>
    BY <1>5 DEF FailMove, BeginRead, EndRead, ForgetAnswer, Draw, SaveFails
  <2> QED  BY <2>1, RowsAreSame, SameRecord
<1>6. CASE PurgeArchive \/ PurgeBoth
  BY <1>6, PurgeArchiveIsDelete, PurgeBothIsDelete DEF Record!RecordNext
<1>7. CASE Tick
  <2>1. Alerts' = Alerts /\ now' = now + 1
    BY <1>7 DEF Tick, Alerts, Row
  <2> QED  BY <2>1 DEF Alerts, Record!RecordNext, Record!Pass
<1>8. CASE Restart
  <2>1. faults = 0
    BY <1>8, BoundAssumption DEF Restart, Untroubled, IInv, TypeOK
  <2> QED  BY <1>8, <2>1, RestartIsHidden, SameRecord
<1>9. CASE UNCHANGED vars
  BY <1>9, RowsAreSame, SameRecord DEF vars
<1> QED  BY <1>1, <1>2, <1>3, <1>4, <1>5, <1>6, <1>7, <1>8, <1>9 DEF Next

(* Whatever moves, fails, crashes and is purged, as long as retention's clock  *)
(* stands still between its two statements and no restart recovers from a      *)
(* deletion that had failed: the live table, the archive, the moves between    *)
(* them and the restarts are one record that loses and invents nothing.        *)
THEOREM StoreKeepsRecord == Spec /\ [][Steady]_vars /\ []Untroubled => KeepsRecord
<1>1. Init => Record!RecordInit /\ MoveHasCopied
  <2> SUFFICES ASSUME Init PROVE Record!RecordInit /\ MoveHasCopied
    OBVIOUS
  <2>1. Alerts = [i \in Ids |-> None] /\ now = 0
    BY DEF Init, Alerts, Row
  <2>2. MoveHasCopied
    BY DEF Init, MoveHasCopied, Unlocked
  <2> QED  BY <2>1, <2>2 DEF Alerts, Record!RecordInit
<1> QED  BY <1>1, StepIsLawful, SteadyMovesCopy, Invariance, PTL DEF Spec, KeepsRecord, Record!RecordSpec

(* Cutovers by themselves need no condition on the clock.                      *)
THEOREM CutoversKeepRecord == ASSUME "retention" \notin Moves PROVE Spec /\ []Untroubled => KeepsRecord
<1>1. IInv => Steady
  BY DEF IInv, TypeOK, Steady
<1> QED  BY <1>1, StoreKeepsRecord, Invariance, PTL DEF Spec

-----------------------------------------------------------------------------
(* The verdict through both kinds of move: a step that leaves a row and what   *)
(* was said of it alone, or sets both.                                         *)
LEMMA VerdictStays ==
    ASSUME VerdictKept, Untroubled' => Untroubled,
           \A i \in Stored' : Row(i)'.verdict = given'[i] \/ (i \in Stored /\ Row(i)' = Row(i) /\ given'[i] = given[i])
    PROVE  VerdictKept'
  BY DEF VerdictKept, Untroubled

LEMMA StoredIsRow == TypeOK => \A i \in Ids : i \in Stored <=> Row(i) # None
<1> SUFFICES ASSUME TypeOK, NEW i \in Ids PROVE i \in Stored <=> Row(i) # None
  OBVIOUS
<1>1. CASE live[i] # None
  <2>1. live[i] \in Rows
    BY <1>1 DEF TypeOK
  <2>2. live[i].at \in Nat /\ live[i].verdict \in Verdicts
    BY <2>1 DEF Rows
  <2> QED  BY <1>1, <2>2, RowIsNotNone DEF Row, Stored, Present
<1>2. CASE live[i] = None /\ arch[i] # None
  <2>1. arch[i] \in Filed
    BY <1>2 DEF TypeOK
  <2>2. arch[i].at \in Nat /\ arch[i].verdict \in Verdicts
    BY <2>1 DEF Filed
  <2> QED  BY <1>2, <2>2, RowIsNotNone DEF Row, Stored, Present
<1>3. CASE live[i] = None /\ arch[i] = None
  BY <1>3 DEF Row, Stored, Present
<1> QED  BY <1>1, <1>2, <1>3

LEMMA StoredIsRowNext == TypeOK' => (\A i \in Ids : i \in Stored <=> Row(i) # None)'
  BY StoredIsRow, PTL

LEMMA SteadyVerdictKept ==
    IInv /\ IInv' /\ MoveHasCopied /\ VerdictKept /\ [Next]_vars => VerdictKept'
<1> SUFFICES ASSUME IInv, IInv', MoveHasCopied, VerdictKept, [Next]_vars PROVE VerdictKept'
  OBVIOUS
<1>1. TypeOK /\ TypeOK' /\ \A i \in Ids : (i \in Stored <=> Row(i) # None) /\ (i \in Stored' <=> Row(i)' # None)
  BY StoredIsRow, StoredIsRowNext DEF IInv
<1>2. Stored \subseteq Ids /\ Stored' \subseteq Ids
  BY DEF Stored, Present
<1>3. ASSUME Same, given' = given, Untroubled' => Untroubled PROVE VerdictKept'
  BY <1>1, <1>2, <1>3, VerdictStays DEF Same
<1>4. ASSUME NEW w \in Writers, Save(w) PROVE VerdictKept'
  <2>1. PICK new \in Ids, at \in 0..now :
            /\ live' = [live EXCEPT ![new] = [at |-> at, verdict |-> Unreviewed]] /\ UNCHANGED <<arch, faults, restarts>>
            /\ given' = [given EXCEPT ![new] = Unreviewed]
    BY <1>4, WaitingIsFresh DEF Save
  <2>2. [at |-> at, verdict |-> Unreviewed] # None
    BY RowIsNotNone, BoundAssumption, VerdictAssumption DEF IInv, TypeOK
  <2>3. Row(new)'.verdict = given'[new]
    BY <1>1, <2>1, <2>2 DEF Row, TypeOK
  <2>4. \A i \in Ids \ {new} : Row(i)' = Row(i) /\ given'[i] = given[i]
    BY <1>1, <2>1 DEF Row, TypeOK
  <2> QED  BY <1>1, <1>2, <2>1, <2>3, <2>4, VerdictStays DEF Untroubled
<1>5. ASSUME NEW i \in Ids, NEW verdict \in Verdicts, SetVerdict(i, verdict) PROVE VerdictKept'
  <2>1. live[i] \in Rows /\ live[i] # None /\ UNCHANGED <<arch, faults, restarts>>
        /\ live' = [live EXCEPT ![i].verdict = verdict] /\ given' = [given EXCEPT ![i] = verdict]
    BY <1>5 DEF IInv, TypeOK, SetVerdict
  <2>2. live'[i] = [at |-> live[i].at, verdict |-> verdict] /\ live'[i] # None /\ given'[i] = verdict
    BY <1>1, <2>1, RowJudged, RowIsNotNone DEF TypeOK, Rows
  <2>3. Row(i)'.verdict = given'[i]
    BY <2>2 DEF Row
  <2>4. \A j \in Ids \ {i} : Row(j)' = Row(j) /\ given'[j] = given[j]
    BY <1>1, <2>1 DEF Row, TypeOK
  <2> QED  BY <1>1, <1>2, <2>1, <2>3, <2>4, VerdictStays DEF Untroubled
<1>6. CASE PurgeArchive \/ PurgeBoth
  <2>1. UNCHANGED <<given, faults, restarts>>
    BY <1>6 DEF PurgeArchive, PurgeBoth
  <2>2. \A i \in Ids : Row(i)' = Row(i) \/ Row(i)' = None
    <3>1. \A i \in Ids : (live'[i] = live[i] \/ live'[i] = None) /\ (arch'[i] = arch[i] \/ arch'[i] = None)
      BY <1>1, <1>6 DEF PurgeArchive, PurgeBoth, Cleared, TypeOK
    <3>2. \A i \in Present(live) \cap Present(arch) : live'[i] = None => arch'[i] = None
      <4>1. CASE PurgeArchive
        BY <4>1 DEF PurgeArchive, Present
      <4>2. CASE PurgeBoth
        BY <4>2 DEF PurgeBoth, Present, Cleared, IInv, RowsAreTrue, Waiting
      <4> QED  BY <1>6, <4>1, <4>2
    <3> QED  BY <3>1, <3>2 DEF Row, Present
  <2> QED  BY <1>1, <1>2, <2>1, <2>2, VerdictStays DEF Untroubled
<1>7. CASE Archive \/ \E cutoff \in 1..MaxNow : Cutover(cutoff)
  <2>1. Same /\ UNCHANGED <<given, faults, restarts>>
    BY <1>7, MoveIsHidden DEF Archive, Cutover, StartMove
  <2> QED  BY <1>3, <2>1 DEF Untroubled
<1>8. CASE FinishMove
  <2>1. Same /\ UNCHANGED <<given, faults, restarts>>
    BY <1>8, FinishIsHidden DEF FinishMove
  <2> QED  BY <1>3, <2>1 DEF Untroubled
<1>9. CASE FailMove
  <2>1. Same /\ given' = given /\ (Untroubled' => Untroubled)
    BY <1>8, <1>9, RowsAreSame, BoundAssumption DEF FailMove, Untroubled, IInv, TypeOK
  <2> QED  BY <1>3, <2>1
<1>10. CASE \/ \E r \in Readers : BeginRead(r) \/ EndRead(r) \/ ForgetAnswer(r)
            \/ \E w \in Writers : Draw(w) \/ SaveFails(w)
            \/ UNCHANGED vars
  <2>1. UNCHANGED <<live, arch, now, given, faults, restarts>>
    BY <1>10 DEF BeginRead, EndRead, ForgetAnswer, Draw, SaveFails, vars
  <2> QED  BY <1>3, <2>1, RowsAreSame DEF Untroubled
<1>11. CASE Tick
  <2>1. \A i \in Ids : Row(i)' = Row(i)
    BY <1>11 DEF Tick, Row
  <2> QED  BY <1>1, <1>2, <1>11, <2>1, VerdictStays DEF Tick, Untroubled
<1>12. CASE Restart
  <2> SUFFICES ASSUME Untroubled' PROVE VerdictKept'
    BY DEF VerdictKept, Untroubled
  <2>1. faults = 0
    BY <1>12, BoundAssumption DEF Restart, Untroubled, IInv, TypeOK
  <2>2. Same /\ given' = given
    BY <1>12, <2>1, RestartIsHidden DEF Restart
  <2> QED  BY <1>3, <2>1, <2>2 DEF Untroubled
<1> QED  BY <1>4, <1>5, <1>6, <1>7, <1>8, <1>9, <1>10, <1>11, <1>12 DEF Next

(* Both kinds of move together keep the verdict that was given last, failing   *)
(* deletions included, as long as retention's clock stands still between its   *)
(* two statements: the older copy that a failed deletion has left is replaced  *)
(* by the move that deletes the row.                                           *)
THEOREM VerdictSurvivesSteadyMoves == Spec /\ [][Steady]_vars => []VerdictKept
<1>1. Init => MoveHasCopied /\ VerdictKept
  BY DEF Init, MoveHasCopied, Unlocked, VerdictKept, Stored, Present
<1> QED  BY <1>1, SteadyMovesCopy, SteadyVerdictKept, Invariance, PTL DEF Spec
=============================================================================
