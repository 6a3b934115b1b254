---------------------------- MODULE LoginThrottle ---------------------------
(* modules/auth.py: the limit on failed logins per address, and the sessions   *)
(* of the single administrator.  The lock is looked at before the password is  *)
(* checked, the failure is counted after it, each under the mutex; in between  *)
(* others pass.                                                                *)
(*                                                                             *)
(* An operator that stands right above another one with the same parameters    *)
(* and is used nowhere is a faulty variant of it (PROJECT.json, "mutants").    *)
EXTENDS SocClock, Integers, Sequences, FiniteSets, SequencesExt

CONSTANTS
    Doors, Peers,                   \* login threads; client addresses
    MaxAttempts, FailSpan, Lockout,
    FailCap, LegacyCap, LegacyLife, \* 10000 addresses, 20 sessions
    MaxLogins, ThrottleEnd          \* bounds

ASSUME ThrottleNumbers ==
    /\ {MaxAttempts, FailSpan, Lockout, FailCap, LegacyCap, LegacyLife, MaxLogins, ThrottleEnd} \subseteq Nat
    /\ MaxAttempts > 0 /\ FailCap > 0 /\ LegacyCap > 0 /\ Lockout >= FailSpan
ASSUME ThrottleSets ==
    /\ IsFiniteSet(Doors) /\ {None, "ok"} \cap Peers = {}
    /\ None \notin [since : Nat, times : SUBSET [n : Nat, at : Nat]]

VARIABLES
    door,           \* what each thread is at: an address it checks a password for, "ok" once it was right
    fails,          \* _fails: for an address None or [since, times]; numbers are those of the guesses,
                    \* "since" is the key's place in the dict, times a set of [n, at]
    lockedUntil,    \* _locked_until, 0 when absent
    legacy,         \* _sessions of the single administrator, oldest first: their expiry
    guesses,        \* checked passwords: address, time, right or wrong (history)
    forgotten,      \* addresses pushed out of _fails (history)
    logins

throttleVars == <<now, door, fails, lockedUntil, legacy, guesses, forgotten, logins>>

ThrottleInit ==
    /\ now = 0 /\ logins = 0 /\ legacy = <<>> /\ guesses = <<>> /\ forgotten = {}
    /\ door = [d \in Doors |-> None]
    /\ fails = [p \in Peers |-> None]
    /\ lockedUntil = [p \in Peers |-> 0]

Locked(p) == lockedUntil[p] > now
Recorded == {p \in Peers : fails[p] # None}
TimesOf(p) == IF p \in Recorded THEN fails[p].times ELSE {}
Oldest == CHOOSE p \in Recorded : \A q \in Recorded : fails[p].since <= fails[q].since

\* _validate up to check_password_hash; a locked address is turned away here.
Knock(d, p) ==
    /\ door[d] = None /\ logins < MaxLogins /\ logins' = logins + 1
    /\ door' = IF Locked(p) THEN door ELSE [door EXCEPT ![d] = p]
    /\ UNCHANGED <<now, fails, lockedUntil, legacy, guesses, forgotten>>

\* The password is right: the address starts afresh.
LetIn(d) ==
    LET p == door[d]
    IN /\ p \in Peers
       /\ fails' = [fails EXCEPT ![p] = None]
       /\ lockedUntil' = [lockedUntil EXCEPT ![p] = 0]
       /\ guesses' = Append(guesses, [peer |-> p, at |-> now, right |-> TRUE])
       /\ door' = [door EXCEPT ![d] = "ok"]
       /\ UNCHANGED <<now, legacy, forgotten, logins>>

Unexpired == SelectSeq(legacy, LAMBDA expires : expires > now)

\* login, in a critical section of its own: without a directory a session is added,
\* the oldest one going first.
OpenSession(d) ==
    /\ door[d] = "ok"
    /\ legacy' = Append(IF Len(Unexpired) >= LegacyCap THEN Tail(Unexpired) ELSE Unexpired, now + LegacyLife)
    /\ door' = [door EXCEPT ![d] = None]
    /\ UNCHANGED <<now, fails, lockedUntil, guesses, forgotten, logins>>

\* revoke.
EndSession ==
    /\ \E i \in DOMAIN legacy : legacy' = RemoveAt(legacy, i)
    /\ UNCHANGED <<now, door, fails, lockedUntil, guesses, forgotten, logins>>

Recent(times) == {t \in times : now - t.at < FailSpan}
TooManyBy1(times) == Cardinality(times) > MaxAttempts
TooMany(times) == Cardinality(times) >= MaxAttempts

\* The password is wrong, or the account unknown or disabled. Assigning to a key
\* that is there keeps its place in the dict.
TurnAway(d) ==
    LET p == door[d]
        number == Len(guesses) + 1
        full == Cardinality(Recorded) >= FailCap /\ p \notin Recorded
        times == Recent(TimesOf(p)) \cup {[n |-> number, at |-> now]}
        entry == [since |-> IF p \in Recorded THEN fails[p].since ELSE number,
                  times |-> IF TooMany(times) THEN {} ELSE times]
        room == IF full THEN [fails EXCEPT ![Oldest] = None] ELSE fails
        unlocked == IF full THEN [lockedUntil EXCEPT ![Oldest] = 0] ELSE lockedUntil
    IN /\ p \in Peers
       /\ forgotten' = IF full THEN forgotten \cup {Oldest} ELSE forgotten
       /\ fails' = [room EXCEPT ![p] = entry]
       /\ lockedUntil' = IF TooMany(times) THEN [unlocked EXCEPT ![p] = now + Lockout] ELSE unlocked
       /\ guesses' = Append(guesses, [peer |-> p, at |-> now, right |-> FALSE])
       /\ door' = [door EXCEPT ![d] = None]
       /\ UNCHANGED <<now, legacy, logins>>

ThrottleTick ==
    /\ now < ThrottleEnd /\ now' = now + 1
    /\ UNCHANGED <<door, fails, lockedUntil, legacy, guesses, forgotten, logins>>

ThrottleNext ==
    \/ \E d \in Doors : LetIn(d) \/ OpenSession(d) \/ TurnAway(d) \/ \E p \in Peers : Knock(d, p)
    \/ EndSession
    \/ ThrottleTick

ThrottleSpec == ThrottleInit /\ [][ThrottleNext]_throttleVars

-----------------------------------------------------------------------------
(* Wrong passwords of one address between two right ones: in any FailSpan no   *)
(* more than MaxAttempts are looked at, plus the ones that were already past   *)
(* the lock when it closed, one for every other thread; but for an address     *)
(* that was pushed out of the table.                                           *)
GuessesAreBounded ==
    \A p \in Peers \ forgotten, i \in DOMAIN guesses :
        LET run == {j \in i..Len(guesses) :
                       /\ guesses[j].peer = p /\ guesses[j].at - guesses[i].at < FailSpan
                       /\ \A k \in i..j : guesses[k].peer = p => ~guesses[k].right}
        IN Cardinality(run) <= MaxAttempts + Cardinality(Doors) - 1

=============================================================================
