-------------------------- MODULE IdentityDirectory -------------------------
(* Managed identities (modules/identity.py, authorization.py, the identity     *)
(* routes, the login and socket handlers of app.py, scripts/manage_users.py):  *)
(* request threads authorise, then write in a transaction, then disconnect the *)
(* sockets of revoked sessions; sockets connect meanwhile; the local operator  *)
(* writes to the same file from another process.                               *)
(*                                                                             *)
(* An operator that stands right above another one with the same parameters    *)
(* and is used nowhere is a faulty variant of it (PROJECT.json, "mutants").    *)
EXTENDS SocClock, Integers, Sequences, FiniteSets, SequencesExt

CONSTANTS
    Names, Threads, Sids,
    RolesGiven,                 \* the roles requests give, of ROLES
    SessionCap, SessionLife,    \* 20 sessions of one account; PERMANENT_SESSION_LIFETIME
    MaxRequests, IdentityEnd    \* bounds

ROLES ==
    LET analyst == {"read", "profile", "investigate"}
        responder == analyst \cup {"respond", "scan"}
    IN [viewer |-> {"read", "profile"}, analyst |-> analyst,
        responder |-> responder, admin |-> responder \cup {"tune", "admin"}]

ASSUME IdentityNumbers ==
    /\ {SessionCap, SessionLife, MaxRequests, IdentityEnd} \subseteq Nat
    /\ SessionCap > 0 /\ SessionLife > 0 /\ RolesGiven \subseteq DOMAIN ROLES
ASSUME NamesAreFew == IsFiniteSet(Names)

AccountRow == [role : DOMAIN ROLES, active : BOOLEAN, version : Nat]
TrailRow == [by : Names \cup {None}, target : Names, role : DOMAIN ROLES, active : BOOLEAN]
ASSUME NoneIsNoRow == None \notin AccountRow \cup TrailRow

VARIABLES
    users,      \* table users: None or role, active, version
    sessions,   \* table sessions: token, version
    trail,      \* table identity_audit
    tokens,     \* user and expiry of every token ever issued; a token is its index
    wires,      \* SocketAccess._clients: token of each socket; 0 before it, -1 after
    thread,     \* what each request thread is at
    outside,    \* accounts the operator's process has changed (history)
    asked

identityVars == <<now, users, sessions, trail, tokens, wires, thread, outside, asked>>

AtEase == [pc |-> "idle", kind |-> None, user |-> None, version |-> 0, token |-> 0, sid |-> None, left |-> {}]
Account(role, active, version) == [role |-> role, active |-> active, version |-> version]

\* bootstrap writes the first administrator into an empty directory, or the
\* operator does; the run may also start when there are more.
IdentityInit ==
    /\ now = 0 /\ asked = 0 /\ sessions = {} /\ tokens = <<>> /\ outside = {}
    /\ \E first \in SUBSET Names :
          /\ users = [u \in Names |-> IF u \in first THEN Account("admin", TRUE, 1) ELSE None]
          /\ trail = [i \in 1..Cardinality(first) |->
                         [by |-> None, target |-> SetToSeq(first)[i], role |-> "admin", active |-> TRUE]]
    /\ wires = [s \in Sids |-> 0]
    /\ thread = [t \in Threads |-> AtEase]

Exists(u) == users[u] # None
Active(u) == Exists(u) /\ users[u].active
Admins == {u \in Names : Active(u) /\ users[u].role = "admin"}
UserOf(token) == tokens[token].user
\* principal: a session on record, of an active account, at its version, not yet expired.
Principal(token) ==
    \E s \in sessions :
        /\ s.token = token /\ tokens[token].expires > now
        /\ Active(UserOf(token)) /\ users[UserOf(token)].version = s.version
\* Sessions whose cookie a browser has: the login route sets it last.
Cookies == {s \in sessions : \A t \in Threads : thread[t].pc = "adopt" => thread[t].token # s.token}
Live == {s.token : s \in {x \in Cookies : Principal(x.token)}}
Of(u) == {s \in sessions : UserOf(s.token) = u}

Request == asked < MaxRequests /\ asked' = asked + 1
Go(t, task) == thread' = [thread EXCEPT ![t] = task]
At(t, pc) == thread[t].pc = pc
Done(t) == Go(t, AtEase)

\* MUTATION_PERMISSIONS, for the requests of this module.
PermissionFor(kind) == CASE kind = "password" -> "profile" [] kind = "chat" -> "investigate" [] OTHER -> "admin"
Allowed(u, kind) == PermissionFor(kind) \in ROLES[users[u].role]

\* _require_login, _require_access and _change_request's second look at the
\* password: g.principal is a copy, what the transaction compares again.
Authorise(t, kind) ==
    /\ At(t, "idle") /\ Request
    /\ \E token \in Live :
          /\ Allowed(UserOf(token), kind)
          /\ Go(t, [AtEase EXCEPT !.pc = "write", !.kind = kind, !.user = UserOf(token),
                                  !.version = users[UserOf(token)].version])
    /\ UNCHANGED <<now, users, sessions, trail, tokens, wires, outside>>

TrustedCopy(t) == Active(thread[t].user)
\* _write for an actor that is a principal.
Standing(t) ==
    /\ Active(thread[t].user) /\ users[thread[t].user].version = thread[t].version
    /\ thread[t].kind # "password" => users[thread[t].user].role = "admin"

Audited(by, u, role, active) == trail' = Append(trail, [by |-> by, target |-> u, role |-> role, active |-> active])

FirstIsAdmin(role) == (\A n \in Names : ~Exists(n)) => role = "admin"

\* create, under _write: by is None for the operator.
CreateUser(by, u, role) ==
    /\ ~Exists(u) /\ FirstIsAdmin(role)
    /\ users' = [users EXCEPT ![u] = Account(role, TRUE, 1)]
    /\ Audited(by, u, role, TRUE)
    /\ UNCHANGED sessions

LastAdminLeaves(u, role, active) == Admins = {u} /\ (role # "admin" \/ ~active)

\* change, and change_password with role and active as they are.
ChangeUser(by, u, role, active) ==
    /\ Exists(u)
    /\ by = u => role = users[u].role /\ active = users[u].active
    /\ ~LastAdminLeaves(u, role, active)
    /\ users' = [users EXCEPT ![u] = Account(role, active, @.version + 1)]
    /\ sessions' = sessions \ Of(u)
    /\ Audited(by, u, role, active)

\* The transaction: committed, refused, or rolled back for an actor that lost its standing.
Write(t) ==
    /\ At(t, "write")
    /\ \/ /\ Standing(t) /\ thread[t].kind = "create"
          /\ \E u \in Names, role \in RolesGiven : CreateUser(thread[t].user, u, role)
          /\ Done(t)
       \/ /\ Standing(t) /\ thread[t].kind = "change"
          /\ \E u \in Names, role \in RolesGiven, active \in BOOLEAN : ChangeUser(thread[t].user, u, role, active)
          /\ Go(t, [AtEase EXCEPT !.pc = "sweep"])
       \/ /\ Standing(t) /\ thread[t].kind = "password"
          /\ ChangeUser(thread[t].user, thread[t].user, users[thread[t].user].role, users[thread[t].user].active)
          /\ Go(t, [AtEase EXCEPT !.pc = "sweep"])
       \/ /\ ~Standing(t) \/ thread[t].kind # "password"
          /\ Done(t) /\ UNCHANGED <<users, sessions, trail>>
    /\ UNCHANGED <<now, tokens, wires, outside, asked>>

\* manage_users.py: another process, no principal to compare, no sockets to sweep.
Operator ==
    /\ Request
    /\ \E u \in Names :
          /\ \/ \E role \in RolesGiven : CreateUser(None, u, role)
             \/ Exists(u) /\ ChangeUser(None, u, users[u].role, users[u].active)
          /\ outside' = outside \cup {u}
    /\ UNCHANGED <<now, tokens, wires, thread>>

-----------------------------------------------------------------------------
(* Sessions *)

\* login up to the check of the password (slow, outside every lock).
Login(t) ==
    /\ At(t, "idle") /\ Request
    /\ \E u \in Names :
          /\ Active(u)
          /\ Go(t, [AtEase EXCEPT !.pc = "issue", !.user = u, !.version = users[u].version])
    /\ UNCHANGED <<now, users, sessions, trail, tokens, wires, outside>>

Newest(set) == {s \in set : Cardinality({x \in set : x.token > s.token}) < SessionCap - 1}

\* issue: nothing for an account that has changed; expired and surplus sessions go.
Issue(t) ==
    LET u == thread[t].user
        kept == {s \in sessions : tokens[s.token].expires > now}
    IN /\ At(t, "issue")
       /\ IF Active(u) /\ users[u].version = thread[t].version
          THEN /\ tokens' = Append(tokens, [user |-> u, expires |-> now + SessionLife])
               /\ sessions' = (kept \ Of(u)) \cup Newest(kept \cap Of(u))
                                 \cup {[token |-> Len(tokens) + 1, version |-> thread[t].version]}
               /\ Go(t, [AtEase EXCEPT !.pc = "adopt", !.token = Len(tokens) + 1])
          ELSE Done(t) /\ UNCHANGED <<tokens, sessions>>
       /\ UNCHANGED <<now, users, trail, wires, outside, asked>>

\* The rest of the login route: the browser's former session is revoked.
Adopt(t) ==
    /\ At(t, "adopt")
    /\ IF Principal(thread[t].token)
       THEN /\ \E former \in SUBSET (Cookies \cap Of(UserOf(thread[t].token))) :
                  Cardinality(former) <= 1 /\ sessions' = sessions \ former
            /\ Go(t, [AtEase EXCEPT !.pc = "sweep"])
       ELSE Done(t) /\ UNCHANGED sessions
    /\ UNCHANGED <<now, users, trail, tokens, wires, outside, asked>>

Logout(t) ==
    /\ At(t, "idle") /\ Request
    /\ \E s \in Cookies : sessions' = sessions \ {s}
    /\ Go(t, [AtEase EXCEPT !.pc = "sweep"])
    /\ UNCHANGED <<now, users, trail, tokens, wires, outside>>

-----------------------------------------------------------------------------
(* Sockets *)

CheckFirst == <<"check", "register">>
DialOrder == <<"register", "check">>

\* on_connect, with the session cookie of a browser.
Connect(t) ==
    /\ At(t, "idle") /\ Request
    /\ \E sid \in Sids, s \in Cookies :
          /\ wires[sid] = 0 /\ \A x \in Threads : thread[x].sid # sid
          /\ Go(t, [AtEase EXCEPT !.pc = "dial", !.sid = sid, !.token = s.token, !.left = {1, 2}])
    /\ UNCHANGED <<now, users, sessions, trail, tokens, wires, outside>>

\* SocketAccess.connect: the token is registered first, looked up second.
Dial(t) ==
    LET step == 3 - Cardinality(thread[t].left)
        after == IF step = 1 THEN Go(t, [thread[t] EXCEPT !.left = {2}]) ELSE Done(t)
    IN /\ At(t, "dial")
       /\ CASE DialOrder[step] = "register" ->
                  wires' = [wires EXCEPT ![thread[t].sid] = thread[t].token] /\ after
            [] DialOrder[step] = "check" /\ Principal(thread[t].token) -> after /\ UNCHANGED wires
            [] OTHER -> wires' = [wires EXCEPT ![thread[t].sid] = -1] /\ Done(t)
       /\ UNCHANGED <<now, users, sessions, trail, tokens, outside, asked>>

Registered == {sid \in Sids : wires[sid] > 0}

\* sweep and emit copy the registry, then look each token up and drop those
\* that stand for nobody any more (emit delivers to the rest).
Emit(t) ==
    /\ At(t, "idle") /\ Request
    /\ Go(t, [AtEase EXCEPT !.pc = "sweep"])
    /\ UNCHANGED <<now, users, sessions, trail, tokens, wires, outside>>
Sweep(t) ==
    /\ At(t, "sweep")
    /\ Go(t, IF Registered = {} THEN AtEase ELSE [AtEase EXCEPT !.pc = "drop", !.left = Registered])
    /\ UNCHANGED <<now, users, sessions, trail, tokens, wires, outside, asked>>
DropOne(t) ==
    /\ At(t, "drop")
    /\ \E sid \in thread[t].left :
          /\ wires' = IF sid \in Registered /\ ~Principal(wires[sid]) THEN [wires EXCEPT ![sid] = -1] ELSE wires
          /\ Go(t, IF thread[t].left = {sid} THEN AtEase ELSE [thread[t] EXCEPT !.left = @ \ {sid}])
    /\ UNCHANGED <<now, users, sessions, trail, tokens, outside, asked>>

\* The browser goes away.
Disconnect ==
    /\ \E sid \in Registered : wires' = [wires EXCEPT ![sid] = -1]
    /\ UNCHANGED <<now, users, sessions, trail, tokens, thread, outside, asked>>

IdentityTick ==
    /\ now < IdentityEnd /\ now' = now + 1
    /\ UNCHANGED <<users, sessions, trail, tokens, wires, thread, outside, asked>>

IdentityNext ==
    \/ \E t \in Threads :
          \/ \E kind \in {"create", "change", "password"} : Authorise(t, kind)
          \/ Write(t) \/ Login(t) \/ Issue(t) \/ Adopt(t) \/ Logout(t)
          \/ Connect(t) \/ Dial(t) \/ Emit(t) \/ Sweep(t) \/ DropOne(t)
    \/ Operator \/ Disconnect \/ IdentityTick

IdentitySpec == IdentityInit /\ [][IdentityNext]_identityVars

-----------------------------------------------------------------------------
IdentityTypeOK ==
    /\ \A u \in Names : Exists(u) => users[u].role \in DOMAIN ROLES /\ users[u].active \in BOOLEAN /\ users[u].version > 0
    /\ \A s \in sessions : s.token \in DOMAIN tokens
    /\ \A u \in Names : Cardinality(Of(u)) <= SessionCap

\* What the trail before its i-th entry says of an account.
SaidBefore(i, u) ==
    LET about == {k \in 1..(i - 1) : trail[k].target = u}
    IN IF about = {} THEN None ELSE trail[CHOOSE k \in about : \A x \in about : x <= k]

(* The audit trail tells the whole story: replayed, it gives the directory as  *)
(* it is, and nobody is in it as an actor who, going by the entries before,    *)
(* had been demoted or disabled (identity_routes.py: a change and its event    *)
(* commit together; a principal is compared again inside the transaction).     *)
TrailHasAuthority ==
    /\ \A u \in Names :
          LET said == SaidBefore(Len(trail) + 1, u)
          IN IF Exists(u) THEN said # None /\ said.role = users[u].role /\ said.active = users[u].active
             ELSE said = None
    /\ \A i \in DOMAIN trail :
          LET by == trail[i].by
          IN by # None => /\ SaidBefore(i, by) # None /\ SaidBefore(i, by).active
                          /\ by # trail[i].target => SaidBefore(i, by).role = "admin"

(* When no request is under way, no socket stays registered for a session that *)
(* was revoked - by a change of the account, a logout, a newer login - while   *)
(* the socket was just connecting; what is left are sessions that expired and  *)
(* accounts the operator's process changed, which the next delivery drops.     *)
RevokedIsUnplugged ==
    (\A t \in Threads : thread[t].pc \in {"idle", "write", "issue"}) =>
        \A sid \in Registered :
            LET token == wires[sid]
            IN Principal(token) \/ tokens[token].expires <= now \/ UserOf(token) \in outside
=============================================================================
