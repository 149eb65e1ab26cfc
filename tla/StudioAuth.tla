----------------------------- MODULE StudioAuth -----------------------------
(* Who may use Studio: sign-in through Entra with one-time transactions,    *)
(* members with roles kept in PostgreSQL or Redis, administrators who       *)
(* change members, and the audit around mutations of upstream services.    *)
EXTENDS Naturals, FiniteSets, StudioValues

CONSTANTS
    Users,
    Bootstrap,          \* users on both administrator allow-lists
    AuthStores,         \* the stores: "postgres", "redis"
    Logins,             \* login transactions
    Visitors,           \* requests under way at one time
    MaxVisits           \* bound on the requests made

ASSUME AuthAssumption ==
    /\ Bootstrap \subseteq Users /\ Bootstrap # {}
    /\ AuthStores \subseteq {"postgres", "redis"} /\ MaxVisits \in Nat

VARIABLES
    authStore,      \* where members are kept
    member,         \* member[u]: role and status
    activeAdmins,   \* the set of active administrators, Redis only
    login,          \* login[t]: "free", "saved" or "consumed"
    sessions,       \* users with a session
    visit,          \* visit[v]: the request under way
    granted,        \* granted[t]: sessions a transaction led to
    hadAdmin,       \* there has been an active administrator
    loginCrossed,   \* a sign-in wrote a member changed since it was read
    audit,          \* entries about mutations: "requested", "succeeded", "failed"
    effects,        \* mutations that reached an upstream service
    visits

authVars == <<authStore, member, activeAdmins, login, sessions, visit, granted, hadAdmin, loginCrossed,
              audit, effects, visits>>

Roles == {"admin", "readonly"}
Statuses == {"pending", "active", "blocked"}
ASSUME MemberAssumption == Nothing \notin [role : Roles, status : Statuses]
Changes == [role : Roles, status : {Nothing}] \cup [role : {Nothing}, status : Statuses]
NoVisit == [pc |-> "idle", u |-> Nothing, t |-> Nothing, target |-> Nothing, seen |-> Nothing, id |-> 0]

IsAdmin(m) == m # Nothing /\ m.role = "admin" /\ m.status = "active"
Admins == {u \in Users : IsAdmin(member[u])}

(* initialize: an administrator, or the allow-lists, must be there; `team' *)
(* are administrators of earlier days, signed in.                          *)
AuthInit ==
    /\ authStore \in AuthStores
    /\ \E team \in SUBSET Users :
          /\ member = [u \in Users |-> IF u \in team THEN [role |-> "admin", status |-> "active"] ELSE Nothing]
          /\ activeAdmins = IF authStore = "redis" THEN team ELSE {}
          /\ sessions = team /\ hadAdmin = (team # {})
    /\ login = [t \in Logins |-> "free"]
    /\ visit = [v \in Visitors |-> NoVisit] /\ granted = [t \in Logins |-> 0]
    /\ loginCrossed = FALSE /\ audit = {} /\ effects = {} /\ visits = 0

VisitTo(v, rec) == visit' = [visit EXCEPT ![v] = rec]
Leave(v) == VisitTo(v, NoVisit)
Arrive(v, rec) ==
    /\ visit[v] = NoVisit /\ visits < MaxVisits /\ visits' = visits + 1
    /\ VisitTo(v, [rec EXCEPT !.id = visits'])

-----------------------------------------------------------------------------
(* start_login.                                                            *)
StartLogin(t) ==
    /\ login[t] = "free" /\ login' = [login EXCEPT ![t] = "saved"]
    /\ UNCHANGED <<authStore, member, activeAdmins, sessions, visit, granted, hadAdmin, loginCrossed, audit, effects, visits>>

LoginExpires(t) ==
    /\ login[t] = "saved" /\ login' = [login EXCEPT ![t] = "consumed"]
    /\ UNCHANGED <<authStore, member, activeAdmins, sessions, visit, granted, hadAdmin, loginCrossed, audit, effects, visits>>

(* consume_login: GETDEL.                                                  *)
Consumed(t) == [login EXCEPT ![t] = "consumed"]

(* auth_callback, possibly a second time for the same transaction; an      *)
(* error or a wrong state ends it, and the transaction with it.            *)
Callback(v, t, u, accepted) ==
    /\ visit[v] = NoVisit /\ login[t] # "free" /\ visits < MaxVisits /\ visits' = visits + 1
    /\ login' = Consumed(t)
    /\ VisitTo(v, IF login[t] = "saved" /\ accepted
                  THEN [NoVisit EXCEPT !.pc = "exchange", !.u = u, !.t = t, !.id = visits'] ELSE NoVisit)
    /\ UNCHANGED <<authStore, member, activeAdmins, sessions, granted, hadAdmin, loginCrossed, audit, effects>>

(* The code is exchanged and the ID token verified, or refused.            *)
Exchange(v) ==
    /\ visit[v].pc = "exchange"
    /\ VisitTo(v, [visit[v] EXCEPT !.pc = "upsert"]) \/ Leave(v)
    /\ UNCHANGED <<authStore, member, activeAdmins, login, sessions, granted, hadAdmin, loginCrossed, audit, effects, visits>>

NewMember(u) ==
    IF u \in Bootstrap THEN [role |-> "admin", status |-> "active"]
    ELSE [role |-> "readonly", status |-> "pending"]

(* upsert_login reads the member.  A row that exists is locked until the   *)
(* transaction commits and keeps role and status; a new one, and any on    *)
(* Redis, is written as it was read, a moment later.                       *)
ReadMember(v) ==
    LET m == member[visit[v].u]
    IN  /\ visit[v].pc = "upsert"
        /\ VisitTo(v, [visit[v] EXCEPT !.seen = m,
                          !.pc = IF authStore = "postgres" /\ m # Nothing THEN "session" ELSE "write"])
        /\ UNCHANGED <<authStore, member, activeAdmins, login, sessions, granted, hadAdmin, loginCrossed, audit, effects, visits>>

WriteMember(v) ==
    LET u == visit[v].u
        m == IF visit[v].seen = Nothing THEN NewMember(u) ELSE visit[v].seen
    IN  /\ visit[v].pc = "write"
        /\ member' = [member EXCEPT ![u] = m]
        /\ activeAdmins' = IF authStore = "redis" /\ IsAdmin(m) THEN activeAdmins \cup {u} ELSE activeAdmins
        /\ hadAdmin' = (hadAdmin \/ IsAdmin(m))
        /\ loginCrossed' = (loginCrossed \/ member[u] # visit[v].seen)
        /\ VisitTo(v, [visit[v] EXCEPT !.pc = "session", !.seen = Nothing])
        /\ UNCHANGED <<authStore, login, sessions, granted, audit, effects, visits>>

SaveSession(v) ==
    /\ visit[v].pc = "session"
    /\ sessions' = sessions \cup {visit[v].u}
    /\ granted' = [granted EXCEPT ![visit[v].t] = @ + 1] /\ Leave(v)
    /\ UNCHANGED <<authStore, member, activeAdmins, login, hadAdmin, loginCrossed, audit, effects, visits>>

(* auth_logout, or the session's TTL.                                      *)
Logout(u) ==
    /\ u \in sessions /\ sessions' = sessions \ {u}
    /\ UNCHANGED <<authStore, member, activeAdmins, login, visit, granted, hadAdmin, loginCrossed, audit, effects, visits>>

-----------------------------------------------------------------------------
(* StudioAuthMiddleware: a session, a member that is active and, for any   *)
(* change, an administrator, and the session's CSRF token.                 *)
Authorized(u) == u \in sessions /\ IsAdmin(member[u])

(* admin_update_user: `target' is the member to change and what to set.    *)
AskUpdate(v, u, target, change) ==
    /\ Authorized(u)
    /\ Arrive(v, [NoVisit EXCEPT !.pc = "update", !.u = u, !.target = target, !.seen = change])
    /\ UNCHANGED <<authStore, member, activeAdmins, login, sessions, granted, hadAdmin, loginCrossed, audit, effects>>

Updated(m, change) ==
    [role |-> IF change.role = Nothing THEN m.role ELSE change.role,
     status |-> IF change.status = Nothing THEN m.status ELSE change.status]

(* Redis: update_member reads the member before its script runs.           *)
ReadTarget(v) ==
    LET me == visit[v]
        m == member[me.target]
    IN  /\ me.pc = "update" /\ authStore = "redis"
        /\ IF m = Nothing THEN Leave(v)
           ELSE LET next == Updated(m, me.seen)
                IN  IF me.u = me.target /\ ~IsAdmin(next) THEN Leave(v)
                    ELSE VisitTo(v, [me EXCEPT !.pc = "script", !.seen = next])
        /\ UNCHANGED <<authStore, member, activeAdmins, login, sessions, granted, hadAdmin, loginCrossed, audit, effects, visits>>

(* Seeded fault: the last administrator may be demoted by another.         *)
MutantLastAdmin(u, next, count) == FALSE
LastAdmin(u, next, count) == IsAdmin(member[u]) /\ ~IsAdmin(next) /\ count <= 1

(* _UPDATE_MEMBER_SCRIPT.                                                  *)
UpdateScript(v) ==
    LET me == visit[v]
        u == me.target
    IN  /\ me.pc = "script"
        /\ IF member[u] = Nothing \/ LastAdmin(u, me.seen, Cardinality(activeAdmins))
           THEN UNCHANGED <<member, activeAdmins, hadAdmin>>
           ELSE /\ member' = [member EXCEPT ![u] = me.seen]
                /\ activeAdmins' = IF IsAdmin(me.seen) THEN activeAdmins \cup {u} ELSE activeAdmins \ {u}
                /\ hadAdmin' = (hadAdmin \/ IsAdmin(me.seen))
        /\ Leave(v)
        /\ UNCHANGED <<authStore, login, sessions, granted, loginCrossed, audit, effects, visits>>

(* PostgreSQL: one transaction under the advisory lock.                    *)
UpdateRow(v) ==
    LET me == visit[v]
        u == me.target
        next == Updated(member[u], me.seen)
    IN  /\ me.pc = "update" /\ authStore = "postgres"
        /\ IF \/ member[u] = Nothing
              \/ me.u = u /\ ~IsAdmin(next)
              \/ LastAdmin(u, next, Cardinality(Admins))
           THEN UNCHANGED <<member, hadAdmin>>
           ELSE member' = [member EXCEPT ![u] = next] /\ hadAdmin' = (hadAdmin \/ IsAdmin(next))
        /\ Leave(v)
        /\ UNCHANGED <<authStore, activeAdmins, login, sessions, granted, loginCrossed, audit, effects, visits>>

-----------------------------------------------------------------------------
(* StudioMutationAuditMiddleware: an entry before the upstream call, one   *)
(* with its outcome after it.                                              *)
AskMutation(v, u) ==
    /\ Authorized(u)
    /\ Arrive(v, [NoVisit EXCEPT !.pc = "request", !.u = u])
    /\ UNCHANGED <<authStore, member, activeAdmins, login, sessions, granted, hadAdmin, loginCrossed, audit, effects>>

AuditRequested(v) ==
    LET me == visit[v]
    IN  /\ me.pc = "request"
        /\ \/ audit' = audit \cup {<<me.id, "requested">>} /\ VisitTo(v, [me EXCEPT !.pc = "call"])
           \/ Leave(v) /\ UNCHANGED audit
        /\ UNCHANGED <<authStore, member, activeAdmins, login, sessions, granted, hadAdmin, loginCrossed, effects, visits>>

CallUpstream(v, outcome) ==
    LET me == visit[v]
    IN  /\ me.pc = "call"
        /\ effects' \in IF outcome = "succeeded" THEN {effects \cup {me.id}} ELSE {effects, effects \cup {me.id}}
        /\ VisitTo(v, [me EXCEPT !.pc = "outcome", !.seen = outcome])
        /\ UNCHANGED <<authStore, member, activeAdmins, login, sessions, granted, hadAdmin, loginCrossed, audit, visits>>

AuditOutcome(v) ==
    LET me == visit[v]
    IN  /\ me.pc = "outcome"
        /\ audit' \in {audit, audit \cup {<<me.id, me.seen>>}} /\ Leave(v)
        /\ UNCHANGED <<authStore, member, activeAdmins, login, sessions, granted, hadAdmin, loginCrossed, effects, visits>>

(* The process stops, or the client goes away.                             *)
VisitBreaks(v) ==
    /\ visit[v] # NoVisit /\ Leave(v)
    /\ UNCHANGED <<authStore, member, activeAdmins, login, sessions, granted, hadAdmin, loginCrossed, audit, effects, visits>>

AuthNext ==
    \/ \E t \in Logins : StartLogin(t) \/ LoginExpires(t)
    \/ \E u \in Users : Logout(u)
    \/ \E v \in Visitors :
        \/ \E t \in Logins, u \in Users, accepted \in BOOLEAN : Callback(v, t, u, accepted)
        \/ Exchange(v) \/ ReadMember(v) \/ WriteMember(v) \/ SaveSession(v)
        \/ \E u, target \in Users, change \in Changes : AskUpdate(v, u, target, change)
        \/ ReadTarget(v) \/ UpdateScript(v) \/ UpdateRow(v)
        \/ \E u \in Users : AskMutation(v, u)
        \/ AuditRequested(v) \/ AuditOutcome(v) \/ VisitBreaks(v)
        \/ \E outcome \in {"succeeded", "failed"} : CallUpstream(v, outcome)

AuthSpec == AuthInit /\ [][AuthNext]_authVars

-----------------------------------------------------------------------------
(* Studio keeps an active administrator, also when administrators demote   *)
(* each other at the same time, unless a sign-in wrote back a member that  *)
(* had changed since it was read.                                          *)
AdminRemains == hadAdmin /\ ~loginCrossed => Admins # {}

(* A login transaction leads to one session, however often its callback is *)
(* sent.                                                                   *)
LoginOnce == \A t \in Logins : granted[t] <= 1

(* What reached an upstream service was announced in the audit first, and  *)
(* no outcome stands without its request.                                  *)
EffectAudited ==
    /\ \A id \in effects : <<id, "requested">> \in audit
    /\ \A e \in audit : <<e[1], "requested">> \in audit

(* All three: an administrator remains, one session for each login, and    *)
(* nothing done to an upstream service that the audit does not know of.    *)
AccessSound == AdminRemains /\ LoginOnce /\ EffectAudited
=============================================================================
