---------------------------- MODULE StudioProofs ----------------------------
(* Proofs about the parts of Studio: who may do what (StudioAuth), one job  *)
(* per plan (LoadTesting), the health shown (HealthStatus), the import      *)
(* (Backfill); and where requests and replicas compete, the mails about     *)
(* failures (Notifications), the gates of the telemetry providers           *)
(* (ProviderAvailability) and the alerts of the service level goals         *)
(* (Reliability).  Each has an inductive invariant of its own.              *)
EXTENDS StudioAuth, LoadTesting, HealthStatus, Backfill, Notifications, ProviderAvailability, Reliability,
        FiniteSetTheorems, SequenceTheorems, TLAPS

-----------------------------------------------------------------------------
(* StudioAuth: an administrator remains, a login leads to one session, and *)
(* the audit knows of every effect.                                        *)

(* The steps of a sign-in after its transaction was consumed.              *)
SignIn == {"exchange", "upsert", "write", "session"}
Members == [role : Roles, status : Statuses]
Outcomes == {"succeeded", "failed"}
VisitSteps == SignIn \cup {"idle", "update", "script", "request", "call", "outcome"}
VisitRecords ==
    [pc : VisitSteps, u : Users \cup {Nothing}, t : Logins \cup {Nothing}, target : Users \cup {Nothing},
     seen : {Nothing} \cup Members \cup Changes \cup Outcomes, id : Nat]

(* What a request carries at each of its steps.                            *)
Fits(r) ==
    /\ r \in VisitRecords
    /\ r.pc \in SignIn => r.u \in Users /\ r.t \in Logins
    /\ r.pc = "write" => r.seen \in Members \cup {Nothing}
    /\ r.pc \in {"update", "script"} => r.u \in Users /\ r.target \in Users
    /\ r.pc = "update" => r.seen \in Changes
    /\ r.pc = "script" => r.seen \in Members
    /\ r.pc = "outcome" => r.seen \in Outcomes

StoreType ==
    /\ member \in [Users -> Members \cup {Nothing}]
    /\ login \in [Logins -> {"free", "saved", "consumed"}]
    /\ granted \in [Logins -> Nat]
    /\ audit \subseteq Nat \X (Outcomes \cup {"requested"})
    /\ visits \in Nat

VisitType ==
    /\ visit = [v \in Visitors |-> visit[v]]
    /\ \A v \in Visitors : Fits(visit[v])

AuthType == StoreType /\ VisitType

(* A sign-in under way, or a session granted, has used up its transaction, *)
(* and is the only one.                                                    *)
LoginInv ==
    /\ \A t \in Logins : granted[t] \in {0, 1} /\ (granted[t] = 1 => login[t] = "consumed")
    /\ \A v \in Visitors : visit[v].pc \in SignIn =>
          login[visit[v].t] = "consumed" /\ granted[visit[v].t] = 0
    /\ \A v, w \in Visitors : v # w /\ visit[v].pc \in SignIn /\ visit[w].pc \in SignIn =>
          visit[v].t # visit[w].t

(* What is called, or was, is in the audit.                                *)
AuditInv ==
    /\ EffectAudited
    /\ \A v \in Visitors : visit[v].pc \in {"call", "outcome"} => <<visit[v].id, "requested">> \in audit

(* Redis counts the administrators there are, until a sign-in crosses.     *)
AdminInv ==
    /\ AdminRemains
    /\ authStore = "redis" /\ ~loginCrossed => activeAdmins = Admins
    /\ \A v \in Visitors : visit[v].pc = "script" => authStore = "redis"

AuthInv == AuthType /\ LoginInv /\ AuditInv /\ AdminInv

(* The first administrators, and nobody signed in.                         *)
LEMMA InitAuth == AuthInit => AuthInv
<1> SUFFICES ASSUME AuthInit PROVE AuthInv
  OBVIOUS
<1>0. StoreType
  BY DEF AuthInit, StoreType, Members, Roles, Statuses
<1>1. VisitType
  BY DEF AuthInit, VisitType, Fits, NoVisit, VisitRecords, VisitSteps, SignIn
<1>2. LoginInv /\ AuditInv
  BY DEF AuthInit, LoginInv, AuditInv, EffectAudited, NoVisit, SignIn
<1>3. AdminInv
  <2>1. PICK team \in SUBSET Users :
           /\ member = [u \in Users |-> IF u \in team THEN [role |-> "admin", status |-> "active"] ELSE Nothing]
           /\ activeAdmins = IF authStore = "redis" THEN team ELSE {}
           /\ hadAdmin = (team # {})
    BY DEF AuthInit
  <2>2. Admins = team
    BY <2>1, MemberAssumption DEF Admins, IsAdmin, Roles, Statuses
  <2> QED BY <2>1, <2>2 DEF AuthInit, AdminInv, AdminRemains, NoVisit
<1> QED BY <1>0, <1>1, <1>2, <1>3 DEF AuthInv, AuthType

(* A request that moves on to a step it fits keeps the types.              *)
LEMMA Moved ==
    ASSUME VisitType, NEW v \in Visitors, NEW r, Fits(r), visit' = [visit EXCEPT ![v] = r]
    PROVE  VisitType'
<1>1. \A w \in Visitors : visit'[w] = IF w = v THEN r ELSE visit[w]
  BY DEF VisitType
<1> QED BY <1>1 DEF VisitType, Fits

(* Redis reads the member, and computes what to write.                     *)
LEMMA TargetRead ==
    ASSUME AuthType, NEW v \in Visitors, ReadTarget(v)
    PROVE  \E r : /\ Fits(r) /\ r.pc \in {"idle", "script"} /\ visit' = [visit EXCEPT ![v] = r]
<1> DEFINE next == Updated(member[visit[v].target], visit[v].seen)
           r == [visit[v] EXCEPT !.pc = "script", !.seen = next]
<1>1. Fits(visit[v]) /\ visit[v].pc = "update"
  BY DEF ReadTarget, AuthType, VisitType
<1>2. Fits(NoVisit) /\ NoVisit.pc = "idle"
  BY DEF Fits, NoVisit, VisitRecords, VisitSteps, SignIn
<1>3. CASE visit' = [visit EXCEPT ![v] = NoVisit]
  BY <1>2, <1>3
<1>4. CASE member[visit[v].target] # Nothing /\ visit' = [visit EXCEPT ![v] = r]
  <2>1. member[visit[v].target] \in Members /\ visit[v].seen \in Changes
    BY <1>1, <1>4 DEF Fits, AuthType, StoreType
  <2>2. next \in Members
    BY <2>1 DEF Updated, Members, Changes
  <2> HIDE DEF next
  <2>3. Fits(r) /\ r.pc = "script"
    BY <1>1, <2>2 DEF Fits, VisitRecords, VisitSteps, SignIn
  <2> QED BY <1>4, <2>3
<1> QED BY <1>3, <1>4 DEF ReadTarget, VisitTo, Leave


(* Every step leaves the members, the logins and the audit of their types. *)
LEMMA NextStore == AuthType /\ [AuthNext]_authVars => StoreType'
<1> SUFFICES ASSUME AuthType, [AuthNext]_authVars PROVE StoreType'
  OBVIOUS
<1>1. ASSUME NEW t \in Logins, StartLogin(t) PROVE StoreType'
  BY <1>1 DEF StartLogin, AuthType, StoreType
<1>2. ASSUME NEW t \in Logins, LoginExpires(t) PROVE StoreType'
  BY <1>2 DEF LoginExpires, AuthType, StoreType
<1>3. ASSUME NEW u \in Users, Logout(u) PROVE StoreType'
  BY <1>3 DEF Logout, AuthType, StoreType
<1>4. ASSUME NEW v \in Visitors, NEW t \in Logins, NEW u \in Users, NEW accepted \in BOOLEAN,
       Callback(v, t, u, accepted)
       PROVE  StoreType'
  BY <1>4 DEF Callback, VisitTo, Consumed, NoVisit, AuthType, StoreType
<1>5. ASSUME NEW v \in Visitors, Exchange(v) PROVE StoreType'
  BY <1>5 DEF Exchange, VisitTo, Leave, NoVisit, AuthType, StoreType
<1>6. ASSUME NEW v \in Visitors, ReadMember(v) PROVE StoreType'
  BY <1>6 DEF ReadMember, VisitTo, AuthType, StoreType
<1>7. ASSUME NEW v \in Visitors, WriteMember(v) PROVE StoreType'
  BY <1>7 DEF WriteMember, VisitTo, NewMember, AuthType, StoreType, VisitType, Fits,
     SignIn, Members, Roles, Statuses
<1>8. ASSUME NEW v \in Visitors, SaveSession(v) PROVE StoreType'
  BY <1>8 DEF SaveSession, VisitTo, Leave, NoVisit, AuthType, StoreType, VisitType,
     Fits, SignIn
<1>9. ASSUME NEW v \in Visitors, NEW u \in Users, NEW other \in Users, NEW change \in Changes,
       AskUpdate(v, u, other, change)
       PROVE  StoreType'
  BY <1>9 DEF AskUpdate, Arrive, VisitTo, NoVisit, AuthType, StoreType
<1>10. ASSUME NEW v \in Visitors, ReadTarget(v) PROVE StoreType'
  BY <1>10 DEF ReadTarget, VisitTo, Leave, NoVisit, AuthType, StoreType
<1>11. ASSUME NEW v \in Visitors, UpdateScript(v) PROVE StoreType'
  BY <1>11 DEF UpdateScript, VisitTo, Leave, NoVisit, AuthType, StoreType, VisitType,
     Fits
<1>12. ASSUME NEW v \in Visitors, UpdateRow(v) PROVE StoreType'
  BY <1>12 DEF UpdateRow, VisitTo, Leave, NoVisit, AuthType, StoreType, VisitType, Fits,
     Updated, Members, Changes
<1>13. ASSUME NEW v \in Visitors, NEW u \in Users, AskMutation(v, u) PROVE StoreType'
  BY <1>13 DEF AskMutation, Arrive, VisitTo, NoVisit, AuthType, StoreType
<1>14. ASSUME NEW v \in Visitors, AuditRequested(v) PROVE StoreType'
  BY <1>14 DEF AuditRequested, VisitTo, Leave, NoVisit, AuthType, StoreType, VisitType,
     Fits, VisitRecords
<1>15. ASSUME NEW v \in Visitors, NEW outcome \in Outcomes, CallUpstream(v, outcome) PROVE StoreType'
  BY <1>15 DEF CallUpstream, VisitTo, AuthType, StoreType
<1>16. ASSUME NEW v \in Visitors, AuditOutcome(v) PROVE StoreType'
  BY <1>16 DEF AuditOutcome, VisitTo, Leave, NoVisit, AuthType, StoreType, VisitType,
     Fits, VisitRecords
<1>17. ASSUME NEW v \in Visitors, VisitBreaks(v) PROVE StoreType'
  BY <1>17 DEF VisitBreaks, VisitTo, Leave, NoVisit, AuthType, StoreType
<1>18. CASE UNCHANGED authVars
  BY <1>18 DEF authVars, AuthType, StoreType
<1> QED
  BY <1>1, <1>2, <1>3, <1>4, <1>5, <1>6, <1>7, <1>8, <1>9, <1>10, <1>11, <1>12, <1>13,
     <1>14, <1>15, <1>16, <1>17, <1>18 DEF AuthNext, Outcomes

(* Every step leaves a visit with what its step needs.                     *)
LEMMA NextVisit == AuthType /\ [AuthNext]_authVars => VisitType'
<1> SUFFICES ASSUME AuthType, [AuthNext]_authVars PROVE VisitType'
  OBVIOUS
<1>1. ASSUME NEW t \in Logins, StartLogin(t) PROVE VisitType'
  BY <1>1 DEF StartLogin, AuthType, VisitType, Fits, VisitRecords, VisitSteps, SignIn,
     Outcomes
<1>2. ASSUME NEW t \in Logins, LoginExpires(t) PROVE VisitType'
  BY <1>2 DEF LoginExpires, AuthType, VisitType, Fits, VisitRecords, VisitSteps, SignIn,
     Outcomes
<1>3. ASSUME NEW u \in Users, Logout(u) PROVE VisitType'
  BY <1>3 DEF Logout, AuthType, VisitType, Fits, VisitRecords, VisitSteps, SignIn,
     Outcomes
<1>4. ASSUME NEW v \in Visitors, NEW t \in Logins, NEW u \in Users, NEW accepted \in BOOLEAN,
       Callback(v, t, u, accepted)
       PROVE  VisitType'
  <2> DEFINE r == [NoVisit EXCEPT !.pc = "exchange", !.u = u, !.t = t, !.id = visits']
  <2>0. visits' \in Nat
    BY <1>4 DEF Callback, Arrive, AuthType, StoreType
  <2>1. Fits(r) /\ Fits(NoVisit)
    BY <2>0 DEF Fits, NoVisit, VisitRecords, VisitSteps, SignIn
  <2>2. visit' = [visit EXCEPT ![v] = r] \/ visit' = [visit EXCEPT ![v] = NoVisit]
    BY <1>4 DEF Callback, VisitTo
  <2> QED BY <2>1, <2>2, Moved DEF AuthType
<1>5. ASSUME NEW v \in Visitors, Exchange(v) PROVE VisitType'
  BY <1>5 DEF Exchange, VisitTo, Leave, NoVisit, AuthType, VisitType, Fits,
     VisitRecords, VisitSteps, SignIn, Outcomes
<1>6. ASSUME NEW v \in Visitors, ReadMember(v) PROVE VisitType'
  <2> DEFINE m == member[visit[v].u]
             r == [visit[v] EXCEPT !.seen = m,
                      !.pc = IF authStore = "postgres" /\ m # Nothing THEN "session" ELSE "write"]
  <2>1. Fits(visit[v]) /\ visit[v].pc = "upsert"
    BY <1>6 DEF ReadMember, AuthType, VisitType
  <2>2. m \in Members \cup {Nothing}
    BY <2>1 DEF Fits, SignIn, AuthType, StoreType
  <2> HIDE DEF m
  <2>3. Fits(r)
    BY <2>1, <2>2 DEF Fits, VisitRecords, VisitSteps, SignIn
  <2>4. visit' = [visit EXCEPT ![v] = r]
    BY <1>6 DEF ReadMember, VisitTo, m
  <2> QED BY <2>3, <2>4, Moved DEF AuthType
<1>7. ASSUME NEW v \in Visitors, WriteMember(v) PROVE VisitType'
  <2> DEFINE r == [visit[v] EXCEPT !.pc = "session", !.seen = Nothing]
  <2>1. Fits(visit[v]) /\ visit[v].pc = "write" /\ visit' = [visit EXCEPT ![v] = r]
    BY <1>7 DEF WriteMember, VisitTo, AuthType, VisitType
  <2>2. Fits(r)
    BY <2>1 DEF Fits, VisitRecords, VisitSteps, SignIn
  <2> QED BY <2>1, <2>2, Moved DEF AuthType
<1>8. ASSUME NEW v \in Visitors, SaveSession(v) PROVE VisitType'
  BY <1>8 DEF SaveSession, VisitTo, Leave, NoVisit, AuthType, VisitType, Fits,
     VisitRecords, VisitSteps, SignIn, Outcomes
<1>9. ASSUME NEW v \in Visitors, NEW u \in Users, NEW other \in Users, NEW change \in Changes,
       AskUpdate(v, u, other, change)
       PROVE  VisitType'
  <2> DEFINE q == [NoVisit EXCEPT !.pc = "update", !.u = u, !.target = other, !.seen = change]
             r == [q EXCEPT !.id = visits']
  <2>0. visits' \in Nat
    BY <1>9 DEF AskUpdate, Arrive, AuthType, StoreType
  <2>1. Fits(r)
    BY <2>0 DEF Fits, VisitRecords, VisitSteps, SignIn, NoVisit
  <2>2. visit' = [visit EXCEPT ![v] = r]
    BY <1>9 DEF AskUpdate, Arrive, VisitTo
  <2> QED BY <2>1, <2>2, Moved DEF AuthType
<1>10. ASSUME NEW v \in Visitors, ReadTarget(v) PROVE VisitType'
  BY <1>10, TargetRead, Moved DEF AuthType
<1>11. ASSUME NEW v \in Visitors, UpdateScript(v) PROVE VisitType'
  BY <1>11 DEF UpdateScript, VisitTo, Leave, NoVisit, AuthType, VisitType, Fits,
     VisitRecords, VisitSteps, SignIn, Outcomes
<1>12. ASSUME NEW v \in Visitors, UpdateRow(v) PROVE VisitType'
  BY <1>12 DEF UpdateRow, VisitTo, Leave, NoVisit, AuthType, VisitType, Fits,
     VisitRecords, VisitSteps, SignIn, Outcomes
<1>13. ASSUME NEW v \in Visitors, NEW u \in Users, AskMutation(v, u) PROVE VisitType'
  <2> DEFINE q == [NoVisit EXCEPT !.pc = "request", !.u = u]
             r == [q EXCEPT !.id = visits']
  <2>0. visits' \in Nat
    BY <1>13 DEF AskMutation, Arrive, AuthType, StoreType
  <2>1. Fits(r)
    BY <2>0 DEF Fits, VisitRecords, VisitSteps, SignIn, NoVisit
  <2>2. visit' = [visit EXCEPT ![v] = r]
    BY <1>13 DEF AskMutation, Arrive, VisitTo
  <2> QED BY <2>1, <2>2, Moved DEF AuthType
<1>14. ASSUME NEW v \in Visitors, AuditRequested(v) PROVE VisitType'
  BY <1>14 DEF AuditRequested, VisitTo, Leave, NoVisit, AuthType, VisitType, Fits,
     VisitRecords, VisitSteps, SignIn, Outcomes
<1>15. ASSUME NEW v \in Visitors, NEW outcome \in Outcomes, CallUpstream(v, outcome) PROVE VisitType'
  BY <1>15 DEF CallUpstream, VisitTo, AuthType, VisitType, Fits, VisitRecords,
     VisitSteps, SignIn, Outcomes
<1>16. ASSUME NEW v \in Visitors, AuditOutcome(v) PROVE VisitType'
  BY <1>16 DEF AuditOutcome, VisitTo, Leave, NoVisit, AuthType, VisitType, Fits,
     VisitRecords, VisitSteps, SignIn, Outcomes
<1>17. ASSUME NEW v \in Visitors, VisitBreaks(v) PROVE VisitType'
  BY <1>17 DEF VisitBreaks, VisitTo, Leave, NoVisit, AuthType, VisitType, Fits,
     VisitRecords, VisitSteps, SignIn, Outcomes
<1>18. CASE UNCHANGED authVars
  BY <1>18 DEF authVars, AuthType, VisitType, Fits, VisitRecords, VisitSteps, SignIn,
     Outcomes
<1> QED
  BY <1>1, <1>2, <1>3, <1>4, <1>5, <1>6, <1>7, <1>8, <1>9, <1>10, <1>11, <1>12, <1>13,
     <1>14, <1>15, <1>16, <1>17, <1>18 DEF AuthNext, Outcomes

(* Every step leaves a login with at most one session.                     *)
LEMMA NextLogin == AuthType /\ LoginInv /\ [AuthNext]_authVars => LoginInv'
<1> SUFFICES ASSUME AuthType, LoginInv, [AuthNext]_authVars PROVE LoginInv'
  OBVIOUS
<1>1. ASSUME NEW t \in Logins, StartLogin(t) PROVE LoginInv'
  BY <1>1 DEF StartLogin, AuthType, StoreType, VisitType, Fits, VisitRecords, LoginInv,
     SignIn
<1>2. ASSUME NEW t \in Logins, LoginExpires(t) PROVE LoginInv'
  BY <1>2 DEF LoginExpires, AuthType, StoreType, VisitType, Fits, VisitRecords,
     LoginInv, SignIn
<1>3. ASSUME NEW u \in Users, Logout(u) PROVE LoginInv'
  BY <1>3 DEF Logout, AuthType, StoreType, VisitType, Fits, VisitRecords, LoginInv,
     SignIn
<1>4. ASSUME NEW v \in Visitors, NEW t \in Logins, NEW u \in Users, NEW accepted \in BOOLEAN,
       Callback(v, t, u, accepted)
       PROVE  LoginInv'
  BY <1>4 DEF Callback, VisitTo, Consumed, NoVisit, AuthType, StoreType, VisitType,
     Fits, VisitRecords, LoginInv, SignIn
<1>5. ASSUME NEW v \in Visitors, Exchange(v) PROVE LoginInv'
  BY <1>5 DEF Exchange, VisitTo, Leave, NoVisit, AuthType, StoreType, VisitType, Fits,
     VisitRecords, LoginInv, SignIn
<1>6. ASSUME NEW v \in Visitors, ReadMember(v) PROVE LoginInv'
  BY <1>6 DEF ReadMember, VisitTo, AuthType, StoreType, VisitType, Fits, VisitRecords,
     LoginInv, SignIn
<1>7. ASSUME NEW v \in Visitors, WriteMember(v) PROVE LoginInv'
  BY <1>7 DEF WriteMember, VisitTo, NewMember, AuthType, StoreType, VisitType, Fits,
     VisitRecords, LoginInv, SignIn
<1>8. ASSUME NEW v \in Visitors, SaveSession(v) PROVE LoginInv'
  BY <1>8 DEF SaveSession, VisitTo, Leave, NoVisit, AuthType, StoreType, VisitType,
     Fits, VisitRecords, LoginInv, SignIn
<1>9. ASSUME NEW v \in Visitors, NEW u \in Users, NEW other \in Users, NEW change \in Changes,
       AskUpdate(v, u, other, change)
       PROVE  LoginInv'
  BY <1>9 DEF AskUpdate, Arrive, VisitTo, NoVisit, AuthType, StoreType, VisitType, Fits,
     VisitRecords, LoginInv, SignIn
<1>10. ASSUME NEW v \in Visitors, ReadTarget(v) PROVE LoginInv'
  <2>1. PICK r : r.pc \in {"idle", "script"} /\ visit' = [visit EXCEPT ![v] = r]
    BY <1>10, TargetRead
  <2> QED BY <1>10, <2>1 DEF ReadTarget, AuthType, VisitType, LoginInv, SignIn
<1>11. ASSUME NEW v \in Visitors, UpdateScript(v) PROVE LoginInv'
  BY <1>11 DEF UpdateScript, VisitTo, Leave, NoVisit, AuthType, StoreType, VisitType,
     Fits, VisitRecords, LoginInv, SignIn
<1>12. ASSUME NEW v \in Visitors, UpdateRow(v) PROVE LoginInv'
  BY <1>12 DEF UpdateRow, VisitTo, Leave, NoVisit, AuthType, StoreType, VisitType, Fits,
     VisitRecords, LoginInv, SignIn
<1>13. ASSUME NEW v \in Visitors, NEW u \in Users, AskMutation(v, u) PROVE LoginInv'
  BY <1>13 DEF AskMutation, Arrive, VisitTo, NoVisit, AuthType, StoreType, VisitType,
     Fits, VisitRecords, LoginInv, SignIn
<1>14. ASSUME NEW v \in Visitors, AuditRequested(v) PROVE LoginInv'
  BY <1>14 DEF AuditRequested, VisitTo, Leave, NoVisit, AuthType, StoreType, VisitType,
     Fits, VisitRecords, LoginInv, SignIn
<1>15. ASSUME NEW v \in Visitors, NEW outcome \in Outcomes, CallUpstream(v, outcome) PROVE LoginInv'
  BY <1>15 DEF CallUpstream, VisitTo, AuthType, StoreType, VisitType, Fits,
     VisitRecords, LoginInv, SignIn
<1>16. ASSUME NEW v \in Visitors, AuditOutcome(v) PROVE LoginInv'
  BY <1>16 DEF AuditOutcome, VisitTo, Leave, NoVisit, AuthType, StoreType, VisitType,
     Fits, VisitRecords, LoginInv, SignIn
<1>17. ASSUME NEW v \in Visitors, VisitBreaks(v) PROVE LoginInv'
  BY <1>17 DEF VisitBreaks, VisitTo, Leave, NoVisit, AuthType, StoreType, VisitType,
     Fits, VisitRecords, LoginInv, SignIn
<1>18. CASE UNCHANGED authVars
  BY <1>18 DEF authVars, AuthType, StoreType, VisitType, Fits, VisitRecords, LoginInv,
     SignIn
<1> QED
  BY <1>1, <1>2, <1>3, <1>4, <1>5, <1>6, <1>7, <1>8, <1>9, <1>10, <1>11, <1>12, <1>13,
     <1>14, <1>15, <1>16, <1>17, <1>18 DEF AuthNext, Outcomes

(* Every step leaves every effect and every outcome in the audit.          *)
LEMMA NextAudit == AuthType /\ AuditInv /\ [AuthNext]_authVars => AuditInv'
<1> SUFFICES ASSUME AuthType, AuditInv, [AuthNext]_authVars PROVE AuditInv'
  OBVIOUS
<1>1. ASSUME NEW t \in Logins, StartLogin(t) PROVE AuditInv'
  BY <1>1 DEF StartLogin, AuthType, StoreType, VisitType, Fits, VisitRecords, AuditInv,
     EffectAudited, Outcomes
<1>2. ASSUME NEW t \in Logins, LoginExpires(t) PROVE AuditInv'
  BY <1>2 DEF LoginExpires, AuthType, StoreType, VisitType, Fits, VisitRecords,
     AuditInv, EffectAudited, Outcomes
<1>3. ASSUME NEW u \in Users, Logout(u) PROVE AuditInv'
  BY <1>3 DEF Logout, AuthType, StoreType, VisitType, Fits, VisitRecords, AuditInv,
     EffectAudited, Outcomes
<1>4. ASSUME NEW v \in Visitors, NEW t \in Logins, NEW u \in Users, NEW accepted \in BOOLEAN,
       Callback(v, t, u, accepted)
       PROVE  AuditInv'
  BY <1>4 DEF Callback, VisitTo, Consumed, NoVisit, AuthType, StoreType, VisitType,
     Fits, VisitRecords, AuditInv, EffectAudited, Outcomes
<1>5. ASSUME NEW v \in Visitors, Exchange(v) PROVE AuditInv'
  BY <1>5 DEF Exchange, VisitTo, Leave, NoVisit, AuthType, StoreType, VisitType, Fits,
     VisitRecords, AuditInv, EffectAudited, Outcomes
<1>6. ASSUME NEW v \in Visitors, ReadMember(v) PROVE AuditInv'
  BY <1>6 DEF ReadMember, VisitTo, AuthType, StoreType, VisitType, Fits, VisitRecords,
     AuditInv, EffectAudited, Outcomes
<1>7. ASSUME NEW v \in Visitors, WriteMember(v) PROVE AuditInv'
  BY <1>7 DEF WriteMember, VisitTo, NewMember, AuthType, StoreType, VisitType, Fits,
     VisitRecords, AuditInv, EffectAudited, Outcomes
<1>8. ASSUME NEW v \in Visitors, SaveSession(v) PROVE AuditInv'
  BY <1>8 DEF SaveSession, VisitTo, Leave, NoVisit, AuthType, StoreType, VisitType,
     Fits, VisitRecords, AuditInv, EffectAudited, Outcomes
<1>9. ASSUME NEW v \in Visitors, NEW u \in Users, NEW other \in Users, NEW change \in Changes,
       AskUpdate(v, u, other, change)
       PROVE  AuditInv'
  BY <1>9 DEF AskUpdate, Arrive, VisitTo, NoVisit, AuthType, StoreType, VisitType, Fits,
     VisitRecords, AuditInv, EffectAudited, Outcomes
<1>10. ASSUME NEW v \in Visitors, ReadTarget(v) PROVE AuditInv'
  <2>1. PICK r : r.pc \in {"idle", "script"} /\ visit' = [visit EXCEPT ![v] = r]
    BY <1>10, TargetRead
  <2> QED BY <1>10, <2>1 DEF ReadTarget, AuthType, VisitType, AuditInv, EffectAudited
<1>11. ASSUME NEW v \in Visitors, UpdateScript(v) PROVE AuditInv'
  BY <1>11 DEF UpdateScript, VisitTo, Leave, NoVisit, AuthType, StoreType, VisitType,
     Fits, VisitRecords, AuditInv, EffectAudited, Outcomes
<1>12. ASSUME NEW v \in Visitors, UpdateRow(v) PROVE AuditInv'
  BY <1>12 DEF UpdateRow, VisitTo, Leave, NoVisit, AuthType, StoreType, VisitType, Fits,
     VisitRecords, AuditInv, EffectAudited, Outcomes
<1>13. ASSUME NEW v \in Visitors, NEW u \in Users, AskMutation(v, u) PROVE AuditInv'
  BY <1>13 DEF AskMutation, Arrive, VisitTo, NoVisit, AuthType, StoreType, VisitType,
     Fits, VisitRecords, AuditInv, EffectAudited, Outcomes
<1>14. ASSUME NEW v \in Visitors, AuditRequested(v) PROVE AuditInv'
  <2>1. visit[v].id \in Nat
    BY DEF AuthType, VisitType, Fits, VisitRecords
  <2>2. audit \subseteq audit' /\ audit' \subseteq audit \cup {<<visit[v].id, "requested">>}
    BY <1>14 DEF AuditRequested
  <2>3. EffectAudited'
    BY <1>14, <2>2 DEF AuditRequested, AuditInv, EffectAudited
  <2>4. \A w \in Visitors : visit'[w].pc \in {"call", "outcome"} => <<visit'[w].id, "requested">> \in audit'
    BY <1>14, <2>2 DEF AuditRequested, VisitTo, Leave, NoVisit, AuthType, VisitType, Fits, VisitRecords,
       AuditInv
  <2> QED BY <2>3, <2>4 DEF AuditInv
<1>15. ASSUME NEW v \in Visitors, NEW outcome \in Outcomes, CallUpstream(v, outcome) PROVE AuditInv'
  BY <1>15 DEF CallUpstream, VisitTo, AuthType, StoreType, VisitType, Fits,
     VisitRecords, AuditInv, EffectAudited, Outcomes
<1>16. ASSUME NEW v \in Visitors, AuditOutcome(v) PROVE AuditInv'
  BY <1>16 DEF AuditOutcome, VisitTo, Leave, NoVisit, AuthType, StoreType, VisitType,
     Fits, VisitRecords, AuditInv, EffectAudited, Outcomes
<1>17. ASSUME NEW v \in Visitors, VisitBreaks(v) PROVE AuditInv'
  BY <1>17 DEF VisitBreaks, VisitTo, Leave, NoVisit, AuthType, StoreType, VisitType,
     Fits, VisitRecords, AuditInv, EffectAudited, Outcomes
<1>18. CASE UNCHANGED authVars
  BY <1>18 DEF authVars, AuthType, StoreType, VisitType, Fits, VisitRecords, AuditInv,
     EffectAudited, Outcomes
<1> QED
  BY <1>1, <1>2, <1>3, <1>4, <1>5, <1>6, <1>7, <1>8, <1>9, <1>10, <1>11, <1>12, <1>13,
     <1>14, <1>15, <1>16, <1>17, <1>18 DEF AuthNext, Outcomes

(* One member is written.  An administrator remains if the member is one,  *)
(* was none, or is not the last.                                           *)
LEMMA AdminWritten ==
    ASSUME member \in [Users -> Members \cup {Nothing}], NEW u \in Users, NEW m,
           member' = [member EXCEPT ![u] = m],
           Admins # {} \/ IsAdmin(m),
           IsAdmin(member[u]) /\ ~IsAdmin(m) => Admins # {u}
    PROVE  /\ Admins' # {}
           /\ Admins' = IF IsAdmin(m) THEN Admins \cup {u} ELSE Admins \ {u}
<1>1. \A w \in Users : member'[w] = IF w = u THEN m ELSE member[w]
  OBVIOUS
<1>2. Admins' = {w \in Users : IsAdmin(member'[w])}
  BY DEF Admins, IsAdmin
<1>3. \A w \in Users : w \in Admins' <=> IF w = u THEN IsAdmin(m) ELSE w \in Admins
  BY <1>1, <1>2 DEF Admins
<1>4. Admins \subseteq Users /\ Admins' \subseteq Users
  BY <1>2 DEF Admins
<1>5. u \in Admins <=> IsAdmin(member[u])
  BY DEF Admins
<1> QED BY <1>3, <1>4, <1>5

(* Nobody but the one counted is an administrator: the count is one.       *)
LEMMA NotTheLast ==
    ASSUME NEW u, NEW next, ~LastAdmin(u, next, Cardinality(Admins)),
           IsAdmin(member[u]), ~IsAdmin(next)
    PROVE  Admins # {u}
<1>1. Cardinality({u}) = 1
  BY FS_Singleton
<1> QED BY <1>1 DEF LastAdmin

(* Every step leaves an active administrator.                              *)
LEMMA NextAdmin == AuthType /\ AdminInv /\ [AuthNext]_authVars => AdminInv'
<1> SUFFICES ASSUME AuthType, AdminInv, [AuthNext]_authVars PROVE AdminInv'
  OBVIOUS
<1>1. ASSUME NEW t \in Logins, StartLogin(t) PROVE AdminInv'
  BY <1>1 DEF StartLogin, AuthType, VisitType, Fits, VisitRecords, AdminInv,
     AdminRemains, Admins
<1>2. ASSUME NEW t \in Logins, LoginExpires(t) PROVE AdminInv'
  BY <1>2 DEF LoginExpires, AuthType, VisitType, Fits, VisitRecords, AdminInv,
     AdminRemains, Admins
<1>3. ASSUME NEW u \in Users, Logout(u) PROVE AdminInv'
  BY <1>3 DEF Logout, AuthType, VisitType, Fits, VisitRecords, AdminInv, AdminRemains,
     Admins
<1>4. ASSUME NEW v \in Visitors, NEW t \in Logins, NEW u \in Users, NEW accepted \in BOOLEAN,
       Callback(v, t, u, accepted)
       PROVE  AdminInv'
  BY <1>4 DEF Callback, VisitTo, Consumed, NoVisit, AuthType, VisitType, Fits,
     VisitRecords, AdminInv, AdminRemains, Admins
<1>5. ASSUME NEW v \in Visitors, Exchange(v) PROVE AdminInv'
  BY <1>5 DEF Exchange, VisitTo, Leave, NoVisit, AuthType, VisitType, Fits,
     VisitRecords, AdminInv, AdminRemains, Admins
<1>6. ASSUME NEW v \in Visitors, ReadMember(v) PROVE AdminInv'
  BY <1>6 DEF ReadMember, VisitTo, AuthType, VisitType, Fits, VisitRecords, AdminInv,
     AdminRemains, Admins
<1>7. ASSUME NEW v \in Visitors, WriteMember(v) PROVE AdminInv'
  <2> DEFINE u == visit[v].u
             m == IF visit[v].seen = Nothing THEN NewMember(u) ELSE visit[v].seen
  <2>1. /\ u \in Users /\ visit[v].pc = "write" /\ member \in [Users -> Members \cup {Nothing}]
        /\ member' = [member EXCEPT ![u] = m]
        /\ activeAdmins' = IF authStore = "redis" /\ IsAdmin(m) THEN activeAdmins \cup {u} ELSE activeAdmins
        /\ hadAdmin' = (hadAdmin \/ IsAdmin(m))
        /\ loginCrossed' = (loginCrossed \/ member[u] # visit[v].seen)
        /\ authStore' = authStore
    BY <1>7 DEF WriteMember, AuthType, StoreType, VisitType, Fits, SignIn
  <2>2. \A w \in Visitors : visit'[w].pc = "script" => visit[w].pc = "script"
    BY <1>7 DEF WriteMember, VisitTo, AuthType, VisitType, Fits, VisitRecords
  <2>3. ASSUME ~loginCrossed' PROVE ~loginCrossed /\ (IsAdmin(member[u]) => m = member[u])
    BY <2>1, <2>3 DEF IsAdmin
  <2> HIDE DEF u, m
  <2>4. CASE loginCrossed'
    BY <2>1, <2>2, <2>4 DEF AdminInv, AdminRemains
  <2>5. CASE ~loginCrossed' /\ (Admins # {} \/ IsAdmin(m))
    <3>1. Admins' # {} /\ Admins' = IF IsAdmin(m) THEN Admins \cup {u} ELSE Admins \ {u}
      BY <2>1, <2>3, <2>5, AdminWritten
    <3>2. ~IsAdmin(m) => u \notin Admins
      BY <2>3, <2>5 DEF Admins
    <3> QED BY <2>1, <2>2, <2>3, <2>5, <3>1, <3>2 DEF AdminInv, AdminRemains
  <2>6. CASE ~loginCrossed' /\ Admins = {} /\ ~IsAdmin(m)
    <3>1. Admins' = {}
      BY <2>1, <2>6 DEF Admins, IsAdmin
    <3> QED BY <2>1, <2>2, <2>3, <2>6, <3>1 DEF AdminInv, AdminRemains
  <2> QED BY <2>4, <2>5, <2>6
<1>8. ASSUME NEW v \in Visitors, SaveSession(v) PROVE AdminInv'
  BY <1>8 DEF SaveSession, VisitTo, Leave, NoVisit, AuthType, VisitType, Fits,
     VisitRecords, AdminInv, AdminRemains, Admins
<1>9. ASSUME NEW v \in Visitors, NEW u \in Users, NEW other \in Users, NEW change \in Changes,
       AskUpdate(v, u, other, change)
       PROVE  AdminInv'
  BY <1>9 DEF AskUpdate, Arrive, VisitTo, NoVisit, AuthType, VisitType, Fits,
     VisitRecords, AdminInv, AdminRemains, Admins
<1>10. ASSUME NEW v \in Visitors, ReadTarget(v) PROVE AdminInv'
  BY <1>10, TargetRead DEF ReadTarget, AuthType, VisitType, AdminInv, AdminRemains, Admins
<1>11. ASSUME NEW v \in Visitors, UpdateScript(v) PROVE AdminInv'
  <2> DEFINE u == visit[v].target
             m == visit[v].seen
  <2>1. /\ u \in Users /\ authStore = "redis" /\ member \in [Users -> Members \cup {Nothing}]
        /\ loginCrossed' = loginCrossed /\ authStore' = authStore
    BY <1>11 DEF UpdateScript, AuthType, StoreType, VisitType, Fits, AdminInv
  <2>2. \A w \in Visitors : visit'[w].pc = "script" => visit[w].pc = "script"
    BY <1>11 DEF UpdateScript, VisitTo, Leave, NoVisit, AuthType, VisitType
  <2>3. CASE UNCHANGED <<member, activeAdmins, hadAdmin>>
    BY <2>1, <2>2, <2>3 DEF AdminInv, AdminRemains, Admins
  <2>4. CASE /\ ~LastAdmin(u, m, Cardinality(activeAdmins))
             /\ member' = [member EXCEPT ![u] = m]
             /\ activeAdmins' = IF IsAdmin(m) THEN activeAdmins \cup {u} ELSE activeAdmins \ {u}
             /\ hadAdmin' = (hadAdmin \/ IsAdmin(m))
    <3> HIDE DEF u, m
    <3>1. CASE loginCrossed
      BY <2>1, <2>2, <3>1 DEF AdminInv, AdminRemains
    <3>2. CASE ~loginCrossed
      <4>1. activeAdmins = Admins
        BY <2>1, <3>2 DEF AdminInv
      <4>2. IsAdmin(member[u]) /\ ~IsAdmin(m) => Admins # {u}
        BY <2>4, <4>1, NotTheLast
      <4>3. CASE Admins # {} \/ IsAdmin(m)
        <5>1. Admins' # {} /\ Admins' = IF IsAdmin(m) THEN Admins \cup {u} ELSE Admins \ {u}
          BY <2>1, <2>4, <4>2, <4>3, AdminWritten
        <5> QED BY <2>1, <2>2, <2>4, <4>1, <5>1 DEF AdminInv, AdminRemains
      <4>4. CASE Admins = {} /\ ~IsAdmin(m)
        <5>1. Admins' = {}
          BY <2>1, <2>4, <4>4 DEF Admins, IsAdmin
        <5> QED BY <2>1, <2>2, <2>4, <3>2, <4>1, <4>4, <5>1 DEF AdminInv, AdminRemains
      <4> QED BY <4>3, <4>4
    <3> QED BY <3>1, <3>2
  <2> QED BY <1>11, <2>3, <2>4 DEF UpdateScript
<1>12. ASSUME NEW v \in Visitors, UpdateRow(v) PROVE AdminInv'
  <2> DEFINE u == visit[v].target
             m == Updated(member[u], visit[v].seen)
  <2>1. /\ u \in Users /\ authStore = "postgres" /\ member \in [Users -> Members \cup {Nothing}]
        /\ loginCrossed' = loginCrossed /\ authStore' = authStore
    BY <1>12 DEF UpdateRow, AuthType, StoreType, VisitType, Fits
  <2>2. \A w \in Visitors : visit'[w].pc = "script" => visit[w].pc = "script"
    BY <1>12 DEF UpdateRow, VisitTo, Leave, NoVisit, AuthType, VisitType
  <2>3. CASE UNCHANGED <<member, hadAdmin>>
    BY <2>1, <2>2, <2>3 DEF AdminInv, AdminRemains, Admins
  <2>4. CASE /\ ~LastAdmin(u, m, Cardinality(Admins))
             /\ member' = [member EXCEPT ![u] = m]
             /\ hadAdmin' = (hadAdmin \/ IsAdmin(m))
    <3> HIDE DEF u, m
    <3>1. CASE loginCrossed
      BY <2>1, <2>2, <3>1 DEF AdminInv, AdminRemains
    <3>2. CASE ~loginCrossed
      <4>1. IsAdmin(member[u]) /\ ~IsAdmin(m) => Admins # {u}
        BY <2>4, NotTheLast
      <4>2. CASE Admins # {} \/ IsAdmin(m)
        <5>1. Admins' # {}
          BY <2>1, <2>4, <4>1, <4>2, AdminWritten
        <5> QED BY <2>1, <2>2, <5>1 DEF AdminInv, AdminRemains
      <4>3. CASE Admins = {} /\ ~IsAdmin(m)
        BY <2>1, <2>2, <2>4, <3>2, <4>3 DEF AdminInv, AdminRemains
      <4> QED BY <4>2, <4>3
    <3> QED BY <3>1, <3>2
  <2> QED BY <1>12, <2>3, <2>4 DEF UpdateRow
<1>13. ASSUME NEW v \in Visitors, NEW u \in Users, AskMutation(v, u) PROVE AdminInv'
  BY <1>13 DEF AskMutation, Arrive, VisitTo, NoVisit, AuthType, VisitType, Fits,
     VisitRecords, AdminInv, AdminRemains, Admins
<1>14. ASSUME NEW v \in Visitors, AuditRequested(v) PROVE AdminInv'
  BY <1>14 DEF AuditRequested, VisitTo, Leave, NoVisit, AuthType, VisitType, Fits,
     VisitRecords, AdminInv, AdminRemains, Admins
<1>15. ASSUME NEW v \in Visitors, NEW outcome \in Outcomes, CallUpstream(v, outcome) PROVE AdminInv'
  BY <1>15 DEF CallUpstream, VisitTo, AuthType, VisitType, Fits, VisitRecords, AdminInv,
     AdminRemains, Admins
<1>16. ASSUME NEW v \in Visitors, AuditOutcome(v) PROVE AdminInv'
  BY <1>16 DEF AuditOutcome, VisitTo, Leave, NoVisit, AuthType, VisitType, Fits,
     VisitRecords, AdminInv, AdminRemains, Admins
<1>17. ASSUME NEW v \in Visitors, VisitBreaks(v) PROVE AdminInv'
  BY <1>17 DEF VisitBreaks, VisitTo, Leave, NoVisit, AuthType, VisitType, Fits,
     VisitRecords, AdminInv, AdminRemains, Admins
<1>18. CASE UNCHANGED authVars
  BY <1>18 DEF authVars, AuthType, VisitType, Fits, VisitRecords, AdminInv,
     AdminRemains, Admins
<1> QED
  BY <1>1, <1>2, <1>3, <1>4, <1>5, <1>6, <1>7, <1>8, <1>9, <1>10, <1>11, <1>12, <1>13,
     <1>14, <1>15, <1>16, <1>17, <1>18 DEF AuthNext, Outcomes

(* Studio keeps an active administrator, however administrators demote     *)
(* each other (update_member, _UPDATE_MEMBER_SCRIPT); a login transaction, *)
(* taken with GETDEL, leads to one session; and the audit middleware wrote *)
(* an entry before anything reached an upstream service.                   *)
THEOREM AccessIsSound == AuthSpec => []AccessSound
<1>1. AuthInv /\ [AuthNext]_authVars => AuthInv'
  BY NextStore, NextVisit, NextLogin, NextAudit, NextAdmin DEF AuthInv, AuthType
<1>2. AuthInv => AccessSound
  BY DEF AuthInv, LoginInv, AuditInv, AdminInv, AccessSound, LoginOnce
<1> QED
  BY <1>1, <1>2, InitAuth, PTL DEF AuthSpec

-----------------------------------------------------------------------------
(* LoadTesting: a plan is run once, at the Chamber it was reviewed for.    *)

WorkRecords ==
    [pc : {"idle", "plan", "run", "save", "job"}, i : Plans \cup {Nothing},
     rec : TestRecords \cup {Nothing}, at : {Nothing}, cancel : BOOLEAN]

(* A record of plan i names no job but one that is there.                  *)
TestRecord(i, rec, run) ==
    /\ rec \in TestRecords
    /\ rec.job # Nothing => rec.job = rec.chamber /\ <<rec.chamber, i>> \in run

(* A request: what it carries, and that its plan is or was stored, unless  *)
(* it is the one that makes it.                                            *)
WorkFits(r, tests, over, run) ==
    /\ r \in WorkRecords
    /\ r.pc # "idle" => r.i \in Plans /\ TestRecord(r.i, r.rec, run)
    /\ r.pc = "plan" => tests[r.i] = Nothing /\ r.i \notin over /\ r.rec.job = Nothing
    /\ r.pc \in {"run", "save", "job"} => r.i \in over \/ tests[r.i] # Nothing

TestsFit(tests, over, run) ==
    /\ tests = [i \in Plans |-> tests[i]]
    /\ \A i \in Plans : tests[i] # Nothing => TestRecord(i, tests[i], run) /\ i \notin over
    /\ \A c \in Chambers, i \in Plans : <<c, i>> \in run => i \in over \/ tests[i] # Nothing

(* A plan that is being made has one request.                              *)
Sole == \A v, w \in Workers :
    v # w /\ work[v].pc = "plan" /\ work[w].pc # "idle" => work[v].i # work[w].i

LoadFits ==
    /\ chamber \in Chambers \cup {Nothing} /\ target \in [environment : Environments, enabled : BOOLEAN]
    /\ jobState \in [Plans -> JobStates]
    /\ TestsFit(test, expired, jobs)
    /\ work = [w \in Workers |-> work[w]]
    /\ \A w \in Workers : WorkFits(work[w], test, expired, jobs)
    /\ Sole

(* The Chambers named for a plan: in a job, in its record, in a request.   *)
Names(c, i) ==
    \/ <<c, i>> \in jobs
    \/ test[i] # Nothing /\ test[i].chamber = c
    \/ \E w \in Workers : work[w].pc # "idle" /\ work[w].i = i /\ work[w].rec.chamber = c

OneChamber == \A i \in Plans : \A c, d \in Chambers : Names(c, i) /\ Names(d, i) => c = d

LoadInv == LoadFits /\ OneChamber

(* No plan and no job.                                                     *)
LEMMA InitLoad == LoadInit => LoadInv
<1> SUFFICES ASSUME LoadInit PROVE LoadInv
  OBVIOUS
<1>1. LoadFits
  BY DEF LoadInit, LoadFits, TestsFit, Sole, WorkFits, WorkRecords, Idle, JobStates
<1>2. OneChamber
  BY DEF LoadInit, OneChamber, Names, Idle
<1> QED BY <1>1, <1>2 DEF LoadInv

(* A request that moves on, maybe with a job more, keeps everything fit.   *)
LEMMA WorkMoves ==
    ASSUME LoadFits, NEW w \in Workers, NEW r, work' = [work EXCEPT ![w] = r],
           test' = test, expired' = expired, jobs \subseteq jobs', chamber' = chamber, target' = target,
           jobState' \in [Plans -> JobStates],
           WorkFits(r, test, expired, jobs'),
           \A c \in Chambers, i \in Plans : <<c, i>> \in jobs' \ jobs => i \in expired \/ test[i] # Nothing,
           r.pc = "plan" => \A v \in Workers \ {w} : work[v].i # r.i
    PROVE  LoadFits'
<1>1. \A v \in Workers : work'[v] = IF v = w THEN r ELSE work[v]
  BY DEF LoadFits
<1>2. \A v \in Workers : WorkFits(work[v], test, expired, jobs')
  BY DEF LoadFits, WorkFits, TestRecord
<1>3. TestsFit(test, expired, jobs')
  BY DEF LoadFits, TestsFit, TestRecord
<1>4. Sole'
  <2> SUFFICES ASSUME NEW u \in Workers, NEW v \in Workers, u # v, work'[u].pc = "plan", work'[v].pc # "idle"
               PROVE  work'[u].i # work'[v].i
    BY DEF Sole
  <2>1. CASE u # w /\ v # w
    BY <1>1, <2>1 DEF LoadFits, Sole
  <2>2. CASE u = w
    BY <1>1, <2>2
  <2>3. CASE v = w
    <3>1. work[u].pc = "plan" /\ work[u].i \in Plans /\ test[work[u].i] = Nothing /\ work[u].i \notin expired
      BY <1>1, <2>3 DEF LoadFits, WorkFits
    <3>2. r.pc \in {"plan", "run", "save", "job"}
      BY <1>1, <2>3 DEF WorkFits, WorkRecords
    <3> QED BY <1>1, <2>3, <3>1, <3>2 DEF WorkFits
  <2> QED BY <2>1, <2>2, <2>3
<1> QED BY <1>1, <1>2, <1>3, <1>4 DEF LoadFits

(* Saving a record of a plan.                                              *)
LEMMA WorkSaves ==
    ASSUME LoadFits, NEW w \in Workers, work[w].pc \in {"plan", "save"},
           Save(work[w].i, work[w].rec), work' = [work EXCEPT ![w] = Idle],
           UNCHANGED <<chamber, target, expired, jobs, jobState>>
    PROVE  LoadFits'
<1> DEFINE i == work[w].i
<1>1. i \in Plans /\ TestRecord(i, work[w].rec, jobs) /\ work[w].rec # Nothing
  BY TestAssumption DEF LoadFits, WorkFits, TestRecord
<1>2. /\ test' = [test EXCEPT ![i] = test'[i]]
      /\ test'[i] = IF i \in expired THEN test[i] ELSE work[w].rec
  BY <1>1 DEF Save, LoadFits, TestsFit
<1>3. TestsFit(test', expired, jobs)
  BY <1>1, <1>2 DEF LoadFits, TestsFit
<1>4. \A v \in Workers : work'[v] = IF v = w THEN Idle ELSE work[v]
  BY DEF LoadFits
<1>5. WorkFits(Idle, test', expired, jobs)
  BY DEF WorkFits, WorkRecords, Idle
<1>6. ASSUME NEW v \in Workers \ {w} PROVE WorkFits(work[v], test', expired, jobs)
  <2>1. WorkFits(work[v], test, expired, jobs)
    BY DEF LoadFits
  <2>2. work[v].pc = "plan" => work[v].i # i
    BY <1>1 DEF LoadFits, Sole, WorkFits
  <2>3. \A j \in Plans : j # i => test'[j] = test[j]
    BY <1>1, <1>2 DEF LoadFits, TestsFit
  <2>4. test[i] # Nothing => test'[i] # Nothing
    BY <1>1, <1>2
  <2> QED BY <2>1, <2>2, <2>3, <2>4 DEF WorkFits
<1>7. Sole'
  BY <1>4 DEF LoadFits, Sole, Idle
<1> QED BY <1>3, <1>4, <1>5, <1>6, <1>7 DEF LoadFits

(* Every step leaves a worker with what the stored test knows.             *)
LEMMA NextLoadFits == LoadInv /\ [LoadNext]_loadVars => LoadFits'
<1> SUFFICES ASSUME LoadInv, [LoadNext]_loadVars PROVE LoadFits'
  OBVIOUS
<1>1. ASSUME NEW c \in Chambers \cup {Nothing}, UpdateConnection(c) PROVE LoadFits'
  BY <1>1 DEF UpdateConnection, LoadInv, LoadFits, TestsFit, Sole, WorkFits, TestRecord,
     JobStates
<1>2. ASSUME NEW next \in [environment : Environments, enabled : BOOLEAN],
       ServiceChanges(next)
       PROVE  LoadFits'
  BY <1>2 DEF ServiceChanges, LoadInv, LoadFits, TestsFit, Sole, WorkFits, TestRecord,
     JobStates
<1>3. ASSUME NEW i \in Plans, JobEnds(i) PROVE LoadFits'
  BY <1>3 DEF JobEnds, LoadInv, LoadFits, TestsFit, Sole, WorkFits, TestRecord,
     JobStates
<1>4. ASSUME NEW i \in Plans, Retire(i) PROVE LoadFits'
  BY <1>4 DEF Retire, LoadInv, LoadFits, TestsFit, Sole, WorkFits, TestRecord, JobStates
<1>5. ASSUME NEW w \in Workers, NEW i \in Plans, StartPlan(w, i) PROVE LoadFits'
  <2> DEFINE r == [Idle EXCEPT !.pc = "plan", !.i = i,
                   !.rec = [environment |-> target.environment, chamber |-> chamber, job |-> Nothing,
                            state |-> "planned"]]
  <2>1. work' = [work EXCEPT ![w] = r]
    BY <1>5 DEF StartPlan, Enter, Works
  <2>2. WorkFits(r, test, expired, jobs)
    BY <1>5 DEF StartPlan, LoadInv, LoadFits, WorkFits, WorkRecords, TestRecord, TestRecords, Idle
  <2> QED BY <1>5, <2>1, <2>2, WorkMoves DEF StartPlan, LoadInv, LoadFits, Idle
<1>6. ASSUME NEW w \in Workers, NEW i \in Plans, Start(w, i) PROVE LoadFits'
  <2> DEFINE r == [Idle EXCEPT !.pc = "run", !.i = i, !.rec = test[i]]
  <2>1. work' = [work EXCEPT ![w] = r]
    BY <1>6 DEF Start, Enter, Works
  <2>2. WorkFits(r, test, expired, jobs)
    BY <1>6 DEF Start, LoadInv, LoadFits, TestsFit, WorkFits, WorkRecords, TestRecord, Idle
  <2> QED BY <1>6, <2>1, <2>2, WorkMoves DEF Start, LoadInv, LoadFits, Idle
<1>7. ASSUME NEW w \in Workers, NEW i \in Plans, NEW cancel \in BOOLEAN,
       Status(w, i, cancel)
       PROVE  LoadFits'
  <2> DEFINE r == [Idle EXCEPT !.pc = "job", !.i = i, !.rec = test[i], !.cancel = cancel]
  <2>1. work' = [work EXCEPT ![w] = r]
    BY <1>7 DEF Status, Enter, Works
  <2>2. WorkFits(r, test, expired, jobs)
    BY <1>7 DEF Status, LoadInv, LoadFits, TestsFit, WorkFits, WorkRecords, TestRecord, Idle
  <2> QED BY <1>7, <2>1, <2>2, WorkMoves DEF Status, LoadInv, LoadFits, Idle
<1>8. ASSUME NEW w \in Workers, NEW ok \in BOOLEAN, Planned(w, ok) PROVE LoadFits'
  <2>1. Idle.pc = "idle" /\ WorkFits(Idle, test, expired, jobs)
    BY DEF WorkFits, WorkRecords, Idle
  <2>2. CASE Save(work[w].i, work[w].rec)
    BY <1>8, <2>2, WorkSaves DEF Planned, Stop, Works, LoadInv
  <2>3. CASE UNCHANGED test
    BY <1>8, <2>1, <2>3, WorkMoves DEF Planned, Stop, Works, LoadInv, LoadFits
  <2> QED BY <1>8, <2>2, <2>3 DEF Planned
<1>9. ASSUME NEW w \in Workers, NEW taken \in BOOLEAN, NEW replied \in BOOLEAN,
       PostRun(w, taken, replied)
       PROVE  LoadFits'
  <2> DEFINE me == work[w]
             q == [me.rec EXCEPT !.job = me.rec.chamber, !.state = jobState'[me.i]]
             r == [me EXCEPT !.pc = "save", !.rec = q]
  <2>1. Idle.pc = "idle" /\ WorkFits(Idle, test, expired, jobs')
    BY DEF WorkFits, WorkRecords, Idle
  <2>2. me.pc = "run" /\ WorkFits(me, test, expired, jobs)
    BY <1>9 DEF PostRun, LoadInv, LoadFits
  <2>3. /\ jobs' = (IF taken THEN jobs \cup {<<me.rec.chamber, me.i>>} ELSE jobs)
        /\ replied => taken
        /\ work' = [work EXCEPT ![w] = IF replied THEN r ELSE Idle]
        /\ UNCHANGED <<chamber, target, test, expired>>
    BY <1>9 DEF PostRun, ChamberRuns, RunAt, Works, Stop
  <2>4. jobState' \in [Plans -> JobStates]
    BY <1>9, <2>2 DEF PostRun, LoadInv, LoadFits, WorkFits, JobStates
  <2>5. ASSUME replied PROVE WorkFits(r, test, expired, jobs') /\ r.pc = "save"
    <3>1. me.rec \in TestRecords /\ me.i \in Plans /\ me.rec.chamber \in Chambers
      BY <2>2 DEF WorkFits, TestRecord, TestRecords
    <3>2. jobState'[me.i] \in JobStates
      BY <2>4, <3>1
    <3>3. q \in TestRecords /\ q.job = q.chamber /\ q.chamber = me.rec.chamber
      BY <3>1, <3>2 DEF TestRecords
    <3>4. <<q.chamber, me.i>> \in jobs'
      BY <2>3, <2>5, <3>3
    <3> HIDE DEF q
    <3>5. r \in WorkRecords /\ r.pc = "save" /\ r.i = me.i /\ r.rec = q
      BY <2>2, <3>3 DEF WorkFits, WorkRecords
    <3> HIDE DEF r
    <3> QED BY <2>2, <3>3, <3>4, <3>5 DEF WorkFits, TestRecord
  <2>6. \A c \in Chambers, i \in Plans : <<c, i>> \in jobs' \ jobs => i \in expired \/ test[i] # Nothing
    BY <2>2, <2>3 DEF WorkFits
  <2> HIDE DEF r, me
  <2>7. CASE replied
    BY <2>3, <2>4, <2>5, <2>6, <2>7, WorkMoves DEF LoadInv
  <2>8. CASE ~replied
    BY <2>1, <2>3, <2>4, <2>6, <2>8, WorkMoves DEF LoadInv
  <2> QED BY <2>7, <2>8
<1>10. ASSUME NEW w \in Workers, SaveRecord(w) PROVE LoadFits'
  <2>1. Idle.pc = "idle" /\ WorkFits(Idle, test, expired, jobs)
    BY DEF WorkFits, WorkRecords, Idle
  <2>2. CASE Save(work[w].i, work[w].rec)
    BY <1>10, <2>2, WorkSaves DEF SaveRecord, Stop, Works, LoadInv
  <2>3. CASE UNCHANGED test
    BY <1>10, <2>1, <2>3, WorkMoves DEF SaveRecord, Stop, Works, LoadInv, LoadFits
  <2> QED BY <1>10, <2>2, <2>3 DEF SaveRecord
<1>11. ASSUME NEW w \in Workers, ReadJob(w) PROVE LoadFits'
  <2> DEFINE me == work[w]
             q == [me.rec EXCEPT !.state = jobState'[me.i]]
             r == [me EXCEPT !.pc = "save", !.rec = q]
  <2>1. Idle.pc = "idle" /\ WorkFits(Idle, test, expired, jobs)
    BY DEF WorkFits, WorkRecords, Idle
  <2>2. me.pc = "job" /\ WorkFits(me, test, expired, jobs)
    BY <1>11 DEF ReadJob, LoadInv, LoadFits
  <2>3. /\ work' = [work EXCEPT ![w] = r] \/ work' = [work EXCEPT ![w] = Idle]
        /\ UNCHANGED <<chamber, target, test, expired, jobs>>
    BY <1>11 DEF ReadJob, Works, Stop
  <2>4. jobState' \in [Plans -> JobStates]
    BY <1>11, <2>2 DEF ReadJob, LoadInv, LoadFits, WorkFits, JobStates
  <2>5. WorkFits(r, test, expired, jobs) /\ r.pc = "save"
    <3>1. me.rec \in TestRecords /\ me.i \in Plans
      BY <2>2 DEF WorkFits, TestRecord
    <3>2. jobState'[me.i] \in JobStates
      BY <2>4, <3>1
    <3>3. q \in TestRecords /\ q.job = me.rec.job /\ q.chamber = me.rec.chamber
      BY <3>1, <3>2 DEF TestRecords
    <3> HIDE DEF q
    <3>4. r \in WorkRecords /\ r.pc = "save" /\ r.i = me.i /\ r.rec = q
      BY <2>2, <3>3 DEF WorkFits, WorkRecords
    <3> HIDE DEF r
    <3> QED BY <2>2, <3>3, <3>4 DEF WorkFits, TestRecord
  <2> HIDE DEF r, me
  <2> QED BY <2>1, <2>3, <2>4, <2>5, WorkMoves DEF LoadInv
<1>12. ASSUME NEW w \in Workers, GiveUp(w) PROVE LoadFits'
  <2>1. Idle.pc = "idle" /\ WorkFits(Idle, test, expired, jobs)
    BY DEF WorkFits, WorkRecords, Idle
  <2> QED BY <1>12, <2>1, WorkMoves DEF GiveUp, Stop, Works, LoadInv, LoadFits
<1>13. CASE UNCHANGED loadVars
  BY <1>13 DEF loadVars, LoadInv, LoadFits, TestsFit, Sole, WorkFits, TestRecord,
     JobStates
<1> QED
  BY <1>1, <1>2, <1>3, <1>4, <1>5, <1>6, <1>7, <1>8, <1>9, <1>10, <1>11, <1>12, <1>13
     DEF LoadNext

(* A step that names no Chamber anew leaves each plan with its one.        *)
NamesNothing == \A i \in Plans : \A c \in Chambers : Names(c, i)' => Names(c, i)

(* Every step leaves a plan with one job in the chamber.                   *)
LEMMA NextOneChamber == LoadInv /\ [LoadNext]_loadVars => OneChamber'
<1> SUFFICES ASSUME LoadInv, [LoadNext]_loadVars PROVE OneChamber'
  OBVIOUS
<1>0. ASSUME NamesNothing PROVE OneChamber'
  BY <1>0 DEF NamesNothing, OneChamber, LoadInv
<1>1. ASSUME NEW c \in Chambers \cup {Nothing}, UpdateConnection(c) PROVE NamesNothing
  BY <1>1 DEF UpdateConnection, NamesNothing, LoadInv, LoadFits, TestsFit, WorkFits,
     Names, TestRecord
<1>2. ASSUME NEW next \in [environment : Environments, enabled : BOOLEAN],
       ServiceChanges(next)
       PROVE  NamesNothing
  BY <1>2 DEF ServiceChanges, NamesNothing, LoadInv, LoadFits, TestsFit, WorkFits,
     Names, TestRecord
<1>3. ASSUME NEW i \in Plans, JobEnds(i) PROVE NamesNothing
  BY <1>3 DEF JobEnds, NamesNothing, LoadInv, LoadFits, TestsFit, WorkFits, Names,
     TestRecord
<1>4. ASSUME NEW i \in Plans, Retire(i) PROVE NamesNothing
  BY <1>4 DEF Retire, NamesNothing, LoadInv, LoadFits, TestsFit, WorkFits, Names,
     TestRecord
<1>5. ASSUME NEW w \in Workers, NEW i \in Plans, StartPlan(w, i) PROVE OneChamber'
  BY <1>5 DEF StartPlan, Enter, Works, Idle, OneChamber, LoadInv, LoadFits, TestsFit,
     WorkFits, Names, TestRecord
<1>6. ASSUME NEW w \in Workers, NEW i \in Plans, Start(w, i) PROVE NamesNothing
  BY <1>6 DEF Start, Enter, Works, Idle, NamesNothing, LoadInv, LoadFits, TestsFit,
     WorkFits, Names, TestRecord
<1>7. ASSUME NEW w \in Workers, NEW i \in Plans, NEW cancel \in BOOLEAN,
       Status(w, i, cancel)
       PROVE  NamesNothing
  BY <1>7 DEF Status, Enter, Works, Idle, NamesNothing, LoadInv, LoadFits, TestsFit,
     WorkFits, Names, TestRecord
<1>8. ASSUME NEW w \in Workers, NEW ok \in BOOLEAN, Planned(w, ok) PROVE NamesNothing
  BY <1>8 DEF Planned, Save, Stop, Works, Idle, NamesNothing, LoadInv, LoadFits,
     TestsFit, WorkFits, Names, TestRecord
<1>9. ASSUME NEW w \in Workers, NEW taken \in BOOLEAN, NEW replied \in BOOLEAN,
       PostRun(w, taken, replied)
       PROVE  NamesNothing
  <2> DEFINE me == work[w]
  <2>1. me.pc = "run" /\ WorkFits(me, test, expired, jobs)
    BY <1>9 DEF PostRun, LoadInv, LoadFits
  <2>2. jobs' \subseteq jobs \cup {<<me.rec.chamber, me.i>>} /\ test' = test
    BY <1>9 DEF PostRun, ChamberRuns, RunAt
  <2>3. \A v \in Workers : v # w => work'[v] = work[v]
    BY <1>9 DEF PostRun, Works, Stop, LoadInv, LoadFits
  <2>4. work'[w].pc # "idle" => work'[w].i = me.i /\ work'[w].rec.chamber = me.rec.chamber
    <3> DEFINE q == [me.rec EXCEPT !.job = me.rec.chamber, !.state = jobState'[me.i]]
               r == [me EXCEPT !.pc = "save", !.rec = q]
    <3>1. work'[w] = r \/ work'[w] = Idle
      BY <1>9 DEF PostRun, RunAt, Works, Stop, LoadInv, LoadFits
    <3>2. me \in WorkRecords /\ me.rec \in TestRecords
      BY <2>1 DEF WorkFits, TestRecord
    <3>3. q.chamber = me.rec.chamber
      BY <3>2 DEF TestRecords
    <3> HIDE DEF q
    <3>4. r.i = me.i /\ r.rec = q
      BY <3>2 DEF WorkRecords
    <3> HIDE DEF r
    <3> QED BY <3>1, <3>3, <3>4 DEF Idle
  <2> QED BY <2>1, <2>2, <2>3, <2>4 DEF NamesNothing, Names
<1>10. ASSUME NEW w \in Workers, SaveRecord(w) PROVE NamesNothing
  BY <1>10 DEF SaveRecord, Save, Stop, Works, Idle, NamesNothing, LoadInv, LoadFits,
     TestsFit, WorkFits, Names, TestRecord
<1>11. ASSUME NEW w \in Workers, ReadJob(w) PROVE NamesNothing
  <2> DEFINE me == work[w]
  <2>1. me.pc = "job" /\ WorkFits(me, test, expired, jobs)
    BY <1>11 DEF ReadJob, LoadInv, LoadFits
  <2>2. jobs' = jobs /\ test' = test
    BY <1>11 DEF ReadJob
  <2>3. \A v \in Workers : v # w => work'[v] = work[v]
    BY <1>11 DEF ReadJob, Works, Stop, LoadInv, LoadFits
  <2>4. work'[w].pc # "idle" => work'[w].i = me.i /\ work'[w].rec.chamber = me.rec.chamber
    <3> DEFINE q == [me.rec EXCEPT !.state = jobState'[me.i]]
               r == [me EXCEPT !.pc = "save", !.rec = q]
    <3>1. work'[w] = r \/ work'[w] = Idle
      BY <1>11 DEF ReadJob, Works, Stop, LoadInv, LoadFits
    <3>2. me \in WorkRecords /\ me.rec \in TestRecords
      BY <2>1 DEF WorkFits, TestRecord
    <3>3. q.chamber = me.rec.chamber
      BY <3>2 DEF TestRecords
    <3> HIDE DEF q
    <3>4. r.i = me.i /\ r.rec = q
      BY <3>2 DEF WorkRecords
    <3> HIDE DEF r
    <3> QED BY <3>1, <3>3, <3>4 DEF Idle
  <2> QED BY <2>1, <2>2, <2>3, <2>4 DEF NamesNothing, Names
<1>12. ASSUME NEW w \in Workers, GiveUp(w) PROVE NamesNothing
  BY <1>12 DEF GiveUp, Stop, Works, Idle, NamesNothing, LoadInv, LoadFits, TestsFit,
     WorkFits, Names, TestRecord
<1>13. CASE UNCHANGED loadVars
  BY <1>13 DEF loadVars, OneChamber, LoadInv, LoadFits, TestsFit, WorkFits, Names,
     TestRecord
<1> QED
  BY <1>0, <1>1, <1>2, <1>3, <1>4, <1>5, <1>6, <1>7, <1>8, <1>9, <1>10, <1>11, <1>12,
     <1>13 DEF LoadNext

(* However often a plan is started and whatever answers are lost, it is    *)
(* run once, at the Chamber it was reviewed for, for start sends the run   *)
(* to the endpoint in the record under the plan's idempotency key; and the *)
(* record never names a job that is not there.                             *)
THEOREM PlansRunOnce == LoadSpec => []OneJobPerPlan
<1>1. LoadInv /\ [LoadNext]_loadVars => LoadInv'
  BY NextLoadFits, NextOneChamber DEF LoadInv
<1>2. LoadInv => OneJobPerPlan
  <2> SUFFICES ASSUME LoadInv, NEW i \in Plans
               PROVE  /\ Cardinality({c \in Chambers : <<c, i>> \in jobs}) <= 1
                      /\ test[i] # Nothing /\ test[i].job # Nothing =>
                            test[i].job = test[i].chamber /\ <<test[i].chamber, i>> \in jobs
    BY DEF OneJobPerPlan
  <2> DEFINE S == {c \in Chambers : <<c, i>> \in jobs}
  <2>1. \A c, d \in S : c = d
    BY DEF LoadInv, OneChamber, Names
  <2>2. CASE S = {}
    <3>1. Cardinality(S) = 0
      BY <2>2, FS_EmptySet
    <3> QED BY <3>1 DEF LoadInv, LoadFits, TestsFit, TestRecord
  <2>3. CASE S # {}
    <3>1. PICK c : S = {c}
      BY <2>1, <2>3
    <3>2. Cardinality(S) = 1
      BY <3>1, FS_Singleton
    <3> QED BY <3>2 DEF LoadInv, LoadFits, TestsFit, TestRecord
  <2> QED BY <2>2, <2>3
<1> QED
  BY <1>1, <1>2, InitLoad, PTL DEF LoadSpec

-----------------------------------------------------------------------------
(* HealthStatus: what is shown healthy was seen, and seen in time.         *)

RefreshSteps == {"idle", "cached", "snapshot", "fetch", "workers", "store"}
Refreshes ==
    [pc : RefreshSteps, cached : BOOLEAN, alone : BOOLEAN, ok : BOOLEAN, row : Rows \cup {Nothing},
     doc : HealthDocuments, now : Nat]

(* A success was noted no later than capabilities were last fetched, and a *)
(* heartbeat no later than the fleet's last.                               *)
Noted(at, fetched) == at # Nothing => fetched # Nothing /\ at <= fetched
Honest(doc, fetched, beat) ==
    /\ doc \in HealthDocuments /\ Noted(doc.okAt, fetched)
    /\ doc.workers # Nothing => doc.workers.beatAt <= beat

(* What a refresh holds at each step: a failed check leaves the service    *)
(* unreachable, and one with cached capabilities knows when it was seen.   *)
RefreshFits(m, now, fetched, beat) ==
    /\ m \in Refreshes /\ m.now <= now
    /\ Honest(m.doc, fetched, beat)
    /\ m.pc \in {"snapshot", "fetch", "workers", "store"} => m.row \in Rows /\ Noted(m.row.seenAt, fetched)
    /\ m.pc = "snapshot" /\ m.cached => m.row.seenAt # Nothing
    /\ m.pc = "cached" => m.cached
    /\ m.pc = "fetch" => m.row.enabled /\ ~m.ok
    /\ m.pc \in {"workers", "store"} /\ ~m.ok /\ m.row.enabled => m.doc.http = "unreachable"
    /\ m.pc = "workers" /\ ~m.ok => m.row.enabled

WorldFits ==
    /\ healthClock \in Nat /\ row \in Rows /\ eventAt \in Times /\ fetchedAt \in Times
    /\ fleet \in [running : BOOLEAN, beatAt : Nat] /\ fleet.beatAt <= healthClock
    /\ (fetchedAt # Nothing => fetchedAt <= healthClock) /\ Noted(row.seenAt, fetchedAt)

RefreshesFit ==
    /\ document # Nothing => Honest(document, fetchedAt, fleet.beatAt)
    /\ refresh = [r \in Refreshers |-> refresh[r]]
    /\ \A r \in Refreshers : RefreshFits(refresh[r], healthClock, fetchedAt, fleet.beatAt)
    /\ \A r \in Refreshers : refresh[r].pc = "cached" => row.seenAt # Nothing

(* A refresh that nothing overlaps writes back what it read.               *)
HttpOf(doc) == IF doc = Nothing THEN "unknown" ELSE doc.http
Alone ==
    \A r \in Refreshers : refresh[r].alone =>
        /\ \A q \in Refreshers \ {r} : refresh[q].pc = "idle"
        /\ refresh[r].pc = "store" /\ ~refresh[r].ok /\ ~refresh[r].row.enabled =>
              refresh[r].doc.http = HttpOf(document)

(* Where the last refresh failed the document says so.                     *)
FailureShows == lastRefresh = "failed" => document # Nothing /\ document.http = "unreachable"

HealthInv == WorldFits /\ RefreshesFit /\ Alone /\ FailureShows

(* Nothing is known of the service.                                        *)
LEMMA InitHealth == HealthInit => HealthInv
<1> SUFFICES ASSUME HealthInit PROVE HealthInv
  OBVIOUS
<1>1. WorldFits
  BY DEF HealthInit, WorldFits, Rows, Times, Noted
<1>2. NoRefresh \in Refreshes /\ Honest(EmptyDocument, fetchedAt, fleet.beatAt)
  BY DEF NoRefresh, Refreshes, RefreshSteps, EmptyDocument, HealthDocuments, Times, Honest, Noted
<1>3. RefreshesFit
  BY <1>2 DEF HealthInit, RefreshesFit, RefreshFits, NoRefresh
<1>4. Alone /\ FailureShows
  BY DocumentAssumption DEF HealthInit, Alone, FailureShows, NoRefresh
<1> QED BY <1>1, <1>3, <1>4 DEF HealthInv

(* Notes stay notes as time goes on.                                       *)
LEMMA NotedLater ==
    ASSUME NEW at \in Times, NEW f \in Times, NEW g \in Times, Noted(at, f), Noted(f, g)
    PROVE  Noted(at, g)
<1> SUFFICES ASSUME at # Nothing PROVE g # Nothing /\ at <= g
  BY DEF Noted
<1>1. f # Nothing /\ at <= f /\ g # Nothing /\ f <= g
  BY DEF Noted
<1>2. at \in Nat /\ f \in Nat /\ g \in Nat
  BY <1>1 DEF Times
<1> QED BY <1>1, <1>2

(* A document, and a refresh, that fit go on fitting.                      *)
LEMMA HonestLater ==
    ASSUME NEW doc, NEW f \in Times, NEW g \in Times, NEW b \in Nat, NEW c \in Nat,
           Honest(doc, f, b), Noted(f, g), b <= c
    PROVE  Honest(doc, g, c)
<1>1. doc.okAt \in Times /\ Noted(doc.okAt, g)
  BY NotedLater DEF Honest, HealthDocuments
<1>2. doc.workers # Nothing => doc.workers.beatAt \in Nat /\ doc.workers.beatAt <= b
  BY DEF Honest, HealthDocuments, Fleets
<1> QED BY <1>1, <1>2 DEF Honest

(* The same of a refresh.                                                  *)
LEMMA FitsLater ==
    ASSUME NEW m, NEW n \in Nat, NEW o \in Nat, NEW f \in Times, NEW g \in Times, NEW b \in Nat, NEW c \in Nat,
           RefreshFits(m, n, f, b), n <= o, Noted(f, g), b <= c
    PROVE  RefreshFits(m, o, g, c)
<1>1. Honest(m.doc, g, c)
  BY HonestLater DEF RefreshFits
<1>2. m.now <= o
  BY DEF RefreshFits, Refreshes
<1>3. m.row \in Rows /\ Noted(m.row.seenAt, f) => Noted(m.row.seenAt, g)
  BY NotedLater DEF Rows
<1> QED BY <1>1, <1>2, <1>3 DEF RefreshFits

(* Others have started.                                                    *)
Overlapped(m) == [m EXCEPT !.alone = FALSE]

(* Nor does it matter to fitting whether a refresh is alone.               *)
LEMMA FitsOverlapped ==
    ASSUME NEW m, NEW n, NEW f, NEW b, RefreshFits(m, n, f, b)
    PROVE  RefreshFits(Overlapped(m), n, f, b) /\ Overlapped(m).pc = m.pc /\ ~Overlapped(m).alone
<1> DEFINE k == Overlapped(m)
<1>1. /\ k \in Refreshes /\ k.pc = m.pc /\ k.row = m.row /\ k.ok = m.ok /\ k.doc = m.doc /\ k.cached = m.cached
      /\ k.now = m.now /\ ~k.alone
  BY DEF Overlapped, RefreshFits, Refreshes
<1> HIDE DEF k
<1>2. RefreshFits(k, n, f, b)
  BY <1>1 DEF RefreshFits
<1> QED BY <1>1, <1>2 DEF k

(* A step of refresh r, which may leave the others overlapped.             *)
LEMMA RefreshMoves ==
    ASSUME HealthInv, WorldFits', NEW r \in Refreshers,
           refresh' = [q \in Refreshers |-> refresh'[q]],
           \A q \in Refreshers \ {r} : refresh'[q] \in {refresh[q], Overlapped(refresh[q])},
           RefreshFits(refresh'[r], healthClock', fetchedAt', fleet'.beatAt),
           refresh'[r].pc = "cached" => row'.seenAt # Nothing,
           healthClock <= healthClock', Noted(fetchedAt, fetchedAt'), fleet' = fleet,
           document' = document,
           row.seenAt # Nothing => row'.seenAt # Nothing
    PROVE  RefreshesFit'
<1>1. /\ healthClock \in Nat /\ healthClock' \in Nat /\ fetchedAt \in Times /\ fetchedAt' \in Times
      /\ fleet.beatAt \in Nat /\ fleet.beatAt <= fleet.beatAt
  BY DEF HealthInv, WorldFits
<1>2. ASSUME NEW q \in Refreshers, q # r
      PROVE  /\ RefreshFits(refresh'[q], healthClock', fetchedAt', fleet'.beatAt)
             /\ refresh'[q].pc = refresh[q].pc
  <2>1. RefreshFits(refresh[q], healthClock, fetchedAt, fleet.beatAt)
    BY DEF HealthInv, RefreshesFit
  <2>2. RefreshFits(refresh[q], healthClock', fetchedAt', fleet.beatAt)
    BY <1>1, <2>1, FitsLater
  <2> QED BY <1>2, <2>2, FitsOverlapped
<1>3. document # Nothing => Honest(document, fetchedAt', fleet.beatAt)
  BY <1>1, HonestLater DEF HealthInv, RefreshesFit
<1>4. \A q \in Refreshers : RefreshFits(refresh'[q], healthClock', fetchedAt', fleet'.beatAt)
  BY <1>2
<1>5. \A q \in Refreshers : refresh'[q].pc = "cached" => row'.seenAt # Nothing
  BY <1>2 DEF HealthInv, RefreshesFit
<1> QED BY <1>3, <1>4, <1>5 DEF RefreshesFit

(* A step of the world around them.                                        *)
LEMMA WorldMoves ==
    ASSUME HealthInv, WorldFits', refresh' = refresh, document' = document,
           healthClock <= healthClock', fetchedAt' = fetchedAt, fleet.beatAt <= fleet'.beatAt,
           row'.seenAt = row.seenAt
    PROVE  RefreshesFit'
<1>1. /\ healthClock \in Nat /\ healthClock' \in Nat /\ fetchedAt \in Times
      /\ fleet.beatAt \in Nat /\ fleet'.beatAt \in Nat /\ Noted(fetchedAt, fetchedAt)
  BY DEF HealthInv, WorldFits, Noted, Times
<1>2. document # Nothing => Honest(document, fetchedAt, fleet'.beatAt)
  BY <1>1, HonestLater DEF HealthInv, RefreshesFit
<1>3. \A q \in Refreshers : RefreshFits(refresh[q], healthClock', fetchedAt, fleet'.beatAt)
  BY <1>1, FitsLater DEF HealthInv, RefreshesFit
<1> QED BY <1>2, <1>3 DEF HealthInv, RefreshesFit

(* What is outside the refreshes, and when capabilities were fetched.      *)
LEMMA NextWorld == HealthInv /\ [HealthNext]_healthVars => WorldFits'
<1> SUFFICES ASSUME HealthInv, [HealthNext]_healthVars PROVE WorldFits'
  OBVIOUS
<1>1. CASE HealthTick
  <2>1. healthClock \in Nat /\ healthClock' = healthClock + 1 /\ fleet.beatAt \in Nat
    BY <1>1 DEF HealthTick, HealthInv, WorldFits
  <2>2. healthClock' \in Nat /\ fleet.beatAt <= healthClock'
    BY <2>1 DEF HealthInv, WorldFits
  <2>3. fetchedAt # Nothing => fetchedAt \in Nat /\ fetchedAt <= healthClock
    BY DEF HealthInv, WorldFits, Times
  <2>4. fetchedAt # Nothing => fetchedAt <= healthClock'
    BY <2>1, <2>3
  <2> QED BY <1>1, <2>2, <2>4 DEF HealthTick, HealthInv, WorldFits
<1>2. CASE EventSeen
  BY <1>2 DEF EventSeen, HealthInv, WorldFits, Rows, Times, Noted
<1>3. CASE FleetChanges
  BY <1>3 DEF FleetChanges, HealthInv, WorldFits, Rows, Times, Noted
<1>4. CASE SetEnabled
  BY <1>4 DEF SetEnabled, HealthInv, WorldFits, Rows, Times, Noted
<1>5. ASSUME NEW r \in Refreshers, BeginRefresh(r) PROVE WorldFits'
  BY <1>5 DEF BeginRefresh, Started, Overlapping, NoRefresh, HealthInv, WorldFits, Rows,
     Times, Noted
<1>6. ASSUME NEW r \in Refreshers, CapabilitiesRefreshed(r) PROVE WorldFits'
  <2>1. healthClock \in Nat /\ healthClock <= healthClock
    BY DEF HealthInv, WorldFits
  <2>2. CASE row' = row /\ fetchedAt' = fetchedAt
    BY <1>6, <2>2 DEF CapabilitiesRefreshed, HealthInv, WorldFits
  <2>3. ASSUME NEW caps \in {"plain", "workers"},
               row' = [row EXCEPT !.caps = caps, !.seenAt = healthClock], fetchedAt' = healthClock
        PROVE  WorldFits'
    <3>1. row' \in Rows /\ row'.seenAt = healthClock
      BY <2>1, <2>3 DEF HealthInv, WorldFits, Rows, Times
    <3>2. Noted(healthClock, healthClock)
      BY <2>1 DEF Noted
    <3> QED BY <1>6, <2>1, <2>3, <3>1, <3>2 DEF CapabilitiesRefreshed, HealthInv, WorldFits, Times
  <2> QED BY <1>6, <2>2, <2>3 DEF CapabilitiesRefreshed
<1>7. ASSUME NEW r \in Refreshers, ReadCachedRow(r) PROVE WorldFits'
  BY <1>7 DEF ReadCachedRow, HealthInv, WorldFits, Rows, Times, Noted
<1>8. ASSUME NEW r \in Refreshers, TakeSnapshot(r) PROVE WorldFits'
  BY <1>8 DEF TakeSnapshot, EmptyDocument, HealthInv, WorldFits, Rows, Times, Noted
<1>9. ASSUME NEW r \in Refreshers, FetchCapabilities(r) PROVE WorldFits'
  <2>1. healthClock \in Nat /\ healthClock <= healthClock
    BY DEF HealthInv, WorldFits
  <2>2. CASE row' = row /\ fetchedAt' = fetchedAt
    BY <1>9, <2>2 DEF FetchCapabilities, HealthInv, WorldFits
  <2>3. ASSUME NEW caps \in {"plain", "workers"},
               row' = [row EXCEPT !.caps = caps, !.seenAt = healthClock], fetchedAt' = healthClock
        PROVE  WorldFits'
    <3>1. row' \in Rows /\ row'.seenAt = healthClock
      BY <2>1, <2>3 DEF HealthInv, WorldFits, Rows, Times
    <3>2. Noted(healthClock, healthClock)
      BY <2>1 DEF Noted
    <3> QED BY <1>9, <2>1, <2>3, <3>1, <3>2 DEF FetchCapabilities, HealthInv, WorldFits, Times
  <2> QED BY <1>9, <2>2, <2>3 DEF FetchCapabilities
<1>10. ASSUME NEW r \in Refreshers, FetchWorkers(r) PROVE WorldFits'
  BY <1>10 DEF FetchWorkers, WorkerAnswers, HealthInv, WorldFits, Rows, Times, Noted
<1>11. ASSUME NEW r \in Refreshers, StoreHealth(r) PROVE WorldFits'
  BY <1>11 DEF StoreHealth, Materialized, OkAt, NoRefresh, HealthInv, WorldFits, Rows,
     Times, Noted
<1>12. CASE UNCHANGED healthVars
  BY <1>12 DEF healthVars, HealthInv, WorldFits, Rows, Times, Noted
<1> QED
  BY <1>1, <1>2, <1>3, <1>4, <1>5, <1>6, <1>7, <1>8, <1>9, <1>10, <1>11, <1>12 DEF
     HealthNext

(* Every step leaves the document and the refreshes honest.                *)
LEMMA NextRefreshes == HealthInv /\ [HealthNext]_healthVars => RefreshesFit'
<1> SUFFICES ASSUME HealthInv, [HealthNext]_healthVars PROVE RefreshesFit'
  OBVIOUS
<1>w. /\ WorldFits' /\ RefreshesFit /\ WorldFits
  BY NextWorld DEF HealthInv
<1>f. /\ healthClock \in Nat /\ healthClock <= healthClock /\ fleet.beatAt \in Nat /\ row \in Rows
      /\ fetchedAt \in Times /\ Noted(fetchedAt, fetchedAt) /\ Noted(row.seenAt, fetchedAt)
      /\ (fetchedAt # Nothing => fetchedAt <= healthClock)
  BY <1>w DEF WorldFits, Noted, Times
<1>d. Honest(EmptyDocument, fetchedAt, fleet.beatAt) /\ EmptyDocument \in HealthDocuments
  BY DEF EmptyDocument, HealthDocuments, Times, Honest, Noted
<1>r. ASSUME NEW r \in Refreshers PROVE RefreshFits(refresh[r], healthClock, fetchedAt, fleet.beatAt)
  BY <1>w DEF RefreshesFit
<1>e. refresh = [r \in Refreshers |-> refresh[r]]
  BY <1>w DEF RefreshesFit
<1>1. CASE HealthTick
  BY <1>f, <1>1, <1>w, WorldMoves DEF HealthTick
<1>2. CASE EventSeen
  <2>1. fleet.beatAt <= fleet.beatAt
    BY <1>f
  <2> QED BY <1>f, <1>2, <1>w, <2>1, WorldMoves DEF EventSeen
<1>3. CASE FleetChanges
  <2>1. fleet.beatAt <= fleet'.beatAt
    BY <1>f, <1>3, <1>w DEF FleetChanges, WorldFits
  <2> QED BY <1>f, <1>3, <1>w, <2>1, WorldMoves DEF FleetChanges
<1>4. CASE SetEnabled
  <2>1. row'.seenAt = row.seenAt /\ fleet.beatAt <= fleet.beatAt
    BY <1>f, <1>4 DEF SetEnabled, Rows
  <2> QED BY <1>f, <1>4, <1>w, <2>1, WorldMoves DEF SetEnabled
<1>5. ASSUME NEW r \in Refreshers, BeginRefresh(r) PROVE RefreshesFit'
  <2> DEFINE k == [NoRefresh EXCEPT !.pc = "snapshot", !.row = row]
             m == [k EXCEPT !.alone = (Overlapping(r) = {})]
  <2>1. /\ refresh' = [q \in Refreshers |-> IF q = r THEN m ELSE [refresh[q] EXCEPT !.alone = FALSE]]
        /\ UNCHANGED <<healthClock, row, eventAt, fleet, document, fetchedAt>>
    BY <1>5 DEF BeginRefresh, Started
  <2>2. m \in Refreshes /\ m.pc = "snapshot" /\ m.row = row /\ ~m.cached /\ m.now = 0 /\ m.doc = EmptyDocument
    BY <1>d, <1>f DEF Refreshes, RefreshSteps, NoRefresh
  <2> HIDE DEF m
  <2>3. RefreshFits(m, healthClock, fetchedAt, fleet.beatAt)
    BY <1>d, <1>f, <2>2 DEF RefreshFits
  <2>4. /\ \A q \in Refreshers \ {r} : refresh'[q] = Overlapped(refresh[q])
        /\ refresh'[r] = m /\ refresh' = [q \in Refreshers |-> refresh'[q]]
    BY <2>1 DEF Overlapped
  <2> QED BY <1>f, <1>w, <2>1, <2>2, <2>3, <2>4, RefreshMoves
<1>6. ASSUME NEW r \in Refreshers, CapabilitiesRefreshed(r) PROVE RefreshesFit'
  <2> DEFINE k == [NoRefresh EXCEPT !.pc = "cached", !.cached = TRUE]
             m == [k EXCEPT !.alone = (Overlapping(r) = {})]
  <2>1. /\ refresh' = [q \in Refreshers |-> IF q = r THEN m ELSE [refresh[q] EXCEPT !.alone = FALSE]]
        /\ UNCHANGED <<healthClock, eventAt, fleet, document>> /\ fetchedAt' = healthClock
        /\ row'.seenAt = healthClock
    BY <1>f, <1>6 DEF CapabilitiesRefreshed, Started, Rows
  <2>2. healthClock # Nothing /\ Noted(fetchedAt, fetchedAt')
    BY <1>f, <2>1, DocumentAssumption DEF Noted
  <2>3. m \in Refreshes /\ m.pc = "cached" /\ m.cached /\ m.now = 0 /\ m.doc = EmptyDocument
    BY <1>d, <1>f DEF Refreshes, RefreshSteps, NoRefresh
  <2>4. Honest(EmptyDocument, fetchedAt', fleet.beatAt)
    BY DEF EmptyDocument, HealthDocuments, Times, Honest, Noted
  <2> HIDE DEF m
  <2>5. RefreshFits(m, healthClock, fetchedAt', fleet.beatAt)
    BY <1>f, <2>3, <2>4 DEF RefreshFits
  <2>6. /\ \A q \in Refreshers \ {r} : refresh'[q] = Overlapped(refresh[q])
        /\ refresh'[r] = m /\ refresh' = [q \in Refreshers |-> refresh'[q]]
    BY <2>1 DEF Overlapped
  <2> QED BY <1>f, <1>w, <2>1, <2>2, <2>3, <2>5, <2>6, RefreshMoves
<1>7. ASSUME NEW r \in Refreshers, ReadCachedRow(r) PROVE RefreshesFit'
  <2> DEFINE m == [refresh[r] EXCEPT !.pc = "snapshot", !.row = row]
  <2>1. /\ refresh[r].pc = "cached" /\ refresh' = [refresh EXCEPT ![r] = m]
        /\ UNCHANGED <<healthClock, row, eventAt, fleet, document, fetchedAt>>
    BY <1>7 DEF ReadCachedRow
  <2>2. RefreshFits(refresh[r], healthClock, fetchedAt, fleet.beatAt) /\ row.seenAt # Nothing
    BY <1>r, <1>w, <2>1 DEF RefreshesFit
  <2>3. m \in Refreshes /\ m.pc = "snapshot" /\ m.row = row /\ m.now = refresh[r].now /\ m.doc = refresh[r].doc
    BY <1>f, <2>2 DEF RefreshFits, Refreshes, RefreshSteps
  <2> HIDE DEF m
  <2>4. RefreshFits(m, healthClock, fetchedAt, fleet.beatAt)
    BY <1>f, <2>2, <2>3 DEF RefreshFits
  <2>5. /\ \A q \in Refreshers \ {r} : refresh'[q] = refresh[q]
        /\ refresh'[r] = m /\ refresh' = [q \in Refreshers |-> refresh'[q]]
    BY <1>e, <2>1
  <2> QED BY <1>f, <1>w, <2>1, <2>3, <2>4, <2>5, RefreshMoves
<1>8. ASSUME NEW r \in Refreshers, TakeSnapshot(r) PROVE RefreshesFit'
  <2> DEFINE me == refresh[r]
             previous == IF document = Nothing THEN EmptyDocument ELSE document
             seen == IF me.row.seenAt # Nothing THEN me.row.seenAt
                     ELSE IF previous.okAt # Nothing THEN previous.okAt ELSE healthClock
             doc == IF me.row.enabled /\ me.cached
                    THEN [previous EXCEPT !.http = "reachable", !.error = FALSE, !.okAt = seen]
                    ELSE previous
             step == IF ~me.row.enabled THEN "store" ELSE IF me.cached THEN "workers" ELSE "fetch"
             m == [me EXCEPT !.now = healthClock, !.ok = me.cached, !.pc = step, !.doc = doc]
  <2>1. /\ me.pc = "snapshot" /\ refresh' = [refresh EXCEPT ![r] = m]
        /\ UNCHANGED <<healthClock, row, eventAt, fleet, document, fetchedAt>>
    BY <1>8 DEF TakeSnapshot
  <2>2. RefreshFits(me, healthClock, fetchedAt, fleet.beatAt)
    BY <1>r
  <2>3. Honest(previous, fetchedAt, fleet.beatAt)
    BY <1>d, <1>w DEF RefreshesFit
  <2>4. /\ me.row \in Rows /\ me.cached \in BOOLEAN /\ me.row.enabled \in BOOLEAN
        /\ me.cached => seen = me.row.seenAt
        /\ seen \in Times
    BY <1>f, <2>1, <2>2, <2>3 DEF RefreshFits, Refreshes, Rows, Honest, HealthDocuments, Times
  <2> HIDE DEF previous, seen
  <2>5. doc \in HealthDocuments /\ doc.workers = previous.workers /\ doc.okAt \in {previous.okAt, me.row.seenAt}
    BY <2>3, <2>4 DEF Honest, HealthDocuments
  <2>6. Honest(doc, fetchedAt, fleet.beatAt)
    BY <2>1, <2>2, <2>3, <2>5 DEF Honest, RefreshFits
  <2> HIDE DEF doc
  <2>7. /\ m \in Refreshes /\ m.pc = step /\ m.row = me.row /\ m.now = healthClock /\ m.doc = doc
        /\ m.ok = me.cached
    BY <1>f, <2>2, <2>4, <2>6 DEF RefreshFits, Refreshes, RefreshSteps, Honest
  <2> HIDE DEF m
  <2>8. RefreshFits(m, healthClock, fetchedAt, fleet.beatAt)
    BY <1>f, <2>1, <2>2, <2>4, <2>6, <2>7 DEF RefreshFits
  <2>9. /\ \A q \in Refreshers \ {r} : refresh'[q] = refresh[q]
        /\ refresh'[r] = m /\ refresh' = [q \in Refreshers |-> refresh'[q]]
    BY <1>e, <2>1
  <2>10. m.pc # "cached"
    BY <2>7
  <2> QED BY <1>f, <1>w, <2>1, <2>8, <2>9, <2>10, RefreshMoves
<1>9. ASSUME NEW r \in Refreshers, FetchCapabilities(r) PROVE RefreshesFit'
  <2> DEFINE me == refresh[r]
  <2>1. me.pc = "fetch" /\ RefreshFits(me, healthClock, fetchedAt, fleet.beatAt)
    BY <1>9, <1>r DEF FetchCapabilities
  <2>2. me \in Refreshes /\ me.doc \in HealthDocuments /\ me.now \in Nat /\ me.now <= healthClock
    BY <2>1 DEF RefreshFits, Refreshes
  <2>3. UNCHANGED <<healthClock, eventAt, fleet, document>>
    BY <1>9 DEF FetchCapabilities
  <2>4. ASSUME NEW caps \in {"plain", "workers"},
               row' = [row EXCEPT !.caps = caps, !.seenAt = healthClock], fetchedAt' = healthClock,
               refresh' = [refresh EXCEPT ![r] = [me EXCEPT !.pc = "workers", !.ok = TRUE, !.row = row',
                  !.doc = [me.doc EXCEPT !.http = "reachable", !.error = FALSE, !.okAt = me.now]]]
        PROVE  RefreshesFit'
    <3> DEFINE doc == [me.doc EXCEPT !.http = "reachable", !.error = FALSE, !.okAt = me.now]
               m == [me EXCEPT !.pc = "workers", !.ok = TRUE, !.row = row', !.doc = doc]
    <3>1. row' \in Rows /\ row'.seenAt = healthClock /\ healthClock # Nothing
      BY <1>f, <2>4, DocumentAssumption DEF Rows, Times
    <3>2. doc \in HealthDocuments /\ doc.okAt = me.now /\ doc.workers = me.doc.workers
      BY <2>2 DEF HealthDocuments, Times
    <3>3. Honest(doc, fetchedAt', fleet.beatAt) /\ Noted(fetchedAt, fetchedAt')
      BY <1>f, <2>1, <2>2, <2>4, <3>1, <3>2 DEF Honest, RefreshFits, Noted
    <3> HIDE DEF doc
    <3>4. m \in Refreshes /\ m.pc = "workers" /\ m.row = row' /\ m.now = me.now /\ m.doc = doc /\ m.ok
      BY <2>2, <3>1, <3>2 DEF Refreshes, RefreshSteps
    <3>5. refresh' = [refresh EXCEPT ![r] = m]
      BY <2>4 DEF doc
    <3> HIDE DEF m
    <3>6. Noted(row'.seenAt, fetchedAt')
      BY <1>f, <2>4, <3>1 DEF Noted
    <3>7. RefreshFits(m, healthClock, fetchedAt', fleet.beatAt)
      BY <2>2, <3>1, <3>3, <3>4, <3>6 DEF RefreshFits
    <3>8. /\ \A q \in Refreshers \ {r} : refresh'[q] = refresh[q]
          /\ refresh'[r] = m /\ refresh' = [q \in Refreshers |-> refresh'[q]]
      BY <1>e, <3>5
    <3> QED BY <1>f, <1>w, <2>3, <3>1, <3>3, <3>4, <3>7, <3>8, RefreshMoves
  <2>5. CASE /\ refresh' = [refresh EXCEPT ![r] = [me EXCEPT !.pc = "workers", !.doc = FetchFailed(me.doc, me.now)]]
             /\ UNCHANGED <<row, fetchedAt>>
    <3> DEFINE doc == FetchFailed(me.doc, me.now)
               m == [me EXCEPT !.pc = "workers", !.doc = doc]
    <3>1. /\ doc \in HealthDocuments /\ doc.okAt = me.doc.okAt /\ doc.workers = me.doc.workers
          /\ doc.http = "unreachable"
      BY <2>2 DEF FetchFailed, HealthDocuments
    <3>2. Honest(doc, fetchedAt, fleet.beatAt)
      BY <2>1, <3>1 DEF Honest, RefreshFits
    <3> HIDE DEF doc
    <3>3. m \in Refreshes /\ m.pc = "workers" /\ m.row = me.row /\ m.now = me.now /\ m.doc = doc /\ m.ok = me.ok
      BY <2>2, <3>1 DEF Refreshes, RefreshSteps
    <3>4. refresh' = [refresh EXCEPT ![r] = m]
      BY <2>5 DEF doc
    <3> HIDE DEF m
    <3>5. RefreshFits(m, healthClock, fetchedAt, fleet.beatAt)
      BY <2>1, <2>2, <3>1, <3>2, <3>3 DEF RefreshFits
    <3>6. /\ \A q \in Refreshers \ {r} : refresh'[q] = refresh[q]
          /\ refresh'[r] = m /\ refresh' = [q \in Refreshers |-> refresh'[q]]
      BY <1>e, <3>4
    <3> QED BY <1>f, <1>w, <2>3, <2>5, <3>3, <3>5, <3>6, RefreshMoves
  <2> QED BY <1>9, <2>4, <2>5 DEF FetchCapabilities
<1>10. ASSUME NEW r \in Refreshers, FetchWorkers(r) PROVE RefreshesFit'
  <2> DEFINE me == refresh[r]
  <2>1. me.pc = "workers" /\ RefreshFits(me, healthClock, fetchedAt, fleet.beatAt)
    BY <1>10, <1>r DEF FetchWorkers
  <2>2. me \in Refreshes /\ me.doc \in HealthDocuments
    BY <2>1 DEF RefreshFits, Refreshes
  <2>3. UNCHANGED <<healthClock, row, eventAt, fleet, document, fetchedAt>>
    BY <1>10 DEF FetchWorkers
  <2>4. PICK answer : /\ answer \in WorkerAnswers \cup {me.doc.workers, Nothing}
                      /\ refresh' = [refresh EXCEPT ![r] = [me EXCEPT !.pc = "store", !.doc.workers = answer]]
    BY <1>10 DEF FetchWorkers
  <2>5. /\ answer \in Fleets \cup {Nothing}
        /\ answer # Nothing => answer.beatAt <= fleet.beatAt
    BY <1>f, <1>w, <2>1, <2>2, <2>4 DEF WorkerAnswers, Fleets, WorldFits, HealthDocuments, RefreshFits, Honest
  <2> DEFINE doc == [me.doc EXCEPT !.workers = answer]
             m == [me EXCEPT !.pc = "store", !.doc = doc]
  <2>6. refresh' = [refresh EXCEPT ![r] = m]
    BY <2>2, <2>4 DEF Refreshes
  <2>7. doc \in HealthDocuments /\ doc.okAt = me.doc.okAt /\ doc.workers = answer /\ doc.http = me.doc.http
    BY <2>2, <2>5 DEF HealthDocuments
  <2>8. Honest(doc, fetchedAt, fleet.beatAt)
    BY <2>1, <2>5, <2>7 DEF Honest, RefreshFits
  <2> HIDE DEF doc
  <2>9. m \in Refreshes /\ m.pc = "store" /\ m.row = me.row /\ m.now = me.now /\ m.doc = doc /\ m.ok = me.ok
    BY <2>2, <2>7 DEF Refreshes, RefreshSteps
  <2> HIDE DEF m
  <2>10. RefreshFits(m, healthClock, fetchedAt, fleet.beatAt)
    BY <2>1, <2>7, <2>8, <2>9 DEF RefreshFits
  <2>11. /\ \A q \in Refreshers \ {r} : refresh'[q] = refresh[q]
         /\ refresh'[r] = m /\ refresh' = [q \in Refreshers |-> refresh'[q]]
    BY <1>e, <2>6
  <2> QED BY <1>f, <1>w, <2>3, <2>9, <2>10, <2>11, RefreshMoves
<1>11. ASSUME NEW r \in Refreshers, StoreHealth(r) PROVE RefreshesFit'
  <2> DEFINE me == refresh[r]
  <2>1. /\ me.pc = "store" /\ document' = Materialized(me.row, me.doc)
        /\ refresh' = [refresh EXCEPT ![r] = NoRefresh]
        /\ UNCHANGED <<healthClock, row, eventAt, fleet, fetchedAt>>
    BY <1>11 DEF StoreHealth
  <2>2. RefreshFits(me, healthClock, fetchedAt, fleet.beatAt)
    BY <1>r
  <2>3. me.row \in Rows /\ me.doc \in HealthDocuments /\ me.row.seenAt \in Times
    BY <2>1, <2>2 DEF RefreshFits, Refreshes, Rows
  <2>4. /\ document' \in HealthDocuments /\ document'.okAt \in {me.doc.okAt, me.row.seenAt}
        /\ document'.workers \in {me.doc.workers, Nothing}
    BY <2>1, <2>3 DEF Materialized, OkAt, HealthDocuments
  <2>5. Honest(document', fetchedAt, fleet.beatAt)
    BY <2>1, <2>2, <2>4 DEF Honest, RefreshFits
  <2>6. RefreshFits(NoRefresh, healthClock, fetchedAt, fleet.beatAt) /\ NoRefresh.pc = "idle"
    BY <1>d, <1>f DEF NoRefresh, RefreshFits, Refreshes, RefreshSteps
  <2>7. \A q \in Refreshers : refresh'[q] = IF q = r THEN NoRefresh ELSE refresh[q]
    BY <1>e, <2>1
  <2>8. \A q \in Refreshers : RefreshFits(refresh'[q], healthClock, fetchedAt, fleet.beatAt)
    BY <1>r, <2>6, <2>7
  <2> QED BY <1>e, <1>w, <2>1, <2>5, <2>6, <2>7, <2>8 DEF RefreshesFit
<1>12. CASE UNCHANGED healthVars
  BY <1>12 DEF healthVars, HealthInv, WorldFits, RefreshesFit, RefreshFits, Refreshes,
     RefreshSteps, Honest, HealthDocuments, Noted, Rows, Times
<1> QED
  BY <1>1, <1>2, <1>3, <1>4, <1>5, <1>6, <1>7, <1>8, <1>9, <1>10, <1>11, <1>12 DEF
     HealthNext

(* Every step leaves a refresh that is alone with what it read.            *)
LEMMA NextAlone == HealthInv /\ [HealthNext]_healthVars => Alone'
<1> SUFFICES ASSUME HealthInv, [HealthNext]_healthVars PROVE Alone'
  OBVIOUS
<1>r. ASSUME NEW r \in Refreshers PROVE RefreshFits(refresh[r], healthClock, fetchedAt, fleet.beatAt)
  BY DEF HealthInv, RefreshesFit
<1>e. refresh = [r \in Refreshers |-> refresh[r]]
  BY DEF HealthInv, RefreshesFit
<1>1. CASE HealthTick
  BY <1>1 DEF HealthTick, HealthInv, RefreshesFit, RefreshFits, Refreshes, Alone, HttpOf
<1>2. CASE EventSeen
  BY <1>2 DEF EventSeen, HealthInv, RefreshesFit, RefreshFits, Refreshes, Alone, HttpOf
<1>3. CASE FleetChanges
  BY <1>3 DEF FleetChanges, HealthInv, RefreshesFit, RefreshFits, Refreshes, Alone,
     HttpOf
<1>4. CASE SetEnabled
  BY <1>4 DEF SetEnabled, HealthInv, RefreshesFit, RefreshFits, Refreshes, Alone, HttpOf
<1>5. ASSUME NEW r \in Refreshers, BeginRefresh(r) PROVE Alone'
  <2> DEFINE k == [NoRefresh EXCEPT !.pc = "snapshot", !.row = row]
             m == [k EXCEPT !.alone = (Overlapping(r) = {})]
  <2>1. refresh' = [q \in Refreshers |-> IF q = r THEN m ELSE [refresh[q] EXCEPT !.alone = FALSE]]
    BY <1>5 DEF BeginRefresh, Started
  <2>2. m.pc = "snapshot" /\ (m.alone => Overlapping(r) = {})
    BY DEF NoRefresh
  <2> HIDE DEF m
  <2>3. \A q \in Refreshers \ {r} : refresh'[q] = Overlapped(refresh[q])
    BY <2>1 DEF Overlapped
  <2>4. \A q \in Refreshers \ {r} : refresh'[q].pc = refresh[q].pc /\ ~refresh'[q].alone
    BY <1>r, <2>3, FitsOverlapped
  <2>5. refresh'[r] = m
    BY <2>1
  <2> QED BY <2>2, <2>4, <2>5 DEF Alone, Overlapping
<1>6. ASSUME NEW r \in Refreshers, CapabilitiesRefreshed(r) PROVE Alone'
  <2> DEFINE k == [NoRefresh EXCEPT !.pc = "cached", !.cached = TRUE]
             m == [k EXCEPT !.alone = (Overlapping(r) = {})]
  <2>1. refresh' = [q \in Refreshers |-> IF q = r THEN m ELSE [refresh[q] EXCEPT !.alone = FALSE]]
    BY <1>6 DEF CapabilitiesRefreshed, Started
  <2>2. m.pc = "cached" /\ (m.alone => Overlapping(r) = {})
    BY DEF NoRefresh
  <2> HIDE DEF m
  <2>3. \A q \in Refreshers \ {r} : refresh'[q] = Overlapped(refresh[q])
    BY <2>1 DEF Overlapped
  <2>4. \A q \in Refreshers \ {r} : refresh'[q].pc = refresh[q].pc /\ ~refresh'[q].alone
    BY <1>r, <2>3, FitsOverlapped
  <2>5. refresh'[r] = m
    BY <2>1
  <2> QED BY <2>2, <2>4, <2>5 DEF Alone, Overlapping
<1>7. ASSUME NEW r \in Refreshers, ReadCachedRow(r) PROVE Alone'
  BY <1>7 DEF ReadCachedRow, HealthInv, RefreshesFit, RefreshFits, Refreshes, Alone,
     HttpOf
<1>8. ASSUME NEW r \in Refreshers, TakeSnapshot(r) PROVE Alone'
  BY <1>8 DEF TakeSnapshot, EmptyDocument, HealthInv, RefreshesFit, RefreshFits,
     Refreshes, Alone, HttpOf
<1>9. ASSUME NEW r \in Refreshers, FetchCapabilities(r) PROVE Alone'
  <2>1. PICK m : m.pc = "workers" /\ m.alone = refresh[r].alone /\ refresh' = [refresh EXCEPT ![r] = m]
    <3> DEFINE me == refresh[r]
    <3>1. me \in Refreshes
      BY <1>r DEF RefreshFits
    <3>2. ASSUME NEW caps \in {"plain", "workers"}, NEW stored, NEW doc,
                 refresh' = [refresh EXCEPT ![r] = [me EXCEPT !.pc = "workers", !.ok = TRUE, !.row = stored,
                    !.doc = doc]]
          PROVE  \E m : m.pc = "workers" /\ m.alone = me.alone /\ refresh' = [refresh EXCEPT ![r] = m]
      <4> DEFINE m == [me EXCEPT !.pc = "workers", !.ok = TRUE, !.row = stored, !.doc = doc]
      <4>1. m.pc = "workers" /\ m.alone = me.alone
        BY <3>1 DEF Refreshes
      <4> QED BY <3>2, <4>1
    <3>3. ASSUME NEW doc, refresh' = [refresh EXCEPT ![r] = [me EXCEPT !.pc = "workers", !.doc = doc]]
          PROVE  \E m : m.pc = "workers" /\ m.alone = me.alone /\ refresh' = [refresh EXCEPT ![r] = m]
      <4> DEFINE m == [me EXCEPT !.pc = "workers", !.doc = doc]
      <4>1. m.pc = "workers" /\ m.alone = me.alone
        BY <3>1 DEF Refreshes
      <4> QED BY <3>3, <4>1
    <3> QED BY <1>9, <3>2, <3>3 DEF FetchCapabilities
  <2>2. refresh'[r] = m /\ \A q \in Refreshers \ {r} : refresh'[q] = refresh[q]
    BY <1>e, <2>1
  <2>3. /\ \A q \in Refreshers : refresh[q].alone => \A p \in Refreshers \ {q} : refresh[p].pc = "idle"
        /\ refresh[r].pc = "fetch"
    BY <1>9 DEF HealthInv, Alone, FetchCapabilities
  <2>4. document' = document
    BY <1>9 DEF FetchCapabilities
  <2>5. \A q \in Refreshers \ {r} : ~refresh[q].alone
    BY <2>3
  <2> QED BY <2>1, <2>2, <2>3, <2>4, <2>5 DEF Alone
<1>10. ASSUME NEW r \in Refreshers, FetchWorkers(r) PROVE Alone'
  BY <1>10 DEF FetchWorkers, WorkerAnswers, HealthInv, RefreshesFit, RefreshFits,
     Refreshes, Alone, HttpOf
<1>11. ASSUME NEW r \in Refreshers, StoreHealth(r) PROVE Alone'
  BY <1>11 DEF StoreHealth, Materialized, OkAt, NoRefresh, HealthInv, RefreshesFit,
     RefreshFits, Refreshes, Alone, HttpOf
<1>12. CASE UNCHANGED healthVars
  BY <1>12 DEF healthVars, HealthInv, RefreshesFit, RefreshFits, Refreshes, Alone,
     HttpOf
<1> QED
  BY <1>1, <1>2, <1>3, <1>4, <1>5, <1>6, <1>7, <1>8, <1>9, <1>10, <1>11, <1>12 DEF
     HealthNext

(* Every step leaves a failed refresh visible.                             *)
LEMMA NextFailure == HealthInv /\ [HealthNext]_healthVars => FailureShows'
<1> SUFFICES ASSUME HealthInv, [HealthNext]_healthVars PROVE FailureShows'
  OBVIOUS
<1>1. CASE HealthTick
  BY <1>1 DEF HealthTick, HealthInv, RefreshesFit, RefreshFits, Refreshes, Alone,
     HttpOf, FailureShows
<1>2. CASE EventSeen
  BY <1>2 DEF EventSeen, HealthInv, RefreshesFit, RefreshFits, Refreshes, Alone, HttpOf,
     FailureShows
<1>3. CASE FleetChanges
  BY <1>3 DEF FleetChanges, HealthInv, RefreshesFit, RefreshFits, Refreshes, Alone,
     HttpOf, FailureShows
<1>4. CASE SetEnabled
  BY <1>4 DEF SetEnabled, HealthInv, RefreshesFit, RefreshFits, Refreshes, Alone,
     HttpOf, FailureShows
<1>5. ASSUME NEW r \in Refreshers, BeginRefresh(r) PROVE FailureShows'
  BY <1>5 DEF BeginRefresh, Started, Overlapping, NoRefresh, HealthInv, RefreshesFit,
     RefreshFits, Refreshes, Alone, HttpOf, FailureShows
<1>6. ASSUME NEW r \in Refreshers, CapabilitiesRefreshed(r) PROVE FailureShows'
  BY <1>6 DEF CapabilitiesRefreshed, Started, Overlapping, NoRefresh, HealthInv,
     RefreshesFit, RefreshFits, Refreshes, Alone, HttpOf, FailureShows
<1>7. ASSUME NEW r \in Refreshers, ReadCachedRow(r) PROVE FailureShows'
  BY <1>7 DEF ReadCachedRow, HealthInv, RefreshesFit, RefreshFits, Refreshes, Alone,
     HttpOf, FailureShows
<1>8. ASSUME NEW r \in Refreshers, TakeSnapshot(r) PROVE FailureShows'
  BY <1>8 DEF TakeSnapshot, EmptyDocument, HealthInv, RefreshesFit, RefreshFits,
     Refreshes, Alone, HttpOf, FailureShows
<1>9. ASSUME NEW r \in Refreshers, FetchCapabilities(r) PROVE FailureShows'
  BY <1>9 DEF FetchCapabilities, FetchFailed, HealthInv, RefreshesFit, RefreshFits,
     Refreshes, Alone, HttpOf, FailureShows
<1>10. ASSUME NEW r \in Refreshers, FetchWorkers(r) PROVE FailureShows'
  BY <1>10 DEF FetchWorkers, WorkerAnswers, HealthInv, RefreshesFit, RefreshFits,
     Refreshes, Alone, HttpOf, FailureShows
<1>11. ASSUME NEW r \in Refreshers, StoreHealth(r) PROVE FailureShows'
  <2> DEFINE me == refresh[r]
  <2>1. /\ me.pc = "store" /\ document' = Materialized(me.row, me.doc)
        /\ lastRefresh' = IF ~me.alone THEN Nothing
                          ELSE IF me.ok THEN "ok"
                          ELSE IF me.row.enabled THEN "failed" ELSE lastRefresh
    BY <1>11 DEF StoreHealth
  <2>2. RefreshFits(me, healthClock, fetchedAt, fleet.beatAt)
    BY DEF HealthInv, RefreshesFit
  <2>3. me.row \in Rows /\ me.doc \in HealthDocuments /\ me.row.seenAt \in Times
    BY <2>1, <2>2 DEF RefreshFits, Refreshes, Rows
  <2>4. document' \in HealthDocuments /\ document'.http = me.doc.http
    BY <2>1, <2>3 DEF Materialized, OkAt, HealthDocuments
  <2>5. document' # Nothing
    BY <2>4, DocumentAssumption
  <2>6. SUFFICES ASSUME lastRefresh' = "failed" PROVE me.doc.http = "unreachable"
    BY <2>4, <2>5 DEF FailureShows
  <2>7. me.alone /\ ~me.ok
    BY <2>1, <2>6, DocumentAssumption
  <2>8. CASE me.row.enabled
    BY <2>1, <2>2, <2>7, <2>8 DEF RefreshFits
  <2>9. CASE ~me.row.enabled
    <3>1. lastRefresh = "failed"
      BY <2>1, <2>6, <2>7, <2>9
    <3>2. document # Nothing /\ document.http = "unreachable"
      BY <3>1 DEF HealthInv, FailureShows
    <3>3. me.doc.http = HttpOf(document)
      BY <2>1, <2>7, <2>9 DEF HealthInv, Alone
    <3> QED BY <3>2, <3>3 DEF HttpOf
  <2> QED BY <2>8, <2>9
<1>12. CASE UNCHANGED healthVars
  BY <1>12 DEF healthVars, HealthInv, RefreshesFit, RefreshFits, Refreshes, Alone,
     HttpOf, FailureShows
<1> QED
  BY <1>1, <1>2, <1>3, <1>4, <1>5, <1>6, <1>7, <1>8, <1>9, <1>10, <1>11, <1>12 DEF
     HealthNext

(* What it takes to be shown healthy.                                      *)
LEMMA HealthyMeans ==
    ASSUME NEW svc, NEW at, NEW doc, NEW now, svc.enabled \in BOOLEAN,
           OverallStatus(svc, at, doc, now) = "healthy"
    PROVE  /\ svc.enabled /\ doc.http # "unreachable"
           /\ OkAt(svc, doc) # Nothing /\ ~TooOld(OkAt(svc, doc), now)
           /\ ~TooOld(at, now)
           /\ svc.caps = "workers" => doc.workers # Nothing /\ ~TooOld(doc.workers.beatAt, now)
<1> DEFINE capability == CapabilityState(svc, doc, now)
           events == Freshness(at, now)
           workers == WorkerState(svc, doc, now)
<1>1. /\ svc.enabled /\ doc.http # "unreachable" /\ workers \notin {"stale", "unhealthy", "unknown"}
      /\ capability = "fresh" /\ events = "fresh"
  <2> HIDE DEF capability, events, workers
  <2>1. OverallStatus(svc, at, doc, now) =
           CASE ~svc.enabled -> "disabled"
             [] svc.enabled /\ doc.http = "unreachable" -> "unreachable"
             [] svc.enabled /\ doc.http # "unreachable" /\ "stale" \in {capability, events, workers} -> "stale"
             [] OTHER ->
                   IF capability = "error" \/ workers \in {"unhealthy", "unknown"} THEN "degraded"
                   ELSE IF capability = "fresh" /\ events = "fresh" THEN "healthy" ELSE "unknown"
    BY DEF OverallStatus, capability, events, workers
  <2> QED BY <2>1
<1>2. OkAt(svc, doc) # Nothing /\ ~TooOld(OkAt(svc, doc), now)
  BY <1>1 DEF CapabilityState
<1>3. ~TooOld(at, now)
  BY <1>1 DEF Freshness
<1>4. svc.caps = "workers" => doc.workers # Nothing /\ ~TooOld(doc.workers.beatAt, now)
  BY <1>1 DEF WorkerState
<1> QED BY <1>1, <1>2, <1>3, <1>4

(* What was noted in time happened in time.                                *)
LEMMA NotedInTime ==
    ASSUME NEW at \in Times, NEW since \in Times, NEW now \in Nat, Noted(at, since), ~TooOld(at, now)
    PROVE  ~TooOld(since, now)
<1>1. at # Nothing /\ since # Nothing /\ at <= since
  BY DEF TooOld, Noted
<1>2. at \in Nat /\ since \in Nat /\ StaleAfter \in Nat /\ ~(now > at + StaleAfter)
  BY <1>1, HealthAssumption DEF Times, TooOld
<1>3. ~(now > since + StaleAfter)
  BY <1>1, <1>2
<1> QED BY <1>1, <1>3 DEF TooOld

(* Hence a service shown healthy is healthy: enabled, its capabilities,    *)
(* events and heartbeats recent, its last lone refresh not a failure.      *)
LEMMA InvHonest == HealthInv => HealthHonest
<1> SUFFICES ASSUME HealthInv, Shown = "healthy"
             PROVE  /\ row.enabled
                    /\ ~TooOld(fetchedAt, healthClock) /\ ~TooOld(eventAt, healthClock)
                    /\ row.caps = "workers" => ~TooOld(fleet.beatAt, healthClock)
                    /\ lastRefresh # "failed"
  BY DEF HealthHonest
<1> DEFINE doc == IF document = Nothing THEN EmptyDocument ELSE document
<1>1. /\ healthClock \in Nat /\ row \in Rows /\ fetchedAt \in Times /\ fleet.beatAt \in Nat
      /\ Noted(row.seenAt, fetchedAt) /\ row.enabled \in BOOLEAN /\ row.seenAt \in Times
  BY DEF HealthInv, WorldFits, Rows
<1>2. Honest(EmptyDocument, fetchedAt, fleet.beatAt)
  BY DEF EmptyDocument, HealthDocuments, Times, Honest, Noted
<1>3. Honest(doc, fetchedAt, fleet.beatAt)
  BY <1>2 DEF HealthInv, RefreshesFit
<1>4. OverallStatus(row, eventAt, doc, healthClock) = "healthy"
  BY DEF Shown
<1>5. document # Nothing => doc = document
  OBVIOUS
<1> HIDE DEF doc
<1>6. /\ row.enabled /\ doc.http # "unreachable"
      /\ OkAt(row, doc) # Nothing /\ ~TooOld(OkAt(row, doc), healthClock)
      /\ ~TooOld(eventAt, healthClock)
      /\ row.caps = "workers" => doc.workers # Nothing /\ ~TooOld(doc.workers.beatAt, healthClock)
  BY <1>1, <1>4, HealthyMeans
<1>7. OkAt(row, doc) \in Times /\ Noted(OkAt(row, doc), fetchedAt)
  BY <1>1, <1>3 DEF OkAt, Honest, HealthDocuments
<1>8. ~TooOld(fetchedAt, healthClock)
  BY <1>1, <1>6, <1>7, NotedInTime
<1>9. ASSUME row.caps = "workers" PROVE ~TooOld(fleet.beatAt, healthClock)
  <2>1. doc.workers # Nothing /\ ~TooOld(doc.workers.beatAt, healthClock)
    BY <1>6, <1>9
  <2>2. doc.workers.beatAt \in Nat /\ doc.workers.beatAt <= fleet.beatAt
    BY <1>3, <2>1 DEF Honest, HealthDocuments, Fleets
  <2>3. /\ Noted(doc.workers.beatAt, fleet.beatAt)
        /\ doc.workers.beatAt \in Times /\ fleet.beatAt \in Times
    BY <1>1, <2>2, DocumentAssumption DEF Noted, Times
  <2> QED BY <1>1, <2>1, <2>3, NotedInTime
<1>10. lastRefresh # "failed"
  BY <1>5, <1>6 DEF HealthInv, FailureShows
<1> QED BY <1>6, <1>8, <1>9, <1>10

(* However refreshes overlap and fail, a service that get_health shows     *)
(* healthy is enabled, with capabilities, events and heartbeats that are   *)
(* recent, and the last refresh nothing overlapped did not fail.           *)
THEOREM HealthIsHonest == HealthSpec => []HealthHonest
<1>1. HealthInv /\ [HealthNext]_healthVars => HealthInv'
  BY NextWorld, NextRefreshes, NextAlone, NextFailure DEF HealthInv
<1> QED BY <1>1, InitHealth, InvHonest, PTL DEF HealthSpec

-----------------------------------------------------------------------------
(* Backfill: what is imported refers to a service, and is imported once.   *)

Jobs == [pc : {"idle", "scan", "prior", "import"}, snapshot : Snapshots, todo : Seq(AllKinds), invalid : BOOLEAN]
BackfillType ==
    /\ source \in Snapshots /\ broken \in BOOLEAN /\ together \in BOOLEAN
    /\ tables \in [AllKinds -> [Owners -> Versions \cup {Nothing}]]
    /\ imported \in Snapshots \cup {Nothing}
    /\ job \in [Backfills -> Jobs]
    /\ newer \subseteq AllKinds \X Owners

(* A row of any kind refers to a row of a service.                         *)
Referenced == \A k \in Kinds, s \in Owners : tables[k][s] # Nothing => tables["services"][s] # Nothing

(* Without overlapping runs there is one run, and it imports only where    *)
(* nothing was imported; Studio writes only after an import.               *)
ImportsOnce ==
    /\ newer # {} => imported # Nothing
    /\ ~together => \A b, o \in Backfills : job[b] # NoJob /\ job[o] # NoJob => b = o
    /\ ~together => \A b \in Backfills : job[b].pc = "import" => imported = Nothing
    /\ ~together => \A r \in newer : tables[r[1]][r[2]] = "newer"

BackfillInv == BackfillType /\ Referenced /\ ImportsOnce

(* The idle run is a run, and services are a kind.                         *)
LEMMA JobFacts ==
    /\ NoJob \in Jobs /\ NoJob.pc = "idle" /\ ScanOrder \in Seq(AllKinds)
    /\ "services" \in AllKinds /\ "cards" \in AllKinds
<1>1. ScanOrder \in Seq(AllKinds)
  BY BackfillAssumption, SeqOfRange DEF AllKinds
<1>2. NoJob \in Jobs
  BY DEF NoJob, Jobs, Snapshots
<1> QED BY <1>1, <1>2, BackfillAssumption DEF NoJob, AllKinds

(* The tool starts with empty tables.                                      *)
LEMMA InitBackfill == BackfillInit => BackfillInv
<1> SUFFICES ASSUME BackfillInit PROVE BackfillInv
  OBVIOUS
<1>1. BackfillType
  BY JobFacts DEF BackfillInit, BackfillType, Snapshots
<1>2. Referenced /\ ImportsOnce
  BY JobFacts DEF BackfillInit, Referenced, ImportsOnce, Kinds
<1> QED BY <1>1, <1>2 DEF BackfillInv

(* Every step leaves the tables, the runs and the mark of their types.     *)
LEMMA NextBackfillType == BackfillInv /\ [BackfillNext]_backfillVars => BackfillType'
<1> SUFFICES ASSUME BackfillInv, [BackfillNext]_backfillVars PROVE BackfillType'
  OBVIOUS
<1> USE JobFacts DEF BackfillInv, BackfillType
<1>1. ASSUME NEW k \in AllKinds, NEW s \in Owners, RedisWrites(k, s) PROVE BackfillType'
  <2>1. source' \in Snapshots
    BY <1>1 DEF RedisWrites, Snapshots
  <2> QED BY <1>1, <2>1 DEF RedisWrites
<1>2. ASSUME NEW k \in AllKinds, NEW s \in Owners, StudioWrites(k, s) PROVE BackfillType'
  BY <1>2 DEF StudioWrites, Versions
<1>3. ASSUME NEW b \in Backfills, BeginBackfill(b) PROVE BackfillType'
  <2> DEFINE j == [NoJob EXCEPT !.pc = "scan", !.todo = ScanOrder]
  <2>1. j \in Jobs
    BY DEF Jobs
  <2> HIDE DEF j
  <2>2. job' = [job EXCEPT ![b] = j] /\ together' \in BOOLEAN
    BY <1>3 DEF BeginBackfill, j
  <2> QED BY <1>3, <2>1, <2>2 DEF BeginBackfill
<1>4. ASSUME NEW b \in Backfills, Scan(b) PROVE BackfillType'
  <2> DEFINE k == Head(job[b].todo)
             j == [job[b] EXCEPT !.snapshot = [job[b].snapshot EXCEPT ![k] = source[k]],
                                 !.todo = Tail(job[b].todo), !.invalid = job[b].invalid \/ broken]
  <2>1. job[b] \in Jobs /\ job[b].todo \in Seq(AllKinds) /\ job[b].todo # <<>>
    BY <1>4 DEF Scan, Jobs
  <2>2. k \in AllKinds /\ Tail(job[b].todo) \in Seq(AllKinds)
    BY <2>1
  <2>3. [job[b].snapshot EXCEPT ![k] = source[k]] \in Snapshots
    BY <2>1, <2>2 DEF Jobs, Snapshots
  <2>4. j \in Jobs
    BY <2>1, <2>2, <2>3 DEF Jobs
  <2>5. job' = [job EXCEPT ![b] = j]
    BY <1>4, <2>1 DEF Scan, Jobs
  <2> HIDE DEF j
  <2> QED BY <1>4, <2>4, <2>5 DEF Scan
<1>5. ASSUME NEW b \in Backfills, NEW allow \in BOOLEAN, Checked(b, allow) PROVE BackfillType'
  BY <1>5 DEF Checked, Jobs
<1>6. ASSUME NEW b \in Backfills, Prior(b) PROVE BackfillType'
  BY <1>6 DEF Prior, Jobs
<1>7. ASSUME NEW b \in Backfills, Import(b) PROVE BackfillType'
  <2> DEFINE snapshot == job[b].snapshot
  <2>1. /\ ImportServices(snapshot) \in [Owners -> Versions \cup {Nothing}]
        /\ ImportCards(snapshot) \in [Owners -> Versions \cup {Nothing}]
        /\ \A k \in AllKinds : ImportRows(k, snapshot) \in [Owners -> Versions \cup {Nothing}]
    BY DEF ImportServices, ImportCards, ImportRows, Versions
  <2>2. snapshot \in Snapshots
    BY DEF Jobs
  <2>3. tables' \in [AllKinds -> [Owners -> Versions \cup {Nothing}]]
    BY <1>7, <2>1 DEF Import
  <2> QED BY <1>7, <2>2, <2>3 DEF Import
<1>8. ASSUME NEW b \in Backfills, BackfillStops(b) PROVE BackfillType'
  BY <1>8 DEF BackfillStops
<1>9. CASE UNCHANGED backfillVars
  BY <1>9 DEF backfillVars
<1> QED BY <1>1, <1>2, <1>3, <1>4, <1>5, <1>6, <1>7, <1>8, <1>9 DEF BackfillNext

(* No step leaves a row whose service has no row.                          *)
LEMMA NextReferenced == BackfillInv /\ [BackfillNext]_backfillVars => Referenced'
<1> SUFFICES ASSUME BackfillInv, [BackfillNext]_backfillVars,
                    NEW k \in Kinds, NEW s \in Owners, tables'[k][s] # Nothing
             PROVE  tables'["services"][s] # Nothing
  BY DEF Referenced
<1>0. /\ k \in AllKinds /\ k # "services" /\ k # "cards"
      /\ tables[k][s] # Nothing => tables["services"][s] # Nothing
      /\ tables \in [AllKinds -> [Owners -> Versions \cup {Nothing}]]
      /\ \A v \in Versions : v # Nothing
  BY SnapshotAssumption DEF Kinds, BackfillInv, Referenced, BackfillType
<1>1. CASE UNCHANGED tables
  BY <1>0, <1>1
<1>2. ASSUME NEW l \in AllKinds, NEW o \in Owners, StudioWrites(l, o) PROVE tables'["services"][s] # Nothing
  BY <1>0, <1>2, JobFacts DEF StudioWrites, Versions
<1>3. ASSUME NEW b \in Backfills, Import(b) PROVE tables'["services"][s] # Nothing
  <2> DEFINE snapshot == job[b].snapshot
  <2>1. /\ tables'[k] = ImportRows(k, snapshot)
        /\ tables'["services"] = ImportServices(snapshot)
    BY <1>0, <1>3, JobFacts DEF Import
  <2>2. CASE s \in snapshot[k]
    <3>1. s \in snapshot["services"] \/ s \in Tombstones(snapshot)
      <4> DEFINE refers == UNION {snapshot[l] : l \in Kinds}
      <4>1. snapshot[k] \in {snapshot[l] : l \in Kinds}
        OBVIOUS
      <4>2. s \in refers
        BY <2>2, <4>1
      <4>3. Tombstones(snapshot) = refers \ snapshot["services"]
        BY DEF Tombstones
      <4> HIDE DEF refers
      <4> QED BY <4>2, <4>3
    <3> QED BY <1>0, <2>1, <3>1 DEF ImportServices, Versions
  <2>3. CASE s \notin snapshot[k]
    <3>1. tables["services"][s] # Nothing
      BY <1>0, <2>1, <2>3 DEF ImportRows
    <3> QED BY <1>0, <2>1, <3>1 DEF ImportServices, Versions
  <2> QED BY <2>2, <2>3
<1> QED
  BY <1>1, <1>2, <1>3 DEF BackfillNext, RedisWrites, BeginBackfill, Scan, Checked, Prior, BackfillStops,
     backfillVars

(* No step imports twice, unless runs overlap.                             *)
LEMMA NextImportsOnce == BackfillInv /\ [BackfillNext]_backfillVars => ImportsOnce'
<1> SUFFICES ASSUME BackfillInv, [BackfillNext]_backfillVars PROVE ImportsOnce'
  OBVIOUS
<1>0. /\ ImportsOnce /\ BackfillType
      /\ \A b \in Backfills : job[b] \in Jobs
  BY DEF BackfillInv, BackfillType
<1>1. ASSUME NEW k \in AllKinds, NEW s \in Owners, RedisWrites(k, s) PROVE ImportsOnce'
  BY <1>0, <1>1 DEF RedisWrites, ImportsOnce
<1>2. ASSUME NEW k \in AllKinds, NEW s \in Owners, StudioWrites(k, s) PROVE ImportsOnce'
  <2>1. /\ imported # Nothing /\ tables' = [tables EXCEPT ![k][s] = "newer"] /\ newer' = newer \cup {<<k, s>>}
        /\ UNCHANGED <<imported, job, together>>
    BY <1>2 DEF StudioWrites
  <2>2. ASSUME ~together, NEW r \in newer' PROVE tables'[r[1]][r[2]] = "newer"
    <3>1. r \in AllKinds \X Owners
      BY <1>0, <2>1, <2>2 DEF BackfillType
    <3>2. r \in newer => tables[r[1]][r[2]] = "newer"
      BY <1>0, <2>2 DEF ImportsOnce
    <3> QED BY <1>0, <2>1, <2>2, <3>1, <3>2 DEF BackfillType
  <2> QED BY <1>0, <2>1, <2>2 DEF ImportsOnce
<1>3. ASSUME NEW b \in Backfills, BeginBackfill(b) PROVE ImportsOnce'
  <2> DEFINE j == [NoJob EXCEPT !.pc = "scan", !.todo = ScanOrder]
  <2>1. j.pc = "scan"
    BY JobFacts DEF Jobs
  <2>2. /\ job' = [job EXCEPT ![b] = j] /\ (~together' => ~together /\ \A o \in Backfills \ {b} : job[o] = NoJob)
        /\ UNCHANGED <<tables, imported, newer>>
    BY <1>3 DEF BeginBackfill
  <2> HIDE DEF j
  <2> QED BY <1>0, <2>1, <2>2 DEF ImportsOnce, BackfillType
<1>4. ASSUME NEW b \in Backfills, Scan(b) PROVE ImportsOnce'
  <2>1. /\ job'[b].pc = job[b].pc /\ \A o \in Backfills \ {b} : job'[o] = job[o]
        /\ job[b].pc = "scan"
    BY <1>0, <1>4 DEF Scan, Jobs, BackfillType
  <2>2. job[b] # NoJob
    BY <2>1, JobFacts
  <2> QED BY <1>0, <1>4, <2>1, <2>2 DEF Scan, ImportsOnce
<1>5. ASSUME NEW b \in Backfills, NEW allow \in BOOLEAN, Checked(b, allow) PROVE ImportsOnce'
  <2>1. /\ job'[b].pc \in {"idle", "prior"} /\ \A o \in Backfills \ {b} : job'[o] = job[o]
        /\ job[b].pc = "scan"
    BY <1>0, <1>5, JobFacts DEF Checked, Jobs, BackfillType
  <2>2. job[b] # NoJob
    BY <2>1, JobFacts
  <2> QED BY <1>0, <1>5, <2>1, <2>2 DEF Checked, ImportsOnce
<1>6. ASSUME NEW b \in Backfills, Prior(b) PROVE ImportsOnce'
  <2>1. /\ job'[b].pc \in {"idle", "import"} /\ \A o \in Backfills \ {b} : job'[o] = job[o]
        /\ job[b].pc = "prior" /\ (job'[b].pc = "import" => imported = Nothing)
    BY <1>0, <1>6, JobFacts DEF Prior, Jobs, BackfillType
  <2>2. job[b] # NoJob
    BY <2>1, JobFacts
  <2> QED BY <1>0, <1>6, <2>1, <2>2 DEF Prior, ImportsOnce
<1>7. ASSUME NEW b \in Backfills, Import(b) PROVE ImportsOnce'
  <2>1. /\ job[b].pc = "import" /\ job' = [job EXCEPT ![b] = NoJob] /\ imported' = job[b].snapshot
        /\ UNCHANGED <<newer, together>>
    BY <1>7 DEF Import
  <2>2. imported' # Nothing /\ job[b] # NoJob
    BY <1>0, <2>1, JobFacts, SnapshotAssumption DEF Jobs
  <2>3. ~together => newer = {} /\ \A o \in Backfills \ {b} : job[o] = NoJob
    BY <1>0, <2>1, <2>2 DEF ImportsOnce
  <2>4. ~together => \A o \in Backfills : job'[o] = NoJob
    BY <1>0, <2>1, <2>3 DEF BackfillType
  <2> QED BY <2>1, <2>2, <2>3, <2>4, JobFacts DEF ImportsOnce
<1>8. ASSUME NEW b \in Backfills, BackfillStops(b) PROVE ImportsOnce'
  <2>1. job'[b] = NoJob /\ \A o \in Backfills \ {b} : job'[o] = job[o]
    BY <1>0, <1>8 DEF BackfillStops, BackfillType
  <2> QED BY <1>0, <1>8, <2>1, JobFacts DEF BackfillStops, ImportsOnce
<1>9. CASE UNCHANGED backfillVars
  BY <1>0, <1>9 DEF backfillVars, ImportsOnce
<1> QED BY <1>1, <1>2, <1>3, <1>4, <1>5, <1>6, <1>7, <1>8, <1>9 DEF BackfillNext

(* Every row the backfill imports refers to a service that is there, alive *)
(* or as a tombstone, and nothing Studio wrote after an import is          *)
(* overwritten by a run that overlaps no other.                            *)
THEOREM ImportIsSound == BackfillSpec => []ImportSound
<1>1. BackfillInv /\ [BackfillNext]_backfillVars => BackfillInv'
  BY NextBackfillType, NextReferenced, NextImportsOnce DEF BackfillInv
<1>2. BackfillInv => ImportSound
  BY DEF BackfillInv, Referenced, ImportsOnce, ImportSound
<1> QED BY <1>1, <1>2, InitBackfill, PTL DEF BackfillSpec

-----------------------------------------------------------------------------
(* Notifications: a mail for each stored failure, and one.                 *)

SweepSteps == {"idle", "load", "list", "queue", "send", "mark", "sendall", "markall", "unlock"}
Sweeps ==
    {m \in [pc : SweepSteps, wait : BOOLEAN, items : SUBSET Failures, due : BOOLEAN, todo : SUBSET Failures,
            left : SUBSET Failures, to : Failures \cup {Nothing}] :
        m.pc = "mark" => m.to \in Failures}
Settings == [enabled : BOOLEAN, wait : BOOLEAN]
MailType ==
    /\ mailSettings \in Settings /\ patch \in Settings \cup {Nothing}
    /\ mailLock \in Replicas \cup {Nothing}
    /\ unreviewed \subseteq Failures /\ notified \subseteq Failures
    /\ batch \in [items : SUBSET Failures, due : BOOLEAN]
    /\ sweep \in [Replicas -> Sweeps] /\ mails \in [Failures -> Nat]
    /\ queued \subseteq Failures /\ lapsed \subseteq Failures
    /\ mailFaults \in Nat /\ lockLapsed \in BOOLEAN

(* Until the lock expires under it, a replica at work holds the lock.      *)
Held == ~lockLapsed => \A r \in Replicas : sweep[r] # NoSweep => mailLock = r

(* A sweep that has loaded the batch holds all of it, and what it has not  *)
(* yet mailed is still to be sent or was refused.                          *)
Covers(m, stored, count) ==
    /\ m.pc \in {"list", "queue", "send", "mark", "sendall", "markall"} => stored \subseteq m.items
    /\ m.pc \in {"send", "mark"} => \A f \in m.items : f \in m.todo \cup m.left \/ count[f] > 0
    /\ m.pc = "mark" => m.to \in m.todo /\ count[m.to] > 0
    /\ m.pc = "markall" => \A f \in m.items : count[f] > 0

(* Without faults a sweep never holds a failure that was mailed except to  *)
(* mark it, and every mailed failure is marked or about to be.             *)
ToMark(m) == IF m.pc = "mark" THEN {m.to} ELSE IF m.pc = "markall" THEN m.todo ELSE {}
Unsent(failures, count) == \A f \in failures : count[f] = 0
Single(m, stored, told, count) ==
    /\ \A f \in Failures : count[f] <= 1 /\ (count[f] > 0 => f \in told \cup ToMark(m))
    /\ m.pc \notin {"send", "mark", "markall"} => Unsent(stored, count)
    /\ m.pc \in {"list", "queue", "sendall"} => Unsent(m.items, count)
    /\ m.pc \in {"load", "list", "queue"} => m.left = {}
    /\ m.pc \in {"send", "mark"} => m.todo \cap m.left = {}
    /\ m.pc = "send" => Unsent(m.todo \cup m.left, count)
    /\ m.pc = "mark" => Unsent((m.todo \ {m.to}) \cup m.left, count)

Covered == ~lockLapsed => \A r \in Replicas : Covers(sweep[r], batch.items, mails)
Singly ==
    /\ lockLapsed => mailFaults # 0
    /\ mailFaults = 0 =>
          /\ \A r \in Replicas : sweep[r] # NoSweep => Single(sweep[r], batch.items, notified, mails)
          /\ (\A r \in Replicas : sweep[r] = NoSweep) => Single(NoSweep, batch.items, notified, mails)

MailInv == MailType /\ Held /\ Covered /\ QueuedIsMailed /\ Singly

(* What holds of an idle replica.                                          *)
LEMMA IdleSweep == NoSweep \in Sweeps /\ NoSweep.pc = "idle" /\ \A stored, count : Covers(NoSweep, stored, count)
<1>1. NoSweep \in Sweeps /\ NoSweep.pc = "idle"
  BY DEF NoSweep, Sweeps, SweepSteps
<1> QED BY <1>1 DEF Covers

(* Nothing has failed and nothing was mailed.                              *)
LEMMA InitMail == MailInit => MailInv
<1> SUFFICES ASSUME MailInit PROVE MailInv
  OBVIOUS
<1>1. MailType
  BY IdleSweep DEF MailInit, MailType, NoBatch, Settings
<1>2. Held /\ Covered /\ QueuedIsMailed
  BY IdleSweep DEF MailInit, Held, Covered, QueuedIsMailed
<1>3. Single(NoSweep, batch.items, notified, mails)
  BY IdleSweep DEF MailInit, Single, Unsent, NoBatch
<1>4. Singly
  BY <1>3 DEF MailInit, Singly
<1> QED BY <1>1, <1>2, <1>4 DEF MailInv

(* A replica at work takes a step: until the lock expires the others are   *)
(* idle, so what it must keep is what concerns itself.                     *)
LEMMA SweepKeeps ==
    ASSUME MailInv, MailType', NEW r \in Replicas, sweep[r] # NoSweep, NEW m, m # NoSweep,
           sweep' = [sweep EXCEPT ![r] = m], UNCHANGED <<mailLock, lockLapsed>>,
           mailFaults' = 0 => mailFaults = 0,
           ~lockLapsed => Covers(m, batch'.items, mails'),
           ~lockLapsed => \A f \in queued' : f \in batch'.items \cup lapsed' \/ mails'[f] > 0,
           mailFaults' = 0 => Single(m, batch'.items, notified', mails')
    PROVE  MailInv'
<1>1. sweep \in [Replicas -> Sweeps] /\ Held /\ Singly
  BY DEF MailInv, MailType
<1>2. sweep'[r] = m /\ \A q \in Replicas \ {r} : sweep'[q] = sweep[q]
  BY <1>1
<1>3. ~lockLapsed => \A q \in Replicas \ {r} : sweep[q] = NoSweep
  BY <1>1 DEF Held
<1>4. Held'
  BY <1>1, <1>2, <1>3 DEF Held
<1>5. Covered'
  BY <1>2, <1>3, IdleSweep DEF Covered
<1>6. QueuedIsMailed'
  BY DEF QueuedIsMailed
<1>7. Singly'
  BY <1>1, <1>2, <1>3 DEF Singly
<1> QED BY <1>4, <1>5, <1>6, <1>7 DEF MailInv

(* What the step of a sweep may use of the state before it.                *)
LEMMA SweepFacts ==
    ASSUME MailInv, NEW r \in Replicas, sweep[r] # NoSweep
    PROVE  /\ sweep[r] \in Sweeps
           /\ ~lockLapsed => Covers(sweep[r], batch.items, mails)
           /\ ~lockLapsed => \A f \in queued : f \in batch.items \cup lapsed \/ mails[f] > 0
           /\ mailFaults = 0 => Single(sweep[r], batch.items, notified, mails) /\ ~lockLapsed
           /\ mails \in [Failures -> Nat] /\ batch.items \subseteq Failures /\ mailFaults \in Nat
BY DEF MailInv, MailType, Covered, Singly, QueuedIsMailed

(* Steps that concern neither a sweep nor what it knows.                   *)
LEMMA OthersKeep ==
    ASSUME MailInv, MailType', batch'.items = batch.items,
           UNCHANGED <<mailLock, sweep, notified, mails, queued, lapsed, mailFaults, lockLapsed>>
    PROVE  MailInv'
BY DEF MailInv, Held, Covered, QueuedIsMailed, Singly

(* What sending does to the counts.                                        *)
LEMMA SentFacts ==
    ASSUME MailType, NEW items \in SUBSET Failures, NEW ok \in BOOLEAN, Sent(items, ok)
    PROVE  /\ mails' \in [Failures -> Nat] /\ mailFaults' \in Nat
           /\ mailFaults' = 0 => mailFaults = 0
           /\ \A f \in Failures : mails[f] > 0 => mails'[f] > 0
           /\ ok => \A f \in items : mails'[f] = mails[f] + 1
           /\ ok => \A f \in Failures \ items : mails'[f] = mails[f]
           /\ ~ok /\ mailFaults' = 0 => mails' = mails
<1>1. mails \in [Failures -> Nat] /\ mailFaults \in Nat
  BY DEF MailType
<1> DEFINE more == [f \in Failures |-> mails[f] + IF f \in items THEN 1 ELSE 0]
<1>2. /\ more \in [Failures -> Nat]
      /\ \A f \in items : more[f] = mails[f] + 1
      /\ \A f \in Failures \ items : more[f] = mails[f]
      /\ \A f \in Failures : mails[f] > 0 => more[f] > 0
  BY <1>1
<1> HIDE DEF more
<1>3. CASE ok /\ mails' = more /\ UNCHANGED mailFaults
  BY <1>1, <1>2, <1>3
<1>4. CASE ~ok /\ UNCHANGED <<mails, mailFaults>>
  BY <1>1, <1>4
<1>5. CASE ~ok /\ mails' = more /\ MailFault
  <2>1. mailFaults' = mailFaults + 1
    BY <1>5 DEF MailFault
  <2>2. mailFaults + 1 \in Nat /\ mailFaults + 1 # 0
    BY <1>1
  <2> QED BY <1>2, <1>5, <2>1, <2>2
<1> QED BY <1>3, <1>4, <1>5 DEF Sent, more

(* The steps of the loading, listing and queueing.                         *)
LEMMA GatherKeeps ==
    ASSUME MailInv, NEW r \in Replicas,
           LoadPending(r) \/ ListFailed(r) \/ \E f \in Failures : QueueItem(r, f)
    PROVE  MailInv'
<1> DEFINE me == sweep[r]
<1>0. sweep[r] # NoSweep /\ MailType
  BY IdleSweep DEF LoadPending, ListFailed, QueueItem, MailInv
<1>1. /\ me \in Sweeps
      /\ ~lockLapsed => Covers(me, batch.items, mails)
      /\ ~lockLapsed => \A f \in queued : f \in batch.items \cup lapsed \/ mails[f] > 0
      /\ mailFaults = 0 => Single(me, batch.items, notified, mails) /\ ~lockLapsed
  BY <1>0, SweepFacts
<1>2. UNCHANGED <<mailSettings, mailLock, unreviewed, notified, batch, patch, mails, queued, lapsed, mailFaults,
                  lockLapsed>>
  BY DEF LoadPending, ListFailed, QueueItem
<1>3. ASSUME NEW m \in Sweeps, m.pc # "idle", sweep' = [sweep EXCEPT ![r] = m],
             ~lockLapsed => Covers(m, batch.items, mails),
             mailFaults = 0 => Single(m, batch.items, notified, mails)
      PROVE  MailInv'
  <2>1. MailType'
    BY <1>0, <1>2, <1>3 DEF MailType
  <2>2. m # NoSweep
    BY <1>3, IdleSweep
  <2> QED BY <1>0, <1>1, <1>2, <1>3, <2>1, <2>2, SweepKeeps
<1>4. CASE LoadPending(r)
  <2> DEFINE m == [me EXCEPT !.pc = "list", !.items = batch.items, !.due = batch.due]
  <2>1. sweep' = [sweep EXCEPT ![r] = m] /\ me.pc = "load"
    BY <1>4 DEF LoadPending, MailTo
  <2>2. m \in Sweeps /\ m.pc = "list" /\ m.items = batch.items /\ m.left = me.left
    BY <1>0, <1>1 DEF Sweeps, SweepSteps, MailType
  <2> HIDE DEF m
  <2>3. Covers(m, batch.items, mails)
    BY <2>2 DEF Covers
  <2>4. mailFaults = 0 => Single(m, batch.items, notified, mails)
    BY <1>1, <2>1, <2>2 DEF Single, ToMark
  <2> QED BY <1>3, <2>1, <2>2, <2>3, <2>4
<1>5. CASE ListFailed(r)
  <2>1. me.pc = "list"
    BY <1>5 DEF ListFailed
  <2>2. CASE sweep' = [sweep EXCEPT ![r] = [me EXCEPT !.pc = "queue", !.todo = unreviewed]]
    <3> DEFINE m == [me EXCEPT !.pc = "queue", !.todo = unreviewed]
    <3>1. m \in Sweeps /\ m.pc = "queue" /\ m.items = me.items /\ m.left = me.left
      BY <1>0, <1>1 DEF Sweeps, SweepSteps, MailType
    <3> HIDE DEF m
    <3>2. ~lockLapsed => Covers(m, batch.items, mails)
      BY <1>1, <2>1, <3>1 DEF Covers
    <3>3. mailFaults = 0 => Single(m, batch.items, notified, mails)
      BY <1>1, <2>1, <3>1 DEF Single, ToMark
    <3> QED BY <1>3, <2>2, <3>1, <3>2, <3>3 DEF m
  <2>3. CASE sweep' = [sweep EXCEPT ![r] = [me EXCEPT !.pc = "unlock"]]
    <3> DEFINE m == [me EXCEPT !.pc = "unlock"]
    <3>1. m \in Sweeps /\ m.pc = "unlock" /\ m.items = me.items
      BY <1>0, <1>1 DEF Sweeps, SweepSteps, MailType
    <3> HIDE DEF m
    <3>2. Covers(m, batch.items, mails)
      BY <3>1 DEF Covers
    <3>3. mailFaults = 0 => Single(m, batch.items, notified, mails)
      BY <1>1, <2>1, <3>1 DEF Single, ToMark
    <3> QED BY <1>3, <2>3, <3>1, <3>2, <3>3 DEF m
  <2> QED BY <1>5, <2>2, <2>3 DEF ListFailed, MailTo
<1>6. ASSUME NEW f \in Failures, QueueItem(r, f) PROVE MailInv'
  <2> DEFINE m == [me EXCEPT !.todo = @ \ {f}, !.items = IF f \in notified THEN @ ELSE @ \cup {f}]
  <2>1. sweep' = [sweep EXCEPT ![r] = m] /\ me.pc = "queue" /\ f \in me.todo
    BY <1>6 DEF QueueItem, MailTo
  <2>2. /\ m \in Sweeps /\ m.pc = "queue" /\ m.items = IF f \in notified THEN me.items ELSE me.items \cup {f}
        /\ m.left = me.left
    BY <1>1, <2>1 DEF Sweeps, SweepSteps
  <2> HIDE DEF m
  <2>3. ~lockLapsed => Covers(m, batch.items, mails)
    BY <1>1, <2>1, <2>2 DEF Covers
  <2>4. ASSUME mailFaults = 0 PROVE Single(m, batch.items, notified, mails)
    <3>1. f \notin notified => mails[f] = 0
      BY <1>0, <1>1, <2>1, <2>4 DEF Single, ToMark, MailType
    <3> QED BY <1>1, <2>1, <2>2, <2>4, <3>1 DEF Single, ToMark, Unsent
  <2> QED BY <1>3, <2>1, <2>2, <2>3, <2>4
<1> QED BY <1>4, <1>5, <1>6

(* Storing a batch, and forgetting it.                                     *)
LEMMA StoredFacts ==
    ASSUME MailType, NEW items \in SUBSET Failures
    PROVE  /\ \A due \in BOOLEAN : SavePending(items, due) =>
                 /\ batch' \in [items : SUBSET Failures, due : BOOLEAN] /\ batch'.items = items
                 /\ queued' = queued \cup items /\ queued' \subseteq Failures
           /\ ClearPending => /\ batch' \in [items : SUBSET Failures, due : BOOLEAN] /\ batch'.items = {}
                              /\ queued' = queued
<1>1. queued \subseteq Failures
  BY DEF MailType
<1>2. ASSUME NEW due \in BOOLEAN, SavePending(items, due)
      PROVE  /\ batch' \in [items : SUBSET Failures, due : BOOLEAN] /\ batch'.items = items
             /\ queued' = queued \cup items /\ queued' \subseteq Failures
  BY <1>1, <1>2 DEF SavePending
<1>3. ASSUME ClearPending
      PROVE  batch' \in [items : SUBSET Failures, due : BOOLEAN] /\ batch'.items = {} /\ queued' = queued
  BY <1>3 DEF ClearPending, NoBatch
<1> QED BY <1>2, <1>3

(* What is done with the items gathered.                                   *)
LEMMA DecideKeeps ==
    ASSUME MailInv, NEW r \in Replicas, Decide(r)
    PROVE  MailInv'
<1> DEFINE me == sweep[r]
<1>0. sweep[r] # NoSweep /\ MailType
  BY IdleSweep DEF Decide, MailInv
<1>1. /\ me \in Sweeps
      /\ ~lockLapsed => Covers(me, batch.items, mails)
      /\ ~lockLapsed => \A f \in queued : f \in batch.items \cup lapsed \/ mails[f] > 0
      /\ mailFaults = 0 => Single(me, batch.items, notified, mails) /\ ~lockLapsed
      /\ mails \in [Failures -> Nat] /\ batch.items \subseteq Failures /\ mailFaults \in Nat
  BY <1>0, SweepFacts
<1>2. /\ UNCHANGED <<mailSettings, mailLock, unreviewed, notified, patch, mails, lapsed, mailFaults, lockLapsed>>
      /\ me.pc = "queue" /\ me.todo = {} /\ me.items \subseteq Failures /\ me.due \in BOOLEAN
  BY <1>1 DEF Decide, Sweeps
<1>3. ASSUME NEW m \in Sweeps, m.pc # "idle", sweep' = [sweep EXCEPT ![r] = m],
             batch' \in [items : SUBSET Failures, due : BOOLEAN], queued' \subseteq Failures,
             ~lockLapsed => Covers(m, batch'.items, mails),
             ~lockLapsed => \A f \in queued' : f \in batch'.items \cup lapsed \/ mails[f] > 0,
             mailFaults = 0 => Single(m, batch'.items, notified, mails)
      PROVE  MailInv'
  <2>1. MailType'
    BY <1>0, <1>2, <1>3 DEF MailType
  <2>2. m # NoSweep
    BY <1>3, IdleSweep
  <2> QED BY <1>0, <1>1, <1>2, <1>3, <2>1, <2>2, SweepKeeps
<1>4. CASE me.items = {} /\ ClearPending /\ MailTo(r, [me EXCEPT !.pc = "unlock"])
  <2> DEFINE m == [me EXCEPT !.pc = "unlock"]
  <2>1. m \in Sweeps /\ m.pc = "unlock"
    BY <1>1 DEF Sweeps, SweepSteps
  <2>2. sweep' = [sweep EXCEPT ![r] = m]
    BY <1>4 DEF MailTo
  <2> HIDE DEF m
  <2>3. batch' \in [items : SUBSET Failures, due : BOOLEAN] /\ batch'.items = {} /\ queued' = queued
    BY <1>0, <1>2, <1>4, StoredFacts
  <2>4. ~lockLapsed => batch.items = {}
    BY <1>1, <1>2, <1>4 DEF Covers
  <2>5. ~lockLapsed => Covers(m, batch'.items, mails)
    BY <2>1 DEF Covers
  <2>6. mailFaults = 0 => Single(m, batch'.items, notified, mails)
    BY <1>1, <1>2, <2>1, <2>3 DEF Single, ToMark, Unsent
  <2> QED BY <1>0, <1>1, <1>3, <2>1, <2>2, <2>3, <2>4, <2>5, <2>6 DEF MailType
<1>5. CASE ~me.wait /\ MailTo(r, [me EXCEPT !.pc = "send", !.todo = me.items]) /\ UNCHANGED <<batch, queued>>
  <2> DEFINE m == [me EXCEPT !.pc = "send", !.todo = me.items]
  <2>1. m \in Sweeps /\ m.pc = "send" /\ m.todo = me.items /\ m.items = me.items /\ m.left = me.left
    BY <1>1 DEF Sweeps, SweepSteps
  <2>2. sweep' = [sweep EXCEPT ![r] = m]
    BY <1>5 DEF MailTo
  <2> HIDE DEF m
  <2>3. ~lockLapsed => Covers(m, batch.items, mails)
    BY <1>1, <1>2, <2>1 DEF Covers
  <2>4. mailFaults = 0 => Single(m, batch.items, notified, mails)
    BY <1>1, <1>2, <2>1 DEF Single, ToMark, Unsent
  <2> QED BY <1>0, <1>1, <1>3, <1>5, <2>1, <2>2, <2>3, <2>4 DEF MailType
<1>6. CASE SavePending(me.items, me.due) /\ MailTo(r, [me EXCEPT !.pc = "unlock"])
  <2> DEFINE m == [me EXCEPT !.pc = "unlock"]
  <2>1. m \in Sweeps /\ m.pc = "unlock"
    BY <1>1 DEF Sweeps, SweepSteps
  <2>2. sweep' = [sweep EXCEPT ![r] = m]
    BY <1>6 DEF MailTo
  <2> HIDE DEF m
  <2>3. /\ batch' \in [items : SUBSET Failures, due : BOOLEAN] /\ batch'.items = me.items
        /\ queued' = queued \cup me.items /\ queued' \subseteq Failures
    BY <1>0, <1>2, <1>6, StoredFacts
  <2>4. ~lockLapsed => batch.items \subseteq me.items
    BY <1>1, <1>2 DEF Covers
  <2>5. ~lockLapsed => Covers(m, batch'.items, mails)
    BY <2>1 DEF Covers
  <2>6. mailFaults = 0 => Single(m, batch'.items, notified, mails)
    BY <1>1, <1>2, <2>1, <2>3 DEF Single, ToMark, Unsent
  <2> QED BY <1>1, <1>3, <2>1, <2>2, <2>3, <2>4, <2>5, <2>6
<1>7. CASE MailTo(r, [me EXCEPT !.pc = "sendall"]) /\ UNCHANGED <<batch, queued>>
  <2> DEFINE m == [me EXCEPT !.pc = "sendall"]
  <2>1. m \in Sweeps /\ m.pc = "sendall" /\ m.items = me.items
    BY <1>1 DEF Sweeps, SweepSteps
  <2>2. sweep' = [sweep EXCEPT ![r] = m]
    BY <1>7 DEF MailTo
  <2> HIDE DEF m
  <2>3. ~lockLapsed => Covers(m, batch.items, mails)
    BY <1>1, <1>2, <2>1 DEF Covers
  <2>4. mailFaults = 0 => Single(m, batch.items, notified, mails)
    BY <1>1, <1>2, <2>1 DEF Single, ToMark
  <2> QED BY <1>0, <1>1, <1>3, <1>7, <2>1, <2>2, <2>3, <2>4 DEF MailType
<1> QED BY <1>4, <1>5, <1>6, <1>7 DEF Decide

(* A mail for one failure, sent or refused.                                *)
LEMMA SendOneKeeps ==
    ASSUME MailInv, NEW r \in Replicas, NEW f \in Failures, NEW ok \in BOOLEAN, SendOne(r, f, ok)
    PROVE  MailInv'
<1> DEFINE me == sweep[r]
<1>0. sweep[r] # NoSweep /\ MailType
  BY IdleSweep DEF SendOne, MailInv
<1>1. /\ me \in Sweeps
      /\ ~lockLapsed => Covers(me, batch.items, mails)
      /\ ~lockLapsed => \A g \in queued : g \in batch.items \cup lapsed \/ mails[g] > 0
      /\ mailFaults = 0 => Single(me, batch.items, notified, mails) /\ ~lockLapsed
      /\ mails \in [Failures -> Nat] /\ batch.items \subseteq Failures /\ mailFaults \in Nat
  BY <1>0, SweepFacts
<1>2. /\ UNCHANGED <<mailSettings, mailLock, unreviewed, notified, batch, patch, queued, lapsed, lockLapsed>>
      /\ me.pc = "send" /\ f \in me.todo /\ Sent({f}, ok) /\ {f} \in SUBSET Failures
  BY DEF SendOne
<1>3. /\ mails' \in [Failures -> Nat] /\ mailFaults' \in Nat
      /\ mailFaults' = 0 => mailFaults = 0
      /\ \A g \in Failures : mails[g] > 0 => mails'[g] > 0
      /\ ok => mails'[f] = mails[f] + 1
      /\ ok => \A g \in Failures \ {f} : mails'[g] = mails[g]
      /\ ~ok /\ mailFaults' = 0 => mails' = mails
  BY <1>0, <1>2, SentFacts
<1>4. ASSUME NEW m \in Sweeps, m.pc # "idle", sweep' = [sweep EXCEPT ![r] = m],
             ~lockLapsed => Covers(m, batch.items, mails'),
             mailFaults' = 0 => Single(m, batch.items, notified, mails')
      PROVE  MailInv'
  <2>1. MailType'
    BY <1>0, <1>2, <1>3, <1>4 DEF MailType
  <2>2. m # NoSweep
    BY <1>4, IdleSweep
  <2>3. ~lockLapsed => \A g \in queued' : g \in batch'.items \cup lapsed' \/ mails'[g] > 0
    BY <1>0, <1>1, <1>2, <1>3 DEF MailType
  <2> QED BY <1>0, <1>1, <1>2, <1>3, <1>4, <2>1, <2>2, <2>3, SweepKeeps
<1>5. /\ me.items \subseteq Failures /\ me.todo \subseteq Failures /\ me.left \subseteq Failures
      /\ mails[f] \in Nat /\ (ok => mails'[f] > 0)
  BY <1>1, <1>3 DEF Sweeps
<1>6. CASE ok
  <2> DEFINE m == [me EXCEPT !.pc = "mark", !.to = f]
  <2>1. /\ m \in Sweeps /\ m.pc = "mark" /\ m.to = f /\ m.items = me.items /\ m.todo = me.todo
        /\ m.left = me.left
    BY <1>1 DEF Sweeps, SweepSteps
  <2>2. sweep' = [sweep EXCEPT ![r] = m]
    BY <1>6 DEF SendOne, MailTo
  <2> HIDE DEF m
  <2>3. ~lockLapsed => Covers(m, batch.items, mails')
    BY <1>1, <1>2, <1>3, <1>5, <1>6, <2>1 DEF Covers
  <2>4. ASSUME mailFaults' = 0 PROVE Single(m, batch.items, notified, mails')
    <3>1. Single(me, batch.items, notified, mails)
      BY <1>1, <1>3, <2>4
    <3>2. mails[f] = 0 /\ mails'[f] = 1 /\ \A g \in Failures \ {f} : mails'[g] = mails[g]
      BY <1>2, <1>3, <1>6, <3>1 DEF Single, Unsent
    <3>3. f \notin me.left
      BY <1>2, <2>4, <3>1 DEF Single, Unsent
    <3> QED BY <1>2, <1>5, <2>1, <3>1, <3>2, <3>3 DEF Single, ToMark, Unsent
  <2> QED BY <1>4, <2>1, <2>2, <2>3, <2>4
<1>7. CASE ~ok
  <2> DEFINE m == [me EXCEPT !.todo = @ \ {f}, !.left = @ \cup {f}]
  <2>1. /\ m \in Sweeps /\ m.pc = "send" /\ m.items = me.items /\ m.todo = me.todo \ {f}
        /\ m.left = me.left \cup {f}
    BY <1>1, <1>2 DEF Sweeps, SweepSteps
  <2>2. sweep' = [sweep EXCEPT ![r] = m]
    BY <1>7 DEF SendOne, MailTo
  <2> HIDE DEF m
  <2>3. ~lockLapsed => Covers(m, batch.items, mails')
    BY <1>1, <1>2, <1>3, <1>5, <2>1 DEF Covers
  <2>4. ASSUME mailFaults' = 0 PROVE Single(m, batch.items, notified, mails')
    <3>1. Single(me, batch.items, notified, mails) /\ mails' = mails
      BY <1>1, <1>3, <1>7, <2>4
    <3> QED BY <1>2, <2>1, <3>1 DEF Single, ToMark, Unsent
  <2> QED BY <1>4, <2>1, <2>2, <2>3, <2>4
<1> QED BY <1>6, <1>7

(* One mail for the whole batch, sent or refused.                          *)
LEMMA SendBatchKeeps ==
    ASSUME MailInv, NEW r \in Replicas, NEW ok \in BOOLEAN, SendBatch(r, ok)
    PROVE  MailInv'
<1> DEFINE me == sweep[r]
<1>0. sweep[r] # NoSweep /\ MailType
  BY IdleSweep DEF SendBatch, MailInv
<1>1. /\ me \in Sweeps
      /\ ~lockLapsed => Covers(me, batch.items, mails)
      /\ ~lockLapsed => \A f \in queued : f \in batch.items \cup lapsed \/ mails[f] > 0
      /\ mailFaults = 0 => Single(me, batch.items, notified, mails) /\ ~lockLapsed
      /\ mails \in [Failures -> Nat] /\ batch.items \subseteq Failures /\ mailFaults \in Nat
  BY <1>0, SweepFacts
<1>2. /\ UNCHANGED <<mailSettings, mailLock, unreviewed, notified, patch, lapsed, lockLapsed>>
      /\ me.pc = "sendall" /\ Sent(me.items, ok) /\ me.items \in SUBSET Failures
  BY <1>1 DEF SendBatch, Sweeps
<1>3. /\ mails' \in [Failures -> Nat] /\ mailFaults' \in Nat
      /\ mailFaults' = 0 => mailFaults = 0
      /\ \A g \in Failures : mails[g] > 0 => mails'[g] > 0
      /\ ok => \A g \in me.items : mails'[g] = mails[g] + 1
      /\ ok => \A g \in Failures \ me.items : mails'[g] = mails[g]
      /\ ~ok /\ mailFaults' = 0 => mails' = mails
  BY <1>0, <1>2, SentFacts
<1>4. ASSUME NEW m \in Sweeps, m.pc # "idle", sweep' = [sweep EXCEPT ![r] = m],
             batch' \in [items : SUBSET Failures, due : BOOLEAN], queued' \subseteq Failures,
             ~lockLapsed => Covers(m, batch'.items, mails'),
             ~lockLapsed => \A g \in queued' : g \in batch'.items \cup lapsed \/ mails'[g] > 0,
             mailFaults' = 0 => Single(m, batch'.items, notified, mails')
      PROVE  MailInv'
  <2>1. MailType'
    BY <1>0, <1>2, <1>3, <1>4 DEF MailType
  <2>2. m # NoSweep
    BY <1>4, IdleSweep
  <2> QED BY <1>0, <1>1, <1>2, <1>3, <1>4, <2>1, <2>2, SweepKeeps
<1>5. CASE ok
  <2> DEFINE m == [me EXCEPT !.pc = "markall", !.todo = me.items]
  <2>1. m \in Sweeps /\ m.pc = "markall" /\ m.items = me.items /\ m.todo = me.items
    BY <1>1 DEF Sweeps, SweepSteps
  <2>2. sweep' = [sweep EXCEPT ![r] = m] /\ UNCHANGED <<batch, queued>>
    BY <1>5 DEF SendBatch, MailTo
  <2> HIDE DEF m
  <2>3. \A g \in me.items : mails[g] \in Nat /\ mails'[g] > 0
    BY <1>1, <1>2, <1>3, <1>5
  <2>4. ~lockLapsed => Covers(m, batch.items, mails')
    BY <1>1, <1>2, <2>1, <2>3 DEF Covers
  <2>5. ASSUME mailFaults' = 0 PROVE Single(m, batch.items, notified, mails')
    <3>1. Single(me, batch.items, notified, mails)
      BY <1>1, <1>3, <2>5
    <3>2. \A g \in me.items : mails'[g] = 1
      BY <1>2, <1>3, <1>5, <3>1 DEF Single, Unsent
    <3> QED BY <1>2, <1>3, <1>5, <2>1, <3>1, <3>2 DEF Single, ToMark
  <2>6. ~lockLapsed => \A g \in queued : g \in batch.items \cup lapsed \/ mails'[g] > 0
    BY <1>0, <1>1, <1>3 DEF MailType
  <2> QED BY <1>0, <1>4, <2>1, <2>2, <2>4, <2>5, <2>6 DEF MailType
<1>6. CASE ~ok
  <2> DEFINE m == [me EXCEPT !.pc = "unlock"]
  <2>1. m \in Sweeps /\ m.pc = "unlock"
    BY <1>1 DEF Sweeps, SweepSteps
  <2>2. sweep' = [sweep EXCEPT ![r] = m] /\ SavePending(me.items, FALSE)
    BY <1>6 DEF SendBatch, MailTo
  <2> HIDE DEF m
  <2>3. /\ batch' \in [items : SUBSET Failures, due : BOOLEAN] /\ batch'.items = me.items
        /\ queued' = queued \cup me.items /\ queued' \subseteq Failures
    BY <1>0, <1>2, <2>2, StoredFacts
  <2>4. Covers(m, batch'.items, mails')
    BY <2>1 DEF Covers
  <2>5. ~lockLapsed => \A g \in queued' : g \in batch'.items \cup lapsed \/ mails'[g] > 0
    BY <1>0, <1>1, <1>2, <1>3, <2>3 DEF MailType, Covers
  <2>6. mailFaults' = 0 => Single(m, batch'.items, notified, mails')
    BY <1>1, <1>2, <1>3, <1>6, <2>1, <2>3 DEF Single, ToMark
  <2> QED BY <1>4, <2>1, <2>2, <2>3, <2>4, <2>5, <2>6
<1> QED BY <1>5, <1>6

(* Marking what was mailed, and storing what was refused.                  *)
LEMMA MarkKeeps ==
    ASSUME MailInv, NEW r \in Replicas, MarkOne(r) \/ KeepRemaining(r) \/ MarkAll(r)
    PROVE  MailInv'
<1> DEFINE me == sweep[r]
<1>0. sweep[r] # NoSweep /\ MailType
  BY IdleSweep DEF MarkOne, KeepRemaining, MarkAll, MailInv
<1>1. /\ me \in Sweeps
      /\ ~lockLapsed => Covers(me, batch.items, mails)
      /\ ~lockLapsed => \A f \in queued : f \in batch.items \cup lapsed \/ mails[f] > 0
      /\ mailFaults = 0 => Single(me, batch.items, notified, mails) /\ ~lockLapsed
      /\ mails \in [Failures -> Nat] /\ batch.items \subseteq Failures /\ mailFaults \in Nat
  BY <1>0, SweepFacts
<1>2. /\ UNCHANGED <<mailSettings, mailLock, unreviewed, patch, mails, lapsed, mailFaults, lockLapsed>>
      /\ me.items \subseteq Failures /\ me.todo \subseteq Failures /\ me.left \subseteq Failures
  BY <1>1 DEF MarkOne, KeepRemaining, MarkAll, Sweeps
<1>3. ASSUME NEW m \in Sweeps, m.pc # "idle", sweep' = [sweep EXCEPT ![r] = m],
             batch' \in [items : SUBSET Failures, due : BOOLEAN], queued' \subseteq Failures,
             notified' \subseteq Failures,
             ~lockLapsed => Covers(m, batch'.items, mails),
             ~lockLapsed => \A g \in queued' : g \in batch'.items \cup lapsed \/ mails[g] > 0,
             mailFaults = 0 => Single(m, batch'.items, notified', mails)
      PROVE  MailInv'
  <2>1. MailType'
    BY <1>0, <1>2, <1>3 DEF MailType
  <2>2. m # NoSweep
    BY <1>3, IdleSweep
  <2> QED BY <1>0, <1>1, <1>2, <1>3, <2>1, <2>2, SweepKeeps
<1>4. CASE MarkOne(r)
  <2> DEFINE m == [me EXCEPT !.pc = "send", !.to = Nothing, !.todo = @ \ {me.to}]
  <2>1. /\ sweep' = [sweep EXCEPT ![r] = m] /\ me.pc = "mark" /\ notified' = notified \cup {me.to}
        /\ UNCHANGED <<batch, queued>>
    BY <1>4 DEF MarkOne, MailTo
  <2>2. m \in Sweeps /\ m.pc = "send" /\ m.items = me.items /\ m.todo = me.todo \ {me.to} /\ m.left = me.left
    BY <1>1 DEF Sweeps, SweepSteps
  <2> HIDE DEF m
  <2>3. ~lockLapsed => Covers(m, batch.items, mails)
    BY <1>1, <2>1, <2>2 DEF Covers
  <2>4. mailFaults = 0 => Single(m, batch.items, notified', mails)
    BY <1>1, <2>1, <2>2 DEF Single, ToMark
  <2>5. me.to \in Failures
    BY <1>1, <2>1 DEF Sweeps, Covers
  <2> QED BY <1>0, <1>1, <1>3, <2>1, <2>2, <2>3, <2>4, <2>5 DEF MailType
<1>5. CASE KeepRemaining(r)
  <2> DEFINE m == [me EXCEPT !.pc = "unlock"]
  <2>1. /\ sweep' = [sweep EXCEPT ![r] = m] /\ me.pc = "send" /\ me.todo = {} /\ notified' = notified
        /\ IF me.left # {} THEN SavePending(me.left, FALSE) ELSE ClearPending
    BY <1>5 DEF KeepRemaining, MailTo
  <2>2. m \in Sweeps /\ m.pc = "unlock"
    BY <1>1 DEF Sweeps, SweepSteps
  <2> HIDE DEF m
  <2>3. /\ batch' \in [items : SUBSET Failures, due : BOOLEAN] /\ batch'.items = me.left
        /\ queued' = queued \cup me.left /\ queued' \subseteq Failures
    <3>1. CASE me.left # {}
      BY <1>0, <1>2, <2>1, <3>1, StoredFacts
    <3>2. CASE me.left = {}
      <4>1. batch' \in [items : SUBSET Failures, due : BOOLEAN] /\ batch'.items = {} /\ queued' = queued
        BY <1>0, <1>2, <2>1, <3>2, StoredFacts
      <4> QED BY <1>0, <3>2, <4>1 DEF MailType
    <3> QED BY <3>1, <3>2
  <2>4. Covers(m, batch'.items, mails)
    BY <2>2 DEF Covers
  <2>5. ~lockLapsed => \A g \in queued' : g \in batch'.items \cup lapsed \/ mails[g] > 0
    BY <1>1, <2>1, <2>3 DEF Covers
  <2>6. mailFaults = 0 => Single(m, batch'.items, notified, mails)
    BY <1>1, <2>1, <2>2, <2>3 DEF Single, ToMark, Unsent
  <2> QED BY <1>0, <1>3, <2>1, <2>2, <2>3, <2>4, <2>5, <2>6 DEF MailType
<1>6. CASE MarkAll(r) /\ me.todo = {}
  <2> DEFINE m == [me EXCEPT !.pc = "unlock"]
  <2>1. /\ sweep' = [sweep EXCEPT ![r] = m] /\ me.pc = "markall" /\ notified' = notified /\ ClearPending
    BY <1>6 DEF MarkAll, MailTo
  <2>2. m \in Sweeps /\ m.pc = "unlock"
    BY <1>1 DEF Sweeps, SweepSteps
  <2> HIDE DEF m
  <2>3. batch' \in [items : SUBSET Failures, due : BOOLEAN] /\ batch'.items = {} /\ queued' = queued
    BY <1>0, <1>2, <2>1, StoredFacts
  <2>4. Covers(m, batch'.items, mails)
    BY <2>2 DEF Covers
  <2>5. ~lockLapsed => \A g \in queued' : g \in batch'.items \cup lapsed \/ mails[g] > 0
    BY <1>1, <2>1, <2>3 DEF Covers
  <2>6. mailFaults = 0 => Single(m, batch'.items, notified, mails)
    BY <1>1, <1>6, <2>1, <2>2, <2>3 DEF Single, ToMark, Unsent
  <2> QED BY <1>0, <1>3, <2>1, <2>2, <2>3, <2>4, <2>5, <2>6 DEF MailType
<1>7. CASE MarkAll(r) /\ me.todo # {}
  <2>1. PICK f \in me.todo : /\ notified' = notified \cup {f}
                             /\ sweep' = [sweep EXCEPT ![r] = [me EXCEPT !.todo = @ \ {f}]]
                             /\ UNCHANGED <<batch, queued>> /\ me.pc = "markall"
    BY <1>7 DEF MarkAll, MailTo
  <2> DEFINE m == [me EXCEPT !.todo = @ \ {f}]
  <2>2. m \in Sweeps /\ m.pc = "markall" /\ m.items = me.items /\ m.todo = me.todo \ {f}
    BY <1>1, <2>1 DEF Sweeps, SweepSteps
  <2>3. sweep' = [sweep EXCEPT ![r] = m]
    BY <2>1
  <2> HIDE DEF m
  <2>4. ~lockLapsed => Covers(m, batch.items, mails)
    BY <1>1, <2>1, <2>2 DEF Covers
  <2>5. mailFaults = 0 => Single(m, batch.items, notified', mails)
    BY <1>1, <2>1, <2>2 DEF Single, ToMark
  <2>6. f \in Failures
    BY <1>2, <2>1
  <2> QED BY <1>0, <1>1, <1>3, <2>1, <2>2, <2>3, <2>4, <2>5, <2>6 DEF MailType
<1> QED BY <1>4, <1>5, <1>6, <1>7

(* A fault was counted.                                                    *)
LEMMA MailFaultCounted ==
    ASSUME MailType, MailFault
    PROVE  mailFaults' \in Nat /\ mailFaults' # 0
<1>1. mailFaults \in Nat /\ mailFaults' = mailFaults + 1
  BY DEF MailType, MailFault
<1>2. mailFaults + 1 \in Nat /\ mailFaults + 1 # 0
  BY <1>1
<1> QED BY <1>1, <1>2

(* The lock is taken, given back, and lost.                                *)
LEMMA LockKeeps ==
    ASSUME MailInv,
           \/ \E r \in Replicas : TryLock(r) \/ Unlock(r) \/ ReplicaStops(r)
           \/ LockExpires \/ DedupeExpires
    PROVE  MailInv'
<1>0. /\ MailType /\ Held /\ Covered /\ QueuedIsMailed /\ Singly
      /\ sweep \in [Replicas -> Sweeps] /\ mailLock \in Replicas \cup {Nothing}
      /\ \A r \in Replicas : r # Nothing
  BY NotificationsAssumption DEF MailInv, MailType
<1>1. ASSUME NEW r \in Replicas, TryLock(r) PROVE MailInv'
  <2> DEFINE m == [NoSweep EXCEPT !.pc = "load", !.wait = mailSettings.wait]
  <2>1. /\ sweep[r] = NoSweep /\ mailLock = Nothing /\ mailLock' = r /\ sweep' = [sweep EXCEPT ![r] = m]
        /\ UNCHANGED <<mailSettings, unreviewed, notified, batch, patch, mails, queued, lapsed, mailFaults,
                       lockLapsed>>
    BY <1>1 DEF TryLock, MailTo
  <2>2. m \in Sweeps /\ m.pc = "load" /\ m.left = {}
    BY <1>0 DEF NoSweep, Sweeps, SweepSteps, MailType, Settings
  <2> HIDE DEF m
  <2>3. sweep'[r] = m /\ \A q \in Replicas \ {r} : sweep'[q] = sweep[q]
    BY <1>0, <2>1
  <2>4. ~lockLapsed => \A q \in Replicas : sweep[q] = NoSweep
    BY <1>0, <2>1 DEF Held
  <2>5. MailType' /\ Held'
    BY <1>0, <2>1, <2>2, <2>3, <2>4 DEF MailType, Held
  <2>6. Covered' /\ QueuedIsMailed'
    BY <1>0, <2>1, <2>2, <2>3 DEF Covered, Covers, QueuedIsMailed
  <2>7. mailFaults = 0 => Single(m, batch.items, notified, mails)
    BY <1>0, <2>2, <2>4, IdleSweep DEF Singly, Single, ToMark
  <2>8. Singly'
    BY <1>0, <2>1, <2>2, <2>3, <2>4, <2>7, IdleSweep DEF Singly
  <2> QED BY <2>5, <2>6, <2>8 DEF MailInv
<1>2. ASSUME NEW r \in Replicas, Unlock(r) PROVE MailInv'
  <2>1. /\ sweep[r].pc = "unlock" /\ sweep' = [sweep EXCEPT ![r] = NoSweep] /\ mailLock' \in {mailLock, Nothing}
        /\ UNCHANGED <<mailSettings, unreviewed, notified, batch, patch, mails, queued, lapsed, mailFaults,
                       lockLapsed>>
    BY <1>2 DEF Unlock, MailTo
  <2>2. sweep[r] # NoSweep /\ sweep'[r] = NoSweep /\ \A q \in Replicas \ {r} : sweep'[q] = sweep[q]
    BY <1>0, <2>1, IdleSweep
  <2>3. ~lockLapsed => \A q \in Replicas : sweep'[q] = NoSweep
    BY <1>0, <2>2 DEF Held
  <2>4. MailType' /\ Held'
    BY <1>0, <2>1, <2>2, <2>3, IdleSweep DEF MailType, Held
  <2>5. Covered' /\ QueuedIsMailed'
    BY <1>0, <2>1, <2>2, IdleSweep DEF Covered, QueuedIsMailed
  <2>6. mailFaults = 0 => Single(NoSweep, batch.items, notified, mails)
    BY <1>0, <2>1, <2>2, IdleSweep DEF Singly, Single, ToMark
  <2>7. Singly'
    BY <1>0, <2>1, <2>3, <2>6 DEF Singly
  <2> QED BY <2>4, <2>5, <2>7 DEF MailInv
<1>3. ASSUME NEW r \in Replicas, ReplicaStops(r) PROVE MailInv'
  <2>1. /\ sweep[r] # NoSweep /\ MailFault
        /\ sweep' = [sweep EXCEPT ![r] = NoSweep] /\ mailLock' \in {mailLock, Nothing}
        /\ UNCHANGED <<mailSettings, unreviewed, notified, batch, patch, mails, queued, lapsed, lockLapsed>>
    BY <1>3 DEF ReplicaStops, MailTo
  <2>2. sweep'[r] = NoSweep /\ \A q \in Replicas \ {r} : sweep'[q] = sweep[q]
    BY <1>0, <2>1
  <2>3. ~lockLapsed => \A q \in Replicas : sweep'[q] = NoSweep
    BY <1>0, <2>1, <2>2 DEF Held
  <2>4. mailFaults' \in Nat /\ mailFaults' # 0
    BY <1>0, <2>1, MailFaultCounted
  <2>5. MailType' /\ Held' /\ Singly'
    BY <1>0, <2>1, <2>2, <2>3, <2>4, IdleSweep DEF MailType, Held, Singly
  <2>6. Covered' /\ QueuedIsMailed'
    BY <1>0, <2>1, <2>2, IdleSweep DEF Covered, QueuedIsMailed
  <2> QED BY <2>5, <2>6 DEF MailInv
<1>4. CASE LockExpires
  <2>1. /\ mailLock \in Replicas /\ mailLock' = Nothing
        /\ UNCHANGED <<mailSettings, unreviewed, notified, batch, sweep, patch, mails, queued, lapsed>>
    BY <1>0, <1>4 DEF LockExpires
  <2>2. CASE sweep[mailLock] # NoSweep
    <3>1. MailFault /\ lockLapsed' = TRUE
      BY <1>4, <2>2 DEF LockExpires
    <3>2. mailFaults' \in Nat /\ mailFaults' # 0
      BY <1>0, <3>1, MailFaultCounted
    <3> QED BY <1>0, <2>1, <3>1, <3>2 DEF MailInv, MailType, Held, Covered, QueuedIsMailed, Singly
  <2>3. CASE sweep[mailLock] = NoSweep
    <3>1. UNCHANGED <<mailFaults, lockLapsed>>
      BY <1>4, <2>3 DEF LockExpires
    <3>2. ~lockLapsed => \A q \in Replicas : sweep[q] = NoSweep
      BY <1>0, <2>3 DEF Held
    <3> QED BY <1>0, <2>1, <3>1, <3>2 DEF MailInv, MailType, Held, Covered, QueuedIsMailed, Singly
  <2> QED BY <2>2, <2>3
<1>5. CASE DedupeExpires
  <2>1. /\ MailFault /\ notified' = {} /\ batch' = NoBatch /\ lapsed' = lapsed \cup batch.items
        /\ UNCHANGED <<mailSettings, mailLock, unreviewed, sweep, patch, mails, queued, lockLapsed>>
    BY <1>5 DEF DedupeExpires
  <2>2. mailFaults' \in Nat /\ mailFaults' # 0
    BY <1>0, <2>1, MailFaultCounted
  <2>3. batch' \in [items : SUBSET Failures, due : BOOLEAN] /\ batch'.items = {} /\ batch.items \subseteq Failures
    BY <1>0, <2>1 DEF NoBatch, MailType
  <2>4. MailType' /\ Held' /\ Singly'
    BY <1>0, <2>1, <2>2, <2>3 DEF MailType, Held, Singly
  <2>5. Covered' /\ QueuedIsMailed'
    BY <1>0, <2>1, <2>3 DEF Covered, Covers, QueuedIsMailed
  <2> QED BY <2>4, <2>5 DEF MailInv
<1> QED BY <1>1, <1>2, <1>3, <1>4, <1>5

(* Every step keeps the invariant.                                         *)
LEMMA NextMail == MailInv /\ [MailNext]_mailVars => MailInv'
<1> SUFFICES ASSUME MailInv, [MailNext]_mailVars PROVE MailInv'
  OBVIOUS
<1>0. MailType
  BY DEF MailInv
<1>1. ASSUME NEW f \in Failures, TaskFails(f) \/ TaskReviewed(f) PROVE MailInv'
  <2>1. MailType' /\ batch'.items = batch.items
    BY <1>0, <1>1 DEF TaskFails, TaskReviewed, MailType
  <2> QED BY <1>1, <2>1, OthersKeep DEF TaskFails, TaskReviewed
<1>2. ASSUME NEW e \in {Nothing, TRUE, FALSE}, NEW w \in {Nothing, TRUE, FALSE},
             PatchRead([enabled |-> e, wait |-> w])
      PROVE  MailInv'
  <2>1. patch' \in Settings
    BY <1>0, <1>2 DEF PatchRead, MailType, Settings
  <2>2. MailType' /\ batch'.items = batch.items
    BY <1>0, <1>2, <2>1 DEF PatchRead, MailType
  <2> QED BY <1>2, <2>2, OthersKeep DEF PatchRead
<1>3. CASE PatchWrite
  <2>1. MailType' /\ batch'.items = batch.items
    BY <1>0, <1>3 DEF PatchWrite, MailType
  <2> QED BY <1>3, <2>1, OthersKeep DEF PatchWrite
<1>4. CASE BatchDue
  <2>1. batch' \in [items : SUBSET Failures, due : BOOLEAN] /\ batch'.items = batch.items
    BY <1>0, <1>4 DEF BatchDue, MailType
  <2>2. MailType'
    BY <1>0, <1>4, <2>1 DEF BatchDue, MailType
  <2> QED BY <1>4, <2>1, <2>2, OthersKeep DEF BatchDue
<1>5. CASE UNCHANGED mailVars
  <2>1. MailType' /\ batch'.items = batch.items
    BY <1>0, <1>5 DEF mailVars, MailType
  <2> QED BY <1>5, <2>1, OthersKeep DEF mailVars
<1> QED
  BY <1>1, <1>2, <1>3, <1>4, <1>5, GatherKeeps, DecideKeeps, SendOneKeeps, SendBatchKeeps, MarkKeeps, LockKeeps
     DEF MailNext

(* A failure that notify_new_failed_tasks stored for a later mail stays    *)
(* stored until it is mailed, unless its batch or the lock expired; and    *)
(* without faults the replicas together mail it once.                      *)
THEOREM MailIsSound == MailSpec => []MailSound
<1>1. ASSUME MailInv PROVE MailedOnce
  <2> SUFFICES ASSUME mailFaults = 0, NEW f \in Failures PROVE mails[f] <= 1
    BY DEF MailedOnce
  <2>1. \E m : Single(m, batch.items, notified, mails)
    BY <1>1 DEF MailInv, Singly
  <2> QED BY <2>1 DEF Single
<1>2. MailInv => MailSound
  BY <1>1 DEF MailInv, MailSound
<1> QED BY <1>2, InitMail, NextMail, PTL DEF MailSpec

-----------------------------------------------------------------------------
(* ProviderAvailability: one probe of a provider, and an outage that lasts.*)

GateRecords(q) == [locked : BOOLEAN, queue : {q}, healthy : BOOLEAN, paused : BOOLEAN, generation : Nat]
RequestRecords ==
    [pc : {"idle", "wait", "probe", "perform"}, key : Providers \cup {Nothing}, g : Gates \cup {Nothing},
     generation : Nat]

(* A cache holds a provider once, and no two providers share a gate.       *)
IsCache(s) ==
    /\ s \in Seq(Providers \X Gates) /\ Len(s) <= MaxStates
    /\ \A i, j \in 1..Len(s) : i # j => s[i][1] # s[j][1] /\ s[i][2] # s[j][2]
Entry(s, k, g) == \E i \in 1..Len(s) : s[i] = <<k, g>>

GatesType ==
    /\ gate = [g \in Gates |-> gate[g]] /\ \A g \in Gates : gate[g] \in GateRecords(gate[g].queue)
    /\ request \in [Requests -> RequestRecords] /\ down \subseteq Providers

(* A request goes through the cached gate of its provider.                 *)
ThroughGate(m, s) ==
    m = NoRequest \/ (m.pc # "idle" /\ m.key \in Providers /\ m.g \in Gates /\ Entry(s, m.key, m.g))
CacheHolds == IsCache(states) /\ \A r \in Requests : ThroughGate(request[r], states)

(* A probe has locked its gate, alone; and no request under way is of the  *)
(* generation in which its provider is paused.                             *)
ProbesLocked ==
    /\ \A r \in Requests : request[r].pc = "probe" => gate[request[r].g].locked
    /\ \A q, r \in Requests :
          q # r /\ request[q].pc = "probe" /\ request[r].pc = "probe" => request[q].g # request[r].g
OfGeneration(m, known) ==
    m.pc \in {"probe", "perform"} =>
        m.generation <= known.generation /\ (known.paused => m.generation # known.generation)
Generations == \A r \in Requests : OfGeneration(request[r], gate[request[r].g])

(* A provider that is down is in the cache, and paused.                    *)
Paused == \A k \in down : \E i \in 1..Len(states) : states[i][1] = k /\ gate[states[i][2]].paused

ProviderInv == GatesType /\ CacheHolds /\ ProbesLocked /\ Generations /\ Paused

(* The idle request and the new gate.                                      *)
LEMMA IdleFacts ==
    /\ NoRequest \in RequestRecords /\ NoRequest.pc = "idle" /\ NoRequest.key = Nothing
    /\ NewGate \in GateRecords(NewGate.queue) /\ ~NewGate.locked /\ ~NewGate.paused /\ ~NewGate.healthy
    /\ NewGate.generation = 0 /\ NewGate.queue = <<>>
BY DEF NoRequest, RequestRecords, NewGate, GateRecords

(* An empty cache.                                                         *)
LEMMA InitProvider == ProviderInit => ProviderInv
<1> SUFFICES ASSUME ProviderInit PROVE ProviderInv
  OBVIOUS
<1>1. GatesType
  BY IdleFacts DEF ProviderInit, GatesType
<1>2. IsCache(states)
  BY ProviderAssumption DEF ProviderInit, IsCache
<1>3. CacheHolds /\ ProbesLocked /\ Generations /\ Paused
  BY <1>2, IdleFacts DEF ProviderInit, CacheHolds, ThroughGate, ProbesLocked, Generations, OfGeneration, Paused
<1> QED BY <1>1, <1>3 DEF ProviderInv

(* A sequence with one element taken out and one put at its end.           *)
Rotated(s, i, e) == Append(RemoveAt(s, i), e)
IsRotated(t, s, i, e, S) ==
    /\ t \in Seq(S) /\ Len(t) = Len(s) /\ t[Len(s)] = e
    /\ \A j \in 1..Len(s) : j < Len(s) => t[j] = IF j < i THEN s[j] ELSE s[j + 1]
(* Its elements.                                                           *)
LEMMA PutLast ==
    ASSUME NEW S, NEW s \in Seq(S), NEW i \in 1..Len(s), NEW e \in S
    PROVE  IsRotated(Rotated(s, i, e), s, i, e, S)
<1> DEFINE a == SubSeq(s, 1, i - 1)
           b == SubSeq(s, i + 1, Len(s))
           c == RemoveAt(s, i)
<1>1. /\ a \in Seq(S) /\ Len(a) = i - 1
      /\ \A j \in 1..(i - 1) : a[j] = s[j]
  OBVIOUS
<1>2. /\ b \in Seq(S) /\ Len(b) = Len(s) - i
      /\ \A j \in 1..(Len(s) - i) : b[j] = s[i + j]
  OBVIOUS
<1>3. c = a \o b
  BY DEF RemoveAt
<1> HIDE DEF a, b, c
<1>4. /\ c \in Seq(S) /\ Len(c) = Len(s) - 1
      /\ \A j \in 1..(Len(s) - 1) : c[j] = IF j < i THEN s[j] ELSE s[j + 1]
  <2>1. Len(s) \in Nat /\ i - 1 \in Nat /\ Len(s) - i \in Nat /\ i \in Nat
    OBVIOUS
  <2>2. /\ c \in Seq(S) /\ Len(c) = Len(a) + Len(b)
        /\ \A j \in 1..(Len(a) + Len(b)) : c[j] = IF j <= Len(a) THEN a[j] ELSE b[j - Len(a)]
    BY <1>1, <1>2, <1>3, ConcatProperties
  <2>3. Len(c) = Len(s) - 1
    BY <1>1, <1>2, <2>1, <2>2
  <2>4. ASSUME NEW j \in 1..(Len(s) - 1), j < i PROVE c[j] = s[j]
    <3>1. j \in 1..(Len(a) + Len(b)) /\ j <= Len(a) /\ j \in 1..(i - 1)
      BY <1>1, <1>2, <2>1, <2>4
    <3> QED BY <1>1, <2>2, <3>1
  <2>5. ASSUME NEW j \in 1..(Len(s) - 1), ~(j < i) PROVE c[j] = s[j + 1]
    <3>1. j \in 1..(Len(a) + Len(b)) /\ ~(j <= Len(a)) /\ j - Len(a) = j - i + 1 /\ j - i + 1 \in 1..(Len(s) - i)
      BY <1>1, <1>2, <2>1, <2>5
    <3>2. c[j] = b[j - i + 1]
      BY <2>2, <3>1
    <3>3. b[j - i + 1] = s[i + (j - i + 1)] /\ i + (j - i + 1) = j + 1
      BY <1>2, <2>1, <3>1
    <3> QED BY <3>2, <3>3
  <2> QED BY <2>2, <2>3, <2>4, <2>5
<1>5. /\ Append(c, e) \in Seq(S) /\ Len(Append(c, e)) = Len(s)
      /\ \A j \in 1..(Len(s) - 1) : Append(c, e)[j] = c[j]
      /\ Append(c, e)[Len(s)] = e
  BY <1>4
<1> QED BY <1>4, <1>5 DEF c, Rotated, IsRotated

(* A set of numbers that is not empty has a least.                         *)
LEMMA SmallestOf ==
    ASSUME NEW S \in SUBSET Nat, S # {}
    PROVE  \E n \in S : \A m \in S : n <= m
<1>1. PICK n \in S : \A m \in S : <<m, n>> \notin OpToRel(<, Nat)
  BY NatLessThanWellFounded, WFMin
<1>2. \A m \in S : ~(m < n)
  BY <1>1 DEF OpToRel
<1> QED BY <1>2

(* There is a gate nobody uses.                                            *)
LEMMA FreshGate ==
    ASSUME ProviderInv
    PROVE  /\ Fresh \in Gates /\ \A i \in 1..Len(states) : states[i][2] # Fresh
           /\ \A r \in Requests : request[r].g # Fresh
<1>1. /\ states \in Seq(Providers \X Gates) /\ Len(states) <= MaxStates /\ MaxStates \in Nat
      /\ DOMAIN states = 1..Len(states) /\ Len(states) \in Nat
  BY ProviderAssumption DEF ProviderInv, CacheHolds, IsCache
<1> DEFINE U == {states[i][2] : i \in 1..Len(states)}
           V == {request[r].g : r \in Requests}
           f == [i \in 1..Len(states) |-> states[i][2]]
           h == [r \in Requests |-> request[r].g]
<1>2. IsFiniteSet(1..Len(states)) /\ Cardinality(1..Len(states)) = Len(states)
  <2>1. 1 \in Int /\ Len(states) \in Int /\ (IF 1 > Len(states) THEN 0 ELSE Len(states) - 1 + 1) = Len(states)
    BY <1>1
  <2>2. /\ IsFiniteSet(1..Len(states))
        /\ Cardinality(1..Len(states)) = IF 1 > Len(states) THEN 0 ELSE Len(states) - 1 + 1
    BY <2>1, FS_Interval
  <2> QED BY <2>1, <2>2
<1>3. f \in Surjection(1..Len(states), U)
  BY DEF Surjection
<1>4. h \in Surjection(Requests, V)
  BY DEF Surjection
<1> HIDE DEF U, V, f, h
<1>5. IsFiniteSet(U) /\ Cardinality(U) <= Len(states)
  BY <1>2, <1>3, FS_Surjection
<1>6. IsFiniteSet(V) /\ Cardinality(V) <= Cardinality(Requests)
  BY <1>4, ProviderAssumption, FS_Surjection
<1>7. IsFiniteSet(U \cup V) /\ Cardinality(U \cup V) <= Len(states) + Cardinality(Requests)
  <2>1. /\ IsFiniteSet(U \cup V) /\ Cardinality(U \cup V) = Cardinality(U) + Cardinality(V) - Cardinality(U \cap V)
    BY <1>5, <1>6, FS_Union
  <2>2. IsFiniteSet(U \cap V)
    BY <1>5, FS_Intersection
  <2>3. /\ Cardinality(U \cap V) \in Nat /\ Cardinality(U) \in Nat /\ Cardinality(V) \in Nat
        /\ Cardinality(Requests) \in Nat
    BY <1>5, <1>6, <2>2, ProviderAssumption, FS_CardinalityType
  <2> QED BY <1>1, <1>5, <1>6, <2>1, <2>3
<1>8. ~(Gates \subseteq U \cup V)
  <2> SUFFICES ASSUME Gates \subseteq U \cup V PROVE FALSE
    OBVIOUS
  <2>1. Cardinality(Gates) <= Cardinality(U \cup V)
    BY <1>7, FS_Subset
  <2>2. Cardinality(Gates) \in Nat /\ Cardinality(U \cup V) \in Nat /\ Cardinality(Requests) \in Nat
    BY <1>7, ProviderAssumption, FS_CardinalityType
  <2> QED BY <1>1, <1>7, <2>1, <2>2, ProviderAssumption
<1>9. \E g \in Gates : /\ \A i \in DOMAIN states : states[i][2] # g
                       /\ \A r \in Requests : request[r].g # g
  <2>1. PICK g \in Gates : g \notin U /\ g \notin V
    BY <1>8
  <2>2. /\ \A i \in 1..Len(states) : states[i][2] # g
        /\ \A r \in Requests : request[r].g # g
    BY <2>1 DEF U, V
  <2> QED BY <1>1, <2>2
<1> QED BY <1>1, <1>9 DEF Fresh

(* Nobody but entry i has provider k or gate g; and cache t has them in    *)
(* place of that entry.                                                    *)
Unshared(s, i, k, g) == \A j \in 1..Len(s) : j # i => s[j][1] # k /\ s[j][2] # g
Recached(t, s, i, k, g) ==
    /\ IsCache(t) /\ Entry(t, k, g)
    /\ \A l, h : Entry(s, l, h) => Entry(t, l, h) \/ <<l, h>> = s[i]

(* A cache keeps its form when an entry moves to the end or gives way.     *)
LEMMA CachePutLast ==
    ASSUME NEW s, IsCache(s), NEW i \in 1..Len(s), NEW k \in Providers, NEW g \in Gates,
           Unshared(s, i, k, g), NEW e, e = <<k, g>>
    PROVE  Recached(Rotated(s, i, e), s, i, k, g)
<1> DEFINE t == Rotated(s, i, e)
<1>1. /\ s \in Seq(Providers \X Gates) /\ Len(s) <= MaxStates /\ Len(s) \in Nat /\ i \in Nat
      /\ \A m, n \in 1..Len(s) : m # n => s[m][1] # s[n][1] /\ s[m][2] # s[n][2]
  <2> HIDE DEF t
  <2>1. /\ s \in Seq(Providers \X Gates) /\ Len(s) <= MaxStates
        /\ \A m, n \in 1..Len(s) : m # n => s[m][1] # s[n][1] /\ s[m][2] # s[n][2]
    BY Zenon DEF IsCache
  <2>2. Len(s) \in Nat /\ i \in Nat
    <3>1. s \in Seq(Providers \X Gates)
      BY <2>1
    <3> QED BY <3>1
  <2> QED BY Zenon, <2>1, <2>2
<1>2. /\ t \in Seq(Providers \X Gates) /\ Len(t) = Len(s) /\ t[Len(s)] = <<k, g>>
      /\ \A j \in 1..Len(s) : j < Len(s) => t[j] = IF j < i THEN s[j] ELSE s[j + 1]
  <2> DEFINE S == Providers \X Gates
  <2>1. s \in Seq(S) /\ e \in S
    BY <1>1
  <2> HIDE DEF S
  <2>2. IsRotated(t, s, i, e, S)
    BY <2>1, PutLast
  <2> HIDE DEF t
  <2> QED BY <2>2 DEF S, IsRotated
<1> HIDE DEF t
<1> DEFINE from(j) == IF j < i THEN j ELSE j + 1
<1>3. ASSUME NEW j \in 1..Len(s), j < Len(s)
      PROVE  from(j) \in 1..Len(s) /\ from(j) # i /\ t[j] = s[from(j)]
  <2>1. from(j) \in 1..Len(s) /\ from(j) # i
    BY <1>1, <1>3
  <2> QED BY <1>2, <1>3, <2>1
<1>4. ASSUME NEW m \in 1..Len(s), NEW n \in 1..Len(s), m < n
      PROVE  t[m][1] # t[n][1] /\ t[m][2] # t[n][2]
  <2>1. m < Len(s)
    BY <1>1, <1>4
  <2>2. CASE n < Len(s)
    <3>1. from(m) # from(n)
      BY <1>1, <1>4
    <3>2. from(m) \in 1..Len(s) /\ from(n) \in 1..Len(s) /\ t[m] = s[from(m)] /\ t[n] = s[from(n)]
      BY <1>3, <2>1, <2>2
    <3> HIDE DEF from
    <3>3. s[from(m)][1] # s[from(n)][1] /\ s[from(m)][2] # s[from(n)][2]
      BY <1>1, <3>1, <3>2
    <3> QED BY <3>2, <3>3
  <2>3. CASE n = Len(s)
    <3> HIDE DEF from
    <3> QED BY <1>2, <1>3, <2>1, <2>3 DEF Unshared
  <2> QED BY <1>1, <2>2, <2>3
<1>5. \A m, n \in 1..Len(s) : m # n => m < n \/ n < m
  BY <1>1
<1>6. IsCache(t)
  BY <1>1, <1>2, <1>4, <1>5 DEF IsCache
<1>7. Entry(t, k, g)
  BY <1>1, <1>2 DEF Entry
<1>8. ASSUME NEW l, NEW h, Entry(s, l, h), <<l, h>> # s[i] PROVE Entry(t, l, h)
  <2>1. PICK j \in 1..Len(s) : s[j] = <<l, h>>
    BY <1>8 DEF Entry
  <2>2. j # i
    BY <1>8, <2>1
  <2> DEFINE n == IF j < i THEN j ELSE j - 1
  <2>3. n \in 1..Len(s) /\ n < Len(s) /\ from(n) = j
    BY <1>1, <2>2
  <2>4. t[n] = s[j]
    BY <1>3, <2>3
  <2> QED BY <1>2, <2>1, <2>3, <2>4 DEF Entry
<1> QED BY <1>6, <1>7, <1>8 DEF t, Recached

(* What _state answers: the gate of the provider, cached at the end, and   *)
(* every gate a request uses is still there.                               *)
LEMMA LookupFacts ==
    ASSUME ProviderInv, NEW k \in Providers, Cached(k) # {} \/ Len(states) < MaxStates \/ Victims # {}
    PROVE  /\ Lookup(k).g \in Gates /\ IsCache(Lookup(k).states) /\ Entry(Lookup(k).states, k, Lookup(k).g)
           /\ \A r \in Requests : ThroughGate(request[r], Lookup(k).states)
           /\ \A l \in Providers : \A h : Entry(states, l, h) => Entry(Lookup(k).states, l, h) \/ l \in Lookup(k).evicted
           /\ Lookup(k).new =>
                 /\ \A r \in Requests : request[r].g # Lookup(k).g
                 /\ \A l : ~Entry(states, l, Lookup(k).g)
           /\ ~Lookup(k).new => Entry(states, k, Lookup(k).g)
           /\ Lookup(k).new \in BOOLEAN
<1>1. /\ states \in Seq(Providers \X Gates) /\ IsCache(states) /\ DOMAIN states = 1..Len(states)
      /\ Len(states) \in Nat /\ MaxStates \in Nat
      /\ \A i \in 1..Len(states) : states[i] \in Providers \X Gates
      /\ \A r \in Requests : ThroughGate(request[r], states)
  <2>1. IsCache(states) /\ \A r \in Requests : ThroughGate(request[r], states)
    BY DEF ProviderInv, CacheHolds
  <2>2. states \in Seq(Providers \X Gates)
    BY <2>1 DEF IsCache
  <2>3. MaxStates \in Nat
    BY ProviderAssumption
  <2> QED BY <2>1, <2>2, <2>3
<1>2. CASE Cached(k) # {}
  <2> DEFINE i == CHOOSE i \in Cached(k) : TRUE
  <2>1. i \in 1..Len(states) /\ states[i][1] = k
    BY <1>1, <1>2 DEF Cached
  <2>2. Lookup(k) = [states |-> Append(RemoveAt(states, i), states[i]), g |-> states[i][2], evicted |-> {},
                     new |-> FALSE]
    BY <1>2 DEF Lookup
  <2> HIDE DEF i
  <2>3. states[i] = <<k, states[i][2]>> /\ states[i][2] \in Gates
    BY <1>1, <2>1
  <2>4. Unshared(states, i, k, states[i][2])
    BY <1>1, <2>1 DEF IsCache, Unshared
  <2> DEFINE t == Append(RemoveAt(states, i), states[i])
  <2>5. t = Rotated(states, i, states[i])
    BY DEF Rotated
  <2> HIDE DEF t
  <2>6. /\ IsCache(t) /\ Entry(t, k, states[i][2])
        /\ \A l, h : Entry(states, l, h) => Entry(t, l, h)
    <3>1. /\ IsCache(t) /\ Entry(t, k, states[i][2])
          /\ \A l, h : Entry(states, l, h) => Entry(t, l, h) \/ <<l, h>> = states[i]
      <4>1. Recached(Rotated(states, i, states[i]), states, i, k, states[i][2])
        BY <1>1, <2>1, <2>3, <2>4, CachePutLast
      <4> QED BY <2>5, <4>1 DEF Recached
    <3>2. ASSUME NEW l, NEW h, <<l, h>> = states[i] PROVE Entry(t, l, h)
      BY <2>3, <3>1, <3>2
    <3> QED BY <3>1, <3>2
  <2>7. Lookup(k).states = t /\ Lookup(k).g = states[i][2] /\ Lookup(k).evicted = {} /\ Lookup(k).new = FALSE
    BY <2>2 DEF t
  <2>8. \A r \in Requests : ThroughGate(request[r], t)
    BY <1>1, <2>6 DEF ThroughGate
  <2>9. Entry(states, k, states[i][2])
    BY <2>1, <2>3 DEF Entry
  <2> QED BY <2>3, <2>6, <2>7, <2>8, <2>9
<1>3. CASE Cached(k) = {} /\ Len(states) < MaxStates
  <2>1. /\ Fresh \in Gates /\ \A i \in 1..Len(states) : states[i][2] # Fresh
        /\ \A r \in Requests : request[r].g # Fresh
    BY FreshGate
  <2> DEFINE t == Append(states, <<k, Fresh>>)
  <2>2. Lookup(k) = [states |-> t, g |-> Fresh, evicted |-> {}, new |-> TRUE]
    BY <1>3 DEF Lookup
  <2>3. /\ t \in Seq(Providers \X Gates) /\ Len(t) = Len(states) + 1 /\ t[Len(states) + 1] = <<k, Fresh>>
        /\ \A i \in 1..Len(states) : t[i] = states[i]
    BY <1>1, <2>1
  <2>4. \A i \in 1..Len(states) : states[i][1] # k
    BY <1>1, <1>3 DEF Cached
  <2>5. Lookup(k).states = t /\ Lookup(k).g = Fresh /\ Lookup(k).evicted = {} /\ Lookup(k).new = TRUE
    BY <2>2
  <2> HIDE DEF t
  <2>6. IsCache(t)
    <3>1. \A i \in 1..Len(t) : i \in 1..Len(states) \/ i = Len(states) + 1
      BY <1>1, <2>3
    <3>2. Len(t) <= MaxStates
      BY <1>1, <1>3, <2>3
    <3>3. ASSUME NEW i \in 1..Len(t), NEW j \in 1..Len(t), i # j
          PROVE  t[i][1] # t[j][1] /\ t[i][2] # t[j][2]
      <4>1. CASE i \in 1..Len(states) /\ j \in 1..Len(states)
        BY <1>1, <2>3, <3>3, <4>1 DEF IsCache
      <4>2. CASE i \in 1..Len(states) /\ j = Len(states) + 1
        BY <2>1, <2>3, <2>4, <4>2
      <4>3. CASE i = Len(states) + 1 /\ j \in 1..Len(states)
        BY <2>1, <2>3, <2>4, <4>3
      <4> QED BY <3>1, <3>3, <4>1, <4>2, <4>3
    <3> QED BY <2>3, <3>2, <3>3 DEF IsCache
  <2>7. Entry(t, k, Fresh) /\ \A l, h : Entry(states, l, h) => Entry(t, l, h)
    <3>1. Len(states) + 1 \in 1..Len(t) /\ \A i \in 1..Len(states) : i \in 1..Len(t)
      BY <1>1, <2>3
    <3> QED BY <2>3, <3>1 DEF Entry
  <2>8. \A r \in Requests : ThroughGate(request[r], t)
    BY <1>1, <2>7 DEF ThroughGate
  <2>9. \A l : ~Entry(states, l, Fresh)
    BY <2>1 DEF Entry
  <2> QED BY <2>1, <2>5, <2>6, <2>7, <2>8, <2>9
<1>4. CASE Cached(k) = {} /\ ~(Len(states) < MaxStates)
  <2>1. /\ Fresh \in Gates /\ \A i \in 1..Len(states) : states[i][2] # Fresh
        /\ \A r \in Requests : request[r].g # Fresh
    BY FreshGate
  <2> DEFINE i == CHOOSE i \in Victims : \A j \in Victims : i <= j
  <2>2. i \in Victims
    <3>1. Victims \in SUBSET Nat /\ Victims # {}
      BY <1>1, <1>4 DEF Victims
    <3>2. \E n \in Victims : \A j \in Victims : n <= j
      BY <3>1, SmallestOf
    <3> QED BY <3>2
  <2>3. i \in 1..Len(states) /\ Evictable(states[i][2])
    BY <1>1, <2>2 DEF Victims
  <2> DEFINE t == Append(RemoveAt(states, i), <<k, Fresh>>)
  <2>4. Lookup(k) = [states |-> t, g |-> Fresh, evicted |-> {states[i][1]}, new |-> TRUE]
    BY <1>4 DEF Lookup
  <2>5. Lookup(k).states = t /\ Lookup(k).g = Fresh /\ Lookup(k).evicted = {states[i][1]} /\ Lookup(k).new = TRUE
    BY <2>4
  <2> DEFINE e == <<k, Fresh>>
  <2>t. t = Rotated(states, i, e) /\ e = <<k, Fresh>>
    BY DEF Rotated
  <2> HIDE DEF i, t, e
  <2>6. Unshared(states, i, k, Fresh)
    BY <1>1, <1>4, <2>1 DEF Cached, Unshared
  <2>7. /\ IsCache(t) /\ Entry(t, k, Fresh)
        /\ \A l, h : Entry(states, l, h) => Entry(t, l, h) \/ <<l, h>> = states[i]
    <3>1. Recached(Rotated(states, i, e), states, i, k, Fresh)
      BY <1>1, <2>1, <2>3, <2>6, <2>t, CachePutLast
    <3> QED BY <2>t, <3>1 DEF Recached
  <2>8. ASSUME NEW r \in Requests PROVE ThroughGate(request[r], t)
    <3> SUFFICES ASSUME request[r] # NoRequest PROVE ThroughGate(request[r], t)
      BY DEF ThroughGate
    <3>1. /\ request[r].pc # "idle" /\ request[r].key \in Providers /\ request[r].g \in Gates
          /\ Entry(states, request[r].key, request[r].g)
      BY <1>1 DEF ThroughGate
    <3>2. request[r].pc \in {"wait", "probe", "perform"}
      BY <3>1 DEF ProviderInv, GatesType, RequestRecords
    <3>3. request[r].g # states[i][2]
      BY <2>3, <3>2 DEF Evictable, ActiveOn, WaitersOf, Performing, Waiting
    <3>4. <<request[r].key, request[r].g>> # states[i]
      BY <3>3
    <3> QED BY <2>7, <3>1, <3>4 DEF ThroughGate
  <2>9. \A l : ~Entry(states, l, Fresh)
    BY <2>1 DEF Entry
  <2>10. \A l \in Providers : \A h : Entry(states, l, h) => Entry(t, l, h) \/ l \in {states[i][1]}
    BY <2>7
  <2> QED BY <2>1, <2>5, <2>7, <2>8, <2>9, <2>10
<1> QED BY <1>2, <1>3, <1>4

(* Of two entries of a cache that agree in the provider, or in the gate.   *)
LEMMA SameEntry ==
    ASSUME NEW s, IsCache(s), NEW k, NEW l, NEW g, NEW h, Entry(s, k, g), Entry(s, l, h)
    PROVE  (k = l => g = h) /\ (g = h => k = l)
<1>1. PICK i \in 1..Len(s) : s[i] = <<k, g>>
  BY DEF Entry
<1>2. PICK j \in 1..Len(s) : s[j] = <<l, h>>
  BY DEF Entry
<1> QED BY <1>1, <1>2 DEF IsCache

(* A provider that is down has an entry whose gate is paused.              *)
LEMMA DownEntry ==
    ASSUME NEW s, NEW gates, NEW k \in Providers, IsCache(s)
    PROVE  (\E i \in 1..Len(s) : s[i][1] = k /\ gates[s[i][2]].paused)
           <=> (\E g \in Gates : Entry(s, k, g) /\ gates[g].paused)
<1>1. \A i \in 1..Len(s) : s[i] = <<s[i][1], s[i][2]>> /\ s[i][2] \in Gates
  BY DEF IsCache
<1>2. ASSUME NEW i \in 1..Len(s), s[i][1] = k, gates[s[i][2]].paused
      PROVE  \E g \in Gates : Entry(s, k, g) /\ gates[g].paused
  BY <1>1, <1>2 DEF Entry
<1>3. ASSUME NEW g \in Gates, Entry(s, k, g), gates[g].paused
      PROVE  \E i \in 1..Len(s) : s[i][1] = k /\ gates[s[i][2]].paused
  BY <1>3 DEF Entry
<1> QED BY <1>2, <1>3

(* A request that comes in, finds gate g and leaves it as x.               *)
LEMMA RunKeeps ==
    ASSUME ProviderInv, NEW k \in Providers, NEW r \in Requests, NEW g \in Gates, NEW x, NEW m \in RequestRecords,
           Cached(k) # {} \/ Len(states) < MaxStates \/ Victims # {},
           g = Lookup(k).g, request[r] = NoRequest,
           states' = Lookup(k).states, down' = down \ Lookup(k).evicted,
           gate' = [gate EXCEPT ![g] = x], request' = [request EXCEPT ![r] = m],
           x \in GateRecords(x.queue), m = NoRequest \/ (m.pc # "idle" /\ m.key = k /\ m.g = g),
           m.pc = "probe" => x.locked /\ (Lookup(k).new \/ ~gate[g].locked),
           ~Lookup(k).new => (gate[g].locked => x.locked) /\ x.paused = gate[g].paused
                             /\ x.generation = gate[g].generation,
           m.pc \in {"probe", "perform"} => m.generation = x.generation /\ ~x.paused
    PROVE  ProviderInv'
<1> DEFINE f == Lookup(k)
<1>1. /\ IsCache(f.states) /\ Entry(f.states, k, g)
      /\ \A q \in Requests : ThroughGate(request[q], f.states)
      /\ \A l \in Providers : \A h : Entry(states, l, h) => Entry(f.states, l, h) \/ l \in f.evicted
      /\ f.new => (\A q \in Requests : request[q].g # g) /\ \A l : ~Entry(states, l, g)
      /\ f.new \in BOOLEAN
  BY LookupFacts
<1> HIDE DEF f
<1>2. /\ gate = [h \in Gates |-> gate[h]] /\ \A h \in Gates : gate[h] \in GateRecords(gate[h].queue)
      /\ request \in [Requests -> RequestRecords] /\ down \subseteq Providers
      /\ ProbesLocked /\ Generations /\ Paused /\ IsCache(states)
      /\ \A q \in Requests : ThroughGate(request[q], states)
  BY DEF ProviderInv, GatesType, CacheHolds
<1>3. /\ gate'[g] = x /\ \A h \in Gates \ {g} : gate'[h] = gate[h]
      /\ request'[r] = m /\ \A q \in Requests \ {r} : request'[q] = request[q]
  BY <1>2
<1>4. GatesType'
  <2>1. gate' = [h \in Gates |-> gate'[h]]
    BY <1>2
  <2>2. request' \in [Requests -> RequestRecords]
    BY <1>2
  <2> QED BY <1>2, <1>3, <2>1, <2>2 DEF GatesType
<1>5. CacheHolds'
  BY <1>1, <1>3 DEF CacheHolds, ThroughGate, f
<1>6. ASSUME NEW q \in Requests \ {r}, request[q].pc # "idle"
      PROVE  /\ request[q].g \in Gates
             /\ request[q].g = g => ~f.new
             /\ request[q].g # g => gate'[request[q].g] = gate[request[q].g]
  <2>1. request[q].g \in Gates
    BY <1>2, <1>6, IdleFacts DEF ThroughGate
  <2> QED BY <1>1, <1>3, <2>1
<1>7. ProbesLocked'
  <2>1. ASSUME NEW q \in Requests, request'[q].pc = "probe" PROVE gate'[request'[q].g].locked
    BY <1>2, <1>3, <1>6, <2>1, IdleFacts DEF ProbesLocked, f
  <2>2. ASSUME NEW p \in Requests, NEW q \in Requests, p # q, request'[p].pc = "probe", request'[q].pc = "probe"
        PROVE  request'[p].g # request'[q].g
    <3>1. ASSUME NEW o \in Requests \ {r}, request[o].pc = "probe", m.pc = "probe" PROVE request[o].g # m.g
      BY <1>1, <1>2, <1>6, <3>1, IdleFacts DEF ProbesLocked, f
    <3> QED BY <1>2, <1>3, <2>2, <3>1 DEF ProbesLocked
  <2> QED BY <2>1, <2>2 DEF ProbesLocked
<1>8. Generations'
  <2> SUFFICES ASSUME NEW q \in Requests PROVE OfGeneration(request'[q], gate'[request'[q].g])
    BY DEF Generations
  <2>1. CASE q = r
    <3>1. m.pc \in {"probe", "perform"} => m.generation \in Nat /\ m.g = g
      BY IdleFacts DEF RequestRecords
    <3>2. m.pc \in {"probe", "perform"} => m.generation <= x.generation
      BY <3>1
    <3> QED BY <1>3, <2>1, <3>1, <3>2 DEF OfGeneration
  <2>2. CASE q # r
    <3> SUFFICES ASSUME request[q].pc \in {"probe", "perform"} PROVE OfGeneration(request[q], gate'[request[q].g])
      BY <1>3, <2>2 DEF OfGeneration
    <3>1. OfGeneration(request[q], gate[request[q].g])
      BY <1>2 DEF Generations
    <3>2. request[q].g = g => x.paused = gate[g].paused /\ x.generation = gate[g].generation
      BY <1>6, <2>2 DEF f
    <3> QED BY <1>3, <1>6, <2>2, <3>1, <3>2 DEF OfGeneration
  <2> QED BY <2>1, <2>2
<1>9. Paused'
  <2> SUFFICES ASSUME NEW l \in down, l \notin f.evicted
               PROVE  \E i \in 1..Len(f.states) : f.states[i][1] = l /\ gate'[f.states[i][2]].paused
    BY DEF Paused, f
  <2>1. l \in Providers
    BY <1>2
  <2>2. PICK h \in Gates : Entry(states, l, h) /\ gate[h].paused
    BY <1>2, <2>1, DownEntry DEF Paused
  <2>3. Entry(f.states, l, h)
    BY <1>1, <2>1, <2>2
  <2>4. gate'[h].paused
    BY <1>1, <1>3, <2>2 DEF f
  <2>5. PICK i \in 1..Len(f.states) : f.states[i] = <<l, h>>
    BY <2>3 DEF Entry
  <2>6. f.states[i][1] = l /\ gate'[f.states[i][2]].paused
    BY <2>4, <2>5
  <2> QED BY <2>6
<1> QED BY <1>4, <1>5, <1>7, <1>8, <1>9 DEF ProviderInv

(* A request under way that leaves its gate as x and goes on as m.         *)
LEMMA RequestKeeps ==
    ASSUME ProviderInv, NEW r \in Requests, request[r] # NoRequest, NEW x, NEW m \in RequestRecords,
           states' = states, gate' = [gate EXCEPT ![request[r].g] = x], request' = [request EXCEPT ![r] = m],
           x \in GateRecords(x.queue),
           m = NoRequest \/ (m.pc # "idle" /\ m.key = request[r].key /\ m.g = request[r].g),
           down' = down \/ (x.paused /\ down' = down \cup {request[r].key}),
           gate[request[r].g].paused => x.paused,
           \/ x.paused = gate[request[r].g].paused /\ x.generation = gate[request[r].g].generation
           \/ x.generation = gate[request[r].g].generation + 1
           \/ ~x.paused /\ x.generation = gate[request[r].g].generation,
           gate[request[r].g].locked /\ request[r].pc # "probe" => x.locked,
           m.pc = "probe" => x.locked /\ ~gate[request[r].g].locked,
           m.pc \in {"probe", "perform"} => m.generation = x.generation /\ ~x.paused
    PROVE  ProviderInv'
<1> DEFINE g == request[r].g
<1>1. /\ gate = [h \in Gates |-> gate[h]] /\ \A h \in Gates : gate[h] \in GateRecords(gate[h].queue)
      /\ request \in [Requests -> RequestRecords] /\ down \subseteq Providers
      /\ ProbesLocked /\ Generations /\ Paused /\ IsCache(states)
      /\ \A q \in Requests : ThroughGate(request[q], states)
  BY DEF ProviderInv, GatesType, CacheHolds
<1>2. g \in Gates /\ request[r].key \in Providers /\ Entry(states, request[r].key, g)
  BY <1>1 DEF ThroughGate
<1> HIDE DEF g
<1>3. /\ gate'[g] = x /\ \A h \in Gates \ {g} : gate'[h] = gate[h]
      /\ request'[r] = m /\ \A q \in Requests \ {r} : request'[q] = request[q]
  BY <1>1, <1>2 DEF g
<1>4. GatesType'
  <2>1. gate' = [h \in Gates |-> gate'[h]]
    BY <1>1
  <2>2. request' \in [Requests -> RequestRecords] /\ down' \subseteq Providers
    BY <1>1, <1>2
  <2> QED BY <1>1, <1>3, <2>1, <2>2 DEF GatesType
<1>5. CacheHolds'
  BY <1>1, <1>2, <1>3 DEF CacheHolds, ThroughGate, g
<1>6. ASSUME NEW q \in Requests, request[q].pc # "idle"
      PROVE  request[q].g \in Gates /\ (request[q].g # g => gate'[request[q].g] = gate[request[q].g])
  <2>1. request[q].g \in Gates
    BY <1>1, <1>6, IdleFacts DEF ThroughGate
  <2> QED BY <1>3, <2>1
<1>7. ProbesLocked'
  <2>1. ASSUME NEW q \in Requests, request'[q].pc = "probe" PROVE gate'[request'[q].g].locked
    <3>1. CASE q = r
      BY <1>3, <2>1, <3>1, IdleFacts DEF g
    <3>2. CASE q # r
      <4>1. request[q].pc = "probe" /\ gate[request[q].g].locked /\ request'[q] = request[q]
        BY <1>1, <1>3, <2>1, <3>2 DEF ProbesLocked
      <4>2. request[q].g = g => request[r].pc # "probe"
        BY <1>1, <3>2, <4>1 DEF ProbesLocked, g
      <4> QED BY <1>3, <1>6, <4>1, <4>2 DEF g
    <3> QED BY <3>1, <3>2
  <2>2. ASSUME NEW p \in Requests, NEW q \in Requests, p # q, request'[p].pc = "probe", request'[q].pc = "probe"
        PROVE  request'[p].g # request'[q].g
    <3>1. ASSUME NEW o \in Requests \ {r}, request[o].pc = "probe", m.pc = "probe" PROVE request[o].g # m.g
      BY <1>1, <3>1, IdleFacts DEF ProbesLocked, g
    <3> QED BY <1>1, <1>3, <2>2, <3>1 DEF ProbesLocked
  <2> QED BY <2>1, <2>2 DEF ProbesLocked
<1>8. Generations'
  <2> SUFFICES ASSUME NEW q \in Requests PROVE OfGeneration(request'[q], gate'[request'[q].g])
    BY DEF Generations
  <2>1. CASE q = r
    <3>1. m.pc \in {"probe", "perform"} => m.generation \in Nat /\ m.g = g
      BY IdleFacts DEF RequestRecords, g
    <3>2. m.pc \in {"probe", "perform"} => m.generation <= x.generation
      BY <3>1
    <3> QED BY <1>3, <2>1, <3>1, <3>2 DEF OfGeneration
  <2>2. CASE q # r
    <3> SUFFICES ASSUME request[q].pc \in {"probe", "perform"} PROVE OfGeneration(request[q], gate'[request[q].g])
      BY <1>3, <2>2 DEF OfGeneration
    <3>1. OfGeneration(request[q], gate[request[q].g])
      BY <1>1 DEF Generations
    <3>2. CASE request[q].g = g
      <4>1. /\ request[q].generation \in Nat /\ gate[g].generation \in Nat
            /\ request[q].generation <= gate[g].generation
            /\ gate[g].paused => request[q].generation # gate[g].generation
        BY <1>1, <1>2, <3>1, <3>2 DEF RequestRecords, GateRecords, OfGeneration
      <4>2. request[q].generation <= x.generation /\ (x.paused => request[q].generation # x.generation)
        BY <4>1 DEF g
      <4> QED BY <1>3, <3>2, <4>2 DEF OfGeneration
    <3>3. CASE request[q].g # g
      BY <1>6, <3>1, <3>3
    <3> QED BY <3>2, <3>3
  <2> QED BY <2>1, <2>2
<1>9. Paused'
  <2> SUFFICES ASSUME NEW l \in down'
               PROVE  \E i \in 1..Len(states) : states[i][1] = l /\ gate'[states[i][2]].paused
    BY DEF Paused
  <2>1. l \in Providers
    BY <1>1, <1>2
  <2>2. PICK h \in Gates : Entry(states, l, h) /\ gate'[h].paused
    <3>1. CASE l \in down
      <4>1. PICK h \in Gates : Entry(states, l, h) /\ gate[h].paused
        BY <1>1, <2>1, <3>1, DownEntry DEF Paused
      <4> QED BY <1>3, <4>1 DEF g
    <3>2. CASE l \notin down
      <4>1. l = request[r].key /\ x.paused
        BY <3>2
      <4> QED BY <1>2, <1>3, <4>1
    <3> QED BY <3>1, <3>2
  <2>3. PICK i \in 1..Len(states) : states[i] = <<l, h>>
    BY <2>2 DEF Entry
  <2>4. states[i][1] = l /\ gate'[states[i][2]].paused
    BY <2>2, <2>3
  <2> QED BY <2>4
<1> QED BY <1>4, <1>5, <1>7, <1>8, <1>9 DEF ProviderInv

(* A request comes in.                                                     *)
LEMMA NextRun ==
    ASSUME ProviderInv, NEW r \in Requests, NEW k \in Providers, Run(r, k)
    PROVE  ProviderInv'
<1> DEFINE found == Lookup(k)
           g == found.g
           state == IF found.new THEN NewGate ELSE gate[g]
           busy == Cardinality(Performing) >= MaxActive
<1>1. /\ request[r] = NoRequest /\ (Cached(k) # {} \/ Len(states) < MaxStates \/ Victims # {})
      /\ states' = found.states /\ down' = down \ found.evicted
  BY DEF Run
<1>2. g \in Gates /\ found.new \in BOOLEAN
  BY <1>1, LookupFacts
<1>3. /\ gate = [h \in Gates |-> gate[h]] /\ gate[g] \in GateRecords(gate[g].queue)
      /\ request \in [Requests -> RequestRecords]
  BY <1>2 DEF ProviderInv, GatesType
<1>4. /\ state \in GateRecords(state.queue)
      /\ found.new => ~state.locked /\ ~state.paused /\ ~state.healthy /\ state.queue = <<>>
      /\ ~found.new => state = gate[g]
  BY <1>2, <1>3, IdleFacts
<1>5. request = [request EXCEPT ![r] = NoRequest] /\ gate = [gate EXCEPT ![g] = gate[g]]
  BY <1>1, <1>2, <1>3
<1>6. ASSUME NEW pc \in {"probe", "perform"}
      PROVE  LET m == [pc |-> pc, key |-> k, g |-> g, generation |-> state.generation]
             IN  /\ m \in RequestRecords /\ m.pc = pc /\ m.key = k /\ m.g = g /\ m.generation = state.generation
  BY <1>2, <1>4 DEF RequestRecords, GateRecords
<1>7. CASE UNCHANGED <<gate, request>> /\ ~found.new
  BY <1>1, <1>2, <1>3, <1>5, <1>7, IdleFacts, RunKeeps
<1>8. CASE ~state.paused /\ state.healthy /\ Perform(r, k, g, state, "perform") /\ gate' = [gate EXCEPT ![g] = state]
  <2>0. ~found.new /\ state = gate[g]
    BY <1>2, <1>4, <1>8
  <2>1. CASE request' = [request EXCEPT ![r] = NoRequest]
    BY <1>1, <1>2, <1>3, <1>8, <2>0, <2>1, IdleFacts, RunKeeps
  <2> DEFINE m == [pc |-> "perform", key |-> k, g |-> g, generation |-> state.generation]
  <2>2. CASE request' = [request EXCEPT ![r] = m]
    <3>1. m \in RequestRecords /\ m.pc = "perform" /\ m.key = k /\ m.g = g /\ m.generation = state.generation
      BY <1>6
    <3> HIDE DEF m, state
    <3> QED BY <1>1, <1>2, <1>3, <1>4, <1>8, <2>0, <2>2, <3>1, RunKeeps
  <2> QED BY <1>8, <2>1, <2>2 DEF Perform
<1>9. CASE /\ state.locked \/ state.queue # <<>>
           /\ ~state.paused
           /\ gate' = [gate EXCEPT ![g].queue = Append(@, r)]
           /\ request' = [request EXCEPT ![r] = [NoRequest EXCEPT !.pc = "wait", !.key = k, !.g = g]]
  <2>0. ~found.new /\ state = gate[g]
    BY <1>2, <1>4, <1>9
  <2> DEFINE m == [NoRequest EXCEPT !.pc = "wait", !.key = k, !.g = g]
             x == [gate[g] EXCEPT !.queue = Append(@, r)]
  <2>1. m \in RequestRecords /\ m.pc = "wait" /\ m.key = k /\ m.g = g
    BY <1>2 DEF NoRequest, RequestRecords
  <2>2. /\ x \in GateRecords(x.queue) /\ x.locked = gate[g].locked /\ x.paused = gate[g].paused
        /\ x.generation = gate[g].generation
    BY <1>3 DEF GateRecords
  <2>3. gate' = [gate EXCEPT ![g] = x] /\ request' = [request EXCEPT ![r] = m]
    BY <1>9
  <2> HIDE DEF m, x, state
  <2> QED BY <1>1, <1>2, <2>0, <2>1, <2>2, <2>3, RunKeeps
<1>10. CASE /\ ~state.paused /\ ~state.locked
            /\ gate' = [gate EXCEPT ![g] = [state EXCEPT !.locked = ~busy]]
            /\ Perform(r, k, g, state, "probe")
  <2> DEFINE x == [state EXCEPT !.locked = ~busy]
  <2>1. /\ x \in GateRecords(x.queue) /\ x.locked = ~busy /\ x.paused = state.paused
        /\ x.generation = state.generation
    BY <1>4 DEF GateRecords
  <2>2. gate' = [gate EXCEPT ![g] = x]
    BY <1>10
  <2>3. /\ found.new \/ ~gate[g].locked
        /\ ~found.new => (gate[g].locked => x.locked) /\ x.paused = gate[g].paused
                         /\ x.generation = gate[g].generation
        /\ ~x.paused
    BY <1>4, <1>10, <2>1
  <2> HIDE DEF x, state, busy
  <2>4. CASE busy
    <3>1. request' = [request EXCEPT ![r] = NoRequest]
      BY <1>10, <2>4 DEF Perform, busy
    <3> QED BY <1>1, <1>2, <2>1, <2>2, <2>3, <3>1, IdleFacts, RunKeeps
  <2>5. CASE ~busy
    <3> DEFINE m == [pc |-> "probe", key |-> k, g |-> g, generation |-> state.generation]
    <3>1. m \in RequestRecords /\ m.pc = "probe" /\ m.key = k /\ m.g = g /\ m.generation = state.generation
      BY <1>6
    <3>2. request' = [request EXCEPT ![r] = m]
      BY <1>10, <2>5 DEF Perform, busy
    <3> HIDE DEF m
    <3> QED BY <1>1, <1>2, <2>1, <2>2, <2>3, <2>5, <3>1, <3>2, RunKeeps
  <2> QED BY <2>4, <2>5
<1> QED BY <1>2, <1>4, <1>7, <1>8, <1>9, <1>10 DEF Run

(* What a gate is once a request has ended its probe.                      *)
LEMMA ReleasedFacts ==
    ASSUME NEW state, NEW q, state \in GateRecords(q), NEW r
    PROVE  /\ Released(state, r) \in GateRecords(q) /\ Released(state, r).paused = state.paused
           /\ Released(state, r).generation = state.generation
           /\ Released(state, r).locked = IF request[r].pc = "probe" THEN FALSE ELSE state.locked
BY DEF Released, GateRecords

(* A request that waits is let through, gives up, or ends.                 *)
LEMMA NextRequest ==
    ASSUME ProviderInv, NEW r \in Requests,
           Acquired(r) \/ WaitTimedOut(r) \/ Failed(r) \/ Succeeded(r) \/ Rejected(r)
    PROVE  ProviderInv'
<1> DEFINE me == request[r]
           g == me.g
           state == gate[g]
<1>1. me # NoRequest
  BY IdleFacts DEF Acquired, WaitTimedOut, Failed, Succeeded, Rejected, Performing
<1>2. /\ gate = [h \in Gates |-> gate[h]] /\ me.key \in Providers /\ g \in Gates /\ me.pc # "idle"
      /\ state \in GateRecords(state.queue) /\ request \in [Requests -> RequestRecords] /\ me \in RequestRecords
  BY <1>1 DEF ProviderInv, GatesType, CacheHolds, ThroughGate
<1>3. /\ state.locked \in BOOLEAN /\ state.paused \in BOOLEAN /\ state.healthy \in BOOLEAN /\ state.generation \in Nat
  BY <1>2 DEF GateRecords
<1>4. CASE Acquired(r)
  <2> DEFINE busy == Cardinality(Performing) >= MaxActive
             probing == ~state.paused /\ ~state.healthy /\ ~busy
             x == [state EXCEPT !.queue = Tail(@), !.locked = probing]
  <2>1. /\ x \in GateRecords(x.queue) /\ x.locked = probing /\ x.paused = state.paused
        /\ x.generation = state.generation
    BY <1>2 DEF GateRecords
  <2>2. /\ gate' = [gate EXCEPT ![g] = x] /\ me.pc = "wait" /\ ~state.locked /\ states' = states /\ down' = down
        /\ IF state.paused THEN request' = [request EXCEPT ![r] = NoRequest]
           ELSE Perform(r, me.key, me.g, state, IF state.healthy THEN "perform" ELSE "probe")
    BY <1>2, <1>4 DEF Acquired
  <2> HIDE DEF x
  <2>3. CASE request' = [request EXCEPT ![r] = NoRequest]
    BY <1>1, <1>2, <2>1, <2>2, <2>3, IdleFacts, RequestKeeps
  <2> DEFINE pc == IF state.healthy THEN "perform" ELSE "probe"
             m == [pc |-> pc, key |-> me.key, g |-> g, generation |-> state.generation]
  <2>4. CASE ~state.paused /\ ~busy /\ request' = [request EXCEPT ![r] = m]
    <3>1. /\ m \in RequestRecords /\ m.pc = pc /\ m.key = me.key /\ m.g = g /\ m.generation = state.generation
          /\ m.pc = "probe" => x.locked
      BY <1>2, <1>3, <2>1, <2>4 DEF RequestRecords
    <3> HIDE DEF m
    <3> QED BY <1>1, <1>2, <2>1, <2>2, <2>4, <3>1, RequestKeeps
  <2> QED BY <2>2, <2>3, <2>4 DEF Perform
<1>5. CASE WaitTimedOut(r)
  <2> DEFINE x == [state EXCEPT !.queue = SelectSeq(@, LAMBDA q : q # r)]
  <2>1. /\ x \in GateRecords(x.queue) /\ x.locked = state.locked /\ x.paused = state.paused
        /\ x.generation = state.generation
    BY <1>2 DEF GateRecords
  <2>2. /\ gate' = [gate EXCEPT ![g] = x] /\ states' = states /\ down' = down
        /\ request' = [request EXCEPT ![r] = NoRequest]
    BY <1>5 DEF WaitTimedOut
  <2> HIDE DEF x
  <2> QED BY <1>1, <1>2, <2>1, <2>2, IdleFacts, RequestKeeps
<1> DEFINE y == Released(state, r)
<1>6. /\ y \in GateRecords(state.queue) /\ y.paused = state.paused /\ y.generation = state.generation
      /\ y.locked = IF me.pc = "probe" THEN FALSE ELSE state.locked
  BY <1>2, ReleasedFacts
<1>7. CASE Failed(r)
  <2> DEFINE n == state.generation + 1
             x == [y EXCEPT !.generation = n, !.healthy = FALSE, !.paused = TRUE]
  <2>1. /\ gate' = [gate EXCEPT ![g] = x] /\ states' = states /\ down' = down \cup {me.key}
        /\ request' = [request EXCEPT ![r] = NoRequest]
    BY <1>7 DEF Failed
  <2>2. n \in Nat
    BY <1>3
  <2> HIDE DEF y, n
  <2>3. /\ x \in GateRecords(x.queue) /\ x.locked = y.locked /\ x.paused
        /\ x.generation = n
    BY <1>3, <1>6, <2>2 DEF GateRecords
  <2> HIDE DEF x
  <2> QED BY <1>1, <1>2, <1>6, <2>1, <2>3, IdleFacts, RequestKeeps DEF n
<1>8. CASE Succeeded(r)
  <2> DEFINE current == me.generation = state.generation
             x == IF current THEN [y EXCEPT !.paused = FALSE, !.healthy = TRUE] ELSE y
  <2>1. /\ gate' = [gate EXCEPT ![g] = x] /\ states' = states /\ down' = down
        /\ request' = [request EXCEPT ![r] = NoRequest] /\ me.pc \in {"probe", "perform"}
    BY <1>8 DEF Succeeded, Performing
  <2>2. current => ~state.paused
    BY <2>1 DEF ProviderInv, Generations, OfGeneration
  <2> HIDE DEF y
  <2>3. /\ x \in GateRecords(x.queue) /\ x.locked = y.locked /\ x.paused = state.paused
        /\ x.generation = state.generation
    BY <1>3, <1>6, <2>2 DEF GateRecords
  <2> HIDE DEF x
  <2> QED BY <1>1, <1>2, <1>6, <2>1, <2>3, IdleFacts, RequestKeeps
<1>9. CASE Rejected(r)
  <2>1. /\ gate' = [gate EXCEPT ![g] = y] /\ states' = states /\ down' = down
        /\ request' = [request EXCEPT ![r] = NoRequest]
    BY <1>9 DEF Rejected
  <2> HIDE DEF y
  <2>2. y \in GateRecords(y.queue)
    BY <1>6 DEF GateRecords
  <2> QED BY <1>1, <1>2, <1>6, <2>1, <2>2, IdleFacts, RequestKeeps
<1> QED BY <1>4, <1>5, <1>7, <1>8, <1>9

(* Evidence runs out.                                                      *)
LEMMA NextExpires ==
    ASSUME ProviderInv, NEW g \in Gates, EvidenceExpires(g)
    PROVE  ProviderInv'
<1> DEFINE x == [gate[g] EXCEPT !.healthy = FALSE, !.paused = FALSE]
<1>1. /\ gate = [h \in Gates |-> gate[h]] /\ \A h \in Gates : gate[h] \in GateRecords(gate[h].queue)
      /\ request \in [Requests -> RequestRecords] /\ down \subseteq Providers
      /\ ProbesLocked /\ Generations /\ Paused /\ IsCache(states)
      /\ \A q \in Requests : ThroughGate(request[q], states)
  BY DEF ProviderInv, GatesType, CacheHolds
<1>2. /\ x \in GateRecords(x.queue) /\ x.locked = gate[g].locked /\ ~x.paused /\ x.generation = gate[g].generation
  BY <1>1 DEF GateRecords
<1>3. /\ gate' = [gate EXCEPT ![g] = x] /\ UNCHANGED <<states, request>> /\ down' \subseteq down
      /\ \A i \in 1..Len(states) : gate[g].paused /\ states[i][2] = g => states[i][1] \notin down'
  <2>1. DOMAIN states = 1..Len(states)
    BY <1>1 DEF IsCache
  <2>2. /\ gate' = [gate EXCEPT ![g] = x] /\ UNCHANGED <<states, request>>
        /\ down' = IF gate[g].paused
                   THEN down \ {states[i][1] : i \in {j \in 1..Len(states) : states[j][2] = g}} ELSE down
    BY <2>1 DEF EvidenceExpires
  <2> QED BY <2>2
<1> HIDE DEF x
<1>4. gate'[g] = x /\ \A h \in Gates \ {g} : gate'[h] = gate[h]
  BY <1>1, <1>3
<1>5. GatesType'
  <2>1. gate' = [h \in Gates |-> gate'[h]]
    BY <1>1, <1>3
  <2> QED BY <1>1, <1>2, <1>3, <1>4, <2>1 DEF GatesType
<1>6. CacheHolds'
  BY <1>1, <1>3 DEF CacheHolds
<1>7. ASSUME NEW q \in Requests, request[q].pc # "idle" PROVE request[q].g \in Gates
  BY <1>1, <1>7, IdleFacts DEF ThroughGate
<1>8. ProbesLocked'
  BY <1>1, <1>2, <1>3, <1>4, <1>7 DEF ProbesLocked
<1>9. Generations'
  BY <1>1, <1>2, <1>3, <1>4, <1>7 DEF Generations, OfGeneration
<1>10. Paused'
  <2>1. ASSUME NEW k \in down'
        PROVE \E i \in 1..Len(states) : states[i][1] = k /\ gate'[states[i][2]].paused
    <3>1. PICK i \in 1..Len(states) : states[i][1] = k /\ gate[states[i][2]].paused
      BY <1>1, <1>3, <2>1 DEF Paused
    <3>2. states[i][2] \in Gates
      BY <1>1, <3>1 DEF IsCache
    <3>3. states[i][2] # g
      BY <1>3, <2>1, <3>1
    <3>4. gate'[states[i][2]] = gate[states[i][2]]
      BY <1>4, <3>2, <3>3
    <3> QED BY <3>1, <3>4
  <2>2. states' = states
    BY <1>3
  <2> QED BY <2>1, <2>2 DEF Paused
<1> QED BY <1>5, <1>6, <1>8, <1>9, <1>10 DEF ProviderInv

(* Every step keeps the invariant.                                         *)
LEMMA NextProvider == ProviderInv /\ [ProviderNext]_providerVars => ProviderInv'
<1> SUFFICES ASSUME ProviderInv, [ProviderNext]_providerVars PROVE ProviderInv'
  OBVIOUS
<1>1. CASE UNCHANGED providerVars
  BY <1>1 DEF providerVars, ProviderInv, GatesType, CacheHolds, ProbesLocked, Generations, Paused
<1> QED BY <1>1, NextRun, NextRequest, NextExpires DEF ProviderNext

(* An unknown provider is probed by one request at a time, through the one *)
(* gate _state has cached for it, whatever that evicts; and an outage, once*)
(* run has seen it, lasts until its time is over.                          *)
THEOREM ProbingIsSound == ProviderSpec => []ProbingSound
<1>1. ASSUME ProviderInv PROVE ProbingSound
  <2>1. /\ IsCache(states) /\ DOMAIN states = 1..Len(states) /\ ProbesLocked /\ Paused
        /\ \A r \in Requests : ThroughGate(request[r], states)
        /\ \A r \in Requests : request[r].pc \in {"idle", "wait", "probe", "perform"}
        /\ down \subseteq Providers
    BY <1>1 DEF ProviderInv, CacheHolds, IsCache, GatesType, RequestRecords
  <2>2. ASSUME NEW r \in Requests, request[r].key # Nothing PROVE Entry(states, request[r].key, request[r].g)
    BY <2>1, <2>2, IdleFacts DEF ThroughGate
  <2>3. ASSUME NEW q \in Requests, NEW r \in Requests, q # r, request[q].key = request[r].key,
               request[r].key # Nothing
        PROVE  request[q].g = request[r].g /\ {request[q].pc, request[r].pc} # {"probe"}
    <3>1. request[q].g = request[r].g
      BY <2>1, <2>2, <2>3, SameEntry
    <3>2. ~(request[q].pc = "probe" /\ request[r].pc = "probe")
      BY <2>1, <2>3, <3>1 DEF ProbesLocked
    <3> QED BY <3>1, <3>2
  <2>4. OneProbe
    BY <2>1, <2>2, <2>3 DEF OneProbe, Entry
  <2>5. ASSUME NEW k \in down PROVE Describe(k) = "unavailable"
    <3>1. PICK i \in 1..Len(states) : states[i][1] = k /\ gate[states[i][2]].paused
      BY <2>1 DEF Paused
    <3>2. Cached(k) = {i}
      BY <2>1, <3>1 DEF Cached, IsCache
    <3>3. (CHOOSE j \in Cached(k) : TRUE) = i
      BY <3>2
    <3> QED BY <3>1, <3>2, <3>3 DEF Describe
  <2> QED BY <2>4, <2>5 DEF ProbingSound, OutageHolds
<1> QED BY <1>1, InitProvider, NextProvider, PTL DEF ProviderSpec

-----------------------------------------------------------------------------
(* Reliability: the alerts of the service level goals.                     *)

(* The webhook calls, and what the goal's row and the mails hold.          *)
HookRecords ==
    [pc : {"idle", "settings", "lock", "send", "commit"}, alerts : Seq(Alerts), done : SUBSET Alerts,
     mailOn : BOOLEAN, sent : BOOLEAN]
AlertTypes ==
    /\ hook \in [Hooks -> HookRecords] /\ mailOn \in BOOLEAN
    /\ alertMails \in Seq(Alerts)
    /\ receipts \in Seq(Episodes \X SUBSET AlertStatuses)

(* A mail about the alert, or about the end of its episode, has gone.      *)
AlertMailed(a) == a \in Range(alertMails) \/ <<a[1], "resolved">> \in Range(alertMails)

(* The row is locked by the one call that is sending or committing.        *)
RowLocked == \A h \in Hooks : hook[h].pc \in {"send", "commit"} <=> rowLock = h

(* What a call knows of its alerts: none is a duplicate when it is sent,   *)
(* for nobody else writes receipts under the lock.                         *)
HookFits(h) ==
    /\ hook[h].pc # "idle" => hook[h].alerts # <<>>
    /\ hook[h].sent => hook[h].pc = "commit" /\ Head(hook[h].alerts) \in Range(alertMails)
    /\ hook[h].pc = "send" => ~Duplicate(Head(hook[h].alerts))
    /\ \A a \in hook[h].done : AlertMailed(a)

(* An episode has one entry, and its receipts stand for mails.             *)
ReceiptsHonest ==
    /\ \A i, j \in DOMAIN receipts : receipts[i][1] = receipts[j][1] => i = j
    /\ \A i \in DOMAIN receipts : \A st \in receipts[i][2] : <<receipts[i][1], st>> \in Range(alertMails)

(* The list of receipts holds one for a status of an episode.              *)
Receipted(list, e, st) == \E i \in DOMAIN list : list[i][1] = e /\ st \in list[i][2]

(* A mail has its receipt, or the call that sent it still holds the row.   *)
MailsCovered ==
    \A i \in DOMAIN alertMails :
        \/ alertMails[i][1] \in unsure
        \/ Receipted(receipts, alertMails[i][1], alertMails[i][2])
        \/ \E h \in Hooks : hook[h].sent /\ Head(hook[h].alerts) = alertMails[i]

AlertInv ==
    /\ AlertTypes /\ RowLocked /\ ReceiptsHonest /\ MailsCovered /\ AlertsSound
    /\ \A h \in Hooks : HookFits(h)

(* A call outside its transaction.                                         *)
CalmHook(rec) ==
    /\ rec \in HookRecords /\ rec.pc \in {"idle", "settings", "lock"} /\ ~rec.sent
    /\ rec.pc # "idle" => rec.alerts # <<>>
    /\ \A a \in rec.done : AlertMailed(a)

(* The first alert of a call is an alert.                                  *)
LEMMA FirstAlert ==
    ASSUME NEW alerts \in Seq(Alerts), alerts # <<>>
    PROVE  /\ Head(alerts) \in Alerts /\ Tail(alerts) \in Seq(Alerts)
           /\ Head(alerts)[1] \in Episodes /\ Head(alerts)[2] \in AlertStatuses
           /\ Head(alerts) = <<Head(alerts)[1], Head(alerts)[2]>>
<1>1. Head(alerts) \in Alerts /\ Tail(alerts) \in Seq(Alerts)
  OBVIOUS
<1> QED BY <1>1 DEF Alerts

(* NoHook is a call outside its transaction.                               *)
LEMMA IdleHook == CalmHook(NoHook)
BY DEF CalmHook, NoHook, HookRecords

(* The invariant holds before the goal exists.                             *)
LEMMA InitAlerts == ReliabilityInit => AlertInv
<1> SUFFICES ASSUME ReliabilityInit PROVE AlertInv
  OBVIOUS
<1>1. AlertTypes
  BY DEF ReliabilityInit, AlertTypes, NoHook, HookRecords
<1>2. RowLocked /\ \A h \in Hooks : HookFits(h)
  BY ReliabilityAssumption DEF ReliabilityInit, RowLocked, HookFits, NoHook
<1>3. ReceiptsHonest /\ MailsCovered /\ AlertsSound
  BY DEF ReliabilityInit, ReceiptsHonest, MailsCovered, AlertsSound, AlertMailedOnce, AnsweredIsMailed
<1> QED BY <1>1, <1>2, <1>3 DEF AlertInv

(* A duplicate was mailed, or the end of its episode was.                  *)
LEMMA DuplicateMailed ==
    ASSUME ReceiptsHonest, NEW a \in Alerts, Duplicate(a)
    PROVE  AlertMailed(a)
<1>1. PICK st \in AlertStatuses \cup {a[2]} : st \in ReceiptOf(a[1]) /\ st \in {a[2], "resolved"}
  BY DEF Duplicate, AlertStatuses
<1>2. PICK i \in DOMAIN receipts : receipts[i][1] = a[1] /\ st \in receipts[i][2]
  BY <1>1 DEF ReceiptOf
<1>3. <<a[1], st>> \in Range(alertMails)
  BY <1>2 DEF ReceiptsHonest
<1>4. a = <<a[1], a[2]>>
  BY DEF Alerts
<1> QED BY <1>1, <1>3, <1>4 DEF AlertMailed

(* A step of a call outside its transaction, or one that only reads.       *)
LEMMA CalmKeeps ==
    ASSUME AlertInv, NEW h \in Hooks, NEW rec, CalmHook(rec), ~(hook[h].pc \in {"send", "commit"}),
           hook' = [hook EXCEPT ![h] = rec], UNCHANGED <<receipts, rowLock, alertMails, unsure>>,
           mailOn' \in BOOLEAN, \A a \in answered' : AlertMailed(a)
    PROVE  AlertInv'
<1>0. AlertTypes /\ hook \in [Hooks -> HookRecords] /\ rec \in HookRecords
  BY DEF AlertInv, AlertTypes, CalmHook
<1>1. hook' \in [Hooks -> HookRecords] /\ hook'[h] = rec /\ \A k \in Hooks \ {h} : hook'[k] = hook[k]
  BY <1>0
<1>2. AlertTypes'
  BY <1>0, <1>1 DEF AlertTypes
<1>3. RowLocked'
  BY <1>1 DEF AlertInv, RowLocked, CalmHook
<1>4. \A k \in Hooks : HookFits(k)'
  BY <1>1 DEF AlertInv, HookFits, CalmHook, AlertMailed, Duplicate, ReceiptOf
<1>5. ReceiptsHonest'
  BY DEF AlertInv, ReceiptsHonest
<1>6. ~hook[h].sent
  BY DEF AlertInv, HookFits
<1>7. MailsCovered'
  BY <1>1, <1>6 DEF AlertInv, MailsCovered
<1>8. AlertsSound'
  BY DEF AlertInv, AlertsSound, AlertMailedOnce, AnsweredIsMailed, AlertMailed
<1> QED BY <1>2, <1>3, <1>4, <1>5, <1>7, <1>8 DEF AlertInv

(* The call takes its next alert or answers; what it answers was mailed.   *)
LEMMA DeliveredCalm ==
    ASSUME AlertInv, NEW h \in Hooks, hook[h].pc # "idle", AlertMailed(Head(hook[h].alerts)), Delivered(h)
    PROVE  /\ \E rec : CalmHook(rec) /\ hook' = [hook EXCEPT ![h] = rec]
           /\ \A a \in answered' : AlertMailed(a)
<1> DEFINE me == hook[h]
<1> DEFINE finished == me.done \cup {Head(me.alerts)}
<1>1. me \in HookRecords /\ me.alerts # <<>> /\ \A a \in me.done : AlertMailed(a)
  BY DEF AlertInv, AlertTypes, HookFits
<1>2. me.alerts \in Seq(Alerts) /\ me.done \in SUBSET Alerts
  BY <1>1 DEF HookRecords
<1>3. Head(me.alerts) \in Alerts /\ Tail(me.alerts) \in Seq(Alerts)
  BY <1>1, <1>2
<1>4. finished \in SUBSET Alerts /\ \A a \in finished : AlertMailed(a)
  BY <1>1, <1>2, <1>3
<1>5. \A a \in answered : AlertMailed(a)
  BY DEF AlertInv, AlertsSound, AnsweredIsMailed, AlertMailed
<1> HIDE DEF me
<1>6. CASE Tail(me.alerts) = <<>>
  BY <1>4, <1>5, <1>6, IdleHook DEF Delivered, HookTo, me
<1>7. CASE Tail(me.alerts) # <<>>
  <2> DEFINE rec == [NoHook EXCEPT !.pc = "settings", !.alerts = Tail(me.alerts), !.done = finished]
  <2>1. /\ rec \in HookRecords /\ rec.pc = "settings" /\ rec.sent = FALSE
        /\ rec.alerts = Tail(me.alerts) /\ rec.done = finished
    BY <1>3, <1>4 DEF HookRecords, NoHook
  <2>2. CalmHook(rec)
    BY <1>4, <1>7, <2>1 DEF CalmHook
  <2>3. hook' = [hook EXCEPT ![h] = rec] /\ answered' = answered
    BY <1>7 DEF Delivered, HookTo, me
  <2> QED BY <1>5, <2>2, <2>3
<1> QED BY <1>6, <1>7

(* A status has a receipt exactly if an entry of its episode holds it.     *)
LEMMA ReceiptOfEntry ==
    \A e, st : st \in ReceiptOf(e) <=> Receipted(receipts, e, st)
BY DEF ReceiptOf, Receipted

(* The row is locked for a mail, or the call is over with the alert.       *)
LEMMA LockRowKeeps ==
    ASSUME AlertInv, NEW h \in Hooks, LockRow(h)
    PROVE  AlertInv'
<1> DEFINE me == hook[h]
<1>0. /\ AlertTypes /\ me \in HookRecords /\ me.pc = "lock" /\ me.alerts # <<>> /\ me.alerts \in Seq(Alerts)
      /\ rowLock = Nothing /\ UNCHANGED <<receipts, alertMails, unsure, mailOn>> /\ mailOn \in BOOLEAN
      /\ \A a \in answered : AlertMailed(a)
  BY DEF LockRow, AlertInv, AlertTypes, HookFits, HookRecords, AlertsSound, AnsweredIsMailed, AlertMailed
<1>1. \/ HookTo(h, NoHook) /\ UNCHANGED <<answered, rowLock>>
      \/ Duplicate(Head(me.alerts)) /\ Delivered(h) /\ UNCHANGED rowLock
      \/ /\ ~Duplicate(Head(me.alerts)) /\ rowLock' = h /\ HookTo(h, [me EXCEPT !.pc = "send"])
         /\ UNCHANGED answered
  BY DEF LockRow, Fails, Disabled
<1>2. CASE HookTo(h, NoHook) /\ UNCHANGED <<answered, rowLock>>
  <2>1. hook' = [hook EXCEPT ![h] = NoHook] /\ \A a \in answered' : AlertMailed(a)
    BY <1>0, <1>2 DEF HookTo
  <2> QED BY <1>0, <1>2, <2>1, IdleHook, CalmKeeps
<1>3. CASE Duplicate(Head(me.alerts)) /\ Delivered(h) /\ UNCHANGED rowLock
  <2>1. AlertMailed(Head(me.alerts))
    BY <1>0, <1>3, FirstAlert, DuplicateMailed DEF AlertInv
  <2>2. /\ \E rec : CalmHook(rec) /\ hook' = [hook EXCEPT ![h] = rec]
        /\ \A a \in answered' : AlertMailed(a)
    BY <1>0, <1>3, <2>1, DeliveredCalm
  <2>3. PICK rec : CalmHook(rec) /\ hook' = [hook EXCEPT ![h] = rec]
    BY <2>2
  <2>4. ~(hook[h].pc \in {"send", "commit"})
    BY <1>0
  <2> QED BY <1>0, <1>3, <2>2, <2>3, <2>4, CalmKeeps
<1>4. CASE /\ ~Duplicate(Head(me.alerts)) /\ rowLock' = h /\ HookTo(h, [me EXCEPT !.pc = "send"])
           /\ UNCHANGED answered
  <2> DEFINE rec == [me EXCEPT !.pc = "send"]
  <2>1. /\ rec \in HookRecords /\ rec.pc = "send" /\ rec.alerts = me.alerts /\ rec.done = me.done
        /\ rec.sent = me.sent
    BY <1>0 DEF HookRecords
  <2>2. hook \in [Hooks -> HookRecords] /\ hook' = [hook EXCEPT ![h] = rec]
    BY <1>0, <1>4 DEF AlertTypes, HookTo
  <2> HIDE DEF rec
  <2>3. hook' \in [Hooks -> HookRecords] /\ hook'[h] = rec /\ \A k \in Hooks \ {h} : hook'[k] = hook[k]
    BY <2>1, <2>2
  <2>4. AlertTypes'
    BY <1>0, <2>3 DEF AlertTypes
  <2>5. RowLocked'
    BY <1>0, <1>4, <2>1, <2>3, ReliabilityAssumption DEF AlertInv, RowLocked
  <2>6. \A k \in Hooks : HookFits(k)'
    BY <1>0, <1>4, <2>1, <2>3 DEF AlertInv, HookFits, AlertMailed, Duplicate, ReceiptOf
  <2>7. ReceiptsHonest' /\ MailsCovered'
    BY <1>0, <2>1, <2>3 DEF AlertInv, ReceiptsHonest, MailsCovered
  <2>8. AlertsSound'
    BY <1>0, <1>4 DEF AlertInv, AlertsSound, AlertMailedOnce, AnsweredIsMailed
  <2> QED BY <2>4, <2>5, <2>6, <2>7, <2>8 DEF AlertInv
<1> QED BY <1>1, <1>2, <1>3, <1>4

(* A mail at the end of those that have gone.                              *)
LEMMA OneMoreMail ==
    ASSUME NEW sent \in Seq(Alerts), NEW a \in Alerts
    PROVE  /\ Append(sent, a) \in Seq(Alerts) /\ Range(Append(sent, a)) = Range(sent) \cup {a}
           /\ Len(sent) \in Nat /\ DOMAIN sent = 1..Len(sent) /\ DOMAIN Append(sent, a) = 1..(Len(sent) + 1)
           /\ Append(sent, a)[Len(sent) + 1] = a /\ \A i \in DOMAIN sent : Append(sent, a)[i] = sent[i]
<1>1. /\ Append(sent, a) \in Seq(Alerts) /\ Len(sent) \in Nat /\ Len(Append(sent, a)) = Len(sent) + 1
      /\ DOMAIN sent = 1..Len(sent) /\ DOMAIN Append(sent, a) = 1..(Len(sent) + 1)
      /\ Append(sent, a)[Len(sent) + 1] = a /\ \A i \in 1..Len(sent) : Append(sent, a)[i] = sent[i]
  OBVIOUS
<1>2. Range(Append(sent, a)) = Range(sent) \cup {a}
  BY <1>1 DEF Range
<1> QED BY <1>1, <1>2

(* The mail is sent, refused, or sent with the answer lost.                *)
LEMMA SendAlertKeeps ==
    ASSUME AlertInv, NEW h \in Hooks, NEW taken \in BOOLEAN, NEW known \in BOOLEAN, SendAlert(h, taken, known)
    PROVE  AlertInv'
<1> DEFINE me == hook[h]
<1> DEFINE a == Head(me.alerts)
<1> DEFINE rec == [me EXCEPT !.pc = "commit", !.sent = known]
<1>0. /\ AlertTypes /\ me \in HookRecords /\ me.pc = "send" /\ me.alerts # <<>> /\ me.alerts \in Seq(Alerts)
      /\ UNCHANGED <<receipts, rowLock, answered, mailOn>> /\ ~me.sent /\ ~Duplicate(a)
      /\ \A b \in me.done : AlertMailed(b)
      /\ hook' = [hook EXCEPT ![h] = rec] /\ hook \in [Hooks -> HookRecords] /\ alertMails \in Seq(Alerts)
  BY DEF SendAlert, HookTo, AlertInv, AlertTypes, HookFits, HookRecords
<1>1. a \in Alerts /\ a[1] \in Episodes /\ a[2] \in AlertStatuses /\ a = <<a[1], a[2]>>
  BY <1>0, FirstAlert
<1>2. /\ rec \in HookRecords /\ rec.pc = "commit" /\ rec.alerts = me.alerts /\ rec.done = me.done
      /\ rec.sent = known
  BY <1>0 DEF HookRecords
<1> HIDE DEF rec
<1>3. hook' \in [Hooks -> HookRecords] /\ hook'[h] = rec /\ \A k \in Hooks \ {h} : hook'[k] = hook[k]
  BY <1>0, <1>2
<1>4. RowLocked'
  BY <1>0, <1>2, <1>3 DEF AlertInv, RowLocked
<1>5. \A k \in Hooks : ~hook[k].sent
  BY <1>0 DEF AlertInv, HookFits, RowLocked
<1>6. /\ Range(alertMails) \subseteq Range(alertMails') /\ alertMails' \in Seq(Alerts)
      /\ known => a \in Range(alertMails')
  <2>1. CASE taken
    BY <1>0, <1>1, <2>1, OneMoreMail DEF SendAlert
  <2>2. CASE ~taken
    BY <1>0, <2>2 DEF SendAlert
  <2> QED BY <2>1, <2>2
<1>7. AlertTypes'
  BY <1>0, <1>3, <1>6 DEF AlertTypes
<1>8. \A k \in Hooks : HookFits(k)'
  <2> SUFFICES ASSUME NEW k \in Hooks PROVE HookFits(k)'
    OBVIOUS
  <2>1. \A b : AlertMailed(b) => AlertMailed(b)'
    BY <1>6 DEF AlertMailed
  <2>2. CASE k = h
    BY <1>0, <1>2, <1>3, <1>6, <2>1, <2>2 DEF HookFits
  <2>3. CASE k # h
    BY <1>0, <1>3, <1>5, <2>1, <2>3 DEF AlertInv, HookFits, Duplicate, ReceiptOf
  <2> QED BY <2>2, <2>3
<1>9. ReceiptsHonest'
  BY <1>0, <1>6 DEF AlertInv, ReceiptsHonest
<1>10. AnsweredIsMailed'
  BY <1>0, <1>6 DEF AlertInv, AlertsSound, AnsweredIsMailed
<1>11. CASE ~taken
  <2>1. UNCHANGED <<alertMails, unsure>>
    BY <1>11 DEF SendAlert
  <2>2. MailsCovered'
    BY <1>0, <1>5, <2>1 DEF AlertInv, MailsCovered
  <2>3. AlertMailedOnce'
    BY <2>1 DEF AlertInv, AlertsSound, AlertMailedOnce
  <2> QED BY <1>4, <1>7, <1>8, <1>9, <1>10, <2>2, <2>3 DEF AlertInv, AlertsSound
<1>12. CASE taken
  <2> DEFINE n == Len(alertMails) + 1
  <2>1. alertMails' = Append(alertMails, a) /\ unsure \subseteq unsure' /\ (known \/ a[1] \in unsure')
    BY <1>12 DEF SendAlert
  <2>2. /\ DOMAIN alertMails = 1..Len(alertMails) /\ Len(alertMails) \in Nat /\ DOMAIN alertMails' = 1..n
        /\ alertMails'[n] = a /\ \A i \in DOMAIN alertMails : alertMails'[i] = alertMails[i]
    BY <1>0, <1>1, <2>1, OneMoreMail
  <2>3. \A i \in DOMAIN alertMails : \/ alertMails[i][1] \in unsure
                                 \/ Receipted(receipts, alertMails[i][1], alertMails[i][2])
    BY <1>5 DEF AlertInv, MailsCovered
  <2>4. MailsCovered'
    <3> SUFFICES ASSUME NEW i \in DOMAIN alertMails'
                 PROVE  \/ alertMails'[i][1] \in unsure'
                        \/ Receipted(receipts, alertMails'[i][1], alertMails'[i][2])
                        \/ \E k \in Hooks : hook'[k].sent /\ Head(hook'[k].alerts) = alertMails'[i]
      BY <1>0 DEF MailsCovered
    <3>1. CASE i = n
      BY <1>2, <1>3, <2>1, <2>2, <3>1
    <3>2. CASE i # n
      <4>1. i \in DOMAIN alertMails /\ alertMails'[i] = alertMails[i]
        BY <2>2, <3>2
      <4> QED BY <2>1, <2>3, <4>1
    <3> QED BY <3>1, <3>2
  <2>5. AlertMailedOnce'
    <3> SUFFICES ASSUME NEW i \in DOMAIN alertMails', NEW j \in DOMAIN alertMails', i < j,
                        alertMails'[i][1] = alertMails'[j][1], alertMails'[i][1] \notin unsure'
                 PROVE  alertMails'[i][2] = "firing" /\ alertMails'[j][2] = "resolved"
      BY DEF AlertMailedOnce
    <3>1. i \in DOMAIN alertMails /\ alertMails'[i] = alertMails[i] /\ alertMails[i][1] \notin unsure
      BY <2>1, <2>2
    <3>2. CASE j = n
      <4>1. alertMails[i][1] = a[1] /\ alertMails[i][2] \in ReceiptOf(a[1])
        BY <2>2, <2>3, <3>1, <3>2, ReceiptOfEntry
      <4>2. alertMails[i][2] # "resolved" /\ a[2] # alertMails[i][2]
        BY <1>0, <4>1 DEF Duplicate
      <4>3. alertMails[i][2] \in AlertStatuses
        <5>1. alertMails[i] \in Alerts
          BY <1>0, <2>2, <3>1
        <5> QED BY <5>1 DEF Alerts
      <4> QED BY <1>1, <2>2, <3>1, <3>2, <4>2, <4>3 DEF AlertStatuses
    <3>3. CASE j # n
      <4>1. j \in DOMAIN alertMails /\ alertMails'[j] = alertMails[j]
        BY <2>2, <3>3
      <4> QED BY <3>1, <4>1 DEF AlertInv, AlertsSound, AlertMailedOnce
    <3> QED BY <3>2, <3>3
  <2> QED BY <1>4, <1>7, <1>8, <1>9, <1>10, <2>4, <2>5 DEF AlertInv, AlertsSound
<1> QED BY <1>11, <1>12

(* The statuses with the receipt of an alert added: every entry is still   *)
(* there, and stands for mails, once that alert was mailed.                *)
IsReceipted(next, a) ==
    /\ next \in Seq(Episodes \X SUBSET AlertStatuses)
    /\ \A i, j \in DOMAIN next : next[i][1] = next[j][1] => i = j
    /\ \A i \in DOMAIN next : \A st \in next[i][2] : <<next[i][1], st>> \in Range(alertMails)
    /\ \A e, st : Receipted(receipts, e, st) \/ <<e, st>> = a => Receipted(next, e, st)

(* What Receipt returns.                                                   *)
LEMMA ReceiptAdds ==
    ASSUME AlertTypes, ReceiptsHonest, NEW a \in Alerts, a \in Range(alertMails)
    PROVE  IsReceipted(Receipt(a), a)
<1> DEFINE E == Episodes \X SUBSET AlertStatuses
<1>0. /\ a[1] \in Episodes /\ a[2] \in AlertStatuses /\ a = <<a[1], a[2]>>
      /\ receipts \in Seq(E) /\ Len(receipts) \in Nat /\ DOMAIN receipts = 1..Len(receipts)
  BY DEF Alerts, AlertTypes
<1>1. \A i \in DOMAIN receipts : /\ receipts[i] \in E /\ receipts[i][1] \in Episodes
                                 /\ receipts[i][2] \subseteq AlertStatuses
  BY <1>0
<1> HIDE DEF E
<1>2. CASE \E i \in DOMAIN receipts : receipts[i][1] = a[1]
  <2> DEFINE Grown(i) == IF receipts[i][1] = a[1] THEN <<a[1], receipts[i][2] \cup {a[2]}>> ELSE receipts[i]
  <2> DEFINE next == [i \in DOMAIN receipts |-> Grown(i)]
  <2>1. Receipt(a) = next
    BY <1>2 DEF Receipt
  <2>2. \A i \in DOMAIN receipts : /\ Grown(i) \in E /\ Grown(i)[1] = receipts[i][1]
                                   /\ Grown(i)[2] = receipts[i][2] \cup (IF receipts[i][1] = a[1] THEN {a[2]} ELSE {})
    BY <1>0, <1>1 DEF E
  <2> HIDE DEF Grown
  <2>3. next \in [1..Len(receipts) -> E] /\ DOMAIN next = DOMAIN receipts /\ \A i \in DOMAIN receipts : next[i] = Grown(i)
    BY <1>0, <2>2
  <2>4. next \in Seq(E)
    BY <1>0, <2>3, SeqDef
  <2> HIDE DEF next
  <2>5. \A i, j \in DOMAIN next : next[i][1] = next[j][1] => i = j
    BY <2>2, <2>3 DEF ReceiptsHonest
  <2>6. \A i \in DOMAIN next : \A st \in next[i][2] : <<next[i][1], st>> \in Range(alertMails)
    <3> SUFFICES ASSUME NEW i \in DOMAIN next, NEW st \in next[i][2] PROVE <<next[i][1], st>> \in Range(alertMails)
      OBVIOUS
    <3>1. i \in DOMAIN receipts /\ next[i][1] = receipts[i][1]
      BY <2>2, <2>3
    <3>2. st \in receipts[i][2] \/ (receipts[i][1] = a[1] /\ st = a[2])
      BY <2>2, <2>3
    <3>3. st \in receipts[i][2] => <<receipts[i][1], st>> \in Range(alertMails)
      BY <3>1 DEF ReceiptsHonest
    <3> QED BY <1>0, <3>1, <3>2, <3>3
  <2>7. ASSUME NEW e, NEW st, Receipted(receipts, e, st) \/ <<e, st>> = a
        PROVE  Receipted(next, e, st)
    <3>1. CASE Receipted(receipts, e, st)
      <4>1. PICK i \in DOMAIN receipts : receipts[i][1] = e /\ st \in receipts[i][2]
        BY <3>1 DEF Receipted
      <4> QED BY <2>2, <2>3, <4>1 DEF Receipted
    <3>2. CASE <<e, st>> = a
      <4>1. PICK i \in DOMAIN receipts : receipts[i][1] = a[1]
        BY <1>2
      <4>2. e = a[1] /\ st = a[2]
        BY <3>2
      <4> QED BY <2>2, <2>3, <4>1, <4>2 DEF Receipted
    <3> QED BY <2>7, <3>1, <3>2
  <2> QED BY <2>1, <2>4, <2>5, <2>6, <2>7 DEF IsReceipted, E
<1>3. CASE ~\E i \in DOMAIN receipts : receipts[i][1] = a[1]
  <2> DEFINE new == <<a[1], {a[2]}>>
  <2> DEFINE next == Append(receipts, new)
  <2> DEFINE n == Len(receipts) + 1
  <2>1. Receipt(a) = next
    BY <1>3 DEF Receipt
  <2>2. new \in E /\ new[1] = a[1] /\ new[2] = {a[2]}
    BY <1>0 DEF E
  <2> HIDE DEF new
  <2>3. /\ next \in Seq(E) /\ DOMAIN next = 1..n /\ next[n] = new
        /\ \A i \in 1..Len(receipts) : next[i] = receipts[i]
    BY <1>0, <2>2
  <2> HIDE DEF next
  <2>4. \A i \in DOMAIN next : i = n \/ (i \in DOMAIN receipts /\ next[i] = receipts[i])
    BY <1>0, <2>3
  <2>5. n \in DOMAIN next /\ \A i \in DOMAIN receipts : i \in DOMAIN next /\ next[i] = receipts[i]
    BY <1>0, <2>3
  <2> HIDE DEF n
  <2>6. \A i, j \in DOMAIN next : next[i][1] = next[j][1] => i = j
    BY <1>3, <2>2, <2>3, <2>4 DEF ReceiptsHonest
  <2>7. \A i \in DOMAIN next : \A st \in next[i][2] : <<next[i][1], st>> \in Range(alertMails)
    BY <1>0, <2>2, <2>3, <2>4 DEF ReceiptsHonest
  <2>8. ASSUME NEW e, NEW st, Receipted(receipts, e, st) \/ <<e, st>> = a
        PROVE  Receipted(next, e, st)
    <3>1. CASE Receipted(receipts, e, st)
      <4>1. PICK i \in DOMAIN receipts : receipts[i][1] = e /\ st \in receipts[i][2]
        BY <3>1 DEF Receipted
      <4> QED BY <2>5, <4>1 DEF Receipted
    <3>2. CASE <<e, st>> = a
      BY <2>2, <2>3, <2>5, <3>2 DEF Receipted
    <3> QED BY <2>8, <3>1, <3>2
  <2> QED BY <2>1, <2>3, <2>6, <2>7, <2>8 DEF IsReceipted, E
<1> QED BY <1>2, <1>3

(* What Kept returns of it: entries, and all of them but those of the      *)
(* episodes it gives up.                                                   *)
LEMMA KeptEntries ==
    ASSUME NEW next \in Seq(Episodes \X SUBSET AlertStatuses),
           \A i, j \in DOMAIN next : next[i][1] = next[j][1] => i = j
    PROVE  /\ Kept(next) \in Seq(Episodes \X SUBSET AlertStatuses)
           /\ \A i, j \in DOMAIN Kept(next) : Kept(next)[i][1] = Kept(next)[j][1] => i = j
           /\ \A i \in DOMAIN Kept(next) : \E k \in DOMAIN next : Kept(next)[i] = next[k]
           /\ \A k \in DOMAIN next : next[k][1] \in EpisodesOf(Kept(next)) =>
                 \E i \in DOMAIN Kept(next) : Kept(next)[i] = next[k]
<1> DEFINE E == Episodes \X SUBSET AlertStatuses
<1> DEFINE from == IF Len(next) > MaxReceipts THEN Len(next) - MaxReceipts + 1 ELSE 1
<1> DEFINE kept == SubSeq(next, from, Len(next))
<1>0. Kept(next) = kept
  BY DEF Kept
<1>1. /\ MaxReceipts \in Nat /\ Len(next) \in Nat /\ DOMAIN next = 1..Len(next)
  BY ReliabilityAssumption
<1>2. from \in Nat /\ from >= 1 /\ from <= Len(next) + 1
  BY <1>1
<1> HIDE DEF from, E
<1>3. /\ kept \in Seq(E) /\ DOMAIN kept = 1..(Len(next) - from + 1)
      /\ \A i \in 1..(Len(next) - from + 1) : kept[i] = next[from + i - 1]
  <2>1. from \in 1..(Len(next) + 1) /\ next \in Seq(E)
    BY <1>1, <1>2 DEF E
  <2>2. /\ kept \in Seq(E) /\ Len(kept) = Len(next) - from + 1
        /\ \A i \in 1..(Len(next) - from + 1) : kept[i] = next[from + i - 1]
    BY <1>1, <1>2, <2>1, SubSeqProperties
  <2> QED BY <2>2
<1> HIDE DEF kept
<1>4. \A i \in DOMAIN kept : from + i - 1 \in DOMAIN next /\ kept[i] = next[from + i - 1]
  BY <1>1, <1>2, <1>3
<1>5. \A i, j \in DOMAIN kept : kept[i][1] = kept[j][1] => i = j
  <2> SUFFICES ASSUME NEW i \in DOMAIN kept, NEW j \in DOMAIN kept, kept[i][1] = kept[j][1] PROVE i = j
    OBVIOUS
  <2>1. from + i - 1 = from + j - 1
    BY <1>4
  <2> QED BY <1>1, <1>2, <1>3, <2>1
<1>6. ASSUME NEW k \in DOMAIN next, next[k][1] \in EpisodesOf(kept)
      PROVE  \E i \in DOMAIN kept : kept[i] = next[k]
  <2>1. PICK i \in DOMAIN kept : kept[i][1] = next[k][1]
    BY <1>6 DEF EpisodesOf
  <2>2. from + i - 1 = k
    BY <1>4, <1>6, <2>1
  <2> QED BY <1>4, <2>1, <2>2
<1> QED BY <1>0, <1>3, <1>4, <1>5, <1>6 DEF E

(* A call leaves its transaction: committed with the receipt of its mail,  *)
(* or rolled back, and then its mail, if it went, is one of the unsure.    *)
LEMMA EndKeeps ==
    ASSUME AlertInv, NEW h \in Hooks, NEW rec, CalmHook(rec), hook' = [hook EXCEPT ![h] = rec],
           UNCHANGED <<alertMails, mailOn>>, rowLock' = (IF rowLock = h THEN Nothing ELSE rowLock),
           receipts' = receipts \/ hook[h].pc = "commit",
           receipts' \in Seq(Episodes \X SUBSET AlertStatuses), ReceiptsHonest', unsure \subseteq unsure',
           \A e, st : Receipted(receipts, e, st) => Receipted(receipts', e, st) \/ e \in unsure',
           hook[h].sent => \/ Head(hook[h].alerts)[1] \in unsure'
                           \/ Receipted(receipts', Head(hook[h].alerts)[1], Head(hook[h].alerts)[2]),
           \A a \in answered' : AlertMailed(a)
    PROVE  AlertInv'
<1>0. /\ AlertTypes /\ hook \in [Hooks -> HookRecords] /\ rec \in HookRecords
      /\ rec.pc \in {"idle", "settings", "lock"} /\ ~rec.sent
  BY DEF AlertInv, AlertTypes, CalmHook
<1>1. hook' \in [Hooks -> HookRecords] /\ hook'[h] = rec /\ \A k \in Hooks \ {h} : hook'[k] = hook[k]
  BY <1>0
<1>2. AlertTypes'
  BY <1>0, <1>1 DEF AlertTypes
<1>3. RowLocked'
  BY <1>0, <1>1, ReliabilityAssumption DEF AlertInv, RowLocked
<1>4. ASSUME NEW k \in Hooks PROVE HookFits(k)'
  <2>1. \A b : AlertMailed(b) <=> AlertMailed(b)'
    BY DEF AlertMailed
  <2>2. CASE k = h
    BY <1>0, <1>1, <2>1, <2>2 DEF HookFits, CalmHook
  <2>3. CASE k # h
    <3>1. hook'[k] = hook[k] /\ HookFits(k)
      BY <1>1, <2>3 DEF AlertInv
    <3>2. hook[k].pc = "send" => receipts' = receipts
      BY <2>3 DEF AlertInv, RowLocked
    <3> QED BY <2>1, <3>1, <3>2 DEF HookFits, Duplicate, ReceiptOf
  <2> QED BY <2>2, <2>3
<1>5. MailsCovered'
  <2> SUFFICES ASSUME NEW i \in DOMAIN alertMails, alertMails[i][1] \notin unsure'
               PROVE  \/ Receipted(receipts', alertMails[i][1], alertMails[i][2])
                      \/ \E k \in Hooks : hook'[k].sent /\ Head(hook'[k].alerts) = alertMails[i]
    BY DEF MailsCovered
  <2>1. \/ Receipted(receipts, alertMails[i][1], alertMails[i][2])
        \/ \E k \in Hooks : hook[k].sent /\ Head(hook[k].alerts) = alertMails[i]
    BY DEF AlertInv, MailsCovered
  <2>2. ASSUME NEW k \in Hooks, hook[k].sent, Head(hook[k].alerts) = alertMails[i]
        PROVE  \/ Receipted(receipts', alertMails[i][1], alertMails[i][2])
               \/ hook'[k].sent /\ Head(hook'[k].alerts) = alertMails[i]
    <3>1. CASE k = h
      BY <2>2, <3>1
    <3>2. CASE k # h
      BY <1>1, <2>2, <3>2
    <3> QED BY <3>1, <3>2
  <2> QED BY <2>1, <2>2
<1>6. AlertsSound'
  <2>1. AlertMailedOnce'
    BY DEF AlertInv, AlertsSound, AlertMailedOnce
  <2>2. AnsweredIsMailed'
    BY DEF AnsweredIsMailed, AlertMailed
  <2> QED BY <2>1, <2>2 DEF AlertsSound
<1> QED BY <1>2, <1>3, <1>4, <1>5, <1>6 DEF AlertInv

(* The receipt is committed, or the failure of the mail is raised.         *)
LEMMA CommitReceiptKeeps ==
    ASSUME AlertInv, NEW h \in Hooks, CommitReceipt(h)
    PROVE  AlertInv'
<1> DEFINE me == hook[h]
<1> DEFINE a == Head(me.alerts)
<1>0. /\ AlertTypes /\ ReceiptsHonest /\ me \in HookRecords /\ me.pc = "commit" /\ me.alerts # <<>>
      /\ me.alerts \in Seq(Alerts) /\ UNCHANGED <<alertMails, mailOn>>
      /\ \A b \in answered : AlertMailed(b)
      /\ receipts \in Seq(Episodes \X SUBSET AlertStatuses)
  BY DEF CommitReceipt, AlertInv, AlertTypes, HookFits, HookRecords, AlertsSound, AnsweredIsMailed, AlertMailed
<1>1. a \in Alerts /\ a = <<a[1], a[2]>>
  BY <1>0, FirstAlert
<1>2. rowLock' = IF rowLock = h THEN Nothing ELSE rowLock
  BY <1>0 DEF CommitReceipt, AlertInv, RowLocked
<1>3. CASE me.sent
  <2> DEFINE next == Receipt(a)
  <2>1. /\ receipts' = Kept(next) /\ unsure' = unsure \cup (EpisodesOf(next) \ EpisodesOf(Kept(next)))
        /\ Delivered(h)
    BY <1>3 DEF CommitReceipt
  <2>2. a \in Range(alertMails)
    BY <1>3 DEF AlertInv, HookFits
  <2>3. IsReceipted(next, a)
    BY <1>0, <1>1, <2>2, ReceiptAdds
  <2> HIDE DEF next
  <2>4. /\ Kept(next) \in Seq(Episodes \X SUBSET AlertStatuses)
        /\ \A i, j \in DOMAIN Kept(next) : Kept(next)[i][1] = Kept(next)[j][1] => i = j
        /\ \A i \in DOMAIN Kept(next) : \E k \in DOMAIN next : Kept(next)[i] = next[k]
        /\ \A k \in DOMAIN next : next[k][1] \in EpisodesOf(Kept(next)) =>
              \E i \in DOMAIN Kept(next) : Kept(next)[i] = next[k]
    BY <2>3, KeptEntries DEF IsReceipted
  <2>5. \A i \in DOMAIN Kept(next) : \A st \in Kept(next)[i][2] : <<Kept(next)[i][1], st>> \in Range(alertMails)
    BY <2>3, <2>4 DEF IsReceipted
  <2>6. ReceiptsHonest'
    BY <1>0, <2>1, <2>4, <2>5 DEF ReceiptsHonest
  <2>7. ASSUME NEW e, NEW st, Receipted(next, e, st)
        PROVE  Receipted(receipts', e, st) \/ e \in unsure'
    <3>1. PICK k \in DOMAIN next : next[k][1] = e /\ st \in next[k][2]
      BY <2>7 DEF Receipted
    <3>2. e \in EpisodesOf(next)
      BY <3>1 DEF EpisodesOf
    <3>3. CASE e \in EpisodesOf(Kept(next))
      <4>1. PICK i \in DOMAIN Kept(next) : Kept(next)[i] = next[k]
        BY <2>4, <3>1, <3>3
      <4> QED BY <2>1, <3>1, <4>1 DEF Receipted
    <3>4. CASE e \notin EpisodesOf(Kept(next))
      BY <2>1, <3>2, <3>4
    <3> QED BY <3>3, <3>4
  <2>8. \A e, st : Receipted(receipts, e, st) => Receipted(receipts', e, st) \/ e \in unsure'
    BY <2>3, <2>7 DEF IsReceipted
  <2>9. a[1] \in unsure' \/ Receipted(receipts', a[1], a[2])
    <3>1. Receipted(next, a[1], a[2])
      BY <1>1, <2>3 DEF IsReceipted
    <3> QED BY <2>7, <3>1
  <2>10. AlertMailed(a)
    BY <2>2 DEF AlertMailed
  <2>11. /\ \E rec : CalmHook(rec) /\ hook' = [hook EXCEPT ![h] = rec]
         /\ \A b \in answered' : AlertMailed(b)
    BY <1>0, <2>1, <2>10, DeliveredCalm
  <2>12. PICK rec : CalmHook(rec) /\ hook' = [hook EXCEPT ![h] = rec]
    BY <2>11
  <2>13. unsure \subseteq unsure' /\ receipts' \in Seq(Episodes \X SUBSET AlertStatuses)
    BY <2>1, <2>4
  <2> QED BY <1>0, <1>2, <2>6, <2>8, <2>9, <2>11, <2>12, <2>13, EndKeeps
<1>4. CASE ~me.sent
  <2>1. UNCHANGED <<receipts, unsure, answered>> /\ hook' = [hook EXCEPT ![h] = NoHook]
    BY <1>4 DEF CommitReceipt, Fails, HookTo
  <2>2. ReceiptsHonest'
    BY <1>0, <2>1 DEF ReceiptsHonest
  <2>3. \A e, st : Receipted(receipts, e, st) => Receipted(receipts', e, st) \/ e \in unsure'
    BY <2>1
  <2> QED BY <1>0, <1>2, <1>4, <2>1, <2>2, <2>3, IdleHook, EndKeeps
<1> QED BY <1>3, <1>4

(* A call that breaks off rolls its transaction back.                      *)
LEMMA HookBreaksKeeps ==
    ASSUME AlertInv, NEW h \in Hooks, HookBreaks(h)
    PROVE  AlertInv'
<1>1. /\ UNCHANGED <<receipts, answered, alertMails, mailOn>> /\ hook' = [hook EXCEPT ![h] = NoHook]
      /\ rowLock' = (IF rowLock = h THEN Nothing ELSE rowLock)
      /\ unsure \subseteq unsure' /\ (hook[h].sent => Head(hook[h].alerts)[1] \in unsure')
  BY DEF HookBreaks, Fails, HookTo
<1>2. ReceiptsHonest' /\ \A b \in answered' : AlertMailed(b)
  BY <1>1 DEF AlertInv, ReceiptsHonest, AlertsSound, AnsweredIsMailed, AlertMailed
<1>3. \A e, st : Receipted(receipts, e, st) => Receipted(receipts', e, st) \/ e \in unsure'
  BY <1>1
<1>4. receipts' \in Seq(Episodes \X SUBSET AlertStatuses)
  BY <1>1 DEF AlertInv, AlertTypes
<1> QED BY <1>1, <1>2, <1>3, <1>4, IdleHook, EndKeeps

(* A call begins, or reads the settings.                                   *)
LEMMA BeginKeeps ==
    ASSUME AlertInv, NEW h \in Hooks,
           ReadSettings(h) \/ \E alerts \in Seq(Alerts) \ {<<>>} : ReceiveAlerts(h, alerts)
    PROVE  AlertInv'
<1>0. /\ UNCHANGED <<receipts, answered, alertMails, mailOn, rowLock, unsure>> /\ mailOn \in BOOLEAN
      /\ hook[h] \in HookRecords /\ \A b \in answered : AlertMailed(b)
  BY DEF ReadSettings, ReceiveAlerts, AlertInv, AlertTypes, AlertsSound, AnsweredIsMailed, AlertMailed
<1>1. CASE ReadSettings(h)
  <2> DEFINE rec == [hook[h] EXCEPT !.pc = "lock", !.mailOn = mailOn]
  <2>1. /\ rec \in HookRecords /\ rec.pc = "lock" /\ rec.alerts = hook[h].alerts /\ rec.done = hook[h].done
        /\ rec.sent = hook[h].sent
    BY <1>0 DEF HookRecords
  <2>2. hook[h].pc = "settings" /\ hook' = [hook EXCEPT ![h] = rec]
    BY <1>1 DEF ReadSettings, HookTo
  <2> HIDE DEF rec
  <2>3. CalmHook(rec)
    BY <2>1, <2>2 DEF AlertInv, HookFits, CalmHook
  <2> QED BY <1>0, <2>2, <2>3, CalmKeeps
<1>2. ASSUME NEW alerts \in Seq(Alerts) \ {<<>>}, ReceiveAlerts(h, alerts) PROVE AlertInv'
  <2> DEFINE rec == [NoHook EXCEPT !.pc = "settings", !.alerts = alerts]
  <2>1. /\ rec \in HookRecords /\ rec.pc = "settings" /\ rec.alerts = alerts /\ rec.done = {} /\ rec.sent = FALSE
    BY DEF HookRecords, NoHook
  <2>2. hook[h].pc = "idle" /\ hook' = [hook EXCEPT ![h] = rec]
    <3>1. hook[h] = NoHook /\ hook' = [hook EXCEPT ![h] = rec]
      BY <1>2 DEF ReceiveAlerts, HookTo
    <3>2. NoHook.pc = "idle"
      BY DEF NoHook
    <3> QED BY <3>1, <3>2
  <2> HIDE DEF rec
  <2>3. CalmHook(rec)
    BY <2>1 DEF CalmHook
  <2> QED BY <1>0, <2>2, <2>3, CalmKeeps
<1> QED BY <1>1, <1>2

(* Whatever webhook calls repeat, overlap or break off: while its receipts *)
(* are kept, each status of an episode is mailed once, in order, and an    *)
(* alert is answered for only after a mail (receive_alerts, _deliver).     *)
THEOREM AlertsAreSound == ReliabilitySpec => []AlertsSound
<1>1. AlertInv /\ [ReliabilityNext]_reliabilityVars => AlertInv'
  <2> SUFFICES ASSUME AlertInv, [ReliabilityNext]_reliabilityVars PROVE AlertInv'
    OBVIOUS
  <2>1. CASE CreateGoal \/ RemoveGoal \/ ScopeChanges \/ MailSwitched \/ UNCHANGED reliabilityVars
    <3>1. UNCHANGED <<receipts, hook, rowLock, alertMails, answered, unsure>>
      BY <2>1 DEF CreateGoal, RemoveGoal, ScopeChanges, MailSwitched, reliabilityVars
    <3>2. mailOn' \in BOOLEAN
      BY <2>1 DEF CreateGoal, RemoveGoal, ScopeChanges, MailSwitched, reliabilityVars, AlertInv, AlertTypes
    <3>3. AlertTypes' /\ RowLocked' /\ ReceiptsHonest' /\ MailsCovered' /\ AlertsSound'
      BY <3>1, <3>2 DEF AlertInv, AlertTypes, RowLocked, ReceiptsHonest, MailsCovered, AlertsSound, AlertMailedOnce,
         AnsweredIsMailed
    <3>4. \A h \in Hooks : HookFits(h)'
      BY <3>1 DEF AlertInv, HookFits, Duplicate, ReceiptOf, AlertMailed
    <3> QED BY <3>3, <3>4 DEF AlertInv
  <2>2. ASSUME NEW h \in Hooks, NEW b \in Alerts, ReceiveAlerts(h, <<b>>) PROVE AlertInv'
    <3>1. <<b>> \in Seq(Alerts) \ {<<>>}
      OBVIOUS
    <3> QED BY <2>2, <3>1, BeginKeeps
  <2>3. ASSUME NEW h \in Hooks, NEW b \in Alerts, NEW c \in Alerts, ReceiveAlerts(h, <<b, c>>) PROVE AlertInv'
    <3>1. <<b, c>> \in Seq(Alerts) \ {<<>>}
      OBVIOUS
    <3> QED BY <2>3, <3>1, BeginKeeps
  <2> QED
    BY <2>1, <2>2, <2>3, BeginKeeps, LockRowKeeps, CommitReceiptKeeps, HookBreaksKeeps, SendAlertKeeps
       DEF ReliabilityNext
<1>2. AlertInv => AlertsSound
  BY DEF AlertInv
<1> QED BY <1>1, <1>2, InitAlerts, PTL DEF ReliabilitySpec
=============================================================================
