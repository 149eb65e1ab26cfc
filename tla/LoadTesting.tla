----------------------------- MODULE LoadTesting -----------------------------
(* Load tests.  Studio keeps a record of every plan for its retention and   *)
(* has Ampule Chamber run it; requests read a record, call Chamber, and     *)
(* write the whole record back.  Answers may be lost, operators retry, and  *)
(* the connection to Chamber and the service may change in between.        *)
EXTENDS Naturals, FiniteSets, StudioValues

CONSTANTS
    Plans,              \* plan ids Studio draws
    Chambers,           \* Chamber endpoints
    Environments,
    Workers,            \* requests under way at one time
    MaxLoadCalls        \* bound on the requests made

ASSUME LoadAssumption == Nothing \notin Chambers \cup Environments /\ MaxLoadCalls \in Nat

VARIABLES
    chamber,        \* the connection in use, or Nothing: disabled
    target,         \* the service: its environment, and whether it is enabled
    test,           \* test[i]: the record of a plan
    expired,        \* plans whose retention is over
    jobs,           \* the jobs in the Chambers: endpoint, idempotency key, number
    jobState,       \* jobState[i]: the state of the plan's first job
    work,           \* work[w]: the request
    loadCalls

loadVars == <<chamber, target, test, expired, jobs, jobState, work, loadCalls>>

JobStates == {"none", "running", "done", "cancelled"}
TestRecords ==
    [environment : Environments, chamber : Chambers, job : Chambers \cup {Nothing},
     state : JobStates \cup {"planned"}]
ASSUME TestAssumption == Nothing \notin TestRecords

Idle == [pc |-> "idle", i |-> Nothing, rec |-> Nothing, at |-> Nothing, cancel |-> FALSE]

LoadInit ==
    /\ chamber \in Chambers
    /\ target \in [environment : Environments, enabled : {TRUE}]
    /\ test = [i \in Plans |-> Nothing] /\ expired = {}
    /\ jobs = {} /\ jobState = [i \in Plans |-> "none"]
    /\ work = [w \in Workers |-> Idle] /\ loadCalls = 0

Works(w, rec) == work' = [work EXCEPT ![w] = rec]
Stop(w) == Works(w, Idle)
Enter(w, rec) == work[w] = Idle /\ loadCalls < MaxLoadCalls /\ loadCalls' = loadCalls + 1 /\ Works(w, rec)

-----------------------------------------------------------------------------
(* An administrator saves another connection, or disables load testing.    *)
UpdateConnection(c) ==
    /\ c # chamber /\ chamber' = c
    /\ loadCalls < MaxLoadCalls /\ loadCalls' = loadCalls + 1
    /\ UNCHANGED <<target, test, expired, jobs, jobState, work>>

(* The registry moves the service to another environment, or disables it.  *)
ServiceChanges(next) ==
    /\ next # target /\ target' = next
    /\ loadCalls < MaxLoadCalls /\ loadCalls' = loadCalls + 1
    /\ UNCHANGED <<chamber, test, expired, jobs, jobState, work>>

(* plan: an enabled service, a connection, a profile imported from that    *)
(* endpoint whose schema is unchanged, and inputs within its limits.       *)
StartPlan(w, i) ==
    /\ target.enabled /\ chamber # Nothing
    /\ test[i] = Nothing /\ i \notin expired /\ \A o \in Workers : work[o].i # i
    /\ Enter(w, [Idle EXCEPT !.pc = "plan", !.i = i,
          !.rec = [environment |-> target.environment, chamber |-> chamber, job |-> Nothing, state |-> "planned"]])
    /\ UNCHANGED <<chamber, target, test, expired, jobs, jobState>>

(* save: not after the retention, and never beyond it.                     *)
Save(i, rec) == test' = IF i \in expired THEN test ELSE [test EXCEPT ![i] = rec]

(* Chamber took the plan, or did not.                                      *)
Planned(w, ok) ==
    /\ work[w].pc = "plan"
    /\ IF ok THEN Save(work[w].i, work[w].rec) ELSE UNCHANGED test
    /\ Stop(w) /\ UNCHANGED <<chamber, target, expired, jobs, jobState, loadCalls>>

-----------------------------------------------------------------------------
(* start: bound to the service as it is now; a plan that has its job is    *)
(* answered from the record.                                               *)
Start(w, i) ==
    /\ target.enabled /\ test[i] # Nothing /\ test[i].environment = target.environment
    /\ test[i].job = Nothing
    /\ Enter(w, [Idle EXCEPT !.pc = "run", !.i = i, !.rec = test[i]])
    /\ UNCHANGED <<chamber, target, test, expired, jobs, jobState>>

(* Seeded fault: the run is sent to the connection in use now.             *)
MutantRunAt(rec) == IF chamber = Nothing THEN rec.chamber ELSE chamber
(* The connection the plan was made with.                                  *)
RunAt(rec) == rec.chamber

(* Chamber: one job per idempotency key.                                   *)
ChamberRuns(c, i) == jobs' = jobs \cup {<<c, i>>}

(* POST runs: taken, refused, or taken with the answer lost.               *)
PostRun(w, taken, answered) ==
    LET me == work[w]
        i == me.i
    IN  /\ me.pc = "run" /\ (answered => taken)
        /\ IF taken
           THEN /\ ChamberRuns(RunAt(me.rec), i)
                /\ jobState' = [jobState EXCEPT ![i] = IF @ = "none" THEN "running" ELSE @]
           ELSE UNCHANGED <<jobs, jobState>>
        /\ IF answered THEN Works(w, [me EXCEPT !.pc = "save", !.rec = [@ EXCEPT !.job = RunAt(me.rec),
                                                                      !.state = jobState'[i]]])
           ELSE Stop(w)
        /\ UNCHANGED <<chamber, target, test, expired, loadCalls>>

SaveRecord(w) ==
    /\ work[w].pc = "save"
    /\ Save(work[w].i, work[w].rec) /\ Stop(w)
    /\ UNCHANGED <<chamber, target, expired, jobs, jobState, loadCalls>>

(* status, and cancel: also of a disabled or moved service; a plan without *)
(* a job is shown as it is, and cannot be cancelled.                       *)
Status(w, i, cancel) ==
    /\ test[i] # Nothing /\ test[i].job # Nothing
    /\ Enter(w, [Idle EXCEPT !.pc = "job", !.i = i, !.rec = test[i], !.cancel = cancel])
    /\ UNCHANGED <<chamber, target, test, expired, jobs, jobState>>

(* GET or POST of the job; without an answer the last snapshot is shown.   *)
ReadJob(w) ==
    LET me == work[w]
        reached == <<me.rec.chamber, me.i>> \in jobs
    IN  /\ me.pc = "job"
        /\ \/ /\ reached
              /\ jobState' = [jobState EXCEPT ![me.i] = IF me.cancel /\ @ = "running" THEN "cancelled" ELSE @]
              /\ Works(w, [me EXCEPT !.pc = "save", !.rec = [@ EXCEPT !.state = jobState'[me.i]]])
           \/ Stop(w) /\ UNCHANGED jobState
        /\ UNCHANGED <<chamber, target, test, expired, jobs, loadCalls>>

JobEnds(i) ==
    /\ jobState[i] = "running" /\ jobState' = [jobState EXCEPT ![i] = "done"]
    /\ UNCHANGED <<chamber, target, test, expired, jobs, work, loadCalls>>

Retire(i) ==
    /\ test[i] # Nothing /\ test' = [test EXCEPT ![i] = Nothing] /\ expired' = expired \cup {i}
    /\ UNCHANGED <<chamber, target, jobs, jobState, work, loadCalls>>

(* _request_deadline, a client that leaves, or a crash.                    *)
GiveUp(w) ==
    /\ work[w] # Idle /\ Stop(w)
    /\ UNCHANGED <<chamber, target, test, expired, jobs, jobState, loadCalls>>

LoadNext ==
    \/ \E c \in Chambers \cup {Nothing} : UpdateConnection(c)
    \/ \E next \in [environment : Environments, enabled : BOOLEAN] : ServiceChanges(next)
    \/ \E i \in Plans : JobEnds(i) \/ Retire(i)
    \/ \E w \in Workers :
        \/ \E i \in Plans : StartPlan(w, i) \/ Start(w, i) \/ \E cancel \in BOOLEAN : Status(w, i, cancel)
        \/ \E ok \in BOOLEAN : Planned(w, ok)
        \/ \E taken, answered \in BOOLEAN : PostRun(w, taken, answered)
        \/ SaveRecord(w) \/ ReadJob(w) \/ GiveUp(w)

LoadSpec == LoadInit /\ [][LoadNext]_loadVars

-----------------------------------------------------------------------------
(* A plan is run once, whatever answers were lost and however often it was *)
(* started, and at the Chamber it was reviewed for; the record never names *)
(* a job that is not there.                                                *)
OneJobPerPlan ==
    /\ \A i \in Plans : Cardinality({c \in Chambers : <<c, i>> \in jobs}) <= 1
    /\ \A i \in Plans : test[i] # Nothing /\ test[i].job # Nothing =>
          test[i].job = test[i].chamber /\ <<test[i].chamber, i>> \in jobs
=============================================================================
