------------------------------ MODULE Recovery ------------------------------
(* Studio's recovery center: operators save plans to retry failed tasks,   *)
(* replicas of Studio send the retries a batch at a time and watch their   *)
(* outcome.  Plans and claims are rows in PostgreSQL, every change of a    *)
(* plan is one transaction; the retries are HTTP calls to the service that *)
(* owns the failure and publishes the task again.                          *)
EXTENDS Naturals, Sequences, FiniteSets, SequencesExt

CONSTANTS
    Failures,       \* ids of failed tasks
    Plans,          \* request ids of plans
    Cohort,         \* Cohort[p]: the failures selected for p, in order
    Anonymous,      \* failures whose retry is accepted without a new task id
    Replicas,       \* Studio processes running the recovery loop
    Counts,         \* sizes of batch an operator may authorize
    None,           \* no plan, no failure
    MaxControls,    \* bound on the controls that count
    MaxFaults       \* bound on lost calls, crashes and foreign retries

ASSUME RecoveryAssumption ==
    /\ Cohort \in [Plans -> Seq(Failures)]
    /\ \A p \in Plans : Cohort[p] # <<>> /\ IsInjective(Cohort[p])
    /\ Anonymous \subseteq Failures
    /\ Counts \subseteq Nat \ {0}
    /\ MaxControls \in Nat /\ MaxFaults \in Nat
    /\ None \notin Plans \cup Failures

VARIABLES
    plan,       \* plan[p]: the row of p
    granted,    \* the sends the batch requests that counted authorized, for the properties
    replica,    \* replica[r]: where the loop of r is and what it has read
    wire,       \* retries on their way to the service
    posts,      \* posts[f]: how often a retry of f was sent
    service,    \* service[f]: dead, sent (its receipt names Studio) or gone
    event,      \* event[f]: the latest terminal event of the task
    controls,   \* how many controls counted
    faults

vars == <<plan, granted, replica, wire, posts, service, event, controls, faults>>

Dispatch == {"pending", "blocked", "dispatching", "unknown", "accepted"}
Outcome == {"not_requested", "unknown", "pending", "succeeded", "failed"}
Terminal == {"succeeded", "failed"}
Keep == "keep"
Change == [dispatch : Dispatch \cup {Keep}, outcome : Outcome \cup {Keep}]

Items(p) == ToSet(Cohort[p])
Fresh == [state |-> "none", version |-> 0, allowance |-> 0,
          dispatch |-> [f \in Failures |-> "pending"],
          outcome |-> [f \in Failures |-> "not_requested"]]
Idle == [pc |-> "idle", at |-> None, version |-> 0, item |-> None, read |-> <<>>,
         change |-> [dispatch |-> Keep, outcome |-> Keep], retryable |-> FALSE]

Saved(p) == plan[p].state \notin {"none", "previewed"}
Used(p, doc) == Cardinality({f \in Items(p) : doc.dispatch[f] # "pending"})
Open(doc, f) ==
    doc.dispatch[f] \in {"dispatching", "unknown", "accepted"} /\ doc.outcome[f] \notin Terminal
Active(p) == plan[p].state = "running" \/ \E f \in Items(p) : Open(plan[p], f)

TypeOK ==
    /\ \A p \in Plans :
          /\ plan[p].state \in
                {"none", "previewed", "ready", "running", "paused", "stopped", "completed"}
          /\ plan[p].version \in Nat
          /\ plan[p].allowance \in 0 .. Len(Cohort[p])
          /\ plan[p].dispatch \in [Failures -> Dispatch]
          /\ plan[p].outcome \in [Failures -> Outcome]
    /\ wire \subseteq Failures
    /\ posts \in [Failures -> Nat]
    /\ \A r \in Replicas : replica[r].change \in Change
    /\ service \in [Failures -> {"dead", "sent", "gone"}]
    /\ event \in [Failures -> {"old", "completed", "failed"}]
    /\ controls \in 0 .. MaxControls /\ faults \in 0 .. MaxFaults

Init ==
    /\ plan = [p \in Plans |-> Fresh]
    /\ granted = {} /\ wire = {}
    /\ replica = [r \in Replicas |-> Idle]
    /\ posts = [f \in Failures |-> 0]
    /\ service = [f \in Failures |-> "dead"]
    /\ event = [f \in Failures |-> "old"]
    /\ controls = 0 /\ faults = 0

Fault == faults < MaxFaults /\ faults' = faults + 1

-----------------------------------------------------------------------------
(* preview: every failure of the cohort is inspected and eligible.         *)
Preview(p) ==
    /\ plan[p].state = "none"
    /\ \A f \in Items(p) : service[f] = "dead"
    /\ plan' = [plan EXCEPT ![p].state = "previewed"]
    /\ UNCHANGED <<granted, replica, wire, posts, service, event, controls, faults>>

(* The plan is stored together with a claim on each failure, which no      *)
(* other plan may hold: claims are never released.                         *)
Create(p) ==
    /\ plan[p].state = "previewed"
    /\ \A q \in Plans : Saved(q) => Items(p) \cap Items(q) = {}
    /\ plan' = [plan EXCEPT ![p].state = "ready"]
    /\ UNCHANGED <<granted, replica, wire, posts, service, event, controls, faults>>

(* What a control does to the plan, and when it is not refused.            *)
Controlled(p, action, count) ==
    LET doc == plan[p]
        used == Used(p, doc)
    IN  CASE action = "stop" -> [doc EXCEPT !.state = "stopped"]
          [] action = "pause" -> [doc EXCEPT !.state = "paused"]
          [] action = "resume" -> [doc EXCEPT !.state = "running"]
          [] action = "batch" ->
                [doc EXCEPT !.state = "running",
                            !.allowance = IF used + count < Len(Cohort[p]) THEN used + count
                                          ELSE Len(Cohort[p])]

Allowed(p, action) ==
    LET used == Used(p, plan[p])
        state == plan[p].state
    IN  \/ action = "stop" /\ state \notin {"stopped", "completed"}
        \/ action = "pause" /\ state = "running"
        \/ action = "resume" /\ state = "paused" /\ used < plan[p].allowance
        \/ action = "batch" /\ state \in {"ready", "paused"} /\ used # Len(Cohort[p])

(* A control is a request for one version of the plan, which may arrive    *)
(* late or again and counts for that version only.                         *)
Control(p, action, count, version) ==
    /\ Saved(p) /\ plan[p].version = version /\ Allowed(p, action)
    /\ plan' = [plan EXCEPT ![p] = [Controlled(p, action, count) EXCEPT !.version = @ + 1]]
    /\ controls < MaxControls /\ controls' = controls + 1
    /\ granted' = IF action = "batch" THEN granted \cup ({p} \X {version} \X (1 .. count)) ELSE granted
    /\ UNCHANGED <<replica, wire, posts, service, event, faults>>

-----------------------------------------------------------------------------
Set(r, rec) == replica' = [replica EXCEPT ![r] = rec]

(* Nothing to dispatch in the plan as read.                                *)
NothingDue(p) ==
    \/ plan[p].state # "running"
    \/ Used(p, plan[p]) >= plan[p].allowance
    \/ \A f \in Items(p) : plan[p].dispatch[f] # "pending"

FirstPending(p, f) ==
    \E i \in DOMAIN Cohort[p] :
        /\ f = Cohort[p][i] /\ plan[p].dispatch[f] = "pending"
        /\ \A j \in 1 .. i - 1 : plan[p].dispatch[Cohort[p][j]] # "pending"

(* due: a plan whose time has come is taken, and comes again later, within *)
(* seconds while it is active.  Its first pending item is to be dispatched.*)
Due(r, p) ==
    /\ replica[r].pc = "idle" /\ Saved(p) /\ Active(p)
    /\ IF NothingDue(p) THEN Set(r, [Idle EXCEPT !.pc = "reread", !.at = p])
       ELSE \E f \in Items(p) :
               /\ FirstPending(p, f)
               /\ Set(r, [Idle EXCEPT !.pc = "preflight", !.at = p, !.item = f, !.version = plan[p].version])
    /\ UNCHANGED <<plan, granted, wire, posts, service, event, controls, faults>>

(* The failure is inspected at the service: it may still be as it was      *)
(* previewed, may have changed, or the call may fail.                      *)
Preflight(r) ==
    LET me == replica[r]
    IN  /\ me.pc = "preflight"
        /\ \/ service[me.item] = "dead" /\ UNCHANGED faults /\ Set(r, [me EXCEPT !.pc = "claim"])
           \/ service[me.item] # "dead" /\ UNCHANGED faults /\ Set(r, [me EXCEPT !.pc = "block"])
           \/ Fault /\ \E again \in BOOLEAN :
                 Set(r, [me EXCEPT !.pc = "block", !.retryable = again])
        /\ UNCHANGED <<plan, granted, wire, posts, service, event, controls>>

(* An unsuitable failure pauses the plan, and is blocked unless the error  *)
(* may pass.                                                               *)
Block(r) ==
    LET me == replica[r]
        doc == plan[me.at]
    IN  /\ me.pc = "block"
        /\ IF doc.state = "running" /\ doc.dispatch[me.item] = "pending"
           THEN plan' = [plan EXCEPT ![me.at].state = "paused",
                             ![me.at].version = @ + 1,
                             ![me.at].dispatch[me.item] = IF me.retryable THEN @ ELSE "blocked"]
           ELSE UNCHANGED plan
        /\ Set(r, [Idle EXCEPT !.pc = "reread", !.at = me.at])
        /\ UNCHANGED <<granted, wire, posts, service, event, controls, faults>>

(* Seeded fault: the claim trusts the plan read before the inspection.     *)
MutantClaimStale(r) ==
    LET me == replica[r]
    IN  /\ me.pc = "claim"
        /\ plan' = [plan EXCEPT ![me.at].dispatch[me.item] = "dispatching",
                                ![me.at].outcome[me.item] = "unknown"]
        /\ Set(r, [me EXCEPT !.pc = "send", !.version = 0])
        /\ UNCHANGED <<granted, wire, posts, service, event, controls, faults>>

(* The intent is committed before anything is sent, on the plan as it is   *)
(* now: same version, still running, still pending, within the allowance   *)
(* and after the interval.                                                 *)
Claim(r) ==
    LET me == replica[r]
        doc == plan[me.at]
    IN  /\ me.pc = "claim"
        /\ IF /\ doc.state = "running" /\ doc.version = me.version
              /\ doc.dispatch[me.item] = "pending"
              /\ Used(me.at, doc) < doc.allowance
           THEN \/ /\ plan' = [plan EXCEPT ![me.at].dispatch[me.item] = "dispatching",
                                           ![me.at].outcome[me.item] = "unknown"]
                              /\ Set(r, [me EXCEPT !.pc = "send", !.version = 0])
                \/ /\ Used(me.at, doc) > 0     \* too early after the last one
                   /\ Set(r, [Idle EXCEPT !.pc = "reread", !.at = me.at]) /\ UNCHANGED plan
           ELSE Set(r, [Idle EXCEPT !.pc = "reread", !.at = me.at]) /\ UNCHANGED plan
        /\ UNCHANGED <<granted, wire, posts, service, event, controls, faults>>

(* The retry is posted; it arrives now or later, or is lost.               *)
Send(r) ==
    LET f == replica[r].item
    IN  /\ replica[r].pc = "send"
        /\ posts' = [posts EXCEPT ![f] = @ + 1]
        /\ wire' = wire \cup {f}
        /\ Set(r, [replica[r] EXCEPT !.pc = "answer"])
        /\ UNCHANGED <<plan, granted, service, event, controls, faults>>

(* The service publishes the task again and keeps a receipt.               *)
Arrive(f) ==
    /\ f \in wire
    /\ wire' = wire \ {f}
    /\ service' = [service EXCEPT ![f] = "sent"]
    /\ event' = [event EXCEPT ![f] = "old"]
    /\ UNCHANGED <<plan, granted, replica, posts, controls, faults>>

LoseRequest(f) ==
    /\ f \in wire /\ Fault
    /\ wire' = wire \ {f}
    /\ UNCHANGED <<plan, granted, replica, posts, service, event, controls>>

(* Someone retries the failure past Studio.                                *)
Foreign(f) ==
    /\ service[f] # "gone" /\ Fault
    /\ service' = [service EXCEPT ![f] = "gone"]
    /\ UNCHANGED <<plan, granted, replica, wire, posts, event, controls>>

(* A retried task reaches a terminal status.                               *)
Finish(f) ==
    /\ service[f] # "dead" /\ event[f] = "old"
    /\ \E e \in {"completed", "failed"} : event' = [event EXCEPT ![f] = e]
    /\ UNCHANGED <<plan, granted, replica, wire, posts, service, controls, faults>>

(* The answer is a receipt, or any error, which never authorizes a resend. *)
Answer(r) ==
    LET f == replica[r].item
    IN  /\ replica[r].pc = "answer"
        /\ \/ /\ f \notin wire /\ service[f] = "sent" /\ UNCHANGED faults
              /\ Set(r, [replica[r] EXCEPT !.pc = "record", !.change =
                            [dispatch |-> "accepted", outcome |-> "pending"]])
           \/ /\ f \notin wire /\ service[f] # "sent" /\ UNCHANGED faults
              /\ Set(r, [replica[r] EXCEPT !.pc = "record", !.change =
                            [dispatch |-> "unknown", outcome |-> "unknown"]])
           \/ /\ Fault
              /\ Set(r, [replica[r] EXCEPT !.pc = "record", !.change =
                            [dispatch |-> "unknown", outcome |-> "unknown"]])
        /\ UNCHANGED <<plan, granted, wire, posts, service, event, controls>>

Updated(old, new) == IF new = Keep THEN old ELSE new

(* Seeded fault: whoever writes last wins.                                 *)
MutantItemChangeLastWins(p, f, change) ==
    plan' = [plan EXCEPT ![p].dispatch[f] = Updated(@, change.dispatch),
                         ![p].outcome[f] = Updated(@, change.outcome)]

(* _item_change: an observed outcome stays, and so does an acceptance when *)
(* the writer only knows that it does not know.                            *)
ItemChange(p, f, change) ==
    IF \/ plan[p].outcome[f] \in Terminal
       \/ change.dispatch = "unknown" /\ plan[p].dispatch[f] = "accepted"
    THEN UNCHANGED plan
    ELSE plan' = [plan EXCEPT ![p].dispatch[f] = Updated(@, change.dispatch),
                              ![p].outcome[f] = Updated(@, change.outcome)]

Record(r) ==
    LET me == replica[r]
    IN  /\ me.pc = "record"
        /\ ItemChange(me.at, me.item, me.change)
        /\ Set(r, [Idle EXCEPT !.pc = "reread", !.at = me.at])
        /\ UNCHANGED <<granted, wire, posts, service, event, controls, faults>>

-----------------------------------------------------------------------------
(* The plan is read again and its open items are looked at.                *)
Reread(r) ==
    LET me == replica[r]
        doc == plan[me.at]
    IN  /\ me.pc = "reread"
        /\ Set(r, [me EXCEPT !.pc = "observe",
                             !.read = [f \in {i \in Items(me.at) : Open(doc, i)} |-> doc.dispatch[f]]])
        /\ UNCHANGED <<plan, granted, wire, posts, service, event, controls, faults>>

(* What the status of the replacement task tells of an accepted retry: an  *)
(* event from before the acceptance says nothing.                          *)
Seen(f, accepted) ==
    IF f \in Anonymous THEN [dispatch |-> accepted, outcome |-> "unknown"]
    ELSE CASE event[f] = "completed" -> [dispatch |-> accepted, outcome |-> "succeeded"]
           [] event[f] = "failed" -> [dispatch |-> accepted, outcome |-> "failed"]
           [] event[f] = "old" ->
                [dispatch |-> accepted, outcome |-> IF accepted = Keep THEN Keep ELSE "pending"]

(* _observe, up to its last write: the receipt of an unanswered retry,     *)
(* then the status of the new task; after a day without news the outcome   *)
(* is unknown.  Either call may fail.                                      *)
Observe(r, f) ==
    LET me == replica[r]
        unsure == [dispatch |-> "unknown", outcome |-> "unknown"]
        known == me.read[f] = "accepted"
        Found(change) == Set(r, [me EXCEPT !.pc = "note", !.item = f, !.change = change])
    IN  /\ me.pc = "observe" /\ f \in DOMAIN me.read
        /\ \/ /\ me.read[f] = "dispatching"     \* less than a minute ago
              /\ Set(r, [me EXCEPT !.read = Restrict(@, DOMAIN @ \ {f})]) /\ UNCHANGED faults
           \/ /\ ~known
              /\ IF service[f] = "sent" THEN Found(Seen(f, "accepted")) ELSE Found(unsure)
              /\ UNCHANGED faults
           \/ known /\ Found(Seen(f, Keep)) /\ UNCHANGED faults
           \/ known /\ event[f] = "old" /\ UNCHANGED faults
              /\ Found([dispatch |-> Keep, outcome |-> "unknown"])
           \/ Fault /\ Found(IF known THEN [dispatch |-> Keep, outcome |-> Keep] ELSE unsure)
        /\ UNCHANGED <<plan, granted, wire, posts, service, event, controls>>

Note(r) ==
    LET me == replica[r]
    IN  /\ me.pc = "note"
        /\ ItemChange(me.at, me.item, me.change)
        /\ Set(r, [me EXCEPT !.pc = "observe", !.item = None, !.change = Idle.change,
                             !.read = Restrict(@, DOMAIN @ \ {me.item})])
        /\ UNCHANGED <<granted, wire, posts, service, event, controls, faults>>

(* settle: a used-up allowance pauses the plan, or completes it.           *)
Settle(r) ==
    LET me == replica[r]
        doc == plan[me.at]
        used == Used(me.at, doc)
    IN  /\ me.pc = "observe" /\ DOMAIN me.read = {}
        /\ IF doc.state = "running" /\ used >= doc.allowance
           THEN plan' = [plan EXCEPT ![me.at].version = @ + 1,
                                     ![me.at].state = IF used = Len(Cohort[me.at])
                                                      THEN "completed" ELSE "paused"]
           ELSE UNCHANGED plan
        /\ Set(r, Idle)
        /\ UNCHANGED <<granted, wire, posts, service, event, controls, faults>>

(* A transaction raises and run goes on with the next tick, or the process *)
(* dies and is started again.                                              *)
Abort(r) ==
    /\ replica[r].pc # "idle" /\ Fault
    /\ Set(r, Idle)
    /\ UNCHANGED <<plan, granted, wire, posts, service, event, controls>>

Loop(r) ==
    \/ \E p \in Plans : Due(r, p)
    \/ Preflight(r) \/ Block(r) \/ Claim(r) \/ Send(r) \/ Answer(r) \/ Record(r)
    \/ Reread(r) \/ (\E f \in Failures : Observe(r, f)) \/ Note(r) \/ Settle(r)

Next ==
    \/ \E p \in Plans :
          \/ Preview(p) \/ Create(p)
          \/ \E v \in 0 .. plan[p].version :
                \/ \E a \in {"stop", "pause", "resume"} : Control(p, a, 0, v)
                \/ \E n \in Counts : Control(p, "batch", n, v)
    \/ \E r \in Replicas : Loop(r) \/ Abort(r)
    \/ \E f \in Failures :
          Arrive(f) \/ LoseRequest(f) \/ Foreign(f) \/ Finish(f)

Spec == Init /\ [][Next]_vars

-----------------------------------------------------------------------------
(* A failure is sent at most once, by whatever plans, replicas, repeated   *)
(* controls and crashes: a committed intent is never resent.               *)
SentOnce == \A f \in Failures : posts[f] <= 1

(* No plan sends more than its operators authorized: a batch request that  *)
(* is delivered twice counts once.                                         *)
WithinAuthority ==
    \A p \in Plans :
        LET sent == {f \in Items(p) : plan[p].dispatch[f] \notin {"pending", "blocked"}}
            authorized == {c \in granted : c[1] = p}
        IN  Cardinality(sent) <= Cardinality(authorized)

(* What the report says happened did happen: an accepted retry reached the *)
(* service, and an outcome is the one of an event after the acceptance.    *)
ReportTrue ==
    \A p \in Plans : \A f \in Items(p) :
        Saved(p) =>
            /\ plan[p].dispatch[f] = "accepted" => posts[f] > 0 /\ service[f] # "dead"
            /\ plan[p].outcome[f] = "succeeded" => event[f] = "completed"
            /\ plan[p].outcome[f] = "failed" => event[f] = "failed"

(* An observed outcome is final, and an acceptance is never forgotten,     *)
(* however late an answer or another replica's observation comes.          *)
ObservedIsFinal ==
    [][\A p \in Plans : \A f \in Items(p) :
          /\ plan[p].outcome[f] \in Terminal => plan'[p].outcome[f] = plan[p].outcome[f]
          /\ plan[p].dispatch[f] = "accepted" => plan'[p].dispatch[f] = "accepted"]_vars

(* Both: no failure is sent twice, or without authority.                   *)
SendingSound == SentOnce /\ WithinAuthority

(* Both: the report is true and does not take anything back.               *)
ReportSound == []ReportTrue /\ ObservedIsFinal
=============================================================================
