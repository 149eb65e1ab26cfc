--------------------------- MODULE ExecutionGraph ---------------------------
(* The graph of one task's execution, built from what was observed of it,   *)
(* its statuses and its dead-letter records.  Observations are lost or      *)
(* expire, so any part of a run may be missing.                            *)
EXTENDS Naturals, Sequences, FiniteSets

CONSTANTS
    Stages, Messages,
    MaxTime,            \* times are 1..MaxTime; 0 stands for none
    MaxObserved,        \* bound on the observations
    MaxStated           \* bound on the statuses

None == "none"
ASSUME GraphAssumption == {MaxTime, MaxObserved, MaxStated} \subseteq Nat /\ None \notin Stages \cup Messages

VARIABLES
    workflow,       \* the topology is a workflow
    nodes,          \* node_map
    edges,
    attempts,       \* attempts_by_task: the nodes of the attempts, in order
    stages,         \* stage_attempts
    retryLinks,     \* pending_retry_links
    phase,          \* which evidence is read: observations, statuses, records
    evidence,       \* what was read: the types of the observations, in order
    statuses,       \* the statuses, in order
    clock           \* the time of the latest piece of the list read

graphVars == <<workflow, nodes, edges, attempts, stages, retryLinks, phase, evidence, statuses, clock>>

Root == <<"task", 1>>
Child == <<"child", 1>>

Node(id, t, a) == [id |-> id, t |-> t, a |-> a]     \* a: the stage, status or record state
Edge(source, kind, end, t) == [source |-> source, kind |-> kind, end |-> end, t |-> t]
IdsOf(set) == {n.id : n \in set}

AddNode(set, n) == IF n.id \in IdsOf(set) THEN set ELSE set \cup {n}
(* An edge from each of the sources, of which there is one or none.        *)
Edges(sources, kind, end, t) == {Edge(id, kind, end, t) : id \in sources}

(* The last attempt not after t, the first when all are; the first after t.*)
(* A set of one node, or of none.                                          *)
LastOf(list, fit) == {list[i] : i \in {k \in fit : \A j \in fit : j <= k}}
FirstOf(list, fit) == {list[i] : i \in {k \in fit : \A j \in fit : k <= j}}
LatestAttempt(t) ==
    LET before == {i \in DOMAIN attempts : attempts[i].t <= t}
    IN  IF before # {} THEN LastOf(attempts, before) ELSE FirstOf(attempts, DOMAIN attempts)
NextAttempt(t) == FirstOf(attempts, {i \in DOMAIN attempts : attempts[i].t > t})
LatestStage(s, t) == LastOf(stages, {i \in DOMAIN stages : (s = None \/ stages[i].a = s) /\ stages[i].t <= t})

-----------------------------------------------------------------------------
(* The task, and a task that is aggregated into it.                        *)
GraphInit ==
    /\ workflow \in BOOLEAN
    /\ nodes = {Node(Root, 0, None), Node(Child, 0, None)}
    /\ edges = {Edge(Child, "aggregated_into", Root, 0)}
    /\ attempts = <<>> /\ stages = <<>> /\ retryLinks = {}
    /\ phase = "observations" /\ evidence = <<>> /\ statuses = <<>> /\ clock = 1

AddReceived(o) ==
    LET n == Node(<<"attempt", Len(attempts) + 1>>, o.t, None)
    IN  /\ nodes' = AddNode(nodes, n) /\ edges' = edges \cup {Edge(Root, "received_by", n.id, o.t)}
        /\ attempts' = Append(attempts, n) /\ UNCHANGED <<stages, retryLinks>>

AddSample(o) ==
    /\ nodes' = AddNode(nodes, Node(<<"sample", IF o.t > 0 THEN o.t ELSE Cardinality(nodes)>>, o.t, None))
    /\ UNCHANGED <<edges, attempts, stages, retryLinks>>

AddPublished(o) ==
    LET n == Node(<<"message", o.m>>, o.t, None)
        new == IF o.s = None THEN {Edge(Root, "received_by", n.id, o.t)}
               ELSE Edges(IdsOf(LatestStage(o.s, o.t)), "stage_transitioned_to", n.id, o.t)
    IN  /\ nodes' = IF o.m = None THEN nodes ELSE AddNode(nodes, n)
        /\ edges' = IF o.m = None THEN edges ELSE edges \cup new
        /\ UNCHANGED <<attempts, stages, retryLinks>>

AddEntered(o) ==
    LET m == Node(<<"message", o.m>>, o.t, None)
        n == Node(<<"stage", o.s, 1 + Cardinality({i \in DOMAIN stages : stages[i].a = o.s})>>, o.t, o.s)
        found == IF m.id \in IdsOf(nodes) THEN {} ELSE {Edge(Root, "received_by", m.id, o.t)}
    IN  /\ nodes' = AddNode(IF o.m = None THEN nodes ELSE AddNode(nodes, m), n)
        /\ edges' = IF o.m = None THEN edges ELSE edges \cup found \cup {Edge(m.id, "entered_stage", n.id, o.t)}
        /\ stages' = Append(stages, n) /\ UNCHANGED <<attempts, retryLinks>>

(* Seeded fault: all retries are the first one.                            *)
MutantAddRetry(o) ==
    LET n == Node(<<"retry", 1>>, o.t, None)
    IN  /\ nodes' = AddNode(nodes, n) /\ retryLinks' = retryLinks \cup {n}
        /\ edges' = edges \cup Edges(IdsOf(LatestAttempt(o.t)), "retried_as", n.id, o.t)
        /\ UNCHANGED <<attempts, stages>>
(* Retries are numbered by the edges that lead to them.                    *)
AddRetry(o) ==
    LET n == Node(<<"retry", 1 + Cardinality({e \in edges : e.kind = "retried_as"})>>, o.t, None)
    IN  /\ nodes' = AddNode(nodes, n) /\ retryLinks' = retryLinks \cup {n}
        /\ edges' = edges \cup Edges(IdsOf(LatestAttempt(o.t)), "retried_as", n.id, o.t)
        /\ UNCHANGED <<attempts, stages>>

AddDead(o) ==
    LET n == Node(<<"dlq", 1 + Cardinality({x \in nodes : x.id[1] = "dlq"})>>, o.t, None)
    IN  /\ nodes' = AddNode(nodes, n)
        /\ edges' = edges \cup Edges(IdsOf(LatestAttempt(o.t)), "dead_lettered_to", n.id, o.t)
        /\ UNCHANGED <<attempts, stages, retryLinks>>

AddObservation(o) ==
    \/ o.type = "received" /\ AddReceived(o)
    \/ o.type = "sample" /\ AddSample(o)
    \/ o.type = "published" /\ AddPublished(o)
    \/ o.type = "entered" /\ AddEntered(o)
    \/ o.type = "retry" /\ AddRetry(o)
    \/ o.type = "dead" /\ AddDead(o)

(* The ids to lead to it from: those of the nodes, or the task.            *)
OrRoot(from) == IF from = {} THEN {Root} ELSE IdsOf(from)
AddStatus(i, s) ==
    LET n == Node(<<"status", i>>, s.t, s.status)
        from == IF workflow THEN LatestStage(None, s.t) ELSE LatestAttempt(s.t)
        again == {Edge(a.id, "manual_retry_to", b.id, s.t) : a \in LatestAttempt(s.t), b \in NextAttempt(s.t)}
    IN  /\ nodes' = AddNode(nodes, n)
        /\ edges' = edges \cup Edges(OrRoot(from), "published_status", n.id, s.t)
                          \cup (IF s.status = "manual_retrying" THEN again ELSE {})
        /\ UNCHANGED <<attempts, stages, retryLinks>>

(* Every retry leads to the attempt that follows it.                       *)
LinkRetries ==
    /\ edges' = edges \cup UNION {{Edge(n.id, "received_by", a.id, a.t) : a \in NextAttempt(n.t)} : n \in retryLinks}
    /\ UNCHANGED <<nodes, attempts, stages, retryLinks>>

AddRecord(i, r) ==
    LET n == Node(<<"record", i>>, r.t, r.state)
    IN  /\ nodes' = AddNode(nodes, n)
        /\ edges' = edges \cup Edges(OrRoot(LatestAttempt(r.t)), "dead_lettered_to", n.id, r.t)
        /\ UNCHANGED <<attempts, stages, retryLinks>>

(* The lists are read in the order of their times.                         *)
Times == clock..MaxTime
Observation(t) ==
    IF workflow THEN [type : {"published"}, t : {t}, m : Messages \cup {None}, s : Stages \cup {None}]
                     \cup [type : {"entered"}, t : {t}, m : Messages \cup {None}, s : Stages]
    ELSE [type : {"received", "retry", "dead", "sample"}, t : {t}, m : {None}, s : {None}]

ReadObservation(o) ==
    /\ phase = "observations" /\ Len(evidence) < MaxObserved
    /\ AddObservation(o) /\ evidence' = Append(evidence, [type |-> o.type, t |-> o.t]) /\ clock' = o.t
    /\ UNCHANGED <<workflow, phase, statuses>>
ReadStatus(s) ==
    /\ phase = "statuses" /\ Len(statuses) < MaxStated
    /\ AddStatus(Len(statuses) + 1, s) /\ statuses' = Append(statuses, s) /\ clock' = s.t
    /\ UNCHANGED <<workflow, phase, evidence>>
NextList ==
    /\ phase # "records" /\ clock' = 1
    /\ phase' = IF phase = "observations" THEN "statuses" ELSE "records"
    /\ IF phase = "statuses" THEN LinkRetries ELSE UNCHANGED <<nodes, edges, attempts, stages, retryLinks>>
    /\ UNCHANGED <<workflow, evidence, statuses>>
ReadRecord(r) ==
    /\ phase = "records" /\ <<"record", 1>> \notin IdsOf(nodes)
    /\ AddRecord(1, r)
    /\ UNCHANGED <<workflow, phase, evidence, statuses, clock>>

GraphNext ==
    \/ \E t \in Times : \/ \E o \in Observation(t) : ReadObservation(o)
                        \/ \E status \in {"processing", "manual_retrying", "completed", "failed"} :
                               ReadStatus([status |-> status, t |-> t])
                        \/ \E state \in {"dead_lettered", "replayed"} : ReadRecord([state |-> state, t |-> t])
    \/ NextList

-----------------------------------------------------------------------------
StateFromStatus(status) ==
    CASE status = "manual_retrying" -> "retrying" [] status = "completed" -> "succeeded"
      [] status = "processing" -> "running" [] OTHER -> status

InitialState(n) ==
    LET kind == n.id[1]
    IN  CASE kind = "status" -> StateFromStatus(n.a)
          [] kind = "retry" -> "retrying"
          [] kind \in {"dlq", "record"} -> IF n.a = "replayed" THEN "replayed" ELSE "dead_lettered"
          [] kind \in {"attempt", "stage"} -> "running"
          [] kind = "message" -> "queued"
          [] kind = "task" /\ statuses # <<>> -> StateFromStatus(statuses[Len(statuses)].status)
          [] OTHER -> "unknown"

(* _project_live_state, for one edge.                                      *)
ApplyEdge(states, x) ==
    LET now == states[x.source]
    IN  CASE x.kind = "dead_lettered_to" -> [states EXCEPT ![x.source] = "dead_lettered"]
          [] /\ x.kind \in {"retried_as", "manual_retry_to"}
             /\ now \notin {"dead_lettered", "replayed", "succeeded", "failed"} -> [states EXCEPT ![x.source] = "retrying"]
          [] /\ x.kind = "published_status" /\ states[x.end] \in {"succeeded", "failed", "retrying"}
             /\ now \notin {"dead_lettered", "replayed"} -> [states EXCEPT ![x.source] = states[x.end]]
          [] OTHER -> states

(* Edges are applied by time, then by kind; of one kind and time the one   *)
(* with the last target counts.                                            *)
EdgeOrder == <<"aggregated_into", "dead_lettered_to", "entered_stage", "manual_retry_to", "published_status",
               "received_by", "retried_as", "stage_transitioned_to">>
Slot(i) == {x \in edges : x.t = i \div 8 /\ x.kind = EdgeOrder[(i % 8) + 1]}
ApplySlot(states, slot) ==
    LET mine(id) == {x \in slot : x.source = id}
        final(id) == CHOOSE x \in mine(id) : \A y \in mine(id) : x.kind = "published_status" => x.end[2] >= y.end[2]
    IN  [id \in DOMAIN states |-> IF mine(id) = {} THEN states[id] ELSE ApplyEdge(states, final(id))[id]]
InitialStates == [id \in IdsOf(nodes) |-> InitialState(CHOOSE n \in nodes : n.id = id)]
LiveStates ==
    LET step[i \in 0 .. 8 * (MaxTime + 1)] == IF i = 0 THEN InitialStates ELSE ApplySlot(step[i - 1], Slot(i - 1))
    IN  step[8 * (MaxTime + 1)]

-----------------------------------------------------------------------------
(* What can be reached from a set of nodes.                                *)
Onward(ids) == ids \cup {x.end : x \in {y \in edges : y.source \in ids}}
Reached(from) ==
    LET step[n \in 0 .. Cardinality(nodes)] == IF n = 0 THEN from ELSE Onward(step[n - 1])
    IN  step[Cardinality(nodes)]
Observed(types) == Cardinality({i \in DOMAIN evidence : evidence[i].type \in types})
CountOf(kind) == Cardinality({n \in nodes : n.id[1] = kind})

(* Whatever is missing from the evidence, the graph hangs together: edges  *)
(* join nodes, every attempt and status of a task hangs off the task, and  *)
(* each attempt, stage and status is a node of its own.  A task whose      *)
(* first attempt is known before anything else shows every retry as a step *)
(* of its own, and nothing leads back to where it came from.               *)
GraphSound ==
    LET known == /\ evidence # <<>> /\ evidence[1].type = "received"
                 /\ statuses # <<>> => statuses[1].t >= evidence[1].t
    IN  /\ \A x \in edges : x.source \in IdsOf(nodes) /\ x.end \in IdsOf(nodes)
        /\ ~workflow => \A n \in nodes : n.id[1] \in {"attempt", "status"} => n.id \in Reached({Root})
        /\ CountOf("attempt") = Observed({"received"}) /\ CountOf("stage") = Observed({"entered"})
        /\ CountOf("status") = Len(statuses)
        /\ known =>
             /\ CountOf("retry") = Observed({"retry"})
             /\ \A n \in nodes : n.id \notin Reached({x.end : x \in {y \in edges : y.source = n.id}})

(* An attempt that was dead-lettered is shown as that, whatever statuses   *)
(* were published before or after it.                                      *)
DeadLetterShown ==
    phase = "records" =>
        \A x \in edges : x.kind = "dead_lettered_to" => LiveStates[x.source] = "dead_lettered"

(* Both: the graph hangs together and shows how the attempts ended.        *)
GraphFaithful == GraphSound /\ DeadLetterShown
=============================================================================
