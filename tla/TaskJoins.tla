------------------------------ MODULE TaskJoins ------------------------------
(* The detail page of a task at its home service, and the tasks of other    *)
(* services it is joined with.  Four reads of the home service run at once; *)
(* each id the task is related to is then looked up at all services, and a  *)
(* join needs exactly one service that has it.                             *)
EXTENDS Naturals, Sequences, FiniteSets, StudioValues

CONSTANTS
    Home, Peers,            \* the task's service, and the others
    OwnTask, OtherTasks     \* the task's id, and ids it may be related to

ASSUME JoinsAssumption == Home \notin Peers /\ OwnTask \notin OtherTasks /\ IsFiniteSet(Peers)

VARIABLES
    holds,          \* holds[s]: the tasks service s knows
    ref,            \* what the home service tells of the task: correlation_id, parent, child, lineage
    bare,           \* its latest status event leaves out the correlation id
    joinMode,
    parts,          \* parts[p]: the outcome of a read: "ok", "empty", "unsupported", "failed"
    shownErrors,    \* the reads listed in the page's errors
    todo,           \* join candidates, <<kind, value>>
    matches,        \* services that know the first of them
    failedScans,    \* services that know a candidate and could not be asked
    joins, warnings, joinStep

joinVars == <<holds, ref, bare, joinMode, parts, shownErrors, todo, matches, failedScans, joins, warnings, joinStep>>

AllServices == {Home} \cup Peers
Parts == {"status", "history", "dlq", "graph"}
MaybeOther == OtherTasks \cup {Nothing}
MaybeTask == MaybeOther \cup {OwnTask}

JoinsInit ==
    /\ holds \in {h \in [AllServices -> SUBSET OtherTasks] : h[Home] = {}}
    /\ ref \in [corr : MaybeTask, parent : MaybeOther, child : MaybeTask, lineage : MaybeOther]
    /\ bare \in BOOLEAN /\ joinMode \in {"none", "correlation", "lineage", "all"}
    /\ parts = <<>> /\ shownErrors = {} /\ todo = <<>> /\ matches = {} /\ failedScans = {}
    /\ joins = {} /\ warnings = {} /\ joinStep = "reads"

-----------------------------------------------------------------------------
(* _capture around each of the four reads, which are gathered; a missing   *)
(* route matters for the status only.                                      *)
Outcomes(p) ==
    {"ok", "failed"} \cup (IF p = "history" THEN {"empty"} ELSE IF p = "status" THEN {"unsupported"} ELSE {})
ReadParts ==
    /\ joinStep = "reads" /\ parts = <<>>
    /\ parts' \in {o \in [Parts -> UNION {Outcomes(p) : p \in Parts}] : \A p \in Parts : o[p] \in Outcomes(p)}
    /\ UNCHANGED <<holds, ref, bare, joinMode, shownErrors, todo, matches, failedScans, joins, warnings, joinStep>>

(* A service without the status route has its latest status taken from the *)
(* history.                                                                *)
FromHistory == parts["status"] = "unsupported" /\ parts["history"] = "ok"
BundleErrors ==
    {p \in Parts : parts[p] \in {"unsupported", "failed"} /\ ~(p = "status" /\ FromHistory)}

(* _build_primary_task_ref.  Parents of a status that names no correlation *)
(* are left out, those of the history are not.                             *)
PrimaryRef ==
    LET status == (parts["status"] = "ok" \/ FromHistory) /\ ~bare /\ ref.corr # Nothing
        history == parts["history"] = "ok"
        graph == parts["graph"] = "ok"
    IN  [corr |-> IF (status \/ history \/ graph) /\ ref.corr # OwnTask THEN ref.corr ELSE Nothing,
         parent |-> IF status \/ history \/ (graph /\ ref.corr # Nothing) THEN ref.parent ELSE Nothing,
         child |-> IF graph THEN ref.child ELSE Nothing,
         lineage |-> IF graph THEN ref.lineage ELSE Nothing]

(* _collect_join_candidates: the task itself is none, and each is listed   *)
(* once under its kind.                                                    *)
AddCandidate(list, kind, value) ==
    IF value \in {Nothing, OwnTask} \/ \E i \in DOMAIN list : list[i] = <<kind, value>> THEN list
    ELSE Append(list, <<kind, value>>)
JoinCandidates(r) ==
    LET mine == IF joinMode \in {"correlation", "all"} THEN AddCandidate(<<>>, "correlation_id", r.corr) ELSE <<>>
        related == AddCandidate(AddCandidate(mine, "parent_task_id", r.parent), "parent_task_id", r.child)
    IN  IF joinMode \in {"lineage", "all"} THEN AddCandidate(related, "workflow_lineage", r.lineage) ELSE mine

Assemble ==
    /\ joinStep = "reads" /\ parts # <<>>
    /\ shownErrors' = BundleErrors /\ todo' = JoinCandidates(PrimaryRef)
    /\ joinStep' = IF todo' = <<>> THEN "done" ELSE "scan"
    /\ UNCHANGED <<holds, ref, bare, joinMode, parts, matches, failedScans, joins, warnings>>

-----------------------------------------------------------------------------
(* _find_task_matches without errors, the services gathered: one that      *)
(* cannot be asked counts like one that does not know the task.            *)
ScanServices(answering) ==
    LET knows == {s \in AllServices : todo[1][2] \in holds[s]}
    IN  /\ joinStep = "scan"
        /\ matches' = knows \cap answering
        /\ failedScans' = failedScans \cup {<<s, todo[1]>> : s \in knows \ answering}
        /\ joinStep' = "resolve"
        /\ UNCHANGED <<holds, ref, bare, joinMode, parts, shownErrors, todo, joins, warnings>>

(* Seeded fault: of several services each is joined.                       *)
MutantResolved(candidate) ==
    LET cross == matches \ {Home}
    IN  [joins |-> {<<s, candidate>> : s \in cross}, warnings |-> {}]
(* _resolve_join_candidate.  The errors it also looks at are never handed  *)
(* to it.                                                                  *)
Resolved(candidate) ==
    LET cross == matches \ {Home}
    IN  [joins |-> IF Cardinality(cross) = 1 THEN {<<s, candidate>> : s \in cross} ELSE {},
         warnings |-> IF Cardinality(cross) > 1 THEN {<<"ambiguous_join_candidate", candidate>>} ELSE {}]
ResolveCandidate ==
    /\ joinStep = "resolve"
    /\ joins' = joins \cup Resolved(todo[1]).joins /\ warnings' = warnings \cup Resolved(todo[1]).warnings
    /\ todo' = Tail(todo) /\ matches' = {}
    /\ joinStep' = IF todo' = <<>> THEN "done" ELSE "scan"
    /\ UNCHANGED <<holds, ref, bare, joinMode, parts, shownErrors, failedScans>>

JoinsNext ==
    \/ \E answering \in SUBSET AllServices : ScanServices(answering)
    \/ ReadParts \/ Assemble \/ ResolveCandidate

-----------------------------------------------------------------------------
Holders(value) == {s \in Peers : value \in holds[s]}
TaskReached(value) == {s \in Holders(value) : ~\E f \in failedScans : f[1] = s /\ f[2][2] = value}

(* A join leads to a task of another service and is shown at most once per *)
(* relation; a relation that leads to several services that answered is    *)
(* warned about and not followed.  A page without errors whose history     *)
(* tells the task shows every relation another service answered for.       *)
JoinsSound ==
    /\ \A j \in joins : /\ j[1] \in Holders(j[2][2]) /\ j[2][2] # OwnTask
                        /\ ~\E k \in joins : k # j /\ k[2] = j[2]
                        /\ ~\E w \in warnings : w[2] = j[2]
    /\ joinStep = "done" /\ joinMode = "all" /\ shownErrors = {} /\ parts["history"] = "ok" =>
         \A v \in {ref.parent, ref.child, ref.lineage, ref.corr} \ {Nothing, OwnTask} :
             TaskReached(v) = Holders(v) /\ Holders(v) # {} => \E x \in joins \cup warnings : x[2][2] = v
=============================================================================
