------------------------------ MODULE Incidents ------------------------------
(* The incident inbox.  Failures found in a bounded live scan are grouped  *)
(* by their dimensions into incidents; operators change, merge and split    *)
(* incidents from pages that may be stale.  A transaction takes the one     *)
(* advisory lock, so it is one step here; scan and transaction are not.    *)
EXTENDS Naturals, StudioValues

CONSTANTS
    FailedTasks,
    Groups,             \* incident ids a hash of the dimensions yields
    SplitIds,           \* incident ids a split draws
    Scopes,             \* a service in its environment
    GroupOf,            \* GroupOf[f]: _group_id of the failure's dimensions
    ScopeOf,            \* ScopeOf[g]: the service and environment of a group
    Operators,
    MaxCorrections      \* bound on the corrections tried

IncidentIds == Groups \cup SplitIds

ASSUME IncidentsAssumption ==
    /\ GroupOf \in [FailedTasks -> Groups] /\ ScopeOf \in [Groups -> Scopes]
    /\ Groups \cap SplitIds = {} /\ Nothing \notin IncidentIds
    /\ MaxCorrections \in Nat

VARIABLES
    incident,       \* incident[i]: the row
    override,       \* override[f]: the incident a split assigned
    failed,         \* failures that exist
    discovered,     \* failures some scan has seen
    page,           \* page[o]: what the operator acts on
    corrections     \* corrections tried

incidentVars == <<incident, override, failed, discovered, page, corrections>>

IncidentRows == [revision : Nat, status : {"open", "acknowledged", "resolved"}, merged : IncidentIds \cup {Nothing}, scope : Scopes]
ASSUME IncidentRowAssumption == Nothing \notin IncidentRows
NewIncident(scope) == [revision |-> 0, status |-> "open", merged |-> Nothing, scope |-> scope]
NoPage == [pc |-> "idle"]

IncidentsInit ==
    /\ incident = [i \in IncidentIds |-> Nothing]
    /\ override = [f \in FailedTasks |-> Nothing]
    /\ failed = {} /\ discovered = {}
    /\ page = [o \in Operators |-> NoPage] /\ corrections = 0

FailureScope(f) == ScopeOf[GroupOf[f]]

(* _resolve over the rows of one scope, a row of another one is absent.    *)
MergedInto(i, scope) ==
    IF incident[i] = Nothing THEN Nothing
    ELSE IF incident[i].scope # scope THEN Nothing ELSE incident[i].merged
Follows(set, scope) == \A i \in set : MergedInto(i, scope) \in set \cup {Nothing}
(* The ids it visits: the fewest that follow each other from the first.    *)
Visited(id, scope) ==
    {i \in IncidentIds : \A set \in SUBSET IncidentIds : id \in set /\ Follows(set, scope) => i \in set}
(* The one that is not merged; Nothing for the error a cycle raises.       *)
Resolve(id, scope) ==
    LET ends == {i \in Visited(id, scope) : MergedInto(i, scope) = Nothing}
    IN  IF ends = {} THEN Nothing ELSE CHOOSE i \in ends : TRUE

IncidentOf(f) == Resolve(IF override[f] = Nothing THEN GroupOf[f] ELSE override[f], FailureScope(f))

-----------------------------------------------------------------------------
TaskFailed(f) ==
    /\ f \notin failed /\ failed' = failed \cup {f}
    /\ UNCHANGED <<incident, override, discovered, page, corrections>>

(* snapshot: the groups of the evidence get a row unless they have one.    *)
Discovering(evidence) ==
    /\ incident' = [i \in IncidentIds |->
          IF incident[i] = Nothing /\ i \in {GroupOf[f] : f \in evidence} THEN NewIncident(ScopeOf[i])
          ELSE incident[i]]
    /\ discovered' = discovered \cup evidence

(* build for the list: services answer fully, up to the page budget, or    *)
(* not at all.                                                             *)
ListIncidents(evidence) ==
    /\ evidence \subseteq failed /\ ~(evidence \subseteq discovered)
    /\ Discovering(evidence)
    /\ UNCHANGED <<override, failed, page, corrections>>

(* The operator has a page with the incident and its revision.             *)
OpenPage(o, i, j) ==
    /\ page[o] = NoPage /\ corrections < MaxCorrections /\ corrections' = corrections + 1
    /\ incident[i] # Nothing /\ incident[j] # Nothing
    /\ page' = [page EXCEPT ![o] = [pc |-> "read", i |-> i, revision |-> incident[i].revision,
                                    j |-> j, target |-> incident[j].revision, observed |-> {}]]
    /\ UNCHANGED <<incident, override, failed, discovered>>

(* Seeded fault: an incident that was merged away can be acted on.         *)
MutantLocked(i, revision) == incident[i] # Nothing /\ incident[i].revision = revision
(* _locked: the row is there, unchanged since it was read, and not merged. *)
Locked(i, revision) ==
    incident[i] # Nothing /\ incident[i].revision = revision /\ incident[i].merged = Nothing

Close(o) == page' = [page EXCEPT ![o] = NoPage]

Change(o, status) ==
    LET me == page[o]
    IN  /\ me.pc = "read"
        /\ incident' = IF Locked(me.i, me.revision)
                       THEN [incident EXCEPT ![me.i].status = status, ![me.i].revision = @ + 1] ELSE incident
        /\ Close(o) /\ UNCHANGED <<override, failed, discovered, corrections>>

Merge(o) ==
    LET me == page[o]
    IN  /\ me.pc = "read"
        /\ incident' = IF /\ me.i # me.j
                          /\ Locked(me.i, me.revision) /\ Locked(me.j, me.target)
                          /\ incident[me.i].scope = incident[me.j].scope
                       THEN [incident EXCEPT ![me.i].merged = me.j, ![me.i].revision = @ + 1,
                                             ![me.j].revision = @ + 1]
                       ELSE incident
        /\ Close(o) /\ UNCHANGED <<override, failed, discovered, corrections>>

(* split_incident scans the incident's service before its transaction.     *)
ScanForSplit(o, evidence) ==
    LET me == page[o]
    IN  /\ me.pc = "read" /\ incident[me.i] # Nothing
        /\ evidence \subseteq {f \in failed : FailureScope(f) = incident[me.i].scope}
        /\ Discovering(evidence)
        /\ page' = [page EXCEPT ![o].pc = "split", ![o].observed = evidence]
        /\ UNCHANGED <<override, failed, corrections>>

(* split: the members are those observed that resolve to the incident now; *)
(* some, but not all, get an incident of their own.                        *)
Split(o, selected, new) ==
    LET me == page[o]
        members == {f \in me.observed : IncidentOf(f) = me.i}
    IN  /\ me.pc = "split" /\ new \in SplitIds /\ incident[new] = Nothing
        /\ IF Locked(me.i, me.revision) /\ selected # {} /\ selected \subseteq members /\ selected # members
           THEN /\ incident' = [incident EXCEPT ![new] = NewIncident(incident[me.i].scope),
                                                ![me.i].revision = @ + 1]
                /\ override' = [f \in FailedTasks |-> IF f \in selected THEN new ELSE override[f]]
           ELSE UNCHANGED <<incident, override>>
        /\ Close(o) /\ UNCHANGED <<failed, discovered, corrections>>

IncidentsNext ==
    \/ \E f \in FailedTasks : TaskFailed(f)
    \/ \E evidence \in SUBSET FailedTasks :
          ListIncidents(evidence) \/ \E o \in Operators : ScanForSplit(o, evidence)
    \/ \E o \in Operators :
        \/ \E i, j \in IncidentIds : OpenPage(o, i, j)
        \/ \E status \in {"acknowledged", "resolved"} : Change(o, status)
        \/ Merge(o)
        \/ \E selected \in SUBSET FailedTasks, new \in SplitIds : Split(o, selected, new)

-----------------------------------------------------------------------------
(* Every failure a scan has seen belongs to one incident that exists, was  *)
(* not merged away and is of the failure's service, after any merges and   *)
(* splits made from stale pages: merges never form a cycle.                *)
FailureHasIncident ==
    \A f \in discovered :
        LET i == IncidentOf(f)
        IN  /\ i # Nothing /\ incident[i] # Nothing
            /\ incident[i].merged = Nothing /\ incident[i].scope = FailureScope(f)
=============================================================================
