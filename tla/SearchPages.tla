----------------------------- MODULE SearchPages -----------------------------
(* Paging through the task search of Studio and through its event history.  *)
(* The pages are cut from a list ordered by the time a task was last seen,  *)
(* while events move tasks to the front and retention removes them.         *)
EXTENDS Naturals, FiniteSets, StudioValues

CONSTANTS
    Documents,          \* numbers: ties in time are broken by id
    MaxSeenAt,          \* last_seen_at is 1..MaxSeenAt
    SearchLimit,        \* documents of a page
    MaxSearchChanges    \* bound on the changes while paging

ASSUME SearchAssumption ==
    /\ Documents \subseteq Nat /\ IsFiniteSet(Documents)
    /\ {MaxSeenAt, MaxSearchChanges} \subseteq Nat /\ SearchLimit \in Nat \ {0}
    /\ Nothing \notin [id : Documents, at : Nat]

VARIABLES
    searchStore,    \* "redis", "postgres", or the "events" of a service
    seenAt,         \* seenAt[d]: last_seen_at, 0 when there is no document
    outdated,       \* documents past expires_at
    purging,        \* outdated documents a search has found and not deleted yet
    untouched,      \* documents there since the search began and not changed
    searchCursor,   \* last_seen_at and id of the last document shown; Nothing at first
    searchStep,     \* "read", "swept", "ended"
    shownDocs,      \* shownDocs[d]: how often it was shown
    searchChanges

searchVars == <<searchStore, seenAt, outdated, purging, untouched, searchCursor, searchStep, shownDocs, searchChanges>>

Exists(d) == seenAt[d] > 0
SearchInit ==
    /\ searchStore \in {"redis", "postgres", "events"}
    /\ seenAt \in [Documents -> 0..MaxSeenAt]
    /\ outdated \in SUBSET {d \in Documents : Exists(d)} /\ (searchStore = "events" => outdated = {})
    /\ purging = {} /\ untouched = {d \in Documents \ outdated : Exists(d)}
    /\ searchCursor = Nothing /\ searchStep = "read" /\ shownDocs = [d \in Documents |-> 0] /\ searchChanges = 0

-----------------------------------------------------------------------------
(* The sort of the list, by time and id, newest first.                     *)
Before(a, b) == a.at > b.at \/ (a.at = b.at /\ a.id > b.id)
Dated(d) == [id |-> d, at |-> seenAt[d]]
Found == {Dated(d) : d \in {x \in Documents \ outdated : Exists(x)}}

(* Seeded fault: the next page starts at the place of the cursor.          *)
MutantBehindCursor ==
    IF searchCursor = Nothing THEN Found ELSE {x \in Found : ~Before(x, searchCursor)}
(* PostgreSQL compares with the values in the cursor; Redis and the event  *)
(* list look the document up, and start over when it has changed or gone.  *)
BehindCursor ==
    IF searchCursor = Nothing \/ (searchStore # "postgres" /\ searchCursor \notin Found) THEN Found
    ELSE {x \in Found : Before(searchCursor, x)}

(* The first of them, as many as a page has, and the last of those.        *)
SearchPage == {x \in BehindCursor : Cardinality({y \in BehindCursor : Before(y, x)}) < SearchLimit}
LastOnPage == CHOOSE x \in SearchPage : \A y \in SearchPage : ~Before(x, y)

(* One request: the page, and what it found outdated, to be deleted next.   *)
SearchRequest ==
    /\ searchStep = "read"
    /\ shownDocs' = [d \in Documents |-> IF \E x \in SearchPage : x.id = d THEN shownDocs[d] + 1 ELSE shownDocs[d]]
    /\ searchCursor' = IF SearchPage # BehindCursor THEN LastOnPage ELSE Nothing
    /\ purging' = IF searchStore = "redis" THEN outdated ELSE {}
    /\ searchStep' = IF purging' # {} THEN "swept" ELSE IF searchCursor' = Nothing THEN "ended" ELSE "read"
    /\ UNCHANGED <<searchStore, seenAt, outdated, untouched, searchChanges>>
(* _load_task_documents deletes by id: also what was renewed meanwhile.    *)
DeleteExpired ==
    /\ searchStep = "swept" /\ purging' = {}
    /\ seenAt' = [d \in Documents |-> IF d \in purging THEN 0 ELSE seenAt[d]] /\ outdated' = outdated \ purging
    /\ searchStep' = IF searchCursor = Nothing THEN "ended" ELSE "read"
    /\ UNCHANGED <<searchStore, untouched, searchCursor, shownDocs, searchChanges>>

(* An event of the task, the retention worker, and the passage of time.    *)
DocumentChanged(d) ==
    /\ searchStep # "ended" /\ searchChanges < MaxSearchChanges /\ searchChanges' = searchChanges + 1
    /\ untouched' = untouched \ {d}
    /\ UNCHANGED <<searchStore, purging, searchCursor, searchStep, shownDocs>>
TaskSeen(d, t) ==
    /\ searchStore = "events" => ~Exists(d)
    /\ t >= seenAt[d] /\ seenAt' = [seenAt EXCEPT ![d] = t] /\ outdated' = outdated \ {d} /\ DocumentChanged(d)
DocumentExpires(d) == Exists(d) /\ searchStore # "events" /\ outdated' = outdated \cup {d} /\ UNCHANGED seenAt /\ DocumentChanged(d)
DocumentPruned(d) ==
    /\ Exists(d) /\ (searchStore # "events" => d \in outdated)
    /\ seenAt' = [seenAt EXCEPT ![d] = 0] /\ outdated' = outdated \ {d} /\ DocumentChanged(d)

SearchNext ==
    \/ SearchRequest \/ DeleteExpired
    \/ \E d \in Documents : \/ \E t \in 1..MaxSeenAt : TaskSeen(d, t)
                            \/ DocumentExpires(d) \/ DocumentPruned(d)

-----------------------------------------------------------------------------
(* Whatever happens to other tasks while somebody pages through a search,  *)
(* a task nothing happened to is shown by the last page, and on PostgreSQL *)
(* it is shown once.                                                       *)
SearchComplete ==
    \A d \in untouched : /\ searchStep = "ended" => shownDocs[d] >= 1
                         /\ searchStore = "postgres" => shownDocs[d] <= 1
=============================================================================
