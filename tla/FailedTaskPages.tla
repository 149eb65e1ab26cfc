-------------------------- MODULE FailedTaskPages --------------------------
(* The list of failed tasks of all services, page by page.  The cursor the  *)
(* browser hands back holds a position in the list of each service; the     *)
(* lists change, and services fail, between the pages and within one.      *)
EXTENDS Naturals, FiniteSets, FiniteSetsExt, StudioValues

CONSTANTS
    Upstreams,          \* services, as numbers: their ids are compared
    MaxFailedAt,        \* failures are numbered by failed_at, 1..MaxFailedAt
    UpstreamLimit,      \* items of one answer of a service, 50 in the code
    ListLimit,          \* items of one page
    MaxListChanges      \* bound on failures that come or go while listing

ASSUME PagesAssumption ==
    /\ Upstreams \subseteq Nat /\ {MaxFailedAt, MaxListChanges} \subseteq Nat
    /\ {UpstreamLimit, ListLimit} \subseteq Nat \ {0}

VARIABLES
    failures,       \* failures[s]: the index of the service's failed tasks
    firstFailures,  \* what it was when the listing began
    positions,      \* positions[s]: cursor, skip, done
    pages,          \* pages[s]: items fetched and not shown yet
    following,      \* following[s]: the next_cursor of the service
    unavailable,
    fetching,       \* services fetch_page is called for
    listing,        \* "page", "merge", "between" pages, or "ended"
    pageSize,       \* items on the page at hand
    shown,          \* shown[s][f]: how often the failure was shown
    shrunk,         \* services of which a failure was removed
    listChanges

pageVars == <<failures, firstFailures, positions, pages, following, unavailable, fetching, listing, pageSize, shown, shrunk, listChanges>>

FailureIds == 1..MaxFailedAt
StartPosition == [cursor |-> 0, skip |-> 0, done |-> FALSE]
PagesInit ==
    /\ failures \in [Upstreams -> SUBSET FailureIds] /\ firstFailures = failures
    /\ positions = [s \in Upstreams |-> StartPosition]
    /\ pages = [s \in Upstreams |-> {}] /\ following = [s \in Upstreams |-> 0]
    /\ unavailable = {} /\ fetching = Upstreams /\ listing = "page"
    /\ pageSize = 0 /\ shown = [s \in Upstreams |-> [f \in FailureIds |-> 0]] /\ shrunk = {} /\ listChanges = 0

-----------------------------------------------------------------------------
(* Lists are sets here, for they are in the order of time, newest first.   *)
Above(f, list) == Cardinality({g \in list : g > f})

(* list_failed_task_records: newest first, from behind the cursor; from the*)
(* head when the cursor has left the index.  It hands out the id of its    *)
(* last item when there are more.                                          *)
Rest(s, cursor) == {f \in failures[s] : cursor \in failures[s] => f < cursor}
UpstreamPage(s, cursor) ==
    LET rest == Rest(s, cursor)
        items == {f \in rest : Above(f, rest) < UpstreamLimit}
    IN  [items |-> items, next |-> IF items # rest THEN Min(items) ELSE 0]

Continues(next, cursor) == next # 0 /\ next # cursor

(* fetch_page: what was shown of this answer before is skipped.            *)
FetchPage(s) ==
    LET old == positions[s]
        answer == UpstreamPage(s, old.cursor)
        items == {f \in answer.items : Above(f, answer.items) >= old.skip}
    IN  /\ s \in fetching /\ fetching' = fetching \ {s}
        /\ IF old.done THEN UNCHANGED <<positions, pages, following>>
           ELSE /\ pages' = [pages EXCEPT ![s] = items]
                /\ following' = [following EXCEPT ![s] = answer.next]
                /\ positions' = [positions EXCEPT ![s] =
                        IF items # {} THEN old
                        ELSE IF Continues(answer.next, old.cursor) THEN [StartPosition EXCEPT !.cursor = answer.next]
                        ELSE [old EXCEPT !.done = TRUE]]
        /\ UNCHANGED <<failures, firstFailures, unavailable, listing, pageSize, shown, shrunk, listChanges>>
FetchFails(s) ==
    /\ s \in fetching /\ ~positions[s].done
    /\ fetching' = fetching \ {s} /\ unavailable' = unavailable \cup {s}
    /\ UNCHANGED <<failures, firstFailures, positions, pages, following, listing, pageSize, shown, shrunk, listChanges>>
Fetched ==
    /\ listing = "page" /\ fetching = {} /\ listing' = "merge"
    /\ UNCHANGED <<failures, firstFailures, positions, pages, following, unavailable, fetching, pageSize, shown, shrunk, listChanges>>

(* The newest of the first items; a list used up is continued at once      *)
(* while the page has room.                                                *)
First(s) == Max(pages[s])
Later(a, b) == a[2] > b[2] \/ (a[2] = b[2] /\ a[1] >= b[1])
Candidates == {<<s, First(s)>> : s \in {u \in Upstreams : pages[u] # {}}}
(* Seeded fault: the new position keeps the number of items to skip.       *)
MutantMovedOn(s) ==
    LET old == [positions[s] EXCEPT !.skip = @ + 1]
    IN  IF pages[s] # {First(s)} THEN old
        ELSE IF Continues(following[s], old.cursor) THEN [old EXCEPT !.cursor = following[s]]
        ELSE [old EXCEPT !.done = TRUE]
(* Where the list of s goes on once its first item is taken.               *)
MovedOn(s) ==
    LET old == [positions[s] EXCEPT !.skip = @ + 1]
    IN  IF pages[s] # {First(s)} THEN old
        ELSE IF Continues(following[s], old.cursor) THEN [StartPosition EXCEPT !.cursor = following[s]]
        ELSE [old EXCEPT !.done = TRUE]
TakeItem(s) ==
    /\ listing = "merge" /\ fetching = {} /\ pageSize < ListLimit /\ pageSize' = pageSize + 1
    /\ pages[s] # {} /\ \A c \in Candidates : Later(<<s, First(s)>>, c)
    /\ shown' = [shown EXCEPT ![s][First(s)] = @ + 1] /\ pages' = [pages EXCEPT ![s] = @ \ {First(s)}]
    /\ positions' = [positions EXCEPT ![s] = MovedOn(s)]
    /\ fetching' = IF pages[s] = {First(s)} /\ Continues(following[s], positions[s].cursor) /\ pageSize' < ListLimit THEN {s} ELSE {}
    /\ UNCHANGED <<failures, firstFailures, following, unavailable, listing, shrunk, listChanges>>

(* A service that failed does not keep the listing going: it is named in   *)
(* the errors instead.                                                     *)
HasMore == \E s \in Upstreams : ~positions[s].done /\ s \notin unavailable
EndPage ==
    /\ listing = "merge" /\ fetching = {} /\ (pageSize = ListLimit \/ Candidates = {})
    /\ listing' = IF HasMore THEN "between" ELSE "ended"
    /\ pageSize' = 0 /\ pages' = [s \in Upstreams |-> {}]
    /\ UNCHANGED <<failures, firstFailures, positions, following, unavailable, fetching, shown, shrunk, listChanges>>
NextPage ==
    /\ listing = "between" /\ listing' = "page" /\ fetching' = Upstreams /\ unavailable' = {}
    /\ following' = [s \in Upstreams |-> 0]
    /\ UNCHANGED <<failures, firstFailures, positions, pages, pageSize, shown, shrunk, listChanges>>

(* delete_failed_task and purge, and a task that fails.                    *)
FailureGoes(s, f) ==
    /\ listing # "ended" /\ f \in failures[s] /\ listChanges < MaxListChanges /\ listChanges' = listChanges + 1
    /\ failures' = [failures EXCEPT ![s] = @ \ {f}] /\ shrunk' = shrunk \cup {s}
    /\ UNCHANGED <<firstFailures, positions, pages, following, unavailable, fetching, listing, pageSize, shown>>
FailureComes(s, f) ==
    /\ listing # "ended" /\ f \notin failures[s] /\ listChanges < MaxListChanges /\ listChanges' = listChanges + 1
    /\ failures' = [failures EXCEPT ![s] = @ \cup {f}]
    /\ UNCHANGED <<firstFailures, positions, pages, following, unavailable, fetching, listing, pageSize, shown, shrunk>>

PagesNext ==
    \/ \E s \in Upstreams : FetchPage(s) \/ FetchFails(s) \/ TakeItem(s)
    \/ \E s \in Upstreams, f \in FailureIds : FailureGoes(s, f) \/ FailureComes(s, f)
    \/ Fetched \/ EndPage \/ NextPage

-----------------------------------------------------------------------------
(* Paging shows a service's failures that stay while its list is read: all *)
(* of them by the end, unless the service is named in the errors, and each *)
(* one once when the lists do not change at all.  Failures that come may   *)
(* show others again but never hide one.                                   *)
PagesComplete ==
    \A s \in Upstreams :
        /\ listChanges = 0 => \A f \in FailureIds : shown[s][f] <= 1
        /\ listing = "ended" /\ s \notin unavailable /\ s \notin shrunk =>
              \A f \in firstFailures[s] : shown[s][f] >= 1
=============================================================================
