----------------------------- MODULE EventIngest -----------------------------
(* How the events of one service reach Studio: the service keeps a feed,   *)
(* Studio pulls it page by page behind a cursor and accepts pushed events, *)
(* stores each event once and keeps one search document per task.  Studio  *)
(* runs on PostgreSQL, where an event and its document are one transaction,*)
(* or on Redis, where every step is a call of its own.  The registry may   *)
(* rename, delete or re-create the service meanwhile.                      *)
EXTENDS Naturals, FiniteSets, FiniteSetsExt

CONSTANTS
    MaxEvents,      \* bound on the events the service emits
    Tasks,
    TaskOf,         \* TaskOf[e]: its task
    Time,           \* Time[e]: its timestamp
    StatusOf,       \* StatusOf[e]: the status it reports
    Pushed,         \* the events also forwarded by the service
    FeedMax,        \* events kept in the feed
    PageLimit,      \* events of a page
    MaxPages,       \* pages read by one synchronization
    Modes,          \* the stores: "postgres", "redis"
    None,
    MaxEdits,       \* bound on the changes of the registry
    MaxFaults       \* bound on failing calls and crashes

(* Events, and their cursors, are numbered by the sequence of the feed; 0  *)
(* is no cursor.                                                           *)
Events == 1 .. MaxEvents
Rows == [first : Nat, last : Nat, status : {StatusOf[e] : e \in Events}, name : Nat, seen : SUBSET Events]

ASSUME IngestAssumption ==
    /\ MaxEvents \in Nat
    /\ TaskOf \in [Events -> Tasks] /\ Time \in [Events -> Nat]
    /\ Pushed \subseteq Events /\ None \notin Rows
    /\ {FeedMax, PageLimit, MaxPages} \subseteq Nat \ {0}
    /\ FeedMax <= PageLimit * MaxPages
    /\ Modes \subseteq {"postgres", "redis"}
    /\ MaxEdits \in Nat /\ MaxFaults \in Nat

VARIABLES
    mode,       \* the store Studio was configured with
    service,    \* the registry's record: live, name
    feed,       \* the events in the feed
    emitted,    \* the last number given to an event
    cursor,     \* the pull cursor
    sync,       \* the synchronization under way
    proc,       \* pull, push, and registry or retention: what each is writing
    stored,     \* events in the histories
    keys,       \* dedupe keys in Redis
    latest,     \* latest[t]: newest timestamp known in Redis
    doc,        \* doc[t]: the search document
    index,      \* index[t]: the status sets in Redis that name t
    since,      \* since[t]: events stored since the document was last absent
    outbox,     \* committed announcements, not yet published
    published,
    lost,       \* events whose storing broke off or whose service was gone
    torn,       \* tasks whose document was being written by a call that failed
    edits, faults

feedVars == <<feed, emitted, cursor, sync>>
redisVars == <<keys, latest, index>>
vars == <<mode, service, feed, emitted, cursor, sync, proc, stored, keys, latest, doc,
          index, since, outbox, published, lost, torn, edits, faults>>

Procs == {"pull", "push", "registry"}
Idle == [pc |-> "idle", todo |-> {}, ev |-> 0, task |-> None, row |-> None, at |-> 0, name |-> 0]
NoSync == [stored |-> 0, newest |-> 0, after |-> 0, last |-> FALSE, pages |-> 0]

Init ==
    /\ mode \in Modes
    /\ service = [live |-> TRUE, name |-> 0]
    /\ feed = {} /\ emitted = 0 /\ cursor = 0 /\ sync = NoSync
    /\ proc = [i \in Procs |-> Idle]
    /\ stored = {} /\ keys = {}
    /\ latest = [t \in Tasks |-> 0] /\ index = [t \in Tasks |-> {}]
    /\ doc = [t \in Tasks |-> None] /\ since = [t \in Tasks |-> {}]
    /\ outbox = {} /\ published = {} /\ lost = {} /\ torn = {}
    /\ edits = 0 /\ faults = 0

Set(i, rec) == proc' = [proc EXCEPT ![i] = rec]
(* The event at hand is dealt with.                                        *)
Done(i) == Set(i, [Idle EXCEPT !.pc = "ingest", !.todo = proc[i].todo])

-----------------------------------------------------------------------------
Newest(n, events) == {e \in events : Cardinality({f \in events : f > e}) < n}

(* The service's feed: one script drops a cursor it has seen, numbers and  *)
(* adds the event, and evicts the oldest beyond the limit.                 *)
FeedAdd ==
    /\ emitted < MaxEvents /\ emitted' = emitted + 1
    /\ feed' = Newest(FeedMax, feed \cup {emitted'})
    /\ UNCHANGED <<mode, service, cursor, sync, proc, stored, redisVars, doc, since, outbox,
                   published, lost, torn, edits, faults>>

(* get_feed: the newest older than `after'; an evicted cursor starts over  *)
(* at the newest of all.                                                   *)
Older(after) == {e \in feed : after \in feed => e < after}
Page(after) == Newest(PageLimit, Older(after))
NextCursor(after) == IF Page(after) # Older(after) THEN Min(Page(after)) ELSE 0

(* sync_service: the probe returns when nothing is newer than the cursor.  *)
SyncStart ==
    /\ proc["pull"].pc = "idle" /\ service.live
    /\ feed # {} /\ Max(feed) # cursor
    /\ sync' = [NoSync EXCEPT !.stored = cursor]
    /\ Set("pull", [Idle EXCEPT !.pc = "fetch"])
    /\ UNCHANGED <<mode, service, feed, emitted, cursor, stored, redisVars, doc, since, outbox,
                   published, lost, torn, edits, faults>>

(* The items of a page up to the stored cursor.                            *)
NewItems(items, known) == {e \in items : known \in items => e > known}

(* One page: its new items are to be ingested; reading stops at an empty   *)
(* page, at the stored cursor, at the end of the feed and after the last   *)
(* page allowed.                                                           *)
SyncPage ==
    LET items == Page(sync.after)
    IN  /\ proc["pull"].pc = "fetch"
        /\ IF items = {} THEN Set("pull", [Idle EXCEPT !.pc = "finish"]) /\ UNCHANGED sync
           ELSE /\ sync' = [stored |-> sync.stored,
                            newest |-> IF sync.pages = 0 THEN Max(items) ELSE sync.newest,
                            after |-> NextCursor(sync.after),
                            last |-> \/ sync.stored \in items
                                     \/ NextCursor(sync.after) = 0
                                     \/ sync.pages = MaxPages - 1,
                            pages |-> sync.pages + 1]
                /\ Set("pull", [Idle EXCEPT !.pc = "ingest", !.todo = NewItems(items, sync.stored)])
        /\ UNCHANGED <<mode, service, feed, emitted, cursor, stored, redisVars, doc, since,
                       outbox, published, lost, torn, edits, faults>>

(* Seeded fault: the pull stops once a page brought something new.         *)
MutantSyncTurn ==
    /\ proc["pull"].pc = "ingest" /\ proc["pull"].todo = {}
    /\ Set("pull", [Idle EXCEPT !.pc = "finish"])
    /\ UNCHANGED <<mode, service, feedVars, stored, redisVars, doc, since, outbox, published,
                   lost, torn, edits, faults>>

(* A page is done: the next one, or the end.                               *)
SyncTurn ==
    /\ proc["pull"].pc = "ingest" /\ proc["pull"].todo = {}
    /\ Set("pull", [Idle EXCEPT !.pc = IF sync.last THEN "finish" ELSE "fetch"])
    /\ UNCHANGED <<mode, service, feedVars, stored, redisVars, doc, since, outbox, published,
                   lost, torn, edits, faults>>

SyncFinish ==
    /\ proc["pull"].pc = "finish"
    /\ cursor' = (IF sync.newest = 0 THEN cursor ELSE sync.newest) /\ sync' = NoSync
    /\ Set("pull", Idle)
    /\ UNCHANGED <<mode, service, feed, emitted, stored, redisVars, doc, since, outbox,
                   published, lost, torn, edits, faults>>

(* A pushed batch arrives.                                                 *)
PushStart(e) ==
    /\ proc["push"].pc = "idle" /\ e \in Pushed /\ e <= emitted
    /\ e \notin stored                  \* repetitions come through the feed
    /\ Set("push", [Idle EXCEPT !.pc = "ingest", !.todo = {e}])
    /\ UNCHANGED <<mode, service, feedVars, stored, redisVars, doc, since, outbox, published,
                   lost, torn, edits, faults>>

PushEnd ==
    /\ proc["push"].pc = "ingest" /\ proc["push"].todo = {}
    /\ Set("push", Idle)
    /\ UNCHANGED <<mode, service, feedVars, stored, redisVars, doc, since, outbox, published,
                   lost, torn, edits, faults>>

(* ingest_events takes the next, newest first; an event of an unknown      *)
(* service is counted and skipped.                                         *)
Lookup(i, e) ==
    /\ proc[i].pc = "ingest" /\ e \in proc[i].todo /\ \A f \in proc[i].todo : f <= e
    /\ IF service.live
       THEN /\ Set(i, [Idle EXCEPT !.pc = "insert", !.todo = proc[i].todo \ {e}, !.ev = e, !.task = TaskOf[e]])
            /\ UNCHANGED lost
       ELSE /\ Set(i, [Idle EXCEPT !.pc = "ingest", !.todo = proc[i].todo \ {e}])
            /\ lost' = lost \cup {e}
    /\ UNCHANGED <<mode, service, feedVars, stored, redisVars, doc, since, outbox, published,
                   torn, edits, faults>>

(* The document of a task after one more event: whatever order events come *)
(* in, its times span them; its status is the last one written.            *)
Merged(row, e, name) ==
    IF row = None
    THEN [first |-> Time[e], last |-> Time[e], status |-> StatusOf[e], name |-> name, seen |-> {e}]
    ELSE [first |-> IF Time[e] < row.first THEN Time[e] ELSE row.first,
          last |-> IF Time[e] > row.last THEN Time[e] ELSE row.last,
          status |-> StatusOf[e], name |-> name, seen |-> row.seen \cup {e}]

-----------------------------------------------------------------------------
(* PostgreSQL.  The transaction holds the advisory lock of the task and,   *)
(* through the foreign key, a share lock on the row of the service.        *)
InTransaction(i) == mode = "postgres" /\ proc[i].pc = "commit"

(* Seeded fault: the advisory lock of the task is not taken.               *)
MutantPgInsertUnlocked(i) ==
    /\ mode = "postgres" /\ proc[i].pc = "insert"
    /\ IF proc[i].ev \in stored THEN Done(i)
       ELSE Set(i, [proc[i] EXCEPT !.pc = "commit", !.row = doc[proc[i].task], !.name = service.name])
    /\ UNCHANGED <<mode, service, feedVars, stored, redisVars, doc, since, outbox,
                   published, lost, torn, edits, faults>>

PgInsert(i) ==
    /\ mode = "postgres" /\ proc[i].pc = "insert"
    /\ \A j \in Procs \ {i} : InTransaction(j) => proc[j].task # proc[i].task
    /\ IF proc[i].ev \in stored THEN Done(i)     \* the unique key refuses it
       ELSE Set(i, [proc[i] EXCEPT !.pc = "commit", !.row = doc[proc[i].task], !.name = service.name])
    /\ UNCHANGED <<mode, service, feedVars, stored, redisVars, doc, since, outbox,
                   published, lost, torn, edits, faults>>

(* _upsert_task_projection: an existing document keeps the name the        *)
(* registry gave it.                                                       *)
Projected(t, row) == IF doc[t] = None THEN row ELSE [row EXCEPT !.name = doc[t].name]

(* The event, its document and its announcements are committed together.   *)
PgCommit(i) ==
    LET e == proc[i].ev
        t == proc[i].task
    IN  /\ InTransaction(i)
        /\ stored' = stored \cup {e}
        /\ doc' = [doc EXCEPT ![t] = Projected(t, Merged(proc[i].row, e, proc[i].name))]
        /\ since' = [since EXCEPT ![t] = @ \cup {e}]
        /\ outbox' = outbox \cup {e}
        /\ Done(i)
        /\ UNCHANGED <<mode, service, feedVars, redisVars, published, lost, torn, edits, faults>>

(* relay_once: waiting rows are published and marked in one transaction; a *)
(* row that could not be published, or whose mark is lost, stays.          *)
Relay ==
    /\ outbox # {}
    /\ \E sent \in SUBSET outbox : \E marked \in {sent, {}} :
          /\ published' = published \cup sent /\ outbox' = outbox \ marked
          /\ IF marked = outbox THEN UNCHANGED faults
             ELSE faults < MaxFaults /\ faults' = faults + 1
    /\ UNCHANGED <<mode, service, feedVars, proc, stored, redisVars, doc, since, lost, torn, edits>>

-----------------------------------------------------------------------------
(* Redis.  insert_event reads the newest timestamp, takes the dedupe key,  *)
(* and runs a pipeline.                                                    *)
ReadLatest(i) ==
    /\ mode = "redis" /\ proc[i].pc = "insert"
    /\ Set(i, [proc[i] EXCEPT !.pc = "setnx", !.at = latest[proc[i].task]])
    /\ UNCHANGED <<mode, service, feedVars, stored, redisVars, doc, since, outbox, published,
                   lost, torn, edits, faults>>

SetNX(i) ==
    /\ proc[i].pc = "setnx"
    /\ IF proc[i].ev \in keys THEN Done(i) /\ UNCHANGED keys
       ELSE keys' = keys \cup {proc[i].ev} /\ Set(i, [proc[i] EXCEPT !.pc = "pipe"])
    /\ UNCHANGED <<mode, service, feedVars, stored, latest, doc, index, since, outbox,
                   published, lost, torn, edits, faults>>

Pipe(i) ==
    LET e == proc[i].ev
    IN  /\ proc[i].pc = "pipe"
        /\ stored' = stored \cup {e} /\ published' = published \cup {e}
        /\ latest' = [latest EXCEPT ![proc[i].task] = IF Time[e] > proc[i].at THEN Time[e] ELSE @]
        /\ Set(i, [proc[i] EXCEPT !.pc = "getdoc", !.name = service.name])
        /\ UNCHANGED <<mode, service, feedVars, keys, doc, index, since, outbox, lost, torn,
                       edits, faults>>

(* upsert_task_document: read, merge, then set_task_document.              *)
GetDoc(i) ==
    /\ proc[i].pc = "getdoc"
    /\ Set(i, [proc[i] EXCEPT !.pc = "unindex", !.row = Merged(doc[proc[i].task], proc[i].ev, proc[i].name)])
    /\ UNCHANGED <<mode, service, feedVars, stored, redisVars, doc, since, outbox,
                   published, lost, torn, edits, faults>>

(* set_task_document: the sets of the previous document, the document, the *)
(* sets of the new one.                                                    *)
Unindex(i) ==
    LET t == proc[i].task
    IN  /\ proc[i].pc = "unindex"
        /\ index' = [index EXCEPT ![t] = IF doc[t] = None THEN @ ELSE @ \ {doc[t].status}]
        /\ Set(i, [proc[i] EXCEPT !.pc = "setdoc"])
        /\ UNCHANGED <<mode, service, feedVars, stored, keys, latest, doc, since, outbox,
                       published, lost, torn, edits, faults>>

SetDoc(i) ==
    /\ proc[i].pc = "setdoc"
    /\ doc' = [doc EXCEPT ![proc[i].task] = proc[i].row]
    /\ Set(i, [proc[i] EXCEPT !.pc = "index"])
    /\ UNCHANGED <<mode, service, feedVars, stored, redisVars, since, outbox, published, lost,
                   torn, edits, faults>>

AddIndex(i) ==
    /\ proc[i].pc = "index"
    /\ index' = [index EXCEPT ![proc[i].task] = @ \cup {proc[i].row.status}]
    /\ IF i = "registry" THEN Set(i, [Idle EXCEPT !.pc = "rename", !.todo = proc[i].todo]) ELSE Done(i)
    /\ UNCHANGED <<mode, service, feedVars, stored, keys, latest, doc, since, outbox,
                   published, lost, torn, edits, faults>>

-----------------------------------------------------------------------------
Edit == edits < MaxEdits /\ edits' = edits + 1
ServiceLocked == \E i \in Procs : InTransaction(i)
Documented == {t \in Tasks : doc[t] # None}

(* _upsert_service_projection: every document of the service gets its name.*)
Renamed(name) == [t \in Tasks |-> IF doc[t] = None THEN None ELSE [doc[t] EXCEPT !.name = name]]

(* update_service: on PostgreSQL the record and the documents change in a  *)
(* transaction that locks the row of the service; on Redis the documents   *)
(* follow one by one.                                                      *)
Rename ==
    /\ proc["registry"].pc = "idle" /\ service.live /\ ~ServiceLocked /\ Edit
    /\ service' = [service EXCEPT !.name = @ + 1]
    /\ IF mode = "postgres"
       THEN /\ doc' = Renamed(service'.name)
            /\ UNCHANGED proc
       ELSE UNCHANGED doc /\ Set("registry", [Idle EXCEPT !.pc = "rename", !.todo = Documented])
    /\ UNCHANGED <<mode, feedVars, stored, redisVars, since, outbox, published, lost, torn, faults>>

(* _refresh_task_service_metadata: the next document is read, in no order. *)
RenameNext(t) ==
    LET rest == proc["registry"].todo \ {t}
    IN  /\ proc["registry"].pc = "rename" /\ t \in proc["registry"].todo
        /\ Set("registry",
               IF doc[t] = None THEN [Idle EXCEPT !.pc = "rename", !.todo = rest]
               ELSE [Idle EXCEPT !.pc = "unindex", !.todo = rest, !.task = t,
                                 !.row = [doc[t] EXCEPT !.name = service.name]])
        /\ UNCHANGED <<mode, service, feedVars, stored, redisVars, doc, since, outbox,
                       published, lost, torn, edits, faults>>

(* delete_service: on PostgreSQL the documents go with the record, without *)
(* waiting for the transaction of an event; on Redis they follow.          *)
Delete ==
    /\ proc["registry"].pc = "idle" /\ service.live /\ Edit
    /\ service' = [service EXCEPT !.live = FALSE]
    /\ IF mode = "postgres"
       THEN /\ doc' = [t \in Tasks |-> None] /\ since' = [t \in Tasks |-> {}]
            /\ UNCHANGED proc
       ELSE /\ Set("registry", [Idle EXCEPT !.pc = "delete", !.todo = Documented])
            /\ UNCHANGED <<doc, since>>
    /\ UNCHANGED <<mode, feedVars, stored, redisVars, outbox, published, lost, torn, faults>>

DeleteNext(t) ==
    /\ proc["registry"].pc = "delete" /\ t \in proc["registry"].todo
    /\ index' = [index EXCEPT ![t] = IF doc[t] = None THEN @ ELSE @ \ {doc[t].status}]
    /\ Set("registry", [Idle EXCEPT !.pc = "drop", !.todo = proc["registry"].todo \ {t}, !.task = t])
    /\ UNCHANGED <<mode, service, feedVars, stored, keys, latest, doc, since, outbox,
                   published, lost, torn, edits, faults>>

DeleteDoc ==
    LET t == proc["registry"].task
    IN  /\ proc["registry"].pc = "drop"
        /\ doc' = [doc EXCEPT ![t] = None] /\ since' = [since EXCEPT ![t] = {}]
        /\ Set("registry", [Idle EXCEPT !.pc = "delete", !.todo = proc["registry"].todo])
        /\ UNCHANGED <<mode, service, feedVars, stored, redisVars, outbox, published, lost,
                       torn, edits, faults>>

(* The call of the registry or of retention is through all documents.      *)
RegistryDone ==
    /\ proc["registry"].pc \in {"rename", "delete"} /\ proc["registry"].todo = {}
    /\ Set("registry", Idle)
    /\ UNCHANGED <<mode, service, feedVars, stored, redisVars, doc, since, outbox, published,
                   lost, torn, edits, faults>>

(* create_service with the id of a deleted one, documents left behind      *)
(* take the new name.                                                      *)
Create ==
    /\ proc["registry"].pc = "idle" /\ ~service.live /\ ~ServiceLocked
    /\ service' = [live |-> TRUE, name |-> service.name + 1]
    /\ IF mode = "postgres"
       THEN /\ doc' = Renamed(service'.name)
            /\ UNCHANGED proc
       ELSE UNCHANGED doc /\ Set("registry", [Idle EXCEPT !.pc = "rename", !.todo = Documented])
    /\ UNCHANGED <<mode, feedVars, stored, redisVars, since, outbox, published, lost, torn, edits,
                   faults>>

(* The retention worker removes an expired document: a row of PostgreSQL,  *)
(* or the steps of delete_task_document.                                   *)
Prune(t) ==
    /\ doc[t] # None /\ proc["registry"].pc = "idle" /\ Edit
    /\ IF mode = "postgres"
       THEN /\ doc' = [doc EXCEPT ![t] = None] /\ since' = [since EXCEPT ![t] = {}]
            /\ UNCHANGED proc
       ELSE UNCHANGED <<doc, since>> /\ Set("registry", [Idle EXCEPT !.pc = "delete", !.todo = {t}])
    /\ UNCHANGED <<mode, service, feedVars, stored, redisVars, outbox, published, lost, torn, faults>>

(* A call fails: the batch is abandoned, a transaction rolls back, what    *)
(* Redis has executed stays.                                               *)
Abort(i) ==
    /\ proc[i].pc # "idle"
    /\ faults < MaxFaults /\ faults' = faults + 1
    /\ Set(i, Idle)
    /\ sync' = IF i = "pull" THEN NoSync ELSE sync
    /\ lost' = lost \cup (IF proc[i].pc = "pipe" THEN {proc[i].ev} ELSE {})
    /\ torn' = torn \cup (IF proc[i].pc \in {"setdoc", "index", "drop"} THEN {proc[i].task} ELSE {})
    /\ UNCHANGED <<mode, service, feed, emitted, cursor, stored, redisVars, doc, since, outbox,
                   published, edits>>

Ingest(i) ==
    \/ (\E e \in Events : Lookup(i, e)) \/ PgInsert(i) \/ PgCommit(i)
    \/ ReadLatest(i) \/ SetNX(i) \/ Pipe(i) \/ GetDoc(i)

Next ==
    \/ FeedAdd \/ Relay \/ \E e \in Events : PushStart(e)
    \/ SyncStart \/ SyncPage \/ SyncTurn \/ SyncFinish \/ PushEnd
    \/ \E i \in {"pull", "push"} : Ingest(i)
    \/ \E i \in Procs : Unindex(i) \/ SetDoc(i) \/ AddIndex(i) \/ Abort(i)
    \/ Rename \/ Delete \/ Create \/ RegistryDone \/ DeleteDoc
    \/ \E t \in Tasks : RenameNext(t) \/ DeleteNext(t) \/ Prune(t)

Spec == Init /\ [][Next]_vars

-----------------------------------------------------------------------------
(* The pull cursor never runs ahead of what was stored: of the events still*)
(* in the feed, those up to the cursor are in Studio, whatever arrived or  *)
(* was evicted between two pages and wherever an earlier pull broke off;   *)
(* except, on Redis, those whose storing is under way or failed half-way,  *)
(* and those that came while the service was not registered.               *)
CursorCovers ==
    cursor \in feed =>
        \A e \in feed : e <= cursor =>
            e \in stored \cup lost \/ \E i \in Procs : proc[i].pc = "pipe" /\ proc[i].ev = e

(* On PostgreSQL the document of a task has counted every event stored     *)
(* since it was created, in any order: no concurrent ingest is lost.       *)
DocumentComplete ==
    mode = "postgres" => \A t \in Tasks :
        doc[t] # None =>
            /\ since[t] \subseteq doc[t].seen
            /\ doc[t].first = Min({Time[e] : e \in doc[t].seen})
            /\ doc[t].last = Max({Time[e] : e \in doc[t].seen})

(* On PostgreSQL the documents of a registered service carry its name: an  *)
(* event that read the old name never writes it after a rename.            *)
DocumentNamed ==
    mode = "postgres" /\ service.live =>
        \A t \in Tasks : doc[t] # None => doc[t].name = service.name

(* On Redis a document that nobody is writing can be found by its status,  *)
(* unless a call failed while it was written.                              *)
Findable ==
    mode = "redis" /\ (\A i \in Procs : proc[i].pc \notin {"setdoc", "index", "drop"}) =>
        \A t \in Tasks \ torn : doc[t] # None => doc[t].status \in index[t]

(* Both: every event the cursor has passed is stored, and can be found.    *)
FeedCovered == CursorCovers /\ Findable

(* Both: the projection of a task is complete and up to date.              *)
DocumentSound == DocumentComplete /\ DocumentNamed
=============================================================================
