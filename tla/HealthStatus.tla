----------------------------- MODULE HealthStatus -----------------------------
(* The health Studio shows of one registered service: a document of what     *)
(* the last refreshes learnt, and the states derived from it, the registry   *)
(* row and the latest event whenever it is read.  Refreshes, by the worker,  *)
(* by an operator and after a refresh of the capabilities, overlap.  How a   *)
(* row and its card come and go is the module ServiceRegistry.               *)
EXTENDS Naturals, StudioValues

CONSTANTS
    Refreshers,         \* refreshes that may be under way at once
    MaxHealthTime,      \* bound on the clock
    MaxHealthCalls,     \* bound on the refreshes
    StaleAfter          \* seconds after which a capability, an event, a heartbeat is stale

ASSUME HealthAssumption == {MaxHealthTime, MaxHealthCalls, StaleAfter} \subseteq Nat

VARIABLES
    healthClock,
    row,            \* the registry's [enabled, caps, seenAt]; caps: Nothing, "plain", "workers"
    eventAt,        \* time of the latest status or observation; Nothing
    fleet,          \* the service's own workers: [running, beatAt]
    document,       \* the stored document; Nothing
    refresh,        \* refresh[r]: a refresh_health under way
    fetchedAt,      \* when capabilities were last fetched
    lastRefresh,    \* outcome of the last refresh nothing overlapped; Nothing
    healthCalls

healthVars == <<healthClock, row, eventAt, fleet, document, refresh, fetchedAt, lastRefresh, healthCalls>>

Times == Nat \cup {Nothing}
Rows == [enabled : BOOLEAN, caps : {Nothing, "plain", "workers"}, seenAt : Times]
Fleets == [running : BOOLEAN, beatAt : Nat, expired : BOOLEAN]
HealthDocuments ==
    [http : {"unknown", "reachable", "unreachable"}, okAt : Times, error : BOOLEAN,
     workers : Fleets \cup {Nothing}]
ASSUME DocumentAssumption == Nothing \notin HealthDocuments \cup Nat \cup {"failed"}

EmptyDocument == [http |-> "unknown", okAt |-> Nothing, error |-> FALSE, workers |-> Nothing]
NoRefresh == [pc |-> "idle", cached |-> FALSE, alone |-> FALSE, ok |-> FALSE,
         row |-> Nothing, doc |-> EmptyDocument, now |-> 0]

HealthInit ==
    /\ healthClock = 0 /\ eventAt = Nothing /\ document = Nothing
    /\ row = [enabled |-> TRUE, caps |-> Nothing, seenAt |-> Nothing]
    /\ fleet = [running |-> TRUE, beatAt |-> 0]
    /\ refresh = [r \in Refreshers |-> NoRefresh]
    /\ fetchedAt = Nothing /\ lastRefresh = Nothing /\ healthCalls = 0

-----------------------------------------------------------------------------
(* _materialize_document: what is read off a document at a time.           *)
TooOld(at, now) == at = Nothing \/ now > at + StaleAfter

OkAt(svc, doc) == IF doc.okAt # Nothing THEN doc.okAt ELSE svc.seenAt
CapabilityState(svc, doc, now) ==
    IF OkAt(svc, doc) = Nothing THEN IF doc.error THEN "error" ELSE "missing"
    ELSE IF TooOld(OkAt(svc, doc), now) THEN "stale" ELSE "fresh"

Freshness(at, now) == IF at = Nothing THEN "missing" ELSE IF TooOld(at, now) THEN "stale" ELSE "fresh"

WorkerState(svc, doc, now) ==
    IF svc.caps = "plain" THEN "unsupported"
    ELSE IF svc.caps = Nothing \/ doc.workers = Nothing THEN "unknown"
    ELSE IF ~doc.workers.running THEN "unhealthy"
    ELSE IF doc.workers.expired \/ TooOld(doc.workers.beatAt, now) THEN "stale" ELSE "healthy"

OverallStatus(svc, at, doc, now) ==
    LET capability == CapabilityState(svc, doc, now)
        events == Freshness(at, now)
        workers == WorkerState(svc, doc, now)
    IN  CASE ~svc.enabled -> "disabled"
          [] svc.enabled /\ doc.http = "unreachable" -> "unreachable"
          [] svc.enabled /\ doc.http # "unreachable" /\ "stale" \in {capability, events, workers} -> "stale"
          [] OTHER ->
                IF capability = "error" \/ workers \in {"unhealthy", "unknown"} THEN "degraded"
                ELSE IF capability = "fresh" /\ events = "fresh" THEN "healthy" ELSE "unknown"

(* The document itself changes too when it is materialised: the success    *)
(* of the row is taken over, workers that are no longer served are dropped.*)
Materialized(svc, doc) ==
    [doc EXCEPT !.okAt = OkAt(svc, doc), !.workers = IF svc.caps = "plain" THEN Nothing ELSE @]

(* get_health, and the health of each row of the list of services.  Their  *)
(* reads are gathered: one may be older than another, never newer.         *)
Shown ==
    OverallStatus(row, eventAt, IF document = Nothing THEN EmptyDocument ELSE document, healthClock)

-----------------------------------------------------------------------------
(* The world: time, events, heartbeats, workers that stop, the operator.   *)
HealthTick ==
    /\ healthClock < MaxHealthTime /\ healthClock' = healthClock + 1
    /\ UNCHANGED <<row, eventAt, fleet, document, refresh, fetchedAt, lastRefresh, healthCalls>>

EventSeen ==
    /\ eventAt' = healthClock
    /\ UNCHANGED <<healthClock, row, fleet, document, refresh, fetchedAt, lastRefresh, healthCalls>>

FleetChanges ==
    /\ \E running \in BOOLEAN :
           fleet' = [running |-> running, beatAt |-> IF running THEN healthClock ELSE fleet.beatAt]
    /\ UNCHANGED <<healthClock, row, eventAt, document, refresh, fetchedAt, lastRefresh, healthCalls>>

SetEnabled ==
    /\ healthCalls < MaxHealthCalls /\ healthCalls' = healthCalls + 1
    /\ row' = [row EXCEPT !.enabled = ~@]
    /\ UNCHANGED <<healthClock, eventAt, fleet, document, refresh, fetchedAt, lastRefresh>>

-----------------------------------------------------------------------------
(* A refresh begins, of itself or once refresh_service stored capabilities.*)
Overlapping(r) == {q \in Refreshers \ {r} : refresh[q].pc # "idle"}
Started(r, next) ==
    refresh' = [q \in Refreshers |-> IF q = r THEN [next EXCEPT !.alone = (Overlapping(r) = {})]
                                     ELSE [refresh[q] EXCEPT !.alone = FALSE]]

BeginRefresh(r) ==
    /\ refresh[r].pc = "idle" /\ healthCalls < MaxHealthCalls /\ healthCalls' = healthCalls + 1
    /\ Started(r, [NoRefresh EXCEPT !.pc = "snapshot", !.row = row])
    /\ UNCHANGED <<healthClock, row, eventAt, fleet, document, fetchedAt, lastRefresh>>

CapabilitiesRefreshed(r) ==
    /\ refresh[r].pc = "idle" /\ healthCalls < MaxHealthCalls /\ healthCalls' = healthCalls + 1
    /\ \E caps \in {"plain", "workers"} : row' = [row EXCEPT !.caps = caps, !.seenAt = healthClock]
    /\ fetchedAt' = healthClock
    /\ Started(r, [NoRefresh EXCEPT !.pc = "cached", !.cached = TRUE])
    /\ UNCHANGED <<healthClock, eventAt, fleet, document, lastRefresh>>

ReadCachedRow(r) ==
    /\ refresh[r].pc = "cached"
    /\ refresh' = [refresh EXCEPT ![r].pc = "snapshot", ![r].row = row]
    /\ UNCHANGED <<healthClock, row, eventAt, fleet, document, fetchedAt, lastRefresh, healthCalls>>

(* The previous document and the time; with cached capabilities the        *)
(* service counts as reached.  The activity is read too, and judged anew   *)
(* whenever the document is shown.                                         *)
TakeSnapshot(r) ==
    LET me == refresh[r]
        previous == IF document = Nothing THEN EmptyDocument ELSE document
        seen == IF me.row.seenAt # Nothing THEN me.row.seenAt
                ELSE IF previous.okAt # Nothing THEN previous.okAt ELSE healthClock
    IN  /\ me.pc = "snapshot"
        /\ refresh' = [refresh EXCEPT ![r] =
               [me EXCEPT !.now = healthClock, !.ok = me.cached,
                    !.pc = IF ~me.row.enabled THEN "store" ELSE IF me.cached THEN "workers" ELSE "fetch",
                    !.doc = IF me.row.enabled /\ me.cached
                            THEN [previous EXCEPT !.http = "reachable", !.error = FALSE, !.okAt = seen]
                            ELSE previous]]
        /\ UNCHANGED <<healthClock, row, eventAt, fleet, document, fetchedAt, lastRefresh, healthCalls>>

(* Seeded fault: a check that failed also counts as a success.             *)
MutantFetchFailed(doc, now) == [doc EXCEPT !.error = TRUE, !.okAt = now]
FetchFailed(doc, now) == [doc EXCEPT !.http = "unreachable", !.error = TRUE]

FetchCapabilities(r) ==
    LET me == refresh[r]
    IN  /\ me.pc = "fetch"
        /\ \/ \E caps \in {"plain", "workers"} :
                  LET stored == [row EXCEPT !.caps = caps, !.seenAt = healthClock]
                  IN  /\ row' = stored /\ fetchedAt' = healthClock
                      /\ refresh' = [refresh EXCEPT ![r] = [me EXCEPT !.pc = "workers", !.ok = TRUE, !.row = stored,
                             !.doc = [me.doc EXCEPT !.http = "reachable", !.error = FALSE, !.okAt = me.now]]]
           \/ /\ refresh' = [refresh EXCEPT ![r] = [me EXCEPT !.pc = "workers", !.doc = FetchFailed(me.doc, me.now)]]
              /\ UNCHANGED <<row, fetchedAt>>
        /\ UNCHANGED <<healthClock, eventAt, fleet, document, lastRefresh, healthCalls>>

(* What the service says of its workers; without an answer the workers of  *)
(* the previous document stay.                                             *)
WorkerAnswers ==
    {Nothing} \union {[running |-> fleet.running, beatAt |-> fleet.beatAt, expired |-> e] : e \in BOOLEAN}
FetchWorkers(r) ==
    LET me == refresh[r]
    IN  /\ me.pc = "workers"
        /\ \E answer \in IF me.row.caps = "workers" THEN WorkerAnswers \union {me.doc.workers} ELSE {Nothing} :
               refresh' = [refresh EXCEPT ![r] = [me EXCEPT !.pc = "store", !.doc.workers = answer]]
        /\ UNCHANGED <<healthClock, row, eventAt, fleet, document, fetchedAt, lastRefresh, healthCalls>>

StoreHealth(r) ==
    LET me == refresh[r]
    IN  /\ me.pc = "store"
        /\ document' = Materialized(me.row, me.doc)
        /\ lastRefresh' = IF ~me.alone THEN Nothing
                          ELSE IF me.ok THEN "ok"
                          ELSE IF me.row.enabled THEN "failed" ELSE lastRefresh
        /\ refresh' = [refresh EXCEPT ![r] = NoRefresh]
        /\ UNCHANGED <<healthClock, row, eventAt, fleet, fetchedAt, healthCalls>>

HealthNext ==
    \/ HealthTick \/ EventSeen \/ FleetChanges \/ SetEnabled
    \/ \E r \in Refreshers :
           \/ BeginRefresh(r) \/ CapabilitiesRefreshed(r) \/ ReadCachedRow(r) \/ TakeSnapshot(r)
           \/ FetchCapabilities(r) \/ FetchWorkers(r) \/ StoreHealth(r)

HealthSpec == HealthInit /\ [][HealthNext]_healthVars

-----------------------------------------------------------------------------
(* However refreshes overlap and fail, a service shown healthy is enabled, *)
(* and its capabilities were really fetched, an event really seen and,     *)
(* where it reports workers, a heartbeat really sent, all within the       *)
(* limit; and one whose last refresh, overlapped by no other, failed is    *)
(* not shown healthy until capabilities are fetched again.                 *)
HealthHonest ==
    Shown = "healthy" =>
        /\ row.enabled
        /\ ~TooOld(fetchedAt, healthClock) /\ ~TooOld(eventAt, healthClock)
        /\ row.caps = "workers" => ~TooOld(fleet.beatAt, healthClock)
        /\ lastRefresh # "failed"
=============================================================================
