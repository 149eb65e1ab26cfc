--------------------------- MODULE ServiceRegistry ---------------------------
(* Studio's registry of services and the health it shows of each.  On      *)
(* PostgreSQL a change is one transaction; on Redis the record, the         *)
(* reservation of its URL and the list of services are written one by one. *)
(* Creates, updates, deletes, refreshes of the capabilities and refreshes  *)
(* of the health run side by side.                                         *)
EXTENDS Naturals, FiniteSets, StudioValues

CONSTANTS
    Services,
    Urls,               \* environment and normalized base URL
    TrustedUrls,        \* those the outbound policy admits
    RegistryModes,      \* the stores: "postgres", "redis"
    Callers,            \* requests and workers at work at one time
    MaxRegistryCalls    \* bound on the calls made

ASSUME RegistryAssumption ==
    /\ TrustedUrls \subseteq Urls /\ Nothing \notin Services \cup Urls
    /\ RegistryModes \subseteq {"postgres", "redis"}
    /\ MaxRegistryCalls \in Nat

(* The record of a service, the change an update asks for, and the search  *)
(* document of the service.                                                *)
ServiceRows == [url : Urls, status : {"registered", "disabled", "healthy"}, caps : Urls \cup {Nothing}]
RowChanges == [url : Urls \cup {Nothing}, status : {"registered", "disabled", Nothing}]
ShownHealths == {"disabled", "up", "unreachable"}
ServiceCards == [status : {"registered", "disabled", "healthy"}, health : ShownHealths \cup {Nothing}]
CallOps == {"create", "update", "delete", "refresh", "health", "show"}

(* What an operator last asked for.                                        *)
OperatorWords == [url : Urls, status : {"registered", "disabled", "healthy"}]

ASSUME RowAssumption == Nothing \notin ServiceRows \cup ServiceCards \cup OperatorWords \cup CallOps

VARIABLES
    store,          \* the store Studio was configured with
    record,         \* record[s]: what is registered
    owner,          \* owner[u]: the reservation of a URL, Redis only
    listed,         \* the set of registered services, Redis only
    health,         \* health[s]: overall status of the health document
    card,           \* card[s]: the search document of the service
    call,           \* call[p]: what the caller is doing
    word,           \* word[s]: the status and URL the operator last asked for
    checked,        \* services whose health was taken while their card existed
    crossed,        \* services written while another call was storing them
    overlapped,     \* an update or delete ran next to another change
    calls           \* calls made

registryVars == <<store, record, owner, listed, health, card, call, word, checked, crossed,
                  overlapped, calls>>

NoCall == [pc |-> "idle", op |-> Nothing, s |-> Nothing, row |-> Nothing, next |-> Nothing,
           from |-> Nothing, seen |-> Nothing]

RegistryInit ==
    /\ store \in RegistryModes
    /\ record = [s \in Services |-> Nothing] /\ owner = [u \in Urls |-> Nothing]
    /\ listed = {}
    /\ health = [s \in Services |-> Nothing] /\ card = [s \in Services |-> Nothing]
    /\ call = [p \in Callers |-> NoCall]
    /\ word = [s \in Services |-> Nothing]
    /\ checked = {} /\ crossed = {} /\ overlapped = FALSE /\ calls = 0

Step(p, rec) == call' = [call EXCEPT ![p] = rec]
Go(p, pc) == Step(p, [call[p] EXCEPT !.pc = pc])
End(p) == Step(p, NoCall)

(* Callers between the read of a record and the write of its new version.  *)
Storing(s) == {p \in Callers : call[p].s = s /\ call[p].pc \in {"prev", "owner", "write", "commit"}
                               /\ call[p].op # "create"}
CrossedBy(p, s) == crossed' = IF Storing(s) \ {p} = {} THEN crossed ELSE crossed \cup {s}

-----------------------------------------------------------------------------
(* The calls.                                                              *)
Begin(p, rec) ==
    /\ call[p] = NoCall /\ calls < MaxRegistryCalls /\ calls' = calls + 1
    /\ Step(p, rec)
    /\ overlapped' = \/ overlapped
                     \/ \E q \in Callers \ {p} : /\ call[q].op # Nothing
                                                 /\ {rec.op, call[q].op} # {"create"}
    /\ UNCHANGED <<store, record, owner, listed, health, card, word, checked, crossed>>

(* create_service: a fresh record of an admitted URL.                      *)
CreateService(p, s, u) ==
    /\ u \in TrustedUrls
    /\ Begin(p, [NoCall EXCEPT !.op = "create", !.s = s,
                     !.pc = IF store = "redis" THEN "create" ELSE "commit",
                     !.next = [url |-> u, status |-> "registered", caps |-> Nothing]])

(* update_service: the caller names a new URL or a new status, never       *)
(* "healthy"; `from' holds what it asked for.                              *)
UpdateService(p, s, change) ==
    /\ change.url \in TrustedUrls \cup {Nothing}
    /\ change.status \in {"registered", "disabled", Nothing}
    /\ Begin(p, [NoCall EXCEPT !.op = "update", !.s = s, !.pc = "read", !.from = change])

DeleteService(p, s) == Begin(p, [NoCall EXCEPT !.op = "delete", !.s = s, !.pc = "read"])

(* refresh_service, and refresh_health with or without cached capabilities.*)
RefreshService(p, s) == Begin(p, [NoCall EXCEPT !.op = "refresh", !.s = s, !.pc = "target"])
RefreshHealth(p, s) == Begin(p, [NoCall EXCEPT !.op = "health", !.s = s, !.pc = "target"])

(* fetch_capability_document reads the record for its URL; the health of a *)
(* disabled service is taken without a request.                            *)
Target(p) ==
    LET me == call[p]
        r == record[me.s]
    IN  /\ me.pc = "target"
        /\ IF r = Nothing THEN End(p)
           ELSE Step(p, [me EXCEPT !.row = r, !.from = r.url,
                             !.pc = IF me.op = "health" /\ r.status = "disabled" THEN "health" ELSE "fetch"])
        /\ UNCHANGED <<store, record, owner, listed, health, card, word, checked, crossed, overlapped, calls>>

(* Seeded fault: the record read before the request is written back.       *)
MutantFetch(p) ==
    LET me == call[p]
    IN  /\ me.pc = "fetch"
        /\ \/ Step(p, [me EXCEPT !.pc = IF store = "redis" THEN "prev" ELSE "commit",
                                 !.next = [me.row EXCEPT !.caps = me.from]])
           \/ IF me.op = "health" THEN Step(p, [me EXCEPT !.pc = "health", !.from = Nothing]) ELSE End(p)
        /\ UNCHANGED <<store, record, owner, listed, health, card, word, checked, crossed, overlapped, calls>>

(* The answer arrives, or the request fails: a health refresh records it.  *)
Fetch(p) ==
    LET me == call[p]
    IN  /\ me.pc = "fetch"
        /\ \/ Go(p, "read")
           \/ IF me.op = "health" THEN Step(p, [me EXCEPT !.pc = "health", !.from = Nothing]) ELSE End(p)
        /\ UNCHANGED <<store, record, owner, listed, health, card, word, checked, crossed, overlapped, calls>>

(* The version of a record a call stores: an operator's changes, or the    *)
(* capabilities fetched; a refresh marks the service healthy unless it is  *)
(* disabled.                                                               *)
Changed(me, r) ==
    IF me.op = "update"
    THEN [r EXCEPT !.url = IF me.from.url = Nothing THEN @ ELSE me.from.url,
                   !.status = IF me.from.status = Nothing THEN @ ELSE me.from.status]
    ELSE [r EXCEPT !.caps = me.from,
                   !.status = IF me.op = "refresh" /\ @ # "disabled" THEN "healthy" ELSE @]

(* get_service before a change; a health refresh takes a missing service   *)
(* for an unreachable one.                                                 *)
Read(p) ==
    LET me == call[p]
        r == record[me.s]
    IN  /\ me.pc = "read"
        /\ IF r = Nothing
           THEN IF me.op = "health" THEN Step(p, [me EXCEPT !.pc = "health", !.from = Nothing]) ELSE End(p)
           ELSE Step(p, [me EXCEPT !.pc = IF store = "redis" THEN "prev" ELSE "commit",
                             !.next = IF me.op = "delete" THEN Nothing ELSE Changed(me, r)])
        /\ UNCHANGED <<store, record, owner, listed, health, card, word, checked, crossed, overlapped, calls>>

(* Where a call goes once its record is stored.                            *)
Stored(p) ==
    LET me == call[p]
    IN  IF store = "redis" THEN Step(p, [me EXCEPT !.pc = "card", !.row = me.next])
        ELSE IF me.op = "health" THEN Step(p, [me EXCEPT !.pc = "health", !.row = me.next])
        ELSE End(p)

(* What the operator has asked for, once it is stored.                     *)
Spoken(me) ==
    IF me.op \in {"create", "update"} THEN [word EXCEPT ![me.s] = [url |-> me.next.url, status |->
        IF me.op = "create" \/ me.from.status # Nothing THEN me.next.status
        ELSE IF @ = Nothing THEN "registered" ELSE @.status]]
    ELSE IF me.op = "delete" THEN [word EXCEPT ![me.s] = Nothing] ELSE word

-----------------------------------------------------------------------------
(* PostgreSQL: one transaction per change; the partial unique index admits *)
(* one live service per URL.                                               *)
UrlFree(s, u) == \A t \in Services \ {s} : record[t] # Nothing => record[t].url # u

(* _upsert_service_projection leaves the health alone.                     *)
Projected(s, next) ==
    [status |-> next.status, health |-> IF card[s] = Nothing THEN Nothing ELSE card[s].health]

Commit(p) ==
    LET me == call[p]
        s == me.s
    IN  /\ me.pc = "commit"
        /\ \/ /\ me.op = "delete" /\ record[s] # Nothing
              /\ record' = [record EXCEPT ![s] = Nothing]
              /\ card' = [card EXCEPT ![s] = Nothing]
              /\ checked' = checked \ {s}
              /\ word' = Spoken(me) /\ CrossedBy(p, s) /\ End(p)
           \/ /\ me.op # "delete" /\ (record[s] = Nothing <=> me.op = "create")
              /\ UrlFree(s, me.next.url)
              /\ record' = [record EXCEPT ![s] = me.next]
              /\ card' = [card EXCEPT ![s] = Projected(s, me.next)]
              /\ word' = Spoken(me) /\ CrossedBy(p, s) /\ Stored(p) /\ UNCHANGED checked
           \/ /\ IF me.op = "delete" THEN record[s] = Nothing
                 ELSE (record[s] = Nothing <=> me.op = "create") => ~UrlFree(s, me.next.url)
              /\ IF me.op = "health" THEN Step(p, [me EXCEPT !.pc = "health", !.from = Nothing]) ELSE End(p)
              /\ UNCHANGED <<record, card, word, checked, crossed>>
        /\ UNCHANGED <<store, owner, listed, health, overlapped, calls>>

-----------------------------------------------------------------------------
(* Redis: _create_record reserves the id, then the URL.                    *)
ReserveId(p) ==
    LET me == call[p]
    IN  /\ me.pc = "create"
        /\ IF record[me.s] # Nothing THEN End(p) /\ UNCHANGED <<record, word>>
           ELSE /\ record' = [record EXCEPT ![me.s] = me.next]
                /\ word' = Spoken(me) /\ Go(p, "reserve")
        /\ UNCHANGED <<store, owner, listed, health, card, checked, crossed, overlapped, calls>>

ReserveUrl(p) ==
    LET me == call[p]
        u == me.next.url
    IN  /\ me.pc = "reserve"
        /\ IF owner[u] # Nothing THEN Go(p, "undo") /\ UNCHANGED owner
           ELSE owner' = [owner EXCEPT ![u] = me.s] /\ Go(p, "add")
        /\ UNCHANGED <<store, record, listed, health, card, word, checked, crossed, overlapped, calls>>

(* A URL that is taken gives the id back; a failing SADD gives both back.  *)
Undo(p) ==
    LET me == call[p]
    IN  /\ me.pc \in {"undo", "undoboth"}
        /\ record' = [record EXCEPT ![me.s] = Nothing]
        /\ owner' = IF me.pc = "undo" THEN owner ELSE [owner EXCEPT ![me.next.url] = Nothing]
        /\ word' = [word EXCEPT ![me.s] = Nothing]
        /\ CrossedBy(p, me.s) /\ End(p)
        /\ UNCHANGED <<store, listed, health, card, checked, overlapped, calls>>

AddToList(p) ==
    LET me == call[p]
    IN  /\ me.pc = "add"
        /\ \/ listed' = listed \cup {me.s} /\ Stored(p)
           \/ UNCHANGED listed /\ Go(p, "undoboth")
        /\ UNCHANGED <<store, record, owner, health, card, word, checked, crossed, overlapped, calls>>

(* update and delete read the record once more for its old URL.            *)
Previous(p) ==
    LET me == call[p]
        r == record[me.s]
    IN  /\ me.pc = "prev"
        /\ IF r # Nothing
           THEN Step(p, [me EXCEPT !.seen = r.url, !.pc = IF me.op = "delete" THEN "drop" ELSE "owner"])
           ELSE IF me.op = "health" THEN Step(p, [me EXCEPT !.pc = "health", !.from = Nothing]) ELSE End(p)
        /\ UNCHANGED <<store, record, owner, listed, health, card, word, checked, crossed, overlapped, calls>>

CheckOwner(p) ==
    LET me == call[p]
    IN  /\ me.pc = "owner"
        /\ IF owner[me.next.url] \in {Nothing, me.s} THEN Go(p, "write")
           ELSE IF me.op = "health" THEN Step(p, [me EXCEPT !.pc = "health", !.from = Nothing]) ELSE End(p)
        /\ UNCHANGED <<store, record, owner, listed, health, card, word, checked, crossed, overlapped, calls>>

WriteRecord(p) ==
    LET me == call[p]
    IN  /\ me.pc = "write"
        /\ record' = [record EXCEPT ![me.s] = me.next]
        /\ word' = Spoken(me) /\ CrossedBy(p, me.s) /\ Go(p, "list")
        /\ UNCHANGED <<store, owner, listed, health, card, checked, overlapped, calls>>

ListAgain(p) ==
    /\ call[p].pc = "list"
    /\ listed' = listed \cup {call[p].s} /\ Go(p, "own")
    /\ UNCHANGED <<store, record, owner, health, card, word, checked, crossed, overlapped, calls>>

TakeUrl(p) ==
    LET me == call[p]
    IN  /\ me.pc = "own"
        /\ owner' = [owner EXCEPT ![me.next.url] = me.s]
        /\ IF me.seen # me.next.url THEN Go(p, "disown") ELSE Stored(p)
        /\ UNCHANGED <<store, record, listed, health, card, word, checked, crossed, overlapped, calls>>

LeaveUrl(p) ==
    LET me == call[p]
    IN  /\ me.pc = "disown"
        /\ owner' = [owner EXCEPT ![me.seen] = Nothing]
        /\ IF me.op = "delete" THEN Go(p, "unlist") ELSE Stored(p)
        /\ UNCHANGED <<store, record, listed, health, card, word, checked, crossed, overlapped, calls>>

DropRecord(p) ==
    LET me == call[p]
    IN  /\ me.pc = "drop"
        /\ record' = [record EXCEPT ![me.s] = Nothing]
        /\ word' = Spoken(me) /\ CrossedBy(p, me.s) /\ Go(p, "disown")
        /\ UNCHANGED <<store, owner, listed, health, card, checked, overlapped, calls>>

Unlist(p) ==
    /\ call[p].pc = "unlist"
    /\ listed' = listed \ {call[p].s} /\ Go(p, "uncard")
    /\ UNCHANGED <<store, record, owner, health, card, word, checked, crossed, overlapped, calls>>

(* delete_service_document.                                                *)
DropCard(p) ==
    /\ call[p].pc = "uncard"
    /\ card' = [card EXCEPT ![call[p].s] = Nothing] /\ checked' = checked \ {call[p].s}
    /\ End(p)
    /\ UNCHANGED <<store, record, owner, listed, health, word, crossed, overlapped, calls>>

(* upsert_service_document: the health shown is kept unless one is given.  *)
ReadCard(p) ==
    LET me == call[p]
    IN  /\ me.pc = "card"
        /\ Step(p, [me EXCEPT !.pc = "setcard",
                              !.seen = IF card[me.s] = Nothing THEN Nothing ELSE card[me.s].health])
        /\ UNCHANGED <<store, record, owner, listed, health, card, word, checked, crossed, overlapped, calls>>

SetCard(p) ==
    LET me == call[p]
    IN  /\ me.pc = "setcard"
        /\ card' = [card EXCEPT ![me.s] = [status |-> me.row.status, health |-> me.seen]]
        /\ IF me.op = "health" THEN Go(p, "health") ELSE End(p)
        /\ UNCHANGED <<store, record, owner, listed, health, word, checked, crossed, overlapped, calls>>

-----------------------------------------------------------------------------
(* The overall status of a service whose record is `row': see HealthStatus *)
(* for what stands behind "up".                                            *)
Overall(row, answered) ==
    IF row.status = "disabled" THEN "disabled" ELSE IF answered THEN "up" ELSE "unreachable"

(* set_health; PostgreSQL shows it in the projection in the same           *)
(* transaction, on Redis the card follows, except in the worker's sweep    *)
(* over a disabled service.                                                *)
SetHealth(p) ==
    LET me == call[p]
        h == Overall(me.row, me.from # Nothing)
    IN  /\ me.pc = "health"
        /\ health' = [health EXCEPT ![me.s] = h]
        /\ IF store = "postgres"
           THEN /\ card' = [card EXCEPT ![me.s] = IF @ = Nothing THEN @ ELSE [@ EXCEPT !.health = h]]
                /\ checked' = IF card[me.s] = Nothing THEN checked ELSE checked \cup {me.s}
                /\ End(p)
           ELSE /\ UNCHANGED <<card, checked>>
                /\ \/ Step(p, [me EXCEPT !.pc = "setcard", !.op = "show", !.seen = h])
                   \/ me.row.status = "disabled" /\ End(p)
        /\ UNCHANGED <<store, record, owner, listed, word, crossed, overlapped, calls>>

RegistryCall(p) ==
    \/ \E s \in Services :
        \/ \E u \in Urls : CreateService(p, s, u)
        \/ \E u \in Urls \cup {Nothing}, st \in {"registered", "disabled", Nothing} :
              UpdateService(p, s, [url |-> u, status |-> st])
        \/ DeleteService(p, s) \/ RefreshService(p, s) \/ RefreshHealth(p, s)

RegistryNext ==
    \E p \in Callers :
        \/ RegistryCall(p)
        \/ Target(p) \/ Fetch(p) \/ Read(p) \/ Commit(p)
        \/ ReserveId(p) \/ ReserveUrl(p) \/ Undo(p) \/ AddToList(p)
        \/ Previous(p) \/ CheckOwner(p) \/ WriteRecord(p) \/ ListAgain(p) \/ TakeUrl(p) \/ LeaveUrl(p)
        \/ DropRecord(p) \/ Unlist(p) \/ DropCard(p)
        \/ ReadCard(p) \/ SetCard(p) \/ SetHealth(p)

RegistrySpec == RegistryInit /\ [][RegistryNext]_registryVars

-----------------------------------------------------------------------------
(* One service per environment and URL: on PostgreSQL always; on Redis,    *)
(* once the calls have ended, the reservations, the list and the records   *)
(* agree after any overlap of creates, and of other changes one at a time. *)
RegistryConsistent ==
    /\ store = "postgres" =>
          \A s, t \in Services : s # t /\ record[s] # Nothing /\ record[t] # Nothing
                                 => record[s].url # record[t].url
    /\ store = "redis" /\ ~overlapped /\ (\A p \in Callers : call[p] = NoCall) =>
          /\ listed = {s \in Services : record[s] # Nothing}
          /\ \A s \in listed : owner[record[s].url] = s
          /\ \A u \in Urls : owner[u] # Nothing => record[owner[u]] # Nothing /\ record[owner[u]].url = u

(* What the operator asked for stands: a refresh that was waiting for the  *)
(* service meanwhile neither moves it back to an old URL nor wakes a       *)
(* disabled one, unless another call was storing the same record.          *)
OperatorWins ==
    \A s \in Services \ crossed : record[s] # Nothing /\ word[s] # Nothing =>
        /\ record[s].url = word[s].url
        /\ word[s].status = "disabled" <=> record[s].status = "disabled"

(* On PostgreSQL the search projection of a service shows the health last  *)
(* stored, whatever the registry writes next to it.                        *)
HealthShown ==
    store = "postgres" => \A s \in checked : card[s].health = health[s]

(* All three: the stores of the registry agree with each other, with what  *)
(* the operators asked for and with the health last taken.                 *)
RegistrySound == RegistryConsistent /\ OperatorWins /\ HealthShown
=============================================================================
