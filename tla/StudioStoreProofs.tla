-------------------------- MODULE StudioStoreProofs --------------------------
(* Proofs about what Studio keeps in its stores for several callers at a   *)
(* time: the registry of services (ServiceRegistry), for any number of     *)
(* services, URLs and callers, on PostgreSQL and on Redis, and the plans   *)
(* of the recovery center (Recovery), for any plans, cohorts, replicas,    *)
(* controls and faults.                                                    *)
EXTENDS ServiceRegistry, Recovery, FiniteSetTheorems, TLAPS

-----------------------------------------------------------------------------
(* ServiceRegistry: the inductive invariant.                               *)

(* Calls under way: what each knows, and in which order it may be.         *)
CallSteps ==
    {"idle", "target", "fetch", "read", "commit", "create", "reserve", "undo", "undoboth", "add", "prev", "owner",
     "write", "list", "own", "disown", "drop", "unlist", "uncard", "card", "setcard", "health"}
CallRecords ==
    [pc : CallSteps, op : CallOps \cup {Nothing}, s : Services \cup {Nothing}, row : ServiceRows \cup {Nothing},
     next : ServiceRows \cup {Nothing}, from : Urls \cup {Nothing} \cup RowChanges,
     seen : Urls \cup {Nothing} \cup ShownHealths]

(* Which call comes to which step.                                         *)
CallOrder(me) ==
    /\ me.op = Nothing <=> me.pc = "idle"
    /\ me.pc \in {"create", "reserve", "undo", "undoboth", "add"} => me.op = "create"
    /\ me.pc \in {"target", "fetch"} => me.op \in {"refresh", "health"}
    /\ me.pc \in {"read", "prev", "disown"} => me.op \in {"update", "delete", "refresh", "health"}
    /\ me.pc \in {"owner", "write", "list", "own"} => me.op \in {"update", "refresh", "health"}
    /\ me.pc \in {"drop", "unlist", "uncard"} => me.op = "delete"
    /\ me.pc \in {"commit", "card"} => me.op # "show"
    /\ me.pc = "card" => me.op # "delete"
    /\ me.pc = "health" => me.op = "health"

(* What the call has read and built so far.                                *)
CallLoad(me) ==
    /\ me.pc # "idle" => me.s \in Services
    /\ me.op = "update" => me.from \in RowChanges
    /\ me.op \in {"refresh", "health"} => me.from \in Urls \cup {Nothing}
    /\ \/ me.pc \in {"create", "reserve", "undo", "undoboth", "add", "owner", "write", "list", "own"}
       \/ me.pc \in {"commit", "prev", "disown"} /\ me.op # "delete"
       => me.next \in ServiceRows
    /\ me.op \in {"refresh", "health"} /\ me.pc \in {"fetch", "read", "commit", "prev"} => me.from \in Urls \cup {Nothing}
    /\ me.pc \in {"card", "setcard", "health"} => me.row \in ServiceRows
    /\ me.pc = "setcard" => me.seen \in ShownHealths \cup {Nothing}
    /\ me.op = "health" /\ me.pc # "target" => me.row \in ServiceRows
    /\ me.pc \in {"owner", "write", "list", "own", "drop", "disown"} => me.seen \in Urls

(* The steps of each store.                                                *)
CallStore(me) ==
    /\ store = "postgres" => me.pc \in {"idle", "target", "fetch", "read", "commit", "health"}
    /\ store = "redis" => me.pc # "commit"

CallFits(me) == me \in CallRecords /\ CallOrder(me) /\ CallLoad(me) /\ CallStore(me)

RegistryTypes ==
    /\ store \in {"postgres", "redis"}
    /\ record \in [Services -> ServiceRows \cup {Nothing}]
    /\ owner \in [Urls -> Services \cup {Nothing}]
    /\ listed \subseteq Services
    /\ health \in [Services -> ShownHealths \cup {Nothing}]
    /\ card \in [Services -> ServiceCards \cup {Nothing}]
    /\ call \in [Callers -> CallRecords] /\ \A p \in Callers : CallFits(call[p])
    /\ word \in [Services -> OperatorWords \cup {Nothing}]
    /\ checked \subseteq Services /\ crossed \subseteq Services

(* What a call keeps of the record it read.                                *)
Follows(me, r) ==
    /\ r # Nothing
    /\ me.op # "update" => me.next.url = r.url
    /\ me.op # "update" \/ me.from.status = Nothing => (me.next.status = "disabled" <=> r.status = "disabled")

(* The record says what the operator asked for, and what is about to be    *)
(* stored follows the record: a change between the two is noted.           *)
WordKept ==
    \A s \in Services \ crossed :
        /\ record[s] # Nothing => /\ word[s] # Nothing /\ record[s].url = word[s].url
                                  /\ word[s].status = "disabled" <=> record[s].status = "disabled"
        /\ \A p \in Storing(s) : call[p].op # "delete" => Follows(call[p], record[s])

(* PostgreSQL: one record for a URL, and the projection shows the health.  *)
OneRow ==
    store = "postgres" =>
        /\ \A s, t \in Services : s # t /\ record[s] # Nothing /\ record[t] # Nothing => record[s].url # record[t].url
        /\ \A s \in checked : card[s] # Nothing /\ card[s].health = health[s]

(* Redis: without overlap only creates run side by side.                   *)
OnlyCreates ==
    \A p, q \in Callers : p # q /\ call[p].op # Nothing /\ call[q].op # Nothing =>
                          call[p].op = "create" /\ call[q].op = "create"

(* The steps at which the record, the reservations and the list disagree.  *)
Entering == {"reserve", "undo", "add", "undoboth"}
Amid == Entering \cup {"list", "own", "disown", "unlist"}
BusyWith(s) == {p \in Callers : call[p].s = s /\ call[p].pc \in Amid}

(* They agree about a service no call is amid.                             *)
Settled(s, rcd, own, lst) ==
    /\ s \in lst <=> rcd[s] # Nothing
    /\ rcd[s] # Nothing => own[rcd[s].url] = s
    /\ \A u \in Urls : own[u] = s => rcd[s] # Nothing /\ rcd[s].url = u

(* A create amid its steps has the service to itself.                      *)
EnterFits(me, rcd, own, lst) ==
    me.pc \in Entering =>
        /\ rcd[me.s] = me.next /\ me.s \notin lst
        /\ me.pc \in {"reserve", "undo"} => \A u \in Urls : own[u] # me.s
        /\ me.pc \in {"add", "undoboth"} => \A u \in Urls : own[u] = me.s <=> u = me.next.url

(* Update and delete, from the second read of the record on.               *)
ChangeFits(me, rcd, own, lst) ==
    /\ me.pc \in {"owner", "write", "drop"} => rcd[me.s] # Nothing /\ rcd[me.s].url = me.seen
    /\ me.pc = "write" => own[me.next.url] \in {Nothing, me.s}
    /\ me.pc \in {"list", "own"} =>
          /\ rcd[me.s] = me.next /\ me.s \in lst /\ own[me.seen] = me.s
          /\ own[me.next.url] \in {Nothing, me.s}
          /\ \A u \in Urls : own[u] = me.s => u \in {me.seen, me.next.url}
    /\ me.pc = "disown" /\ me.op # "delete" =>
          /\ rcd[me.s] = me.next /\ me.s \in lst /\ own[me.next.url] = me.s /\ me.seen # me.next.url
          /\ own[me.seen] = me.s /\ \A u \in Urls : own[u] = me.s => u \in {me.seen, me.next.url}
    /\ me.pc = "disown" /\ me.op = "delete" =>
          /\ rcd[me.s] = Nothing /\ me.s \in lst
          /\ own[me.seen] = me.s /\ \A u \in Urls : own[u] = me.s => u = me.seen
    /\ me.pc = "unlist" =>
          rcd[me.s] = Nothing /\ me.s \in lst /\ \A u \in Urls : own[u] # me.s

(* One create of a service at a time is past the reservation of its id.    *)
OneEnters ==
    \A p, q \in Callers : call[p].s = call[q].s /\ call[p].pc \in Entering /\ call[q].pc \in Entering => p = q

AllFit == \A p \in Callers : EnterFits(call[p], record, owner, listed) /\ ChangeFits(call[p], record, owner, listed)

AllSettled == \A s \in Services : BusyWith(s) = {} => Settled(s, record, owner, listed)

LinksHold == OnlyCreates /\ OneEnters /\ AllFit /\ AllSettled

Linked == store = "redis" /\ ~overlapped => LinksHold

RegistryInv == RegistryTypes /\ WordKept /\ OneRow /\ Linked

(* The call goes on with a record that fits.                               *)
Advances(p) == \E rec : CallFits(rec) /\ call' = [call EXCEPT ![p] = rec]

(* A record that differs in its step alone.                                *)
OnlyMoved(me, rec, pc) ==
    /\ rec \in CallRecords /\ rec.pc = pc /\ rec.op = me.op /\ rec.s = me.s /\ rec.row = me.row
    /\ rec.next = me.next /\ rec.from = me.from /\ rec.seen = me.seen

(* What Go does to a call.                                                 *)
LEMMA GoMoves ==
    ASSUME NEW me \in CallRecords, NEW pc \in CallSteps
    PROVE  OnlyMoved(me, [me EXCEPT !.pc = pc], pc)
BY DEF OnlyMoved, CallRecords

(* A record field by field.                                                *)
IsCall(rec, pc, op, s, row, next, from, seen) ==
    /\ rec \in CallRecords /\ rec.pc = pc /\ rec.op = op /\ rec.s = s /\ rec.row = row
    /\ rec.next = next /\ rec.from = from /\ rec.seen = seen

(* A call that notes what it has seen.                                     *)
LEMMA SeenNoted ==
    ASSUME NEW me \in CallRecords, NEW pc \in CallSteps, NEW x \in Urls \cup {Nothing} \cup ShownHealths
    PROVE  IsCall([me EXCEPT !.seen = x, !.pc = pc], pc, me.op, me.s, me.row, me.next, me.from, x)
BY DEF CallRecords, IsCall

(* A call that notes the new version of the record.                        *)
LEMMA NextNoted ==
    ASSUME NEW me \in CallRecords, NEW pc \in CallSteps, NEW x \in ServiceRows \cup {Nothing}
    PROVE  IsCall([me EXCEPT !.pc = pc, !.next = x], pc, me.op, me.s, me.row, x, me.from, me.seen)
BY DEF CallRecords, IsCall

(* A call that notes the record whose URL it will ask.                     *)
LEMMA RowNoted ==
    ASSUME NEW me \in CallRecords, NEW pc \in CallSteps, NEW x \in ServiceRows, NEW u \in Urls
    PROVE  IsCall([me EXCEPT !.row = x, !.from = u, !.pc = pc], pc, me.op, me.s, x, me.next, u, me.seen)
BY DEF CallRecords, IsCall

(* Nothing is none of the values a call may have.                          *)
LEMMA NothingElse == Nothing \notin ServiceRows /\ Nothing \notin ServiceCards /\ Nothing \notin CallOps
                     /\ Nothing \notin Services /\ Nothing \notin Urls /\ TrustedUrls \subseteq Urls
BY RegistryAssumption, RowAssumption

(* A call that is over.                                                    *)
LEMMA IdleFits == CallFits(NoCall)
<1>1. NoCall \in CallRecords /\ NoCall.pc = "idle" /\ NoCall.op = Nothing
  BY DEF NoCall, CallRecords, CallSteps
<1> QED BY <1>1, NothingElse DEF CallFits, CallOrder, CallLoad, CallStore, CallOps

(* A call that fits is one of the calls.                                   *)
LEMMA CallTyped ==
    ASSUME RegistryTypes, NEW p \in Callers
    PROVE  /\ CallFits(call[p]) /\ call[p] \in CallRecords /\ call[p].pc \in CallSteps
           /\ call[p].op \in CallOps \cup {Nothing} /\ store \in {"postgres", "redis"}
           /\ call[p].pc # "idle" => call[p].s \in Services /\ record[call[p].s] \in ServiceRows \cup {Nothing}
BY DEF RegistryTypes, CallFits, CallLoad, CallRecords

(* An ended call.                                                          *)
LEMMA EndFits ==
    ASSUME NEW p \in Callers, End(p)
    PROVE  Advances(p)
BY IdleFits DEF End, Step, Advances

(* A health refresh that takes its service for unreachable.                *)
LEMMA UnreachableFits ==
    ASSUME RegistryTypes, NEW p \in Callers, call[p].op = "health", call[p].pc # "target",
           Step(p, [call[p] EXCEPT !.pc = "health", !.from = Nothing])
    PROVE  Advances(p)
<1> DEFINE me == call[p]
<1> DEFINE rec == [me EXCEPT !.pc = "health", !.from = Nothing]
<1>1. me \in CallRecords /\ CallFits(me)
  BY CallTyped
<1>2. /\ rec \in CallRecords /\ rec.pc = "health" /\ rec.from = Nothing /\ rec.op = me.op /\ rec.s = me.s
      /\ rec.row = me.row
  BY <1>1 DEF CallRecords, CallSteps
<1>3. me.pc # "idle"
  BY <1>1, NothingElse DEF CallFits, CallOrder, CallOps
<1>4. CallFits(rec)
  <2> HIDE DEF rec
  <2> QED BY <1>1, <1>2, <1>3, NothingElse DEF CallFits, CallOrder, CallLoad, CallStore, CallOps
<1> QED BY <1>4 DEF Step, Advances

(* A call whose record is stored.                                          *)
LEMMA StoredFits ==
    ASSUME RegistryTypes, NEW p \in Callers, call[p].next \in ServiceRows, call[p].pc # "idle",
           call[p].op \in {"create", "update", "refresh", "health"}, Stored(p)
    PROVE  Advances(p)
<1> DEFINE me == call[p]
<1> DEFINE card1 == [me EXCEPT !.pc = "card", !.row = me.next]
<1> DEFINE health1 == [me EXCEPT !.pc = "health", !.row = me.next]
<1>1. me \in CallRecords /\ CallFits(me) /\ store \in {"postgres", "redis"}
  BY CallTyped
<1>2. /\ card1 \in CallRecords /\ card1.pc = "card" /\ card1.from = me.from /\ card1.op = me.op /\ card1.s = me.s
      /\ card1.row = me.next
      /\ health1 \in CallRecords /\ health1.pc = "health" /\ health1.from = me.from /\ health1.op = me.op
      /\ health1.s = me.s /\ health1.row = me.next
  BY <1>1 DEF CallRecords, CallSteps
<1>3. CASE store = "redis"
  <2>1. call' = [call EXCEPT ![p] = card1]
    BY <1>3 DEF Stored, Step
  <2> HIDE DEF card1
  <2>2. CallFits(card1)
    BY <1>1, <1>2, <1>3, NothingElse DEF CallFits, CallOrder, CallLoad, CallStore, CallOps
  <2> QED BY <2>1, <2>2 DEF Advances
<1>4. CASE store # "redis" /\ me.op = "health"
  <2>1. call' = [call EXCEPT ![p] = health1]
    BY <1>4 DEF Stored, Step
  <2> HIDE DEF health1
  <2>2. CallFits(health1)
    BY <1>1, <1>2, <1>4, NothingElse DEF CallFits, CallOrder, CallLoad, CallStore, CallOps
  <2> QED BY <2>1, <2>2 DEF Advances
<1>5. CASE store # "redis" /\ me.op # "health"
  BY <1>5, EndFits DEF Stored
<1> QED BY <1>3, <1>4, <1>5

(* What Changed makes of a record.                                         *)
LEMMA ChangedRow ==
    ASSUME NEW me \in CallRecords, NEW r \in ServiceRows, CallLoad(me),
           me.op \in {"update", "refresh", "health"}
    PROVE  /\ Changed(me, r) \in ServiceRows
           /\ me.op # "update" => Changed(me, r).url = r.url
           /\ me.op # "update" \/ me.from.status = Nothing =>
                 (Changed(me, r).status = "disabled" <=> r.status = "disabled")
<1>1. CASE me.op = "update"
  BY <1>1 DEF Changed, CallLoad, ServiceRows, RowChanges
<1>2. CASE me.op # "update"
  BY <1>2 DEF Changed, CallLoad, ServiceRows
<1> QED BY <1>1, <1>2

(* A call that goes to a step it may come to with what it holds.           *)
LEMMA GoFits ==
    ASSUME RegistryTypes, NEW p \in Callers, NEW pc \in CallSteps, Go(p, pc),
           \A rec : OnlyMoved(call[p], rec, pc) => CallOrder(rec) /\ CallLoad(rec) /\ CallStore(rec)
    PROVE  Advances(p)
<1>1. OnlyMoved(call[p], [call[p] EXCEPT !.pc = pc], pc)
  BY CallTyped, GoMoves
<1>2. CallFits([call[p] EXCEPT !.pc = pc])
  BY <1>1 DEF CallFits, OnlyMoved
<1> QED BY <1>2 DEF Go, Step, Advances

(* A call that begins.                                                     *)
LEMMA BeginFits ==
    ASSUME RegistryTypes, NEW p \in Callers, RegistryCall(p)
    PROVE  Advances(p)
<1>0. store \in {"postgres", "redis"}
  BY DEF RegistryTypes
<1> USE NothingElse
<1>1. ASSUME NEW s \in Services, NEW u \in Urls, CreateService(p, s, u) PROVE Advances(p)
  <2> DEFINE row == [url |-> u, status |-> "registered", caps |-> Nothing]
  <2> DEFINE rec == [NoCall EXCEPT !.op = "create", !.s = s, !.pc = IF store = "redis" THEN "create" ELSE "commit",
                                   !.next = row]
  <2>1. row \in ServiceRows
    BY DEF ServiceRows
  <2>2. call' = [call EXCEPT ![p] = rec]
    BY <1>1 DEF CreateService, Begin, Step
  <2> HIDE DEF row
  <2>3. /\ rec \in CallRecords /\ rec.op = "create" /\ rec.s = s /\ rec.next = row
        /\ rec.pc = IF store = "redis" THEN "create" ELSE "commit"
    BY <2>1 DEF CallRecords, CallSteps, CallOps, NoCall
  <2> HIDE DEF rec
  <2>4. CallFits(rec)
    BY <1>0, <2>1, <2>2, <2>3 DEF CallFits, CallOrder, CallLoad, CallStore, CallOps
  <2> QED BY <2>2, <2>4 DEF Advances
<1>2. ASSUME NEW s \in Services, NEW change \in RowChanges, UpdateService(p, s, change) PROVE Advances(p)
  <2> DEFINE rec == [NoCall EXCEPT !.op = "update", !.s = s, !.pc = "read", !.from = change]
  <2>1. call' = [call EXCEPT ![p] = rec]
    BY <1>2 DEF UpdateService, Begin, Step
  <2>2. rec \in CallRecords /\ rec.op = "update" /\ rec.s = s /\ rec.from = change /\ rec.pc = "read"
    BY DEF CallRecords, CallSteps, CallOps, NoCall
  <2> HIDE DEF rec
  <2>3. CallFits(rec)
    BY <1>0, <2>2 DEF CallFits, CallOrder, CallLoad, CallStore, CallOps
  <2> QED BY <2>1, <2>3 DEF Advances
<1>3. ASSUME NEW s \in Services, DeleteService(p, s) PROVE Advances(p)
  <2> DEFINE rec == [NoCall EXCEPT !.op = "delete", !.s = s, !.pc = "read"]
  <2>1. call' = [call EXCEPT ![p] = rec]
    BY <1>3 DEF DeleteService, Begin, Step
  <2>2. rec \in CallRecords /\ rec.op = "delete" /\ rec.s = s /\ rec.pc = "read"
    BY DEF CallRecords, CallSteps, CallOps, NoCall
  <2> HIDE DEF rec
  <2>3. CallFits(rec)
    BY <1>0, <2>2 DEF CallFits, CallOrder, CallLoad, CallStore, CallOps
  <2> QED BY <2>1, <2>3 DEF Advances
<1>4. ASSUME NEW s \in Services, NEW op \in {"refresh", "health"},
             Begin(p, [NoCall EXCEPT !.op = op, !.s = s, !.pc = "target"])
      PROVE  Advances(p)
  <2> DEFINE rec == [NoCall EXCEPT !.op = op, !.s = s, !.pc = "target"]
  <2>1. call' = [call EXCEPT ![p] = rec]
    BY <1>4 DEF Begin, Step
  <2>2. rec \in CallRecords /\ rec.op = op /\ rec.s = s /\ rec.pc = "target" /\ rec.from = Nothing
    BY DEF CallRecords, CallSteps, CallOps, NoCall
  <2> HIDE DEF rec
  <2>3. CallFits(rec)
    BY <1>0, <2>2 DEF CallFits, CallOrder, CallLoad, CallStore, CallOps
  <2> QED BY <2>1, <2>3 DEF Advances
<1>5. \A u \in Urls \cup {Nothing}, st \in {"registered", "disabled", Nothing} : [url |-> u, status |-> st] \in RowChanges
  BY DEF RowChanges
<1> QED BY <1>1, <1>2, <1>3, <1>4, <1>5 DEF RegistryCall, RefreshService, RefreshHealth

(* Every step of a call leaves it with what its next step needs.           *)
LEMMA CallAdvances ==
    ASSUME RegistryTypes, RegistryNext
    PROVE  \E p \in Callers : Advances(p)
<1> USE NothingElse
<1> SUFFICES ASSUME NEW p \in Callers,
                    \/ RegistryCall(p) \/ Target(p) \/ Fetch(p) \/ Read(p) \/ Commit(p) \/ ReserveId(p)
                    \/ ReserveUrl(p) \/ Undo(p) \/ AddToList(p) \/ Previous(p) \/ CheckOwner(p) \/ WriteRecord(p)
                    \/ ListAgain(p) \/ TakeUrl(p) \/ LeaveUrl(p) \/ DropRecord(p) \/ Unlist(p) \/ DropCard(p)
                    \/ ReadCard(p) \/ SetCard(p) \/ SetHealth(p)
             PROVE  Advances(p)
  BY DEF RegistryNext
<1> DEFINE me == call[p]
<1>0. /\ me \in CallRecords /\ me.pc \in CallSteps /\ CallOrder(me) /\ CallLoad(me) /\ CallStore(me)
      /\ store \in {"postgres", "redis"} /\ me.op \in CallOps \cup {Nothing}
      /\ me.pc # "idle" => me.s \in Services /\ record[me.s] \in ServiceRows \cup {Nothing}
  BY CallTyped DEF CallFits
<1>1. CASE Target(p)
  <2> DEFINE r == record[me.s]
  <2> DEFINE rec == [me EXCEPT !.row = r, !.from = r.url,
                               !.pc = IF me.op = "health" /\ r.status = "disabled" THEN "health" ELSE "fetch"]
  <2>1. CASE r = Nothing
    BY <1>1, <2>1, EndFits DEF Target
  <2>2. CASE r # Nothing
    <3>1. call' = [call EXCEPT ![p] = rec] /\ me.pc = "target"
      BY <1>1, <2>2 DEF Target, Step
    <3>2. r \in ServiceRows /\ r.url \in Urls
      BY <1>0, <2>2, <3>1 DEF ServiceRows
    <3> HIDE DEF r
    <3>3. /\ rec \in CallRecords /\ rec.op = me.op /\ rec.s = me.s /\ rec.row = r /\ rec.from = r.url
          /\ rec.pc \in {"health", "fetch"} /\ (rec.pc = "health" => me.op = "health")
      <4> DEFINE pc == IF me.op = "health" /\ r.status = "disabled" THEN "health" ELSE "fetch"
      <4>1. pc \in CallSteps /\ pc \in {"health", "fetch"} /\ (pc = "health" => me.op = "health")
        BY DEF CallSteps
      <4> HIDE DEF pc
      <4>2. rec = [me EXCEPT !.row = r, !.from = r.url, !.pc = pc]
        BY DEF pc
      <4> HIDE DEF rec
      <4>3. IsCall([me EXCEPT !.row = r, !.from = r.url, !.pc = pc], pc, me.op, me.s, r, me.next, r.url, me.seen)
        BY <1>0, <3>2, <4>1, RowNoted
      <4> QED BY <4>1, <4>2, <4>3 DEF IsCall
    <3> HIDE DEF rec
    <3>4. CallFits(rec)
      BY <1>0, <3>1, <3>2, <3>3 DEF CallFits, CallOrder, CallLoad, CallStore, CallOps
    <3> QED BY <3>1, <3>4 DEF Advances
  <2> QED BY <2>1, <2>2
<1>2. CASE Fetch(p)
  <2>1. CASE Go(p, "read")
    <3>1. \A rec : OnlyMoved(me, rec, "read") => CallOrder(rec) /\ CallLoad(rec) /\ CallStore(rec)
      BY <1>0, <1>2 DEF Fetch, OnlyMoved, CallOrder, CallLoad, CallStore, CallOps
    <3> QED BY <2>1, <3>1, GoFits DEF CallSteps
  <2>2. CASE ~Go(p, "read")
    BY <1>2, <2>2, EndFits, UnreachableFits DEF Fetch
  <2> QED BY <2>1, <2>2
<1>3. CASE Read(p)
  <2> DEFINE r == record[me.s]
  <2> DEFINE next == IF me.op = "delete" THEN Nothing ELSE Changed(me, r)
  <2> DEFINE rec == [me EXCEPT !.pc = IF store = "redis" THEN "prev" ELSE "commit", !.next = next]
  <2>1. CASE r = Nothing
    BY <1>3, <2>1, EndFits, UnreachableFits DEF Read
  <2>2. CASE r # Nothing
    <3>1. call' = [call EXCEPT ![p] = rec] /\ me.pc = "read"
      BY <1>3, <2>2 DEF Read, Step
    <3>2. r \in ServiceRows /\ me.op \in {"update", "delete", "refresh", "health"}
      BY <1>0, <2>2, <3>1 DEF CallOrder
    <3>3. next \in ServiceRows \cup {Nothing} /\ (me.op # "delete" => next \in ServiceRows)
      BY <1>0, <3>2, ChangedRow
    <3> HIDE DEF next
    <3>4. /\ rec \in CallRecords /\ rec.op = me.op /\ rec.s = me.s /\ rec.row = me.row /\ rec.from = me.from
          /\ rec.next = next /\ rec.pc = IF store = "redis" THEN "prev" ELSE "commit"
      <4> DEFINE pc == IF store = "redis" THEN "prev" ELSE "commit"
      <4>1. pc \in CallSteps
        BY DEF CallSteps
      <4>2. rec = [me EXCEPT !.pc = pc, !.next = next]
        OBVIOUS
      <4> HIDE DEF pc
      <4>3. IsCall([me EXCEPT !.pc = pc, !.next = next], pc, me.op, me.s, me.row, next, me.from, me.seen)
        BY <1>0, <3>3, <4>1, NextNoted
      <4> QED BY <4>2, <4>3 DEF IsCall, pc
    <3> HIDE DEF rec
    <3>5. CallFits(rec)
      BY <1>0, <3>1, <3>2, <3>3, <3>4 DEF CallFits, CallOrder, CallLoad, CallStore, CallOps
    <3> QED BY <3>1, <3>5 DEF Advances
  <2> QED BY <2>1, <2>2
<1>4. CASE Commit(p)
  <2>1. me.pc = "commit" /\ (End(p) \/ (me.op # "delete" /\ Stored(p))
           \/ (me.op = "health" /\ Step(p, [me EXCEPT !.pc = "health", !.from = Nothing])))
    BY <1>4 DEF Commit
  <2>2. CASE me.op # "delete" /\ Stored(p)
    <3>1. me.next \in ServiceRows /\ me.op \in {"create", "update", "refresh", "health"}
      BY <1>0, <2>1, <2>2 DEF CallOrder, CallLoad, CallOps
    <3> QED BY <2>1, <2>2, <3>1, StoredFits
  <2> QED BY <2>1, <2>2, EndFits, UnreachableFits
<1>5. CASE ReserveId(p)
  <2>1. CASE Go(p, "reserve")
    <3>1. \A rec : OnlyMoved(me, rec, "reserve") => CallOrder(rec) /\ CallLoad(rec) /\ CallStore(rec)
      BY <1>0, <1>5 DEF ReserveId, OnlyMoved, CallOrder, CallLoad, CallStore, CallOps
    <3> QED BY <2>1, <3>1, GoFits DEF CallSteps
  <2> QED BY <1>5, <2>1, EndFits DEF ReserveId
<1>6. CASE ReserveUrl(p)
  <2>1. PICK pc \in {"undo", "add"} : Go(p, pc)
    BY <1>6 DEF ReserveUrl
  <2>2. \A rec : OnlyMoved(me, rec, pc) => CallOrder(rec) /\ CallLoad(rec) /\ CallStore(rec)
    BY <1>0, <1>6 DEF ReserveUrl, OnlyMoved, CallOrder, CallLoad, CallStore, CallOps
  <2> QED BY <2>1, <2>2, GoFits DEF CallSteps
<1>7. CASE Undo(p)
  BY <1>7, EndFits DEF Undo
<1>8. CASE AddToList(p)
  <2>1. CASE Go(p, "undoboth")
    <3>1. \A rec : OnlyMoved(me, rec, "undoboth") => CallOrder(rec) /\ CallLoad(rec) /\ CallStore(rec)
      BY <1>0, <1>8 DEF AddToList, OnlyMoved, CallOrder, CallLoad, CallStore, CallOps
    <3> QED BY <2>1, <3>1, GoFits DEF CallSteps
  <2>2. CASE Stored(p)
    <3>1. me.next \in ServiceRows /\ me.op = "create" /\ me.pc # "idle"
      BY <1>0, <1>8 DEF AddToList, CallOrder, CallLoad
    <3> QED BY <2>2, <3>1, StoredFits
  <2> QED BY <1>8, <2>1, <2>2 DEF AddToList
<1>9. CASE Previous(p)
  <2> DEFINE r == record[me.s]
  <2> DEFINE rec == [me EXCEPT !.seen = r.url, !.pc = IF me.op = "delete" THEN "drop" ELSE "owner"]
  <2>1. CASE r = Nothing
    BY <1>9, <2>1, EndFits, UnreachableFits DEF Previous
  <2>2. CASE r # Nothing
    <3>1. call' = [call EXCEPT ![p] = rec] /\ me.pc = "prev"
      BY <1>9, <2>2 DEF Previous, Step
    <3>2. r.url \in Urls
      BY <1>0, <2>2, <3>1 DEF ServiceRows
    <3> HIDE DEF r
    <3>3. /\ rec \in CallRecords /\ rec.op = me.op /\ rec.s = me.s /\ rec.row = me.row /\ rec.from = me.from
          /\ rec.next = me.next /\ rec.seen = r.url /\ rec.pc = IF me.op = "delete" THEN "drop" ELSE "owner"
      <4> DEFINE pc == IF me.op = "delete" THEN "drop" ELSE "owner"
      <4>1. pc \in CallSteps /\ r.url \in Urls \cup {Nothing} \cup ShownHealths
        BY <3>2 DEF CallSteps
      <4>2. rec = [me EXCEPT !.seen = r.url, !.pc = pc]
        OBVIOUS
      <4> HIDE DEF pc
      <4>3. IsCall([me EXCEPT !.seen = r.url, !.pc = pc], pc, me.op, me.s, me.row, me.next, me.from, r.url)
        BY <1>0, <4>1, SeenNoted
      <4> QED BY <4>2, <4>3 DEF IsCall, pc
    <3> HIDE DEF rec
    <3>4. CallFits(rec)
      BY <1>0, <3>1, <3>2, <3>3 DEF CallFits, CallOrder, CallLoad, CallStore, CallOps
    <3> QED BY <3>1, <3>4 DEF Advances
  <2> QED BY <2>1, <2>2
<1>10. CASE CheckOwner(p)
  <2>1. CASE Go(p, "write")
    <3>1. \A rec : OnlyMoved(me, rec, "write") => CallOrder(rec) /\ CallLoad(rec) /\ CallStore(rec)
      BY <1>0, <1>10 DEF CheckOwner, OnlyMoved, CallOrder, CallLoad, CallStore, CallOps
    <3> QED BY <2>1, <3>1, GoFits DEF CallSteps
  <2> QED BY <1>10, <2>1, EndFits, UnreachableFits DEF CheckOwner
<1>11. CASE WriteRecord(p)
  <2>1. \A rec : OnlyMoved(me, rec, "list") => CallOrder(rec) /\ CallLoad(rec) /\ CallStore(rec)
    BY <1>0, <1>11 DEF WriteRecord, OnlyMoved, CallOrder, CallLoad, CallStore, CallOps
  <2> QED BY <1>11, <2>1, GoFits DEF WriteRecord, CallSteps
<1>12. CASE ListAgain(p)
  <2>1. \A rec : OnlyMoved(me, rec, "own") => CallOrder(rec) /\ CallLoad(rec) /\ CallStore(rec)
    BY <1>0, <1>12 DEF ListAgain, OnlyMoved, CallOrder, CallLoad, CallStore, CallOps
  <2> QED BY <1>12, <2>1, GoFits DEF ListAgain, CallSteps
<1>13. CASE TakeUrl(p)
  <2>1. \A rec : OnlyMoved(me, rec, "disown") => CallOrder(rec) /\ CallLoad(rec) /\ CallStore(rec)
    BY <1>0, <1>13 DEF TakeUrl, OnlyMoved, CallOrder, CallLoad, CallStore, CallOps
  <2>2. me.next \in ServiceRows /\ me.op \in {"create", "update", "refresh", "health"} /\ me.pc # "idle"
    BY <1>0, <1>13 DEF TakeUrl, CallOrder, CallLoad
  <2> QED BY <1>13, <2>1, <2>2, GoFits, StoredFits DEF TakeUrl, CallSteps
<1>14. CASE LeaveUrl(p)
  <2>1. CASE me.op = "delete"
    <3>1. \A rec : OnlyMoved(me, rec, "unlist") => CallOrder(rec) /\ CallLoad(rec) /\ CallStore(rec)
      BY <1>0, <1>14, <2>1 DEF LeaveUrl, OnlyMoved, CallOrder, CallLoad, CallStore, CallOps
    <3> QED BY <1>14, <2>1, <3>1, GoFits DEF LeaveUrl, CallSteps
  <2>2. CASE me.op # "delete"
    <3>1. me.next \in ServiceRows /\ me.op \in {"create", "update", "refresh", "health"} /\ me.pc # "idle"
      BY <1>0, <1>14, <2>2 DEF LeaveUrl, CallOrder, CallLoad
    <3> QED BY <1>14, <2>2, <3>1, StoredFits DEF LeaveUrl
  <2> QED BY <2>1, <2>2
<1>15. CASE DropRecord(p)
  <2>1. \A rec : OnlyMoved(me, rec, "disown") => CallOrder(rec) /\ CallLoad(rec) /\ CallStore(rec)
    BY <1>0, <1>15 DEF DropRecord, OnlyMoved, CallOrder, CallLoad, CallStore, CallOps
  <2> QED BY <1>15, <2>1, GoFits DEF DropRecord, CallSteps
<1>16. CASE Unlist(p)
  <2>1. \A rec : OnlyMoved(me, rec, "uncard") => CallOrder(rec) /\ CallLoad(rec) /\ CallStore(rec)
    BY <1>0, <1>16 DEF Unlist, OnlyMoved, CallOrder, CallLoad, CallStore, CallOps
  <2> QED BY <1>16, <2>1, GoFits DEF Unlist, CallSteps
<1>17. CASE DropCard(p)
  BY <1>17, EndFits DEF DropCard
<1>18. CASE ReadCard(p)
  <2> DEFINE shown == IF card[me.s] = Nothing THEN Nothing ELSE card[me.s].health
  <2> DEFINE rec == [me EXCEPT !.pc = "setcard", !.seen = shown]
  <2>1. call' = [call EXCEPT ![p] = rec] /\ me.pc = "card"
    BY <1>18 DEF ReadCard, Step
  <2>2. shown \in ShownHealths \cup {Nothing}
    BY <1>0, <2>1 DEF RegistryTypes, ServiceCards
  <2> HIDE DEF shown
  <2>3. /\ rec \in CallRecords /\ rec.op = me.op /\ rec.s = me.s /\ rec.row = me.row /\ rec.from = me.from
        /\ rec.pc = "setcard" /\ rec.seen = shown
    <3>1. shown \in Urls \cup {Nothing} \cup ShownHealths /\ "setcard" \in CallSteps
      BY <2>2 DEF CallSteps
    <3>2. rec = [me EXCEPT !.seen = shown, !.pc = "setcard"]
      BY <1>0 DEF CallRecords
    <3>3. IsCall([me EXCEPT !.seen = shown, !.pc = "setcard"], "setcard", me.op, me.s, me.row, me.next, me.from, shown)
      BY <1>0, <3>1, SeenNoted
    <3> QED BY <3>2, <3>3 DEF IsCall
  <2> HIDE DEF rec
  <2>4. CallFits(rec)
    BY <1>0, <2>1, <2>2, <2>3 DEF CallFits, CallOrder, CallLoad, CallStore, CallOps
  <2> QED BY <2>1, <2>4 DEF Advances
<1>19. CASE SetCard(p)
  <2>1. CASE me.op = "health"
    <3>1. \A rec : OnlyMoved(me, rec, "health") => CallOrder(rec) /\ CallLoad(rec) /\ CallStore(rec)
      BY <1>0, <1>19, <2>1 DEF SetCard, OnlyMoved, CallOrder, CallLoad, CallStore, CallOps
    <3> QED BY <1>19, <2>1, <3>1, GoFits DEF SetCard, CallSteps
  <2>2. CASE me.op # "health"
    BY <1>19, <2>2, EndFits DEF SetCard
  <2> QED BY <2>1, <2>2
<1>20. CASE SetHealth(p)
  <2> DEFINE h == Overall(me.row, me.from # Nothing)
  <2> DEFINE rec == [me EXCEPT !.pc = "setcard", !.op = "show", !.seen = h]
  <2>1. me.pc = "health" /\ (End(p) \/ (store # "postgres" /\ call' = [call EXCEPT ![p] = rec]))
    BY <1>20 DEF SetHealth, Step
  <2>2. h \in ShownHealths
    BY DEF Overall, ShownHealths
  <2> HIDE DEF h
  <2>3. rec \in CallRecords /\ rec.op = "show" /\ rec.s = me.s /\ rec.row = me.row /\ rec.pc = "setcard" /\ rec.seen = h
    BY <1>0, <2>2 DEF CallRecords, CallSteps, CallOps
  <2> HIDE DEF rec
  <2>4. store = "redis" => CallFits(rec)
    BY <1>0, <2>1, <2>2, <2>3 DEF CallFits, CallOrder, CallLoad, CallStore, CallOps
  <2> QED BY <1>0, <2>1, <2>4, EndFits DEF Advances
<1> QED
  BY <1>1, <1>2, <1>3, <1>4, <1>5, <1>6, <1>7, <1>8, <1>9, <1>10, <1>11, <1>12, <1>13, <1>14, <1>15, <1>16, <1>17,
     <1>18, <1>19, <1>20, BeginFits

(* The word of the operator after a call.                                  *)
LEMMA SpokenTyped ==
    ASSUME RegistryTypes, NEW p \in Callers, call[p].pc # "idle",
           call[p].op \in {"create", "update"} => call[p].next \in ServiceRows
    PROVE  Spoken(call[p]) \in [Services -> OperatorWords \cup {Nothing}]
<1> DEFINE me == call[p]
<1>1. word \in [Services -> OperatorWords \cup {Nothing}] /\ me.s \in Services
  BY CallTyped DEF RegistryTypes
<1>2. CASE me.op \in {"create", "update"}
  <2> DEFINE st == IF me.op = "create" \/ me.from.status # Nothing THEN me.next.status
                   ELSE IF word[me.s] = Nothing THEN "registered" ELSE word[me.s].status
  <2>1. me.next.url \in Urls /\ me.next.status \in {"registered", "disabled", "healthy"}
    BY <1>2 DEF ServiceRows
  <2>2. word[me.s] # Nothing => word[me.s].status \in {"registered", "disabled", "healthy"}
    BY <1>1 DEF OperatorWords
  <2>3. [url |-> me.next.url, status |-> st] \in OperatorWords
    BY <2>1, <2>2 DEF OperatorWords
  <2>4. Spoken(me) = [word EXCEPT ![me.s] = [url |-> me.next.url, status |-> st]]
    BY <1>1, <1>2 DEF Spoken
  <2> HIDE DEF st
  <2> QED BY <1>1, <2>3, <2>4
<1>3. CASE me.op \notin {"create", "update"}
  BY <1>1, <1>3 DEF Spoken
<1> QED BY <1>2, <1>3

(* What the stores hold, without the calls.                                *)
StoreTypes ==
    /\ store \in {"postgres", "redis"}
    /\ record \in [Services -> ServiceRows \cup {Nothing}]
    /\ owner \in [Urls -> Services \cup {Nothing}]
    /\ listed \subseteq Services
    /\ health \in [Services -> ShownHealths \cup {Nothing}]
    /\ card \in [Services -> ServiceCards \cup {Nothing}]
    /\ word \in [Services -> OperatorWords \cup {Nothing}]
    /\ checked \subseteq Services /\ crossed \subseteq Services

(* Every step keeps the types of the stores.                               *)
LEMMA NextStoreTypes == RegistryTypes /\ RegistryNext => StoreTypes'
<1> USE NothingElse
<1> SUFFICES ASSUME RegistryTypes, NEW p \in Callers,
                    \/ RegistryCall(p) \/ Target(p) \/ Fetch(p) \/ Read(p) \/ Commit(p) \/ ReserveId(p)
                    \/ ReserveUrl(p) \/ Undo(p) \/ AddToList(p) \/ Previous(p) \/ CheckOwner(p) \/ WriteRecord(p)
                    \/ ListAgain(p) \/ TakeUrl(p) \/ LeaveUrl(p) \/ DropRecord(p) \/ Unlist(p) \/ DropCard(p)
                    \/ ReadCard(p) \/ SetCard(p) \/ SetHealth(p)
             PROVE  StoreTypes'
  BY DEF RegistryNext
<1> DEFINE me == call[p]
<1>0. /\ StoreTypes /\ CallOrder(me) /\ CallLoad(me)
      /\ me.pc # "idle" => me.s \in Services
  BY CallTyped DEF RegistryTypes, StoreTypes, CallFits
<1>1. CASE RegistryCall(p) \/ Target(p) \/ Fetch(p) \/ Read(p) \/ Previous(p) \/ CheckOwner(p) \/ ReadCard(p)
  <2>1. UNCHANGED <<store, record, owner, listed, health, card, word, checked, crossed>>
    BY <1>1 DEF RegistryCall, CreateService, UpdateService, DeleteService, RefreshService, RefreshHealth, Begin, Target,
       Fetch, Read, Previous, CheckOwner, ReadCard
  <2> QED BY <1>0, <2>1 DEF StoreTypes
<1>2. CASE Commit(p)
  <2>1. me.pc = "commit" /\ me.s \in Services /\ (me.op # "delete" => me.next \in ServiceRows)
    BY <1>0, <1>2 DEF Commit, CallLoad
  <2>2. Spoken(me) \in [Services -> OperatorWords \cup {Nothing}]
    BY <2>1, SpokenTyped
  <2>3. me.op # "delete" => Projected(me.s, me.next) \in ServiceCards
    BY <1>0, <2>1 DEF Projected, StoreTypes, ServiceCards, ServiceRows
  <2>4. UNCHANGED <<store, owner, listed, health>> /\ crossed' \subseteq Services
        /\ checked' \subseteq Services /\ word' \in [Services -> OperatorWords \cup {Nothing}]
    BY <1>0, <1>2, <2>1, <2>2 DEF Commit, CrossedBy, StoreTypes
  <2>5. record' \in [Services -> ServiceRows \cup {Nothing}] /\ card' \in [Services -> ServiceCards \cup {Nothing}]
    BY <1>0, <1>2, <2>1, <2>3 DEF Commit, StoreTypes
  <2> QED BY <1>0, <2>4, <2>5 DEF StoreTypes
<1>3. CASE ReserveId(p)
  <2>1. me.pc = "create" /\ me.s \in Services /\ me.next \in ServiceRows
    BY <1>0, <1>3 DEF ReserveId, CallLoad
  <2>2. Spoken(me) \in [Services -> OperatorWords \cup {Nothing}]
    BY <2>1, SpokenTyped
  <2> QED BY <1>0, <1>3, <2>1, <2>2 DEF ReserveId, StoreTypes
<1>4. CASE ReserveUrl(p)
  <2>1. me.s \in Services
    BY <1>0, <1>4 DEF ReserveUrl
  <2> QED BY <1>0, <1>4, <2>1 DEF ReserveUrl, StoreTypes
<1>5. CASE Undo(p)
  <2>1. me.s \in Services
    BY <1>0, <1>5 DEF Undo
  <2> QED BY <1>0, <1>5, <2>1 DEF Undo, CrossedBy, StoreTypes
<1>6. CASE AddToList(p) \/ ListAgain(p) \/ Unlist(p)
  <2>1. me.s \in Services
    BY <1>0, <1>6 DEF AddToList, ListAgain, Unlist
  <2> QED BY <1>0, <1>6, <2>1 DEF AddToList, ListAgain, Unlist, StoreTypes
<1>7. CASE WriteRecord(p) \/ DropRecord(p)
  <2>1. me.s \in Services /\ me.pc # "idle" /\ (WriteRecord(p) => me.next \in ServiceRows) /\ (DropRecord(p) => me.op = "delete")
    BY <1>0, <1>7 DEF WriteRecord, DropRecord, CallLoad, CallOrder
  <2>2. Spoken(me) \in [Services -> OperatorWords \cup {Nothing}]
    BY <1>7, <2>1, SpokenTyped
  <2> QED BY <1>0, <1>7, <2>1, <2>2 DEF WriteRecord, DropRecord, CrossedBy, StoreTypes
<1>8. CASE TakeUrl(p) \/ LeaveUrl(p)
  <2>1. me.s \in Services
    BY <1>0, <1>8 DEF TakeUrl, LeaveUrl
  <2> QED BY <1>0, <1>8, <2>1 DEF TakeUrl, LeaveUrl, StoreTypes
<1>9. CASE DropCard(p)
  BY <1>0, <1>9 DEF DropCard, StoreTypes
<1>10. CASE SetCard(p)
  <2>1. me.s \in Services /\ me.row \in ServiceRows /\ me.seen \in ShownHealths \cup {Nothing}
    BY <1>0, <1>10 DEF SetCard, CallLoad
  <2> DEFINE new == [status |-> me.row.status, health |-> me.seen]
  <2>2. UNCHANGED <<store, record, owner, listed, health, word, checked, crossed>> /\ card' = [card EXCEPT ![me.s] = new]
    BY <1>10 DEF SetCard
  <2>3. new \in ServiceCards
    BY <2>1 DEF ServiceCards, ServiceRows
  <2> QED BY <1>0, <2>1, <2>2, <2>3 DEF StoreTypes
<1>11. CASE SetHealth(p)
  <2> DEFINE h == Overall(me.row, me.from # Nothing)
  <2>1. me.s \in Services /\ h \in ShownHealths
    BY <1>0, <1>11 DEF SetHealth, Overall, ShownHealths
  <2>2. /\ UNCHANGED <<store, record, owner, listed, word, crossed>> /\ health' = [health EXCEPT ![me.s] = h]
        /\ card' \in {card, [card EXCEPT ![me.s] = IF card[me.s] = Nothing THEN card[me.s] ELSE [card[me.s] EXCEPT !.health = h]]}
        /\ checked' \in {checked, checked \cup {me.s}}
    BY <1>0, <1>11 DEF SetHealth, StoreTypes
  <2> HIDE DEF h
  <2>3. (IF card[me.s] = Nothing THEN card[me.s] ELSE [card[me.s] EXCEPT !.health = h]) \in ServiceCards \cup {Nothing}
    BY <1>0, <2>1 DEF StoreTypes, ServiceCards
  <2> QED BY <1>0, <2>1, <2>2, <2>3 DEF StoreTypes
<1> QED BY <1>1, <1>2, <1>3, <1>4, <1>5, <1>6, <1>7, <1>8, <1>9, <1>10, <1>11

(* The types are kept.                                                     *)
LEMMA NextRegistryTypes == RegistryTypes /\ [RegistryNext]_registryVars => RegistryTypes'
<1> SUFFICES ASSUME RegistryTypes, [RegistryNext]_registryVars PROVE RegistryTypes'
  OBVIOUS
<1>1. CASE UNCHANGED registryVars
  BY <1>1 DEF registryVars, RegistryTypes, CallFits, CallOrder, CallLoad, CallStore
<1>2. CASE RegistryNext
  <2>1. PICK p \in Callers : \E rec : CallFits(rec) /\ call' = [call EXCEPT ![p] = rec]
    BY <1>2, CallAdvances DEF Advances
  <2>2. StoreTypes' /\ store' = store
    <3>1. store' = store
      <4>1. ASSUME NEW q \in Callers, RegistryCall(q) PROVE store' = store
        BY <4>1 DEF RegistryCall, CreateService, UpdateService, DeleteService, RefreshService, RefreshHealth, Begin
      <4>2. ASSUME NEW q \in Callers, Target(q) \/ Fetch(q) \/ Read(q) \/ Previous(q) \/ CheckOwner(q) \/ ReadCard(q)
            PROVE  store' = store
        BY <4>2 DEF Target, Fetch, Read, Previous, CheckOwner, ReadCard
      <4>3. ASSUME NEW q \in Callers, Commit(q) \/ ReserveId(q) \/ ReserveUrl(q) \/ Undo(q) \/ AddToList(q)
            PROVE  store' = store
        BY <4>3 DEF Commit, ReserveId, ReserveUrl, Undo, AddToList
      <4>4. ASSUME NEW q \in Callers, \/ WriteRecord(q) \/ ListAgain(q) \/ TakeUrl(q) \/ LeaveUrl(q) \/ DropRecord(q)
                                      \/ Unlist(q) \/ DropCard(q) \/ SetCard(q) \/ SetHealth(q)
            PROVE  store' = store
        BY <4>4 DEF WriteRecord, ListAgain, TakeUrl, LeaveUrl, DropRecord, Unlist, DropCard, SetCard, SetHealth
      <4> QED BY <1>2, <4>1, <4>2, <4>3, <4>4 DEF RegistryNext
    <3> QED BY <1>2, <3>1, NextStoreTypes
  <2>3. call' \in [Callers -> CallRecords] /\ \A q \in Callers : CallFits(call'[q])
    BY <2>1 DEF RegistryTypes, CallFits
  <2>4. \A q \in Callers : CallFits(call[q])'
    BY <2>2, <2>3 DEF CallFits, CallOrder, CallLoad, CallStore
  <2> QED BY <2>2, <2>3, <2>4 DEF RegistryTypes, StoreTypes
<1> QED BY <1>1, <1>2

(* PostgreSQL: a change of a record, or of a card, is a transaction.       *)
LEMMA NextOneRow == RegistryTypes /\ OneRow /\ [RegistryNext]_registryVars => OneRow'
<1> USE NothingElse
<1> SUFFICES ASSUME RegistryTypes, OneRow, [RegistryNext]_registryVars, store' = "postgres" PROVE OneRow'
  BY DEF OneRow
<1>1. CASE UNCHANGED registryVars
  BY <1>1 DEF registryVars, OneRow
<1>2. ASSUME NEW p \in Callers,
             \/ RegistryCall(p) \/ Target(p) \/ Fetch(p) \/ Read(p) \/ Previous(p) \/ CheckOwner(p) \/ ReadCard(p)
             \/ ReserveUrl(p) \/ AddToList(p) \/ ListAgain(p) \/ TakeUrl(p) \/ LeaveUrl(p) \/ Unlist(p)
      PROVE  OneRow'
  <2>1. UNCHANGED <<store, record, health, card, checked>>
    BY <1>2 DEF RegistryCall, CreateService, UpdateService, DeleteService, RefreshService, RefreshHealth, Begin, Target,
       Fetch, Read, Previous, CheckOwner, ReadCard, ReserveUrl, AddToList, ListAgain, TakeUrl, LeaveUrl, Unlist
  <2> QED BY <2>1 DEF OneRow
<1>3. ASSUME NEW p \in Callers,
             ReserveId(p) \/ Undo(p) \/ WriteRecord(p) \/ DropRecord(p) \/ DropCard(p) \/ SetCard(p)
      PROVE  FALSE
  <2>1. store = "postgres"
    BY <1>3 DEF ReserveId, Undo, WriteRecord, DropRecord, DropCard, SetCard
  <2>2. call[p].pc \in {"idle", "target", "fetch", "read", "commit", "health"}
    BY <2>1, CallTyped DEF CallFits, CallStore
  <2> QED BY <1>3, <2>2 DEF ReserveId, Undo, WriteRecord, DropRecord, DropCard, SetCard
<1>4. ASSUME NEW p \in Callers, Commit(p) PROVE OneRow'
  <2> DEFINE me == call[p]
  <2> DEFINE s == me.s
  <2>0. /\ s \in Services /\ (me.op # "delete" => me.next \in ServiceRows) /\ store = "postgres"
        /\ record \in [Services -> ServiceRows \cup {Nothing}] /\ card \in [Services -> ServiceCards \cup {Nothing}]
        /\ UNCHANGED <<store, health>> /\ checked \subseteq Services
    BY <1>4, CallTyped DEF Commit, CallFits, CallLoad, RegistryTypes
  <2>1. CASE record' = [record EXCEPT ![s] = Nothing] /\ card' = [card EXCEPT ![s] = Nothing] /\ checked' = checked \ {s}
    BY <2>0, <2>1 DEF OneRow
  <2>2. CASE /\ UrlFree(s, me.next.url) /\ record' = [record EXCEPT ![s] = me.next] /\ UNCHANGED checked
             /\ card' = [card EXCEPT ![s] = Projected(s, me.next)] /\ me.op # "delete"
    <3> DEFINE new == Projected(s, me.next)
    <3>1. new \in ServiceCards /\ (card[s] # Nothing => new.health = card[s].health)
      BY <2>0, <2>2 DEF Projected, ServiceCards, ServiceRows
    <3> HIDE DEF new
    <3>2. \A q \in Services, r \in Services : q # r /\ record'[q] # Nothing /\ record'[r] # Nothing
                                            => record'[q].url # record'[r].url
      BY <2>0, <2>2 DEF OneRow, UrlFree
    <3>3. \A q \in checked' : card'[q] # Nothing /\ card'[q].health = health'[q]
      BY <2>0, <2>2, <3>1 DEF OneRow, new
    <3> QED BY <3>2, <3>3 DEF OneRow
  <2>3. CASE UNCHANGED <<record, card, checked>>
    BY <2>0, <2>3 DEF OneRow
  <2> QED BY <1>4, <2>1, <2>2, <2>3 DEF Commit
<1>5. ASSUME NEW p \in Callers, SetHealth(p) PROVE OneRow'
  <2> DEFINE me == call[p]
  <2> DEFINE h == Overall(me.row, me.from # Nothing)
  <2> DEFINE new == IF card[me.s] = Nothing THEN card[me.s] ELSE [card[me.s] EXCEPT !.health = h]
  <2>0. /\ me.s \in Services /\ store = "postgres" /\ card \in [Services -> ServiceCards \cup {Nothing}]
        /\ checked \subseteq Services /\ health \in [Services -> ShownHealths \cup {Nothing}]
    BY <1>5, CallTyped DEF SetHealth, CallFits, CallLoad, RegistryTypes
  <2>1. /\ UNCHANGED <<store, record>> /\ health' = [health EXCEPT ![me.s] = h]
        /\ card' = [card EXCEPT ![me.s] = new]
        /\ checked' = IF card[me.s] = Nothing THEN checked ELSE checked \cup {me.s}
    BY <1>5, <2>0 DEF SetHealth
  <2>2. h \in ShownHealths
    BY DEF Overall, ShownHealths
  <2> HIDE DEF h
  <2>3. card[me.s] # Nothing => new \in ServiceCards /\ new.health = h
    BY <2>0, <2>2 DEF ServiceCards
  <2>4. card[me.s] = Nothing => card' = card
    BY <2>0, <2>1
  <2> HIDE DEF new
  <2>5. \A q \in checked' : card'[q] # Nothing /\ card'[q].health = health'[q]
    BY <2>0, <2>1, <2>3, <2>4 DEF OneRow
  <2> QED BY <2>0, <2>1, <2>5 DEF OneRow
<1> QED BY <1>1, <1>2, <1>3, <1>4, <1>5 DEF RegistryNext

(* The record and the operator's word agree.                               *)
Agree(r, w) ==
    r # Nothing => w # Nothing /\ r.url = w.url /\ (w.status = "disabled" <=> r.status = "disabled")

(* A call between the read and the write of its record, or not.            *)
Stores(me) == me.pc \in {"prev", "owner", "write", "commit"} /\ me.op # "create"

(* The same call, as far as the record it will store is concerned.         *)
SameStore(me, rec) == rec.op = me.op /\ rec.s = me.s /\ rec.next = me.next /\ rec.from = me.from

(* The agreement, call by call.                                            *)
LEMMA WordByCall ==
    WordKept <=> \A s \in Services \ crossed :
                    /\ Agree(record[s], word[s])
                    /\ \A p \in Callers : call[p].s = s /\ Stores(call[p]) /\ call[p].op # "delete"
                                          => Follows(call[p], record[s])
BY DEF WordKept, Agree, Storing, Stores

(* A step that moves a call and leaves the records alone.                  *)
LEMMA MoveKeepsWord ==
    ASSUME RegistryTypes, WordKept, NEW p \in Callers, NEW rec \in CallRecords,
           UNCHANGED <<record, word, crossed>>, call' = [call EXCEPT ![p] = rec],
           \/ ~Stores(rec) \/ rec.op = "delete"
           \/ Stores(call[p]) /\ SameStore(call[p], rec)
           \/ Follows(rec, record[rec.s])
    PROVE  WordKept'
<1>1. call \in [Callers -> CallRecords]
  BY DEF RegistryTypes
<1>2. ASSUME NEW s \in Services \ crossed, NEW q \in Callers, call'[q].s = s, Stores(call'[q]), call'[q].op # "delete"
      PROVE  Follows(call'[q], record[s])
  <2>1. CASE q # p
    BY <1>1, <1>2, <2>1, WordByCall
  <2>2. CASE q = p
    <3>1. call'[q] = rec
      BY <1>1, <2>2
    <3>2. CASE Stores(call[p]) /\ SameStore(call[p], rec)
      <4>1. Follows(call[p], record[s])
        BY <1>2, <3>1, <3>2, WordByCall DEF SameStore
      <4> QED BY <3>1, <3>2, <4>1 DEF SameStore, Follows
    <3> QED BY <1>2, <3>1, <3>2
  <2> QED BY <2>1, <2>2
<1>3. ASSUME NEW s \in Services \ crossed
      PROVE  Agree(record[s], word[s])
  BY WordByCall
<1>4. \A s \in Services \ crossed' :
        /\ Agree(record'[s], word'[s])
        /\ \A q \in Callers : call'[q].s = s /\ Stores(call'[q]) /\ call'[q].op # "delete" => Follows(call'[q], record'[s])
  BY <1>2, <1>3
<1> QED BY <1>4 DEF WordKept, Agree, Storing, Stores

(* A step that writes a record and notes the calls it crosses.             *)
LEMMA WriteKeepsWord ==
    ASSUME RegistryTypes, WordKept, NEW p \in Callers, NEW rec \in CallRecords, NEW s \in Services,
           NEW r \in ServiceRows \cup {Nothing}, NEW w \in OperatorWords \cup {Nothing},
           record' = [record EXCEPT ![s] = r], word' = [word EXCEPT ![s] = w], CrossedBy(p, s),
           call' = [call EXCEPT ![p] = rec], ~Stores(rec),
           s \notin crossed => Agree(r, w)
    PROVE  WordKept'
<1>1. /\ call \in [Callers -> CallRecords] /\ record \in [Services -> ServiceRows \cup {Nothing}]
      /\ word \in [Services -> OperatorWords \cup {Nothing}]
  BY DEF RegistryTypes
<1>2. crossed \subseteq crossed' /\ (s \notin crossed' => \A q \in Callers \ {p} : call[q].s = s => ~Stores(call[q]))
  BY DEF CrossedBy, Storing, Stores
<1>3. ASSUME NEW t \in Services \ crossed'
      PROVE  /\ Agree(record'[t], word'[t])
             /\ \A q \in Callers : call'[q].s = t /\ Stores(call'[q]) /\ call'[q].op # "delete"
                                   => Follows(call'[q], record'[t])
  <2>1. CASE t = s
    BY <1>1, <1>2, <2>1
  <2>2. CASE t # s
    <3>1. record'[t] = record[t] /\ word'[t] = word[t] /\ t \in Services \ crossed
      BY <1>1, <1>2, <2>2
    <3> QED BY <1>1, <3>1, WordByCall
  <2> QED BY <2>1, <2>2
<1> QED BY <1>3 DEF WordKept, Agree, Storing, Stores

(* What is stored is what the operator will be held to have asked for.     *)
LEMMA SpokenAgrees ==
    ASSUME RegistryTypes, WordKept, NEW p \in Callers, call[p].pc \in {"commit", "write", "create"},
           call[p].op # "delete", call[p].s \in Services
    PROVE  \E w \in OperatorWords \cup {Nothing} :
              /\ Spoken(call[p]) = [word EXCEPT ![call[p].s] = w]
              /\ call[p].s \notin crossed => Agree(call[p].next, w)
<1> USE NothingElse
<1> DEFINE me == call[p]
<1> DEFINE s == me.s
<1>1. /\ word \in [Services -> OperatorWords \cup {Nothing}] /\ s \in Services /\ me.next \in ServiceRows
      /\ me.op \in {"create", "update", "refresh", "health"}
      /\ record[s] \in ServiceRows \cup {Nothing}
  BY CallTyped DEF RegistryTypes, CallFits, CallLoad, CallOrder, CallOps
<1>2. me.op # "create" /\ s \notin crossed => Follows(me, record[s]) /\ Agree(record[s], word[s])
  <2>1. me.op # "create" => Stores(me)
    BY <1>1, CallTyped DEF Stores, CallFits, CallOrder
  <2> QED BY <1>1, <2>1, WordByCall
<1>3. CASE me.op \in {"create", "update"}
  <2> DEFINE st == IF me.op = "create" \/ me.from.status # Nothing THEN me.next.status
                   ELSE IF word[s] = Nothing THEN "registered" ELSE word[s].status
  <2> DEFINE w == [url |-> me.next.url, status |-> st]
  <2>1. me.next.url \in Urls /\ me.next.status \in {"registered", "disabled", "healthy"}
    BY <1>1 DEF ServiceRows
  <2>2. word[s] # Nothing => word[s].status \in {"registered", "disabled", "healthy"}
    BY <1>1 DEF OperatorWords
  <2>3. w \in OperatorWords /\ w.url = me.next.url /\ w.status = st
    BY <2>1, <2>2 DEF OperatorWords
  <2>4. Spoken(me) = [word EXCEPT ![s] = w]
    BY <1>1, <1>3 DEF Spoken
  <2>5. s \notin crossed => (st = "disabled" <=> me.next.status = "disabled")
    BY <1>2, <1>3 DEF Follows, Agree
  <2>6. w # Nothing
    BY <2>3, RowAssumption
  <2> HIDE DEF w, st
  <2>7. s \notin crossed => Agree(me.next, w)
    BY <2>3, <2>5, <2>6 DEF Agree
  <2> QED BY <2>3, <2>4, <2>7
<1>4. CASE me.op \notin {"create", "update"}
  <2>1. Spoken(me) = word /\ word = [word EXCEPT ![s] = word[s]]
    BY <1>1, <1>4 DEF Spoken
  <2>2. s \notin crossed => Agree(me.next, word[s])
    BY <1>1, <1>2, <1>4 DEF Follows, Agree
  <2> QED BY <1>1, <2>1, <2>2
<1> QED BY <1>3, <1>4

(* A call that ends, is taken for unreachable or goes on to a step other   *)
(* than the ones that store.                                               *)
QuietStep(p) == \E rec \in CallRecords : ~Stores(rec) /\ call' = [call EXCEPT ![p] = rec]

(* The ways a call moves on without a record to store.                     *)
LEMMA QuietSteps ==
    ASSUME RegistryTypes, NEW p \in Callers
    PROVE  /\ End(p) => QuietStep(p)
           /\ Step(p, [call[p] EXCEPT !.pc = "health", !.from = Nothing]) => QuietStep(p)
           /\ \A pc \in CallSteps \ {"prev", "owner", "write", "commit"} : Go(p, pc) => QuietStep(p)
           /\ call[p].next \in ServiceRows /\ Stored(p) => QuietStep(p)
<1> DEFINE me == call[p]
<1>0. me \in CallRecords
  BY CallTyped
<1>1. ASSUME End(p) PROVE QuietStep(p)
  <2>1. NoCall \in CallRecords /\ ~Stores(NoCall)
    BY DEF NoCall, CallRecords, CallSteps, Stores
  <2> QED BY <1>1, <2>1 DEF End, Step, QuietStep
<1>2. ASSUME Step(p, [me EXCEPT !.pc = "health", !.from = Nothing]) PROVE QuietStep(p)
  <2> DEFINE rec == [me EXCEPT !.pc = "health", !.from = Nothing]
  <2>1. rec \in CallRecords /\ rec.pc = "health"
    BY <1>0 DEF CallRecords, CallSteps
  <2>2. call' = [call EXCEPT ![p] = rec]
    BY <1>2 DEF Step
  <2> HIDE DEF rec
  <2> QED BY <2>1, <2>2 DEF QuietStep, Stores
<1>3. ASSUME NEW pc \in CallSteps \ {"prev", "owner", "write", "commit"}, Go(p, pc) PROVE QuietStep(p)
  <2> DEFINE rec == [me EXCEPT !.pc = pc]
  <2>1. rec \in CallRecords /\ rec.pc = pc
    BY <1>0, GoMoves DEF OnlyMoved
  <2>2. call' = [call EXCEPT ![p] = rec]
    BY <1>3 DEF Go, Step
  <2> HIDE DEF rec
  <2> QED BY <2>1, <2>2 DEF QuietStep, Stores
<1>4. ASSUME me.next \in ServiceRows, Stored(p) PROVE QuietStep(p)
  <2> DEFINE card1 == [me EXCEPT !.pc = "card", !.row = me.next]
  <2> DEFINE health1 == [me EXCEPT !.pc = "health", !.row = me.next]
  <2>1. card1 \in CallRecords /\ card1.pc = "card" /\ health1 \in CallRecords /\ health1.pc = "health"
    BY <1>0, <1>4 DEF CallRecords, CallSteps
  <2>2. \/ call' = [call EXCEPT ![p] = card1] \/ call' = [call EXCEPT ![p] = health1] \/ End(p)
    BY <1>4 DEF Stored, Step
  <2> HIDE DEF card1, health1
  <2> QED BY <1>1, <2>1, <2>2 DEF QuietStep, Stores
<1> QED BY <1>1, <1>2, <1>3, <1>4

(* A quiet step that leaves the records alone keeps the agreement.         *)
LEMMA QuietKeepsWord ==
    ASSUME RegistryTypes, WordKept, NEW p \in Callers, QuietStep(p), UNCHANGED <<record, word, crossed>>
    PROVE  WordKept'
BY MoveKeepsWord DEF QuietStep

(* Every step keeps what the operator asked for.                           *)
LEMMA NextWordKept == RegistryTypes /\ WordKept /\ [RegistryNext]_registryVars => WordKept'
<1> USE NothingElse
<1> SUFFICES ASSUME RegistryTypes, WordKept, [RegistryNext]_registryVars PROVE WordKept'
  OBVIOUS
<1>0. ASSUME NEW p \in Callers
      PROVE  /\ call[p] \in CallRecords /\ CallOrder(call[p]) /\ CallLoad(call[p]) /\ store \in {"postgres", "redis"}
             /\ call[p].pc # "idle" => call[p].s \in Services /\ record[call[p].s] \in ServiceRows \cup {Nothing}
  BY CallTyped DEF CallFits
<1>1. CASE UNCHANGED registryVars
  BY <1>1 DEF registryVars, WordKept, Storing, Follows
<1>2. ASSUME NEW p \in Callers, RegistryCall(p) PROVE WordKept'
  <2>1. UNCHANGED <<record, word, crossed>>
    BY <1>2 DEF RegistryCall, CreateService, UpdateService, DeleteService, RefreshService, RefreshHealth, Begin
  <2>2. QuietStep(p)
    <3>1. ASSUME NEW s \in Services, NEW u \in Urls, CreateService(p, s, u) PROVE QuietStep(p)
      <4> DEFINE rec == [NoCall EXCEPT !.op = "create", !.s = s, !.pc = IF store = "redis" THEN "create" ELSE "commit",
                              !.next = [url |-> u, status |-> "registered", caps |-> Nothing]]
      <4>1. call' = [call EXCEPT ![p] = rec]
        BY <3>1 DEF CreateService, Begin, Step
      <4>2. rec \in CallRecords /\ rec.op = "create"
        BY DEF CallRecords, CallSteps, CallOps, NoCall, ServiceRows
      <4> HIDE DEF rec
      <4> QED BY <4>1, <4>2 DEF QuietStep, Stores
    <3>2. ASSUME NEW s \in Services, NEW op \in {"update", "delete", "refresh", "health"}, NEW pc \in {"read", "target"},
                 NEW from \in {Nothing} \cup RowChanges, call' = [call EXCEPT ![p] = [NoCall EXCEPT !.op = op, !.s = s, !.pc = pc, !.from = from]]
          PROVE  QuietStep(p)
      <4> DEFINE rec == [NoCall EXCEPT !.op = op, !.s = s, !.pc = pc, !.from = from]
      <4>1. rec \in CallRecords /\ rec.pc = pc
        BY DEF CallRecords, CallSteps, CallOps, NoCall
      <4> HIDE DEF rec
      <4> QED BY <3>2, <4>1 DEF QuietStep, Stores, rec
    <3>3. ASSUME NEW s \in Services, NEW u \in Urls \cup {Nothing}, NEW st \in {"registered", "disabled", Nothing},
                 UpdateService(p, s, [url |-> u, status |-> st])
          PROVE  QuietStep(p)
      <4>1. [url |-> u, status |-> st] \in {Nothing} \cup RowChanges
        BY DEF RowChanges
      <4> QED BY <3>2, <3>3, <4>1 DEF UpdateService, Begin, Step
    <3>4. ASSUME NEW s \in Services, DeleteService(p, s) \/ RefreshService(p, s) \/ RefreshHealth(p, s) PROVE QuietStep(p)
      <4>1. PICK op \in {"delete", "refresh", "health"} : \E pc \in {"read", "target"} :
               call' = [call EXCEPT ![p] = [NoCall EXCEPT !.op = op, !.s = s, !.pc = pc]]
        BY <3>4 DEF DeleteService, RefreshService, RefreshHealth, Begin, Step
      <4>2. PICK pc \in {"read", "target"} : call' = [call EXCEPT ![p] = [NoCall EXCEPT !.op = op, !.s = s, !.pc = pc]]
        BY <4>1
      <4> DEFINE rec == [NoCall EXCEPT !.op = op, !.s = s, !.pc = pc]
      <4>3. rec \in CallRecords /\ rec.pc = pc
        BY DEF CallRecords, CallSteps, CallOps, NoCall
      <4> HIDE DEF rec
      <4> QED BY <4>2, <4>3 DEF QuietStep, Stores, rec
    <3> QED BY <1>2, <3>1, <3>3, <3>4 DEF RegistryCall
  <2> QED BY <2>1, <2>2, QuietKeepsWord
<1>3. ASSUME NEW p \in Callers, Target(p) PROVE WordKept'
  <2> DEFINE me == call[p]
  <2> DEFINE r == record[me.s]
  <2> DEFINE pc == IF me.op = "health" /\ r.status = "disabled" THEN "health" ELSE "fetch"
  <2>1. UNCHANGED <<record, word, crossed>> /\ me.pc = "target"
    BY <1>3 DEF Target
  <2>2. CASE r = Nothing
    BY <1>3, <2>1, <2>2, QuietSteps, QuietKeepsWord DEF Target
  <2>3. CASE r # Nothing
    <3>1. me \in CallRecords /\ r \in ServiceRows /\ r.url \in Urls /\ pc \in CallSteps
      BY <1>0, <2>1, <2>3 DEF ServiceRows, CallSteps
    <3> DEFINE rec == [me EXCEPT !.row = r, !.from = r.url, !.pc = pc]
    <3>2. call' = [call EXCEPT ![p] = rec]
      BY <1>3, <2>3 DEF Target, Step
    <3>3. IsCall(rec, pc, me.op, me.s, r, me.next, r.url, me.seen)
      BY <3>1, RowNoted
    <3> HIDE DEF rec
    <3>4. rec \in CallRecords /\ ~Stores(rec)
      BY <3>3 DEF IsCall, Stores
    <3>5. QuietStep(p)
      BY <3>2, <3>4 DEF QuietStep
    <3> QED BY <2>1, <3>5, QuietKeepsWord
  <2> QED BY <2>2, <2>3
<1>4. ASSUME NEW p \in Callers, Fetch(p) PROVE WordKept'
  <2>1. QuietStep(p)
    BY <1>4, QuietSteps DEF Fetch, CallSteps
  <2> QED BY <1>4, <2>1, QuietKeepsWord DEF Fetch
<1>5. ASSUME NEW p \in Callers, Read(p) PROVE WordKept'
  <2> DEFINE me == call[p]
  <2> DEFINE r == record[me.s]
  <2> DEFINE pc == IF store = "redis" THEN "prev" ELSE "commit"
  <2> DEFINE next == IF me.op = "delete" THEN Nothing ELSE Changed(me, r)
  <2>1. UNCHANGED <<record, word, crossed>> /\ me.pc = "read"
    BY <1>5 DEF Read
  <2>2. CASE r = Nothing
    <3>1. QuietStep(p)
      BY <1>5, <2>2, QuietSteps DEF Read
    <3> QED BY <2>1, <3>1, QuietKeepsWord
  <2>3. CASE r # Nothing
    <3> DEFINE rec == [me EXCEPT !.pc = pc, !.next = next]
    <3>1. me \in CallRecords /\ r \in ServiceRows /\ me.op \in {"update", "delete", "refresh", "health"} /\ CallLoad(me)
      BY <1>0, <2>1, <2>3 DEF CallOrder
    <3>2. me.op # "delete" => /\ Changed(me, r) \in ServiceRows
                              /\ me.op # "update" => Changed(me, r).url = r.url
                              /\ me.op # "update" \/ me.from.status = Nothing =>
                                   (Changed(me, r).status = "disabled" <=> r.status = "disabled")
      BY <3>1, ChangedRow
    <3>3. next \in ServiceRows \cup {Nothing} /\ pc \in CallSteps
      BY <3>2 DEF CallSteps
    <3>4. call' = [call EXCEPT ![p] = rec]
      BY <1>5, <2>3 DEF Read, Step
    <3>5. IsCall(rec, pc, me.op, me.s, me.row, next, me.from, me.seen)
      <4> HIDE DEF next, pc
      <4> QED BY <3>1, <3>3, NextNoted
    <3> HIDE DEF rec
    <3>6. rec \in CallRecords /\ (rec.op = "delete" \/ Follows(rec, record[rec.s]))
      BY <2>3, <3>2, <3>5 DEF IsCall, Follows
    <3> QED BY <2>1, <3>4, <3>6, MoveKeepsWord
  <2> QED BY <2>2, <2>3
<1>6. ASSUME NEW p \in Callers, Commit(p) PROVE WordKept'
  <2> DEFINE me == call[p]
  <2> DEFINE s == me.s
  <2>0. s \in Services /\ me.pc = "commit" /\ (me.op # "delete" => me.next \in ServiceRows)
    BY <1>0, <1>6 DEF Commit, CallLoad
  <2>1. CASE me.op = "delete" /\ record' = [record EXCEPT ![s] = Nothing] /\ word' = Spoken(me) /\ CrossedBy(p, s) /\ End(p)
    <3>1. word' = [word EXCEPT ![s] = Nothing]
      BY <2>1 DEF Spoken
    <3>2. PICK rec \in CallRecords : ~Stores(rec) /\ call' = [call EXCEPT ![p] = rec]
      BY <2>1, QuietSteps DEF QuietStep
    <3> QED BY <2>0, <2>1, <3>1, <3>2, WriteKeepsWord DEF Agree
  <2>2. CASE me.op # "delete" /\ record' = [record EXCEPT ![s] = me.next] /\ word' = Spoken(me) /\ CrossedBy(p, s) /\ Stored(p)
    <3>1. PICK w \in OperatorWords \cup {Nothing} :
              Spoken(me) = [word EXCEPT ![s] = w] /\ (s \notin crossed => Agree(me.next, w))
      BY <2>0, <2>2, SpokenAgrees
    <3>2. PICK rec \in CallRecords : ~Stores(rec) /\ call' = [call EXCEPT ![p] = rec]
      BY <2>0, <2>2, QuietSteps DEF QuietStep
    <3> QED BY <2>0, <2>2, <3>1, <3>2, WriteKeepsWord
  <2>3. CASE /\ UNCHANGED <<record, word, crossed>>
             /\ IF me.op = "health" THEN Step(p, [me EXCEPT !.pc = "health", !.from = Nothing]) ELSE End(p)
    <3>1. QuietStep(p)
      BY <2>3, QuietSteps
    <3> QED BY <2>3, <3>1, QuietKeepsWord
  <2> QED BY <1>6, <2>1, <2>2, <2>3 DEF Commit
<1>7. ASSUME NEW p \in Callers, ReserveId(p) PROVE WordKept'
  <2> DEFINE me == call[p]
  <2> DEFINE s == me.s
  <2>0. s \in Services /\ me.pc = "create" /\ me.next \in ServiceRows /\ me.op = "create" /\ crossed' = crossed
    BY <1>0, <1>7 DEF ReserveId, CallLoad, CallOrder
  <2>1. CASE record[s] # Nothing
    <3>1. QuietStep(p)
      BY <1>7, <2>1, QuietSteps DEF ReserveId
    <3> QED BY <1>7, <2>0, <2>1, <3>1, QuietKeepsWord DEF ReserveId
  <2>2. CASE record[s] = Nothing
    <3>1. PICK w \in OperatorWords \cup {Nothing} :
              Spoken(me) = [word EXCEPT ![s] = w] /\ (s \notin crossed => Agree(me.next, w))
      BY <2>0, SpokenAgrees
    <3>2. PICK rec \in CallRecords : ~Stores(rec) /\ call' = [call EXCEPT ![p] = rec]
      BY <1>7, <2>2, QuietSteps DEF QuietStep, ReserveId, CallSteps
    <3>3. record' = [record EXCEPT ![s] = me.next] /\ word' = [word EXCEPT ![s] = w]
      BY <1>7, <2>2, <3>1 DEF ReserveId
    <3>4. /\ call \in [Callers -> CallRecords] /\ record \in [Services -> ServiceRows \cup {Nothing}]
          /\ word \in [Services -> OperatorWords \cup {Nothing}]
      BY DEF RegistryTypes
    <3>5. s \notin crossed => \A q \in Callers : call[q].s = s /\ call[q].op # "delete" => ~Stores(call[q])
      BY <2>0, <2>2, WordByCall DEF Follows
    <3>6. ASSUME NEW t \in Services \ crossed
          PROVE  /\ Agree(record'[t], word'[t])
                 /\ \A q \in Callers : call'[q].s = t /\ Stores(call'[q]) /\ call'[q].op # "delete"
                                       => Follows(call'[q], record'[t])
      <4>1. CASE t = s
        BY <2>0, <3>1, <3>2, <3>3, <3>4, <3>5, <4>1
      <4>2. CASE t # s
        <5>1. record'[t] = record[t] /\ word'[t] = word[t]
          BY <3>3, <3>4, <4>2
        <5> QED BY <3>2, <3>4, <5>1, WordByCall
      <4> QED BY <4>1, <4>2
    <3> QED BY <2>0, <3>6 DEF WordKept, Agree, Storing, Stores
  <2> QED BY <2>1, <2>2
<1>8. ASSUME NEW p \in Callers, Undo(p) PROVE WordKept'
  <2> DEFINE s == call[p].s
  <2>1. s \in Services /\ record' = [record EXCEPT ![s] = Nothing] /\ word' = [word EXCEPT ![s] = Nothing] /\ CrossedBy(p, s)
    BY <1>0, <1>8 DEF Undo
  <2>2. PICK rec \in CallRecords : ~Stores(rec) /\ call' = [call EXCEPT ![p] = rec]
    BY <1>8, QuietSteps DEF QuietStep, Undo
  <2> QED BY <2>1, <2>2, WriteKeepsWord DEF Agree
<1>9. ASSUME NEW p \in Callers, WriteRecord(p) PROVE WordKept'
  <2> DEFINE me == call[p]
  <2> DEFINE s == me.s
  <2>0. s \in Services /\ me.pc = "write" /\ me.next \in ServiceRows /\ me.op # "delete"
    BY <1>0, <1>9 DEF WriteRecord, CallLoad, CallOrder
  <2>1. PICK w \in OperatorWords \cup {Nothing} :
            Spoken(me) = [word EXCEPT ![s] = w] /\ (s \notin crossed => Agree(me.next, w))
    BY <2>0, SpokenAgrees
  <2>2. PICK rec \in CallRecords : ~Stores(rec) /\ call' = [call EXCEPT ![p] = rec]
    BY <1>9, QuietSteps DEF QuietStep, WriteRecord, CallSteps
  <2>3. record' = [record EXCEPT ![s] = me.next] /\ word' = [word EXCEPT ![s] = w] /\ CrossedBy(p, s)
    BY <1>9, <2>1 DEF WriteRecord
  <2> QED BY <2>0, <2>1, <2>2, <2>3, WriteKeepsWord
<1>10. ASSUME NEW p \in Callers, DropRecord(p) PROVE WordKept'
  <2> DEFINE me == call[p]
  <2> DEFINE s == me.s
  <2>0. s \in Services /\ me.op = "delete"
    BY <1>0, <1>10 DEF DropRecord, CallOrder
  <2>1. record' = [record EXCEPT ![s] = Nothing] /\ word' = [word EXCEPT ![s] = Nothing] /\ CrossedBy(p, s)
    BY <1>10, <2>0 DEF DropRecord, Spoken
  <2>2. PICK rec \in CallRecords : ~Stores(rec) /\ call' = [call EXCEPT ![p] = rec]
    BY <1>10, QuietSteps DEF QuietStep, DropRecord, CallSteps
  <2> QED BY <2>0, <2>1, <2>2, WriteKeepsWord DEF Agree
<1>11. ASSUME NEW p \in Callers, Previous(p) \/ CheckOwner(p) PROVE WordKept'
  <2> DEFINE me == call[p]
  <2>0. UNCHANGED <<record, word, crossed>> /\ me.pc \in {"prev", "owner"} /\ me \in CallRecords /\ Stores(me)
    BY <1>0, <1>11 DEF Previous, CheckOwner, Stores, CallOrder
  <2>1. CASE QuietStep(p)
    BY <2>0, <2>1, QuietKeepsWord
  <2>2. CASE me.pc = "prev" /\ record[me.s] # Nothing /\ Previous(p)
    <3> DEFINE x == record[me.s].url
    <3> DEFINE pc == IF me.op = "delete" THEN "drop" ELSE "owner"
    <3> DEFINE rec == [me EXCEPT !.seen = x, !.pc = pc]
    <3>1. x \in Urls /\ pc \in CallSteps
      BY <1>0, <2>2 DEF ServiceRows, CallSteps
    <3>2. call' = [call EXCEPT ![p] = rec]
      BY <2>2 DEF Previous, Step
    <3> HIDE DEF x, pc
    <3>3. IsCall(rec, pc, me.op, me.s, me.row, me.next, me.from, x)
      BY <2>0, <3>1, SeenNoted
    <3> HIDE DEF rec
    <3>4. rec \in CallRecords /\ SameStore(me, rec)
      BY <3>3 DEF IsCall, SameStore
    <3> QED BY <2>0, <3>2, <3>4, MoveKeepsWord
  <2>3. CASE Go(p, "write")
    <3> DEFINE rec == [me EXCEPT !.pc = "write"]
    <3>1. OnlyMoved(me, rec, "write") /\ call' = [call EXCEPT ![p] = rec]
      BY <2>0, <2>3, GoMoves DEF Go, Step, CallSteps
    <3> HIDE DEF rec
    <3>2. rec \in CallRecords /\ SameStore(me, rec)
      BY <3>1 DEF OnlyMoved, SameStore
    <3> QED BY <2>0, <3>1, <3>2, MoveKeepsWord
  <2>4. \/ QuietStep(p) \/ Go(p, "write") \/ (me.pc = "prev" /\ record[me.s] # Nothing /\ Previous(p))
    BY <1>11, QuietSteps DEF Previous, CheckOwner
  <2> QED BY <2>1, <2>2, <2>3, <2>4
<1>12. ASSUME NEW p \in Callers, \/ ReserveUrl(p) \/ AddToList(p) \/ ListAgain(p) \/ TakeUrl(p) \/ LeaveUrl(p) \/ Unlist(p)
                                 \/ DropCard(p)
       PROVE  WordKept'
  <2>1. UNCHANGED <<record, word, crossed>>
    BY <1>12 DEF ReserveUrl, AddToList, ListAgain, TakeUrl, LeaveUrl, Unlist, DropCard
  <2>2. AddToList(p) \/ TakeUrl(p) \/ (LeaveUrl(p) /\ call[p].op # "delete") => call[p].next \in ServiceRows
    BY <1>0 DEF AddToList, TakeUrl, LeaveUrl, CallLoad
  <2>3. QuietStep(p)
    BY <1>12, <2>2, QuietSteps DEF ReserveUrl, AddToList, ListAgain, TakeUrl, LeaveUrl, Unlist, DropCard, CallSteps
  <2> QED BY <2>1, <2>3, QuietKeepsWord
<1>13. ASSUME NEW p \in Callers, ReadCard(p) \/ SetCard(p) \/ SetHealth(p) PROVE WordKept'
  <2> DEFINE me == call[p]
  <2>1. UNCHANGED <<record, word, crossed>>
    BY <1>13 DEF ReadCard, SetCard, SetHealth
  <2>2. CASE SetCard(p)
    <3>1. QuietStep(p)
      BY <2>2, QuietSteps DEF SetCard, CallSteps
    <3> QED BY <2>1, <3>1, QuietKeepsWord
  <2>3. CASE ReadCard(p)
    <3> DEFINE x == IF card[me.s] = Nothing THEN Nothing ELSE card[me.s].health
    <3> DEFINE rec == [me EXCEPT !.pc = "setcard", !.seen = x]
    <3>1. x \in ShownHealths \cup {Nothing} /\ me \in CallRecords
      BY <1>0, <2>3 DEF ReadCard, RegistryTypes, ServiceCards
    <3>2. call' = [call EXCEPT ![p] = rec]
      BY <2>3 DEF ReadCard, Step
    <3> HIDE DEF x
    <3>3. rec \in CallRecords /\ rec.pc = "setcard"
      BY <3>1 DEF CallRecords, CallSteps
    <3> HIDE DEF rec
    <3>4. QuietStep(p)
      BY <3>2, <3>3 DEF QuietStep, Stores
    <3> QED BY <2>1, <3>4, QuietKeepsWord
  <2>4. CASE SetHealth(p)
    <3> DEFINE x == Overall(me.row, me.from # Nothing)
    <3> DEFINE rec == [me EXCEPT !.pc = "setcard", !.op = "show", !.seen = x]
    <3>1. x \in ShownHealths /\ me \in CallRecords
      BY <1>0 DEF Overall, ShownHealths
    <3>2. call' = [call EXCEPT ![p] = rec] \/ End(p)
      BY <2>4 DEF SetHealth, Step
    <3> HIDE DEF x
    <3>3. rec \in CallRecords /\ rec.pc = "setcard"
      BY <3>1 DEF CallRecords, CallSteps, CallOps
    <3> HIDE DEF rec
    <3>4. QuietStep(p)
      BY <3>2, <3>3, QuietSteps DEF QuietStep, Stores
    <3> QED BY <2>1, <3>4, QuietKeepsWord
  <2> QED BY <1>13, <2>2, <2>3, <2>4
<1> QED
  BY <1>1, <1>2, <1>3, <1>4, <1>5, <1>6, <1>7, <1>8, <1>9, <1>10, <1>11, <1>12, <1>13 DEF RegistryNext

(* No other call is amid the same service.                                 *)
Alone(p) == \A q \in Callers \ {p} : call[q].s = call[p].s => call[q].pc \notin Amid

(* A change other than a create runs alone; so does a create that has      *)
(* reserved the id of its service.                                         *)
LEMMA RunsAlone ==
    ASSUME RegistryTypes, LinksHold, NEW p \in Callers, call[p].pc # "idle"
    PROVE  /\ call[p].op # Nothing
           /\ \A q \in Callers \ {p} : call[q].op \in {Nothing, "create"}
           /\ call[p].op # "create" => \A q \in Callers \ {p} : call[q].pc = "idle"
           /\ call[p].op # "create" \/ call[p].pc \in Entering => Alone(p)
<1>0. \A q \in Callers : CallOrder(call[q])
  BY CallTyped DEF CallFits
<1>1. call[p].op # Nothing
  BY <1>0 DEF CallOrder
<1>2. \A q \in Callers \ {p} : call[q].op \in {Nothing, "create"} /\ (call[p].op # "create" => call[q].op = Nothing)
  BY <1>1 DEF LinksHold, OnlyCreates
<1>3. \A q \in Callers \ {p} : call[p].op # "create" => call[q].pc = "idle"
  BY <1>0, <1>2 DEF CallOrder
<1>4. ASSUME NEW q \in Callers \ {p}, call[q].s = call[p].s, call[q].pc \in Amid,
             call[p].op # "create" \/ call[p].pc \in Entering
      PROVE  FALSE
  <2>1. call[p].op = "create" /\ call[p].pc \in Entering
    BY <1>3, <1>4 DEF Amid, Entering
  <2>2. call[q].op = "create"
    BY <1>0, <1>2, <1>4, NothingElse DEF CallOrder, Amid, Entering
  <2>3. call[q].pc \in Entering
    BY <1>0, <1>4, <2>2 DEF CallOrder, Amid, Entering
  <2> QED BY <1>4, <2>1, <2>3 DEF LinksHold, OneEnters
<1> QED BY <1>1, <1>2, <1>3, <1>4 DEF Alone

(* The other services are left as they are.                                *)
Elsewhere(s) ==
    \A t \in Services \ {s} : /\ record'[t] = record[t] /\ (t \in listed' <=> t \in listed)
                              /\ \A u \in Urls : owner'[u] = t <=> owner[u] = t

(* A call may stay what it is or end; only a create stays a create.        *)
StaysSo(me, rec) == rec.op # Nothing => (me.op = "create" => rec.op = "create")

(* A step of a call that has its service to itself.                        *)
LEMMA AloneKeepsLinks ==
    ASSUME RegistryTypes, RegistryTypes', LinksHold, NEW p \in Callers, NEW rec \in CallRecords, call[p].pc # "idle",
           call' = [call EXCEPT ![p] = rec], StaysSo(call[p], rec), rec.pc # "idle" => rec.s = call[p].s,
           Alone(p), Elsewhere(call[p].s),
           EnterFits(rec, record', owner', listed'), ChangeFits(rec, record', owner', listed'),
           rec.pc \notin Amid => Settled(call[p].s, record', owner', listed')
    PROVE  LinksHold'
<1> DEFINE me == call[p]
<1>0. /\ call \in [Callers -> CallRecords] /\ call'[p] = rec /\ \A q \in Callers \ {p} : call'[q] = call[q]
      /\ me.s \in Services /\ \A q \in Callers : CallOrder(call[q]) /\ CallLoad(call[q])
  BY CallTyped DEF RegistryTypes, CallFits
<1>1. OnlyCreates'
  BY <1>0, RunsAlone DEF LinksHold, OnlyCreates, StaysSo
<1>2. OneEnters'
  <2>1. ASSUME NEW q \in Callers \ {p}, call'[q].s = rec.s, call'[q].pc \in Entering, rec.pc \in Entering PROVE FALSE
    <3>1. rec.s = me.s
      BY <2>1 DEF Entering
    <3> QED BY <1>0, <2>1, <3>1 DEF Alone, Amid
  <2> QED BY <1>0, <2>1 DEF LinksHold, OneEnters
<1>3. AllFit'
  <2>1. ASSUME NEW q \in Callers \ {p} PROVE ChangeFits(call[q], record', owner', listed')
    <3>1. call[q].op \in {Nothing, "create"}
      BY RunsAlone
    <3>2. call[q].pc \notin {"owner", "write", "drop", "list", "own", "disown", "unlist"}
      BY <1>0, <3>1, NothingElse DEF CallOrder, CallOps
    <3> QED BY <3>2 DEF ChangeFits
  <2>2. ASSUME NEW q \in Callers \ {p} PROVE EnterFits(call[q], record', owner', listed')
    <3>1. SUFFICES ASSUME call[q].pc \in Entering PROVE EnterFits(call[q], record', owner', listed')
      BY DEF EnterFits
    <3>2. call[q].s \in Services \ {me.s}
      BY <1>0, <3>1 DEF Alone, Amid, CallLoad, Entering
    <3>3. EnterFits(call[q], record, owner, listed)
      BY DEF LinksHold, AllFit
    <3> QED BY <3>1, <3>2, <3>3 DEF EnterFits, Elsewhere
  <2> QED BY <1>0, <2>1, <2>2 DEF AllFit
<1>4. AllSettled'
  <2>1. ASSUME NEW t \in Services, \A q \in Callers : ~(call'[q].s = t /\ call'[q].pc \in Amid)
        PROVE  Settled(t, record', owner', listed')
    <3>1. CASE t = me.s
      <4>1. rec.pc \notin Amid
        BY <1>0, <2>1, <3>1 DEF Amid, Entering
      <4> QED BY <3>1, <4>1
    <3>2. CASE t # me.s
      <4>1. \A q \in Callers : ~(call[q].s = t /\ call[q].pc \in Amid)
        BY <1>0, <2>1, <3>2
      <4>2. Settled(t, record, owner, listed)
        BY <4>1 DEF LinksHold, AllSettled, BusyWith
      <4>3. record[t] \in ServiceRows \cup {Nothing}
        BY DEF RegistryTypes
      <4>4. record[t] # Nothing => record[t].url \in Urls
        BY <4>3 DEF ServiceRows
      <4> QED BY <3>2, <4>2, <4>4 DEF Settled, Elsewhere
    <3> QED BY <3>1, <3>2
  <2> QED BY <2>1 DEF AllSettled, BusyWith
<1> QED BY <1>1, <1>2, <1>3, <1>4 DEF LinksHold

(* A step that leaves the stores alone, of a call that is amid nothing.    *)
LEMMA QuietKeepsLinks ==
    ASSUME RegistryTypes, LinksHold, NEW p \in Callers, NEW rec \in CallRecords,
           call' = [call EXCEPT ![p] = rec], UNCHANGED <<record, owner, listed>>, OnlyCreates',
           call[p].pc \notin Amid, rec.pc \notin Amid, ChangeFits(rec, record, owner, listed)
    PROVE  LinksHold'
<1>0. call \in [Callers -> CallRecords] /\ call'[p] = rec /\ \A q \in Callers \ {p} : call'[q] = call[q]
  BY DEF RegistryTypes
<1>1. OneEnters'
  BY <1>0 DEF LinksHold, OneEnters, Amid
<1>2. AllFit'
  BY <1>0 DEF LinksHold, AllFit, EnterFits, Amid
<1>3. \A s \in Services : BusyWith(s)' = BusyWith(s)
  BY <1>0 DEF BusyWith
<1>4. AllSettled'
  BY <1>3 DEF LinksHold, AllSettled
<1> QED BY <1>1, <1>2, <1>4 DEF LinksHold

(* A call amid nothing that goes on to a step nothing is claimed about.    *)
LEMMA IdleKeepsLinks ==
    ASSUME RegistryTypes, LinksHold, NEW p \in Callers, NEW rec \in CallRecords, call[p].pc # "idle",
           call' = [call EXCEPT ![p] = rec], UNCHANGED <<record, owner, listed>>, StaysSo(call[p], rec),
           call[p].pc \notin Amid, rec.pc \notin Amid \cup {"owner", "write", "drop"}
    PROVE  LinksHold'
<1>1. call \in [Callers -> CallRecords] /\ call'[p] = rec /\ \A q \in Callers \ {p} : call'[q] = call[q]
  BY DEF RegistryTypes
<1>2. OnlyCreates'
  BY <1>1, RunsAlone DEF LinksHold, OnlyCreates, StaysSo
<1>3. ChangeFits(rec, record, owner, listed)
  BY DEF ChangeFits, Amid
<1> QED BY <1>2, <1>3, QuietKeepsLinks

(* The step of a call, as far as the links are concerned.                  *)
MovesTo(p, pc) ==
    \E rec \in CallRecords : /\ rec.pc = pc /\ rec.op = call[p].op /\ rec.s = call[p].s
                             /\ call' = [call EXCEPT ![p] = rec]
IsOver(p) == \E rec \in CallRecords : rec.pc = "idle" /\ rec.op = Nothing /\ call' = [call EXCEPT ![p] = rec]
IsMoved(p, pc) == \E rec \in CallRecords : OnlyMoved(call[p], rec, pc) /\ call' = [call EXCEPT ![p] = rec]

(* How the calls move.                                                     *)
LEMMA CallMoves ==
    ASSUME RegistryTypes, NEW p \in Callers
    PROVE  /\ End(p) => IsOver(p)
           /\ Step(p, [call[p] EXCEPT !.pc = "health", !.from = Nothing]) => MovesTo(p, "health")
           /\ \A pc \in CallSteps : Go(p, pc) => IsMoved(p, pc) /\ MovesTo(p, pc)
           /\ call[p].next \in ServiceRows /\ store = "redis" /\ Stored(p) => MovesTo(p, "card")
<1> DEFINE me == call[p]
<1>0. me \in CallRecords
  BY CallTyped
<1>1. ASSUME End(p) PROVE IsOver(p)
  <2>1. NoCall \in CallRecords /\ NoCall.pc = "idle" /\ NoCall.op = Nothing
    BY DEF NoCall, CallRecords, CallSteps
  <2> QED BY <1>1, <2>1 DEF End, Step, IsOver
<1>2. ASSUME Step(p, [me EXCEPT !.pc = "health", !.from = Nothing]) PROVE MovesTo(p, "health")
  <2> DEFINE rec == [me EXCEPT !.pc = "health", !.from = Nothing]
  <2>1. rec \in CallRecords /\ rec.pc = "health" /\ rec.op = me.op /\ rec.s = me.s
    BY <1>0 DEF CallRecords, CallSteps
  <2>2. call' = [call EXCEPT ![p] = rec]
    BY <1>2 DEF Step
  <2> HIDE DEF rec
  <2> QED BY <2>1, <2>2 DEF MovesTo
<1>3. ASSUME NEW pc \in CallSteps, Go(p, pc) PROVE IsMoved(p, pc) /\ MovesTo(p, pc)
  <2> DEFINE rec == [me EXCEPT !.pc = pc]
  <2>1. OnlyMoved(me, rec, pc)
    BY <1>0, GoMoves
  <2>2. call' = [call EXCEPT ![p] = rec]
    BY <1>3 DEF Go, Step
  <2> HIDE DEF rec
  <2> QED BY <2>1, <2>2 DEF IsMoved, MovesTo, OnlyMoved
<1>4. ASSUME me.next \in ServiceRows, store = "redis", Stored(p) PROVE MovesTo(p, "card")
  <2> DEFINE rec == [me EXCEPT !.pc = "card", !.row = me.next]
  <2>1. rec \in CallRecords /\ rec.pc = "card" /\ rec.op = me.op /\ rec.s = me.s
    BY <1>0, <1>4 DEF CallRecords, CallSteps
  <2>2. call' = [call EXCEPT ![p] = rec]
    BY <1>4 DEF Stored, Step
  <2> HIDE DEF rec
  <2> QED BY <2>1, <2>2 DEF MovesTo
<1> QED BY <1>1, <1>2, <1>3, <1>4

(* What the steps of the calls keep, once they have begun and one by one.  *)
LinkState == RegistryTypes /\ RegistryTypes' /\ LinksHold /\ store = "redis"

(* A call amid nothing that ends or goes on.                               *)
LEMMA PlainKeepsLinks ==
    ASSUME LinkState, NEW p \in Callers, call[p].pc \notin Amid \cup {"idle"}, UNCHANGED <<record, owner, listed>>,
           \/ IsOver(p)
           \/ \E pc \in CallSteps \ (Amid \cup {"owner", "write", "drop"}) : MovesTo(p, pc)
    PROVE  LinksHold'
<1>1. PICK rec \in CallRecords : /\ call' = [call EXCEPT ![p] = rec] /\ StaysSo(call[p], rec)
                                 /\ rec.pc \notin Amid \cup {"owner", "write", "drop"}
  <2>1. CASE IsOver(p)
    BY <2>1 DEF IsOver, StaysSo, Amid, Entering
  <2>2. CASE \E pc \in CallSteps \ (Amid \cup {"owner", "write", "drop"}) : MovesTo(p, pc)
    BY <2>2 DEF MovesTo, StaysSo
  <2> QED BY <2>1, <2>2
<1> QED BY <1>1, IdleKeepsLinks DEF LinkState

(* The service a call alone with it is about to change.                    *)
LEMMA AloneSettled ==
    ASSUME LinkState, NEW p \in Callers, call[p].pc \notin Amid, Alone(p), call[p].s \in Services
    PROVE  Settled(call[p].s, record, owner, listed)
BY DEF LinkState, LinksHold, AllSettled, BusyWith, Alone

(* The steps that read.                                                    *)
LEMMA ReadsKeepLinks ==
    ASSUME LinkState, NEW p \in Callers,
           Target(p) \/ Fetch(p) \/ Read(p) \/ DropCard(p) \/ ReadCard(p) \/ SetCard(p) \/ SetHealth(p)
    PROVE  LinksHold'
<1> USE NothingElse
<1> DEFINE me == call[p]
<1>0. /\ RegistryTypes /\ me \in CallRecords /\ CallOrder(me) /\ CallLoad(me)
      /\ me.pc # "idle" => me.s \in Services /\ record[me.s] \in ServiceRows \cup {Nothing}
  BY CallTyped DEF LinkState, CallFits
<1>1. UNCHANGED <<record, owner, listed>> /\ me.pc \in {"target", "fetch", "read", "uncard", "card", "setcard", "health"}
  BY DEF Target, Fetch, Read, DropCard, ReadCard, SetCard, SetHealth
<1>2. me.pc \notin Amid \cup {"idle"}
  BY <1>1 DEF Amid, Entering
<1>3. {"fetch", "read", "prev", "setcard", "health"} \subseteq CallSteps \ (Amid \cup {"owner", "write", "drop"})
  BY DEF CallSteps, Amid, Entering
<1>4. CASE IsOver(p) \/ MovesTo(p, "fetch") \/ MovesTo(p, "read") \/ MovesTo(p, "prev") \/ MovesTo(p, "setcard") \/ MovesTo(p, "health")
  BY <1>1, <1>2, <1>3, <1>4, PlainKeepsLinks
<1>5. CASE Target(p)
  <2> DEFINE r == record[me.s]
  <2> DEFINE pc == IF me.op = "health" /\ r.status = "disabled" THEN "health" ELSE "fetch"
  <2> DEFINE rec == [me EXCEPT !.row = r, !.from = r.url, !.pc = pc]
  <2>1. CASE r = Nothing
    BY <1>0, <1>4, <1>5, <2>1, CallMoves DEF Target
  <2>2. CASE r # Nothing
    <3>1. call' = [call EXCEPT ![p] = rec]
      BY <1>5, <2>2 DEF Target, Step
    <3>2. r \in ServiceRows /\ r.url \in Urls /\ pc \in CallSteps
      BY <1>0, <1>2, <2>2 DEF ServiceRows, CallSteps
    <3>3. IsCall(rec, pc, me.op, me.s, r, me.next, r.url, me.seen)
      BY <1>0, <3>2, RowNoted
    <3> HIDE DEF rec
    <3>4. MovesTo(p, pc)
      BY <3>1, <3>3 DEF IsCall, MovesTo
    <3> QED BY <1>4, <3>4
  <2> QED BY <2>1, <2>2
<1>6. CASE Fetch(p)
  <2>1. MovesTo(p, "read") \/ MovesTo(p, "health") \/ IsOver(p)
    BY <1>0, <1>6, CallMoves DEF Fetch, CallSteps
  <2> QED BY <1>4, <2>1
<1>7. CASE Read(p)
  <2> DEFINE r == record[me.s]
  <2> DEFINE next == IF me.op = "delete" THEN Nothing ELSE Changed(me, r)
  <2> DEFINE rec == [me EXCEPT !.pc = "prev", !.next = next]
  <2>1. CASE r = Nothing
    <3>1. MovesTo(p, "health") \/ IsOver(p)
      BY <1>0, <1>7, <2>1, CallMoves DEF Read
    <3> QED BY <1>4, <3>1
  <2>2. CASE r # Nothing
    <3>1. call' = [call EXCEPT ![p] = rec] /\ me.pc = "read"
      BY <1>7, <2>2 DEF Read, Step, LinkState
    <3>2. me.op # "delete" => Changed(me, r) \in ServiceRows
      BY <1>0, <2>2, <3>1, ChangedRow DEF CallOrder
    <3>3. next \in ServiceRows \cup {Nothing} /\ "prev" \in CallSteps
      BY <3>2 DEF CallSteps
    <3> HIDE DEF next
    <3>4. IsCall(rec, "prev", me.op, me.s, me.row, next, me.from, me.seen)
      BY <1>0, <3>3, NextNoted
    <3> HIDE DEF rec
    <3>5. MovesTo(p, "prev")
      BY <3>1, <3>4 DEF IsCall, MovesTo
    <3> QED BY <1>4, <3>5
  <2> QED BY <2>1, <2>2
<1>8. CASE DropCard(p)
  BY <1>0, <1>4, <1>8, CallMoves DEF DropCard
<1>9. CASE ReadCard(p)
  <2> DEFINE x == IF card[me.s] = Nothing THEN Nothing ELSE card[me.s].health
  <2> DEFINE rec == [me EXCEPT !.pc = "setcard", !.seen = x]
  <2>1. x \in ShownHealths \cup {Nothing} /\ call' = [call EXCEPT ![p] = rec]
    BY <1>0, <1>9 DEF ReadCard, RegistryTypes, ServiceCards, Step
  <2> HIDE DEF x
  <2>2. x \in Urls \cup {Nothing} \cup ShownHealths /\ "setcard" \in CallSteps
    BY <2>1 DEF CallSteps
  <2>3. IsCall([me EXCEPT !.seen = x, !.pc = "setcard"], "setcard", me.op, me.s, me.row, me.next, me.from, x)
    BY <1>0, <2>2, SeenNoted
  <2>4. rec = [me EXCEPT !.seen = x, !.pc = "setcard"]
    BY <1>0 DEF CallRecords
  <2> HIDE DEF rec
  <2>5. MovesTo(p, "setcard")
    BY <2>1, <2>3, <2>4 DEF MovesTo, IsCall
  <2> QED BY <1>4, <2>5
<1>10. CASE SetCard(p)
  <2>1. MovesTo(p, "health") \/ IsOver(p)
    BY <1>0, <1>10, CallMoves DEF SetCard, CallSteps
  <2> QED BY <1>4, <2>1
<1>11. CASE SetHealth(p)
  <2> DEFINE x == Overall(me.row, me.from # Nothing)
  <2> DEFINE rec == [me EXCEPT !.pc = "setcard", !.op = "show", !.seen = x]
  <2>1. x \in ShownHealths /\ (call' = [call EXCEPT ![p] = rec] \/ End(p)) /\ me.op = "health"
    BY <1>0, <1>11 DEF Overall, ShownHealths, SetHealth, Step, CallOrder
  <2> HIDE DEF x
  <2>2. rec \in CallRecords /\ rec.pc = "setcard"
    BY <1>0, <2>1 DEF CallRecords, CallSteps, CallOps
  <2> HIDE DEF rec
  <2>3. CASE End(p)
    BY <1>0, <1>4, <2>3, CallMoves
  <2>4. CASE call' = [call EXCEPT ![p] = rec]
    <3>1. StaysSo(me, rec) /\ me.pc # "idle" /\ me.pc \notin Amid /\ rec.pc \notin Amid \cup {"owner", "write", "drop"}
      BY <1>2, <2>1, <2>2 DEF StaysSo, Amid, Entering
    <3> QED BY <1>0, <1>1, <2>2, <2>4, <3>1, IdleKeepsLinks DEF LinkState
  <2> QED BY <2>1, <2>3, <2>4
<1> QED BY <1>5, <1>6, <1>7, <1>8, <1>9, <1>10, <1>11

(* The checks of an update or a delete before it writes.                   *)
LEMMA ChecksKeepLinks ==
    ASSUME LinkState, NEW p \in Callers, Previous(p) \/ CheckOwner(p)
    PROVE  LinksHold'
<1> USE NothingElse
<1> DEFINE me == call[p]
<1>0. /\ RegistryTypes /\ LinksHold /\ me \in CallRecords /\ CallOrder(me)
      /\ UNCHANGED <<record, owner, listed>> /\ me.pc \in {"prev", "owner"}
      /\ me.s \in Services /\ record[me.s] \in ServiceRows \cup {Nothing}
  BY CallTyped DEF LinkState, CallFits, Previous, CheckOwner
<1>1. me.pc \notin Amid \cup {"idle"} /\ "health" \in CallSteps \ (Amid \cup {"owner", "write", "drop"}) /\ me.op # "create"
  BY <1>0 DEF Amid, Entering, CallSteps, CallOrder
<1>2. ASSUME NEW rec \in CallRecords, call' = [call EXCEPT ![p] = rec], rec.op = me.op, rec.pc \in {"owner", "write", "drop"},
             ChangeFits(rec, record, owner, listed)
      PROVE  LinksHold'
  <2>1. call \in [Callers -> CallRecords] /\ call'[p] = rec /\ \A q \in Callers \ {p} : call'[q] = call[q]
    BY <1>0, <1>2 DEF RegistryTypes
  <2>2. OnlyCreates'
    BY <1>0, <1>1, <1>2, <2>1, RunsAlone DEF LinksHold, OnlyCreates
  <2>3. rec.pc \notin Amid
    BY <1>2 DEF Amid, Entering
  <2> QED BY <1>0, <1>1, <1>2, <2>2, <2>3, QuietKeepsLinks
<1>3. CASE MovesTo(p, "health") \/ IsOver(p)
  BY <1>0, <1>1, <1>3, PlainKeepsLinks
<1>4. CASE Previous(p) /\ record[me.s] # Nothing
  <2> DEFINE x == record[me.s].url
  <2> DEFINE pc == IF me.op = "delete" THEN "drop" ELSE "owner"
  <2> DEFINE rec == [me EXCEPT !.seen = x, !.pc = pc]
  <2>1. x \in Urls /\ pc \in CallSteps /\ call' = [call EXCEPT ![p] = rec]
    BY <1>0, <1>4 DEF Previous, Step, ServiceRows, CallSteps
  <2>2. IsCall(rec, pc, me.op, me.s, me.row, me.next, me.from, x)
    <3> HIDE DEF x, pc
    <3> QED BY <1>0, <2>1, SeenNoted
  <2> HIDE DEF rec
  <2>3. rec \in CallRecords /\ rec.op = me.op /\ rec.pc \in {"owner", "write", "drop"} /\ ChangeFits(rec, record, owner, listed)
    BY <1>4, <2>2 DEF IsCall, ChangeFits
  <2> QED BY <1>2, <2>1, <2>3
<1>5. CASE CheckOwner(p) /\ owner[me.next.url] \in {Nothing, me.s}
  <2>1. Go(p, "write") /\ "write" \in CallSteps /\ me.pc = "owner"
    BY <1>5 DEF CheckOwner, CallSteps
  <2>2. PICK rec \in CallRecords : OnlyMoved(me, rec, "write") /\ call' = [call EXCEPT ![p] = rec]
    BY <1>0, <2>1, CallMoves DEF IsMoved
  <2>3. ChangeFits(me, record, owner, listed)
    BY <1>0 DEF LinksHold, AllFit
  <2>4. rec.op = me.op /\ rec.pc = "write" /\ ChangeFits(rec, record, owner, listed)
    BY <1>5, <2>1, <2>2, <2>3 DEF OnlyMoved, ChangeFits
  <2> QED BY <1>2, <2>2, <2>4
<1>6. CASE Previous(p) /\ record[me.s] = Nothing
  BY <1>0, <1>3, <1>6, CallMoves DEF Previous
<1>7. CASE CheckOwner(p) /\ owner[me.next.url] \notin {Nothing, me.s}
  BY <1>0, <1>3, <1>7, CallMoves DEF CheckOwner
<1> QED BY <1>4, <1>5, <1>6, <1>7

(* A create: it reserves the id, then the URL, and lists the service, or   *)
(* gives back what it took.                                                *)
LEMMA CreateKeepsLinks ==
    ASSUME LinkState, NEW p \in Callers, ReserveId(p) \/ ReserveUrl(p) \/ Undo(p) \/ AddToList(p)
    PROVE  LinksHold'
<1> USE NothingElse
<1> DEFINE me == call[p]
<1> DEFINE s == me.s
<1>0. /\ RegistryTypes /\ RegistryTypes' /\ LinksHold /\ me \in CallRecords /\ CallOrder(me) /\ s \in Services
      /\ me.pc # "idle" /\ me.op = "create" /\ me.next \in ServiceRows /\ me.next.url \in Urls
      /\ record \in [Services -> ServiceRows \cup {Nothing}] /\ owner \in [Urls -> Services \cup {Nothing}]
      /\ listed \subseteq Services
      /\ EnterFits(me, record, owner, listed)
  <2>1. me.pc \in {"create", "reserve", "undo", "undoboth", "add"}
    BY DEF ReserveId, ReserveUrl, Undo, AddToList
  <2>2. me.next \in ServiceRows /\ me.op = "create"
    BY <2>1, CallTyped DEF LinkState, CallFits, CallOrder, CallLoad
  <2>3. me.next.url \in Urls
    BY <2>2 DEF ServiceRows
  <2> QED BY <2>1, <2>2, <2>3, CallTyped DEF LinkState, CallFits, RegistryTypes, LinksHold, AllFit
<1>1. CASE ReserveId(p) /\ record[s] # Nothing
  <2>1. IsOver(p) /\ UNCHANGED <<record, owner, listed>> /\ me.pc \notin Amid \cup {"idle"}
    BY <1>0, <1>1, CallMoves DEF ReserveId, Amid, Entering
  <2> QED BY <2>1, PlainKeepsLinks
<1>2. CASE ReserveId(p) /\ record[s] = Nothing
  <2>1. /\ me.pc = "create" /\ record' = [record EXCEPT ![s] = me.next] /\ UNCHANGED <<owner, listed>>
        /\ Go(p, "reserve") /\ "reserve" \in CallSteps
    BY <1>2 DEF ReserveId, CallSteps
  <2>2. Alone(p)
    <3> SUFFICES ASSUME NEW q \in Callers \ {p}, call[q].s = s, call[q].pc \in Amid PROVE FALSE
      BY DEF Alone
    <3>1. call[q].op \in {Nothing, "create"} /\ CallOrder(call[q]) /\ CallLoad(call[q])
      BY <1>0, RunsAlone, CallTyped DEF CallFits
    <3>2. call[q].pc \in Entering
      BY <3>1 DEF CallOrder, Amid, Entering
    <3>3. record[s] = call[q].next /\ call[q].next \in ServiceRows
      BY <1>0, <3>1, <3>2 DEF LinksHold, AllFit, EnterFits, CallLoad, Entering
    <3> QED BY <1>2, <3>3
  <2>3. Settled(s, record, owner, listed)
    BY <1>0, <2>1, <2>2, AloneSettled DEF Amid, Entering
  <2>4. PICK rec \in CallRecords : OnlyMoved(me, rec, "reserve") /\ call' = [call EXCEPT ![p] = rec]
    BY <1>0, <2>1, CallMoves DEF IsMoved
  <2>5. EnterFits(rec, record', owner', listed') /\ ChangeFits(rec, record', owner', listed')
    BY <1>0, <1>2, <2>1, <2>3, <2>4 DEF OnlyMoved, EnterFits, ChangeFits, Settled
  <2>6. Elsewhere(s)
    BY <1>0, <2>1 DEF Elsewhere
  <2>7. rec.pc \in Amid /\ StaysSo(me, rec) /\ rec.s = s
    BY <2>4 DEF OnlyMoved, Amid, Entering, StaysSo
  <2> QED BY <1>0, <2>2, <2>4, <2>5, <2>6, <2>7, AloneKeepsLinks
<1>3. me.pc \in Entering => Alone(p)
  BY <1>0, RunsAlone
<1>4. CASE ReserveUrl(p)
  <2>1. me.pc = "reserve" /\ UNCHANGED <<record, listed>> /\ Alone(p)
    BY <1>3, <1>4 DEF ReserveUrl, Entering
  <2>2. PICK pc \in {"undo", "add"} : /\ Go(p, pc) /\ pc \in CallSteps
                                      /\ pc = "undo" => owner' = owner
                                      /\ pc = "add" => /\ owner[me.next.url] = Nothing
                                                       /\ owner' = [owner EXCEPT ![me.next.url] = s]
    BY <1>4 DEF ReserveUrl, CallSteps
  <2>3. PICK rec \in CallRecords : OnlyMoved(me, rec, pc) /\ call' = [call EXCEPT ![p] = rec]
    BY <1>0, <2>2, CallMoves DEF IsMoved
  <2>4. EnterFits(rec, record', owner', listed') /\ ChangeFits(rec, record', owner', listed')
    BY <1>0, <2>1, <2>2, <2>3 DEF OnlyMoved, EnterFits, ChangeFits, Entering
  <2>5. Elsewhere(s)
    BY <1>0, <2>1, <2>2 DEF Elsewhere
  <2>6. rec.pc \in Amid /\ StaysSo(me, rec) /\ rec.s = s
    BY <2>3 DEF OnlyMoved, Amid, Entering, StaysSo
  <2> QED BY <1>0, <2>1, <2>3, <2>4, <2>5, <2>6, AloneKeepsLinks
<1>5. CASE Undo(p)
  <2>1. /\ me.pc \in {"undo", "undoboth"} /\ Alone(p) /\ record' = [record EXCEPT ![s] = Nothing] /\ listed' = listed
        /\ owner' = IF me.pc = "undo" THEN owner ELSE [owner EXCEPT ![me.next.url] = Nothing]
    BY <1>3, <1>5 DEF Undo, Entering
  <2>2. PICK rec \in CallRecords : rec.pc = "idle" /\ rec.op = Nothing /\ call' = [call EXCEPT ![p] = rec]
    BY <1>0, <1>5, CallMoves DEF Undo, IsOver
  <2>3. EnterFits(rec, record', owner', listed') /\ ChangeFits(rec, record', owner', listed') /\ StaysSo(me, rec)
    BY <2>2 DEF EnterFits, ChangeFits, Entering, StaysSo
  <2>4. Settled(s, record', owner', listed')
    BY <1>0, <2>1 DEF Settled, EnterFits, Entering
  <2>5. Elsewhere(s)
    BY <1>0, <2>1 DEF Elsewhere, EnterFits, Entering
  <2> QED BY <1>0, <2>1, <2>2, <2>3, <2>4, <2>5, AloneKeepsLinks
<1>6. CASE AddToList(p) /\ UNCHANGED listed /\ Go(p, "undoboth")
  <2>1. me.pc = "add" /\ UNCHANGED <<record, owner, listed>> /\ Alone(p) /\ "undoboth" \in CallSteps
    BY <1>3, <1>6 DEF AddToList, Entering, CallSteps
  <2>2. PICK rec \in CallRecords : OnlyMoved(me, rec, "undoboth") /\ call' = [call EXCEPT ![p] = rec]
    BY <1>0, <1>6, <2>1, CallMoves DEF IsMoved
  <2>3. EnterFits(rec, record', owner', listed') /\ ChangeFits(rec, record', owner', listed')
    BY <1>0, <2>1, <2>2 DEF OnlyMoved, EnterFits, ChangeFits, Entering
  <2>4. Elsewhere(s) /\ rec.pc \in Amid /\ StaysSo(me, rec) /\ rec.s = s
    BY <2>1, <2>2 DEF Elsewhere, OnlyMoved, Amid, Entering, StaysSo
  <2> QED BY <1>0, <2>1, <2>2, <2>3, <2>4, AloneKeepsLinks
<1>7. CASE AddToList(p) /\ listed' = listed \cup {s} /\ Stored(p)
  <2>1. me.pc = "add" /\ UNCHANGED <<record, owner>> /\ Alone(p) /\ store = "redis"
    BY <1>3, <1>7 DEF AddToList, Entering, LinkState
  <2>2. PICK rec \in CallRecords : rec.pc = "card" /\ rec.op = me.op /\ rec.s = s /\ call' = [call EXCEPT ![p] = rec]
    BY <1>0, <1>7, <2>1, CallMoves DEF MovesTo
  <2>3. EnterFits(rec, record', owner', listed') /\ ChangeFits(rec, record', owner', listed') /\ StaysSo(me, rec)
    BY <2>2 DEF EnterFits, ChangeFits, Entering, StaysSo
  <2>4. Settled(s, record', owner', listed')
    BY <1>0, <1>7, <2>1 DEF Settled, EnterFits, Entering
  <2>5. Elsewhere(s)
    BY <1>7, <2>1 DEF Elsewhere
  <2> QED BY <1>0, <2>1, <2>2, <2>3, <2>4, <2>5, AloneKeepsLinks
<1> QED BY <1>1, <1>2, <1>4, <1>5, <1>6, <1>7 DEF AddToList

(* The writes of an update or a delete, which runs alone.                  *)
LEMMA ChangeKeepsLinks ==
    ASSUME LinkState, NEW p \in Callers,
           WriteRecord(p) \/ ListAgain(p) \/ TakeUrl(p) \/ LeaveUrl(p) \/ DropRecord(p) \/ Unlist(p)
    PROVE  LinksHold'
<1> USE NothingElse
<1> DEFINE me == call[p]
<1> DEFINE s == me.s
<1>0. me.pc \in {"write", "list", "own", "disown", "drop", "unlist"}
  BY DEF WriteRecord, ListAgain, TakeUrl, LeaveUrl, DropRecord, Unlist
<1>1. /\ RegistryTypes /\ RegistryTypes' /\ LinksHold /\ store = "redis" /\ me \in CallRecords /\ s \in Services
      /\ CallOrder(me) /\ CallLoad(me)
      /\ record \in [Services -> ServiceRows \cup {Nothing}] /\ owner \in [Urls -> Services \cup {Nothing}]
      /\ listed \subseteq Services
      /\ ChangeFits(me, record, owner, listed)
  BY <1>0, CallTyped DEF LinkState, CallFits, RegistryTypes, LinksHold, AllFit
<1>2. me.pc # "idle" /\ me.op # "create"
  BY <1>0, <1>1 DEF CallOrder
<1>3. Alone(p)
  BY <1>1, <1>2, RunsAlone
<1>4. me.pc # "unlist" => me.seen \in Urls
  BY <1>0, <1>1 DEF CallLoad
<1>5. me.pc \in {"write", "list", "own"} \/ (me.pc = "disown" /\ me.op # "delete")
      => me.next \in ServiceRows /\ me.next.url \in Urls
  <2>1. me.pc \in {"write", "list", "own"} \/ (me.pc = "disown" /\ me.op # "delete") => me.next \in ServiceRows
    BY <1>1 DEF CallLoad
  <2> QED BY <2>1 DEF ServiceRows
<1>6. ASSUME NEW pc \in CallSteps \ Entering, Go(p, pc), Elsewhere(s),
             \A rec \in CallRecords : OnlyMoved(me, rec, pc) => ChangeFits(rec, record', owner', listed'),
             pc \notin Amid => Settled(s, record', owner', listed')
      PROVE  LinksHold'
  <2>1. PICK rec \in CallRecords : OnlyMoved(me, rec, pc) /\ call' = [call EXCEPT ![p] = rec]
    BY <1>1, <1>6, CallMoves DEF IsMoved
  <2>2. EnterFits(rec, record', owner', listed') /\ ChangeFits(rec, record', owner', listed') /\ StaysSo(me, rec)
        /\ rec.pc = pc /\ rec.s = s
    BY <1>2, <1>6, <2>1 DEF EnterFits, StaysSo, OnlyMoved
  <2> QED BY <1>1, <1>2, <1>3, <1>6, <2>1, <2>2, AloneKeepsLinks
<1>7. ASSUME Stored(p), me.next \in ServiceRows, Elsewhere(s), Settled(s, record', owner', listed') PROVE LinksHold'
  <2>1. PICK rec \in CallRecords : rec.pc = "card" /\ rec.op = me.op /\ rec.s = s /\ call' = [call EXCEPT ![p] = rec]
    BY <1>1, <1>7, CallMoves DEF MovesTo
  <2>2. EnterFits(rec, record', owner', listed') /\ ChangeFits(rec, record', owner', listed') /\ StaysSo(me, rec)
    BY <1>2, <2>1 DEF EnterFits, ChangeFits, StaysSo, Entering
  <2> QED BY <1>1, <1>2, <1>3, <1>7, <2>1, <2>2, AloneKeepsLinks
<1>8. me.pc \in {"write", "drop"} => Settled(s, record, owner, listed)
  BY <1>1, <1>3, AloneSettled DEF Amid, Entering
<1>9. CASE WriteRecord(p)
  <2>1. me.pc = "write" /\ record' = [record EXCEPT ![s] = me.next] /\ UNCHANGED <<owner, listed>> /\ Go(p, "list")
    BY <1>9 DEF WriteRecord
  <2>2. \A rec \in CallRecords : OnlyMoved(me, rec, "list") => ChangeFits(rec, record', owner', listed')
    BY <1>1, <1>4, <1>5, <1>8, <2>1 DEF OnlyMoved, ChangeFits, Settled
  <2>3. Elsewhere(s) /\ "list" \in CallSteps \ Entering /\ "list" \in Amid
    BY <1>1, <2>1 DEF Elsewhere, CallSteps, Entering, Amid
  <2> QED BY <1>6, <2>1, <2>2, <2>3
<1>10. CASE ListAgain(p)
  <2>1. me.pc = "list" /\ listed' = listed \cup {s} /\ UNCHANGED <<record, owner>> /\ Go(p, "own")
    BY <1>10 DEF ListAgain
  <2>2. \A rec \in CallRecords : OnlyMoved(me, rec, "own") => ChangeFits(rec, record', owner', listed')
    BY <1>1, <2>1 DEF OnlyMoved, ChangeFits
  <2>3. Elsewhere(s) /\ "own" \in CallSteps \ Entering /\ "own" \in Amid
    BY <2>1 DEF Elsewhere, CallSteps, Entering, Amid
  <2> QED BY <1>6, <2>1, <2>2, <2>3
<1>11. CASE TakeUrl(p)
  <2>1. me.pc = "own" /\ owner' = [owner EXCEPT ![me.next.url] = s] /\ UNCHANGED <<record, listed>>
    BY <1>11 DEF TakeUrl
  <2>2. me.next \in ServiceRows /\ me.next.url \in Urls /\ me.seen \in Urls
    BY <1>4, <1>5, <2>1
  <2>3. Elsewhere(s)
    BY <1>1, <2>1, <2>2 DEF Elsewhere, ChangeFits
  <2>4. CASE me.seen # me.next.url
    <3>1. \A rec \in CallRecords : OnlyMoved(me, rec, "disown") => ChangeFits(rec, record', owner', listed')
      <4> SUFFICES ASSUME NEW rec \in CallRecords, OnlyMoved(me, rec, "disown")
                   PROVE  ChangeFits(rec, record', owner', listed')
        OBVIOUS
      <4>1. rec.pc = "disown" /\ rec.op # "delete" /\ rec.s = s /\ rec.next = me.next /\ rec.seen = me.seen
        BY <1>1, <2>1 DEF OnlyMoved, CallOrder
      <4> QED BY <1>1, <2>1, <2>2, <2>4, <4>1 DEF ChangeFits
    <3>2. Go(p, "disown") /\ "disown" \in CallSteps \ Entering /\ "disown" \in Amid
      BY <1>11, <2>4 DEF TakeUrl, CallSteps, Entering, Amid
    <3> QED BY <1>6, <2>3, <3>1, <3>2
  <2>5. CASE me.seen = me.next.url
    <3>1. Settled(s, record', owner', listed')
      BY <1>1, <2>1, <2>2, <2>5 DEF Settled, ChangeFits
    <3> QED BY <1>7, <1>11, <2>2, <2>3, <2>5, <3>1 DEF TakeUrl
  <2> QED BY <2>4, <2>5
<1>12. CASE LeaveUrl(p)
  <2>1. me.pc = "disown" /\ owner' = [owner EXCEPT ![me.seen] = Nothing] /\ UNCHANGED <<record, listed>> /\ me.seen \in Urls
    BY <1>4, <1>12 DEF LeaveUrl
  <2>2. Elsewhere(s)
    BY <1>1, <2>1 DEF Elsewhere, ChangeFits
  <2>3. CASE me.op = "delete"
    <3>1. \A rec \in CallRecords : OnlyMoved(me, rec, "unlist") => ChangeFits(rec, record', owner', listed')
      BY <1>1, <2>1, <2>3 DEF OnlyMoved, ChangeFits
    <3>2. Go(p, "unlist") /\ "unlist" \in CallSteps \ Entering /\ "unlist" \in Amid
      BY <1>12, <2>3 DEF LeaveUrl, CallSteps, Entering, Amid
    <3> QED BY <1>6, <2>2, <3>1, <3>2
  <2>4. CASE me.op # "delete"
    <3>1. me.next \in ServiceRows /\ me.next.url \in Urls
      BY <1>5, <2>1, <2>4
    <3>2. Settled(s, record', owner', listed')
      BY <1>1, <2>1, <2>4, <3>1 DEF Settled, ChangeFits
    <3> QED BY <1>7, <1>12, <2>2, <2>4, <3>1, <3>2 DEF LeaveUrl
  <2> QED BY <2>3, <2>4
<1>13. CASE DropRecord(p)
  <2>1. me.pc = "drop" /\ record' = [record EXCEPT ![s] = Nothing] /\ UNCHANGED <<owner, listed>> /\ Go(p, "disown")
    BY <1>13 DEF DropRecord
  <2>2. \A rec \in CallRecords : OnlyMoved(me, rec, "disown") => ChangeFits(rec, record', owner', listed')
    <3> SUFFICES ASSUME NEW rec \in CallRecords, OnlyMoved(me, rec, "disown")
                 PROVE  ChangeFits(rec, record', owner', listed')
      OBVIOUS
    <3>1. rec.pc = "disown" /\ rec.op = "delete" /\ rec.s = s /\ rec.seen = me.seen
      BY <1>1, <2>1 DEF OnlyMoved, CallOrder
    <3> QED BY <1>1, <1>8, <2>1, <3>1 DEF ChangeFits, Settled
  <2>3. Elsewhere(s) /\ "disown" \in CallSteps \ Entering /\ "disown" \in Amid
    BY <1>1, <2>1 DEF Elsewhere, CallSteps, Entering, Amid
  <2> QED BY <1>6, <2>1, <2>2, <2>3
<1>14. CASE Unlist(p)
  <2>1. me.pc = "unlist" /\ listed' = listed \ {s} /\ UNCHANGED <<record, owner>> /\ Go(p, "uncard")
    BY <1>14 DEF Unlist
  <2>2. \A rec \in CallRecords : OnlyMoved(me, rec, "uncard") => ChangeFits(rec, record', owner', listed')
    BY DEF OnlyMoved, ChangeFits
  <2>3. Elsewhere(s) /\ "uncard" \in CallSteps \ Entering
    BY <2>1 DEF Elsewhere, CallSteps, Entering
  <2>4. Settled(s, record', owner', listed')
    BY <1>1, <2>1 DEF Settled, ChangeFits
  <2> QED BY <1>6, <2>1, <2>2, <2>3, <2>4
<1> QED BY <1>9, <1>10, <1>11, <1>12, <1>13, <1>14

(* A call that begins leaves the links as they are: an overlap is noted.   *)
LEMMA BeginKeepsLinks ==
    ASSUME LinkState, ~overlapped', NEW p \in Callers, NEW rec \in CallRecords, Begin(p, rec),
           rec.pc \in {"create", "read", "target"}
    PROVE  LinksHold'
<1>1. /\ RegistryTypes /\ LinksHold /\ call \in [Callers -> CallRecords] /\ call[p].pc = "idle"
      /\ call' = [call EXCEPT ![p] = rec] /\ UNCHANGED <<record, owner, listed>>
  BY DEF LinkState, RegistryTypes, Begin, Step, NoCall
<1>2. call'[p] = rec /\ \A q \in Callers \ {p} : call'[q] = call[q]
  BY <1>1
<1>3. \A q \in Callers \ {p} : call[q].op # Nothing => rec.op = "create" /\ call[q].op = "create"
  BY DEF Begin
<1>4. OnlyCreates'
  BY <1>1, <1>2, <1>3 DEF LinksHold, OnlyCreates
<1>5. call[p].pc \notin Amid /\ rec.pc \notin Amid /\ ChangeFits(rec, record, owner, listed)
  BY <1>1 DEF Amid, Entering, ChangeFits
<1> QED BY <1>1, <1>4, <1>5, QuietKeepsLinks

(* Every step keeps the links.                                             *)
LEMMA NextLinked == RegistryTypes /\ RegistryTypes' /\ Linked /\ [RegistryNext]_registryVars => Linked'
<1> USE NothingElse
<1> SUFFICES ASSUME RegistryTypes, RegistryTypes', Linked, [RegistryNext]_registryVars, store' = "redis", ~overlapped'
             PROVE  LinksHold'
  BY DEF Linked
<1>1. CASE UNCHANGED registryVars
  <2>1. LinksHold
    BY <1>1 DEF registryVars, Linked
  <2> QED BY <1>1, <2>1 DEF registryVars, LinksHold, OnlyCreates, OneEnters, AllFit, EnterFits, ChangeFits, AllSettled, Settled, BusyWith
<1>2. ASSUME NEW p \in Callers, RegistryCall(p) PROVE LinksHold'
  <2>1. LinkState
    BY <1>2 DEF RegistryCall, CreateService, UpdateService, DeleteService, RefreshService, RefreshHealth, Begin, Linked, LinkState
  <2>2. ASSUME NEW s \in Services, NEW u \in Urls, CreateService(p, s, u) PROVE LinksHold'
    <3> DEFINE rec == [NoCall EXCEPT !.op = "create", !.s = s, !.pc = IF store = "redis" THEN "create" ELSE "commit",
                            !.next = [url |-> u, status |-> "registered", caps |-> Nothing]]
    <3>1. Begin(p, rec)
      BY <2>2 DEF CreateService
    <3>2. rec \in CallRecords /\ rec.pc = "create"
      BY <2>1 DEF CallRecords, CallSteps, CallOps, NoCall, ServiceRows, LinkState
    <3> HIDE DEF rec
    <3> QED BY <2>1, <3>1, <3>2, BeginKeepsLinks
  <2>3. ASSUME NEW s \in Services, NEW change \in RowChanges, UpdateService(p, s, change) PROVE LinksHold'
    <3> DEFINE rec == [NoCall EXCEPT !.op = "update", !.s = s, !.pc = "read", !.from = change]
    <3>1. Begin(p, rec)
      BY <2>3 DEF UpdateService
    <3>2. rec \in CallRecords /\ rec.pc = "read"
      BY DEF CallRecords, CallSteps, CallOps, NoCall
    <3> HIDE DEF rec
    <3> QED BY <2>1, <3>1, <3>2, BeginKeepsLinks
  <2>4. ASSUME NEW s \in Services, DeleteService(p, s) \/ RefreshService(p, s) \/ RefreshHealth(p, s) PROVE LinksHold'
    <3>1. PICK op \in {"delete", "refresh", "health"} : \E pc \in {"read", "target"} :
             Begin(p, [NoCall EXCEPT !.op = op, !.s = s, !.pc = pc])
      BY <2>4 DEF DeleteService, RefreshService, RefreshHealth
    <3>2. PICK pc \in {"read", "target"} : Begin(p, [NoCall EXCEPT !.op = op, !.s = s, !.pc = pc])
      BY <3>1
    <3> DEFINE rec == [NoCall EXCEPT !.op = op, !.s = s, !.pc = pc]
    <3>3. rec \in CallRecords /\ rec.pc = pc
      BY DEF CallRecords, CallSteps, CallOps, NoCall
    <3>4. Begin(p, rec)
      BY <3>2
    <3> HIDE DEF rec
    <3> QED BY <2>1, <3>3, <3>4, BeginKeepsLinks
  <2>5. ASSUME NEW s \in Services, NEW u \in Urls \cup {Nothing}, NEW st \in {"registered", "disabled", Nothing},
               UpdateService(p, s, [url |-> u, status |-> st])
        PROVE  LinksHold'
    <3>1. [url |-> u, status |-> st] \in RowChanges
      BY DEF RowChanges
    <3> QED BY <2>3, <2>5, <3>1
  <2> QED BY <1>2, <2>2, <2>4, <2>5 DEF RegistryCall
<1>3. ASSUME NEW p \in Callers, \/ Target(p) \/ Fetch(p) \/ Read(p) \/ DropCard(p) \/ ReadCard(p) \/ SetCard(p) \/ SetHealth(p)
      PROVE  LinksHold'
  <2>1. LinkState
    BY <1>3 DEF Target, Fetch, Read, DropCard, ReadCard, SetCard, SetHealth, Linked, LinkState
  <2> QED BY <1>3, <2>1, ReadsKeepLinks
<1>4. ASSUME NEW p \in Callers, Previous(p) \/ CheckOwner(p) PROVE LinksHold'
  <2>1. LinkState
    BY <1>4 DEF Previous, CheckOwner, Linked, LinkState
  <2> QED BY <1>4, <2>1, ChecksKeepLinks
<1>5. ASSUME NEW p \in Callers, ReserveId(p) \/ ReserveUrl(p) \/ Undo(p) \/ AddToList(p) PROVE LinksHold'
  <2>1. LinkState
    BY <1>5 DEF ReserveId, ReserveUrl, Undo, AddToList, Linked, LinkState
  <2> QED BY <1>5, <2>1, CreateKeepsLinks
<1>6. ASSUME NEW p \in Callers, WriteRecord(p) \/ ListAgain(p) \/ TakeUrl(p) \/ LeaveUrl(p) \/ DropRecord(p) \/ Unlist(p)
      PROVE  LinksHold'
  <2>1. LinkState
    BY <1>6 DEF WriteRecord, ListAgain, TakeUrl, LeaveUrl, DropRecord, Unlist, Linked, LinkState
  <2> QED BY <1>6, <2>1, ChangeKeepsLinks
<1>7. ASSUME NEW p \in Callers, Commit(p) PROVE FALSE
  <2>1. call[p].pc = "commit" /\ store = "redis"
    BY <1>7 DEF Commit
  <2> QED BY <2>1, CallTyped DEF CallFits, CallStore
<1> QED BY <1>1, <1>2, <1>3, <1>4, <1>5, <1>6, <1>7 DEF RegistryNext

(* The registry starts out empty.                                          *)
LEMMA InitRegistry == RegistryInit => RegistryInv
<1> USE NothingElse
<1> SUFFICES ASSUME RegistryInit PROVE RegistryInv
  OBVIOUS
<1>1. \A p \in Callers : call[p] = NoCall /\ call[p].pc = "idle" /\ call[p].op = Nothing
  BY DEF RegistryInit, NoCall
<1>2. CallFits(NoCall) /\ store \in {"postgres", "redis"}
  BY IdleFits, RegistryAssumption DEF RegistryInit
<1>3. RegistryTypes
  BY <1>1, <1>2 DEF RegistryInit, RegistryTypes, CallFits
<1>4. WordKept
  BY <1>1 DEF RegistryInit, WordKept, Storing
<1>5. OneRow
  BY DEF RegistryInit, OneRow
<1>6. Linked
  BY <1>1 DEF RegistryInit, Linked, LinksHold, OnlyCreates, OneEnters, Entering, AllFit, EnterFits, ChangeFits, AllSettled, Settled
<1> QED BY <1>3, <1>4, <1>5, <1>6 DEF RegistryInv

(* What the inductive invariant says to a reader of the registry.          *)
LEMMA RegistryShown == RegistryInv => RegistrySound
<1> USE NothingElse
<1> SUFFICES ASSUME RegistryInv PROVE RegistrySound
  OBVIOUS
<1>1. OperatorWins
  BY DEF RegistryInv, WordKept, OperatorWins
<1>2. HealthShown
  BY DEF RegistryInv, OneRow, HealthShown
<1>3. ASSUME store = "redis", ~overlapped, \A p \in Callers : call[p] = NoCall
      PROVE  /\ listed = {s \in Services : record[s] # Nothing}
             /\ \A s \in listed : owner[record[s].url] = s
             /\ \A u \in Urls : owner[u] # Nothing => record[owner[u]] # Nothing /\ record[owner[u]].url = u
  <2>1. \A p \in Callers : call[p].pc = "idle"
    BY <1>3 DEF NoCall
  <2>2. \A s \in Services : Settled(s, record, owner, listed)
    BY <1>3, <2>1 DEF RegistryInv, Linked, LinksHold, AllSettled, BusyWith, Amid, Entering
  <2>3. listed \subseteq Services /\ owner \in [Urls -> Services \cup {Nothing}]
    BY DEF RegistryInv, RegistryTypes
  <2> QED BY <2>2, <2>3 DEF Settled
<1>4. RegistryConsistent
  BY <1>3 DEF RegistryInv, OneRow, RegistryConsistent
<1> QED BY <1>1, <1>2, <1>4 DEF RegistrySound

(* Whatever calls run side by side, the stores of the registry agree with  *)
(* each other, with what the operators asked for and with the health last  *)
(* taken, for every number of services, URLs and callers.                  *)
THEOREM RegistryIsSound == RegistrySpec => []RegistrySound
<1>1. RegistryInit => RegistryInv
  BY InitRegistry
<1>2. RegistryInv /\ [RegistryNext]_registryVars => RegistryInv'
  BY NextRegistryTypes, NextWordKept, NextOneRow, NextLinked DEF RegistryInv
<1>3. RegistryInv => RegistrySound
  BY RegistryShown
<1> QED BY <1>1, <1>2, <1>3, PTL DEF RegistrySpec

-----------------------------------------------------------------------------
(* Recovery: the inductive invariants.                                     *)

PlanStates == {"none", "previewed", "ready", "running", "paused", "stopped", "completed"}
PlanRows ==
    [state : PlanStates, version : Nat, allowance : Nat, dispatch : [Failures -> Dispatch],
     outcome : [Failures -> Outcome]]
LoopSteps ==
    {"idle", "preflight", "block", "claim", "send", "answer", "record", "reread", "observe", "note"}
Readings == UNION {[S -> Dispatch] : S \in SUBSET Failures}
LoopRecords ==
    [pc : LoopSteps, at : Plans \cup {None}, version : Nat, item : Failures \cup {None}, read : Readings,
     change : Change, retryable : BOOLEAN]

RecoveryTypes ==
    /\ plan \in [Plans -> PlanRows] /\ replica \in [Replicas -> LoopRecords]
    /\ wire \subseteq Failures /\ posts \in [Failures -> Nat]
    /\ service \in [Failures -> {"dead", "sent", "gone"}]
    /\ event \in [Failures -> {"old", "completed", "failed"}]

(* Once an intent is committed the item is never pending again.            *)
SentStates == {"dispatching", "unknown", "accepted"}

(* The retry reached the service and is not on its way any more.           *)
Arrived(f) == posts[f] = 1 /\ f \notin wire /\ service[f] # "dead"

(* What an outcome stands for.                                             *)
Backed(f, o) ==
    /\ o = "succeeded" => Arrived(f) /\ event[f] = "completed"
    /\ o = "failed" => Arrived(f) /\ event[f] = "failed"

(* What a replica holds is true of the plan it works on.                   *)
LoopFits(me) ==
    /\ me.pc # "idle" => me.at \in Plans /\ Saved(me.at)
    /\ me.pc \in {"preflight", "block", "claim", "send", "answer", "record", "note"} => me.item \in Items(me.at)
    /\ me.pc \in {"send", "answer", "record", "note"} => plan[me.at].dispatch[me.item] \in SentStates
    /\ me.pc = "send" => posts[me.item] = 0
    /\ me.pc \in {"observe", "note"} =>
          \A f \in DOMAIN me.read : /\ f \in Items(me.at) /\ plan[me.at].dispatch[f] \in SentStates
                                    /\ me.read[f] = "accepted" => Arrived(f)
    /\ me.pc \in {"record", "note"} =>
          /\ me.change.dispatch \in {Keep, "unknown", "accepted"}
          /\ me.change.dispatch = "accepted" => Arrived(me.item)
          /\ Backed(me.item, me.change.outcome)

(* What a row says is true of the service.                                 *)
RowFits(p) ==
    \A f \in Failures :
        /\ plan[p].dispatch[f] \in {"pending", "blocked"} => plan[p].outcome[f] = "not_requested"
        /\ plan[p].dispatch[f] = "accepted" => Arrived(f)
        /\ Backed(f, plan[p].outcome[f])
        /\ ~Saved(p) \/ f \notin Items(p) => plan[p].dispatch[f] = "pending"

(* A failure belongs to one plan, and one replica sends it.                *)
ClaimsApart == \A p, q \in Plans : p # q /\ Saved(p) /\ Saved(q) => Items(p) \cap Items(q) = {}
OneSender ==
    \A r, q \in Replicas : r # q /\ replica[r].pc = "send" /\ replica[q].pc = "send" => replica[r].item # replica[q].item

PostFits(f) ==
    /\ posts[f] <= 1
    /\ posts[f] > 0 => \E p \in Plans : f \in Items(p) /\ plan[p].dispatch[f] \in SentStates
    /\ f \in wire => posts[f] = 1
    /\ service[f] = "sent" => Arrived(f)

SendInv ==
    /\ RecoveryTypes /\ ClaimsApart /\ OneSender
    /\ \A r \in Replicas : LoopFits(replica[r])
    /\ \A p \in Plans : RowFits(p)
    /\ \A f \in Failures : PostFits(f)

(* The sends authorized for a plan, and what became of its items.          *)
Authorized(p) == {c \in granted : c[1] = p}
SentItems(p) == {f \in Items(p) : plan[p].dispatch[f] \notin {"pending", "blocked"}}
BlockedItems(p) == {f \in Items(p) : plan[p].dispatch[f] = "blocked"}

(* The allowance left never exceeds what was authorized and not yet sent.  *)
Covered(p) ==
    /\ Cardinality(SentItems(p)) <= Cardinality(Authorized(p))
    /\ plan[p].allowance <= Cardinality(Authorized(p)) + Cardinality(BlockedItems(p))

AuthorityInv ==
    /\ IsFiniteSet(granted) /\ granted \subseteq Plans \X Nat \X Nat
    /\ \A c \in granted : c[2] < plan[c[1]].version
    /\ \A p \in Plans : Covered(p)

-----------------------------------------------------------------------------
(* The steps, field by field.                                              *)

(* One row changes.                                                        *)
RowStep(p, st, ve, al, di, ou) ==
    /\ plan' \in [Plans -> PlanRows] /\ \A q \in Plans \ {p} : plan'[q] = plan[q]
    /\ plan'[p].state = st /\ plan'[p].version = ve /\ plan'[p].allowance = al
    /\ plan'[p].dispatch = di /\ plan'[p].outcome = ou

(* A row of the table.                                                     *)
LEMMA RowTyped ==
    ASSUME RecoveryTypes, NEW p \in Plans
    PROVE  /\ plan[p] \in PlanRows /\ plan[p].state \in PlanStates /\ plan[p].version \in Nat /\ plan[p].allowance \in Nat
           /\ plan[p].dispatch \in [Failures -> Dispatch] /\ plan[p].outcome \in [Failures -> Outcome]
BY DEF RecoveryTypes, PlanRows

(* What a row is made of.                                                  *)
IsRow(row, st, ve, al, di, ou) ==
    /\ row \in PlanRows /\ row.state = st /\ row.version = ve /\ row.allowance = al
    /\ row.dispatch = di /\ row.outcome = ou

(* A row with one field changed.                                           *)
LEMMA StateSet ==
    ASSUME NEW row \in PlanRows, NEW st \in PlanStates
    PROVE  IsRow([row EXCEPT !.state = st], st, row.version, row.allowance, row.dispatch, row.outcome)
BY DEF PlanRows, IsRow

(* Another version.                                                        *)
LEMMA VersionSet ==
    ASSUME NEW row \in PlanRows, NEW ve \in Nat
    PROVE  IsRow([row EXCEPT !.version = ve], row.state, ve, row.allowance, row.dispatch, row.outcome)
BY DEF PlanRows, IsRow

(* Another allowance.                                                      *)
LEMMA AllowanceSet ==
    ASSUME NEW row \in PlanRows, NEW al \in Nat
    PROVE  IsRow([row EXCEPT !.allowance = al], row.state, row.version, al, row.dispatch, row.outcome)
BY DEF PlanRows, IsRow

(* Items dispatched.                                                       *)
LEMMA DispatchSet ==
    ASSUME NEW row \in PlanRows, NEW di \in [Failures -> Dispatch]
    PROVE  IsRow([row EXCEPT !.dispatch = di], row.state, row.version, row.allowance, di, row.outcome)
BY DEF PlanRows, IsRow

(* Outcomes observed.                                                      *)
LEMMA OutcomeSet ==
    ASSUME NEW row \in PlanRows, NEW ou \in [Failures -> Outcome]
    PROVE  IsRow([row EXCEPT !.outcome = ou], row.state, row.version, row.allowance, row.dispatch, ou)
BY DEF PlanRows, IsRow

(* A new row for a plan.                                                   *)
LEMMA RowReplaced ==
    ASSUME RecoveryTypes, NEW p \in Plans, NEW row, NEW st, NEW ve, NEW al, NEW di, NEW ou,
           IsRow(row, st, ve, al, di, ou), plan' = [plan EXCEPT ![p] = row]
    PROVE  RowStep(p, st, ve, al, di, ou)
BY DEF RecoveryTypes, RowStep, IsRow

(* The items of a plan are failures.                                       *)
LEMMA ItemsOfPlan ==
    ASSUME NEW p \in Plans
    PROVE  Items(p) \subseteq Failures /\ Cohort[p] \in Seq(Failures) /\ Len(Cohort[p]) \in Nat
BY RecoveryAssumption DEF Items, ToSet

(* preview and create.                                                     *)
LEMMA PreviewRow ==
    ASSUME RecoveryTypes, NEW p \in Plans, NEW st \in PlanStates, plan' = [plan EXCEPT ![p].state = st]
    PROVE  RowStep(p, st, plan[p].version, plan[p].allowance, plan[p].dispatch, plan[p].outcome)
<1> DEFINE row == [plan[p] EXCEPT !.state = st]
<1>1. plan' = [plan EXCEPT ![p] = row]
  BY DEF RecoveryTypes
<1>2. IsRow(row, st, plan[p].version, plan[p].allowance, plan[p].dispatch, plan[p].outcome)
  BY RowTyped, StateSet
<1> HIDE DEF row
<1> QED BY <1>1, <1>2, RowReplaced

(* What a control makes of the row.                                        *)
ControlledTo(p, action, count, st, al) ==
    /\ st \in PlanStates \ {"none", "previewed"} /\ al \in Nat
    /\ action = "batch" => al <= Used(p, plan[p]) + count
    /\ action # "batch" => al = plan[p].allowance

(* A control changes the row it is for and nothing else.                   *)
LEMMA ControlRow ==
    ASSUME RecoveryTypes, NEW p \in Plans, NEW action \in {"stop", "pause", "resume", "batch"}, NEW count \in Nat,
           NEW version, Control(p, action, count, version), Used(p, plan[p]) \in Nat
    PROVE  \E st, al :
              /\ RowStep(p, st, plan[p].version + 1, al, plan[p].dispatch, plan[p].outcome)
              /\ ControlledTo(p, action, count, st, al)
<1> DEFINE doc == plan[p]
<1> DEFINE new == Controlled(p, action, count)
<1> DEFINE row == [new EXCEPT !.version = @ + 1]
<1> DEFINE most == IF Used(p, doc) + count < Len(Cohort[p]) THEN Used(p, doc) + count ELSE Len(Cohort[p])
<1>1. plan' = [plan EXCEPT ![p] = row]
  BY DEF Control
<1>2. doc \in PlanRows /\ most \in Nat /\ most <= Used(p, doc) + count /\ doc.version \in Nat /\ doc.allowance \in Nat
  BY RowTyped, ItemsOfPlan
<1>3. \E st, al : IsRow(new, st, doc.version, al, doc.dispatch, doc.outcome) /\ ControlledTo(p, action, count, st, al)
  <2> HIDE DEF most
  <2>1. CASE action = "stop"
    <3>1. new = [doc EXCEPT !.state = "stopped"]
      BY <2>1 DEF Controlled
    <3>2. IsRow(new, "stopped", doc.version, doc.allowance, doc.dispatch, doc.outcome)
      BY <1>2, <3>1, StateSet DEF PlanStates
    <3> QED BY <1>2, <2>1, <3>2 DEF ControlledTo, PlanStates
  <2>2. CASE action = "pause"
    <3>1. new = [doc EXCEPT !.state = "paused"]
      BY <2>2 DEF Controlled
    <3>2. IsRow(new, "paused", doc.version, doc.allowance, doc.dispatch, doc.outcome)
      BY <1>2, <3>1, StateSet DEF PlanStates
    <3> QED BY <1>2, <2>2, <3>2 DEF ControlledTo, PlanStates
  <2>3. CASE action = "resume"
    <3>1. new = [doc EXCEPT !.state = "running"]
      BY <2>3 DEF Controlled
    <3>2. IsRow(new, "running", doc.version, doc.allowance, doc.dispatch, doc.outcome)
      BY <1>2, <3>1, StateSet DEF PlanStates
    <3> QED BY <1>2, <2>3, <3>2 DEF ControlledTo, PlanStates
  <2>4. CASE action = "batch"
    <3> DEFINE on == [doc EXCEPT !.state = "running"]
    <3>1. new = [doc EXCEPT !.state = "running", !.allowance = most]
      BY <2>4 DEF Controlled, most
    <3>2. new = [on EXCEPT !.allowance = most]
      BY <3>1
    <3>3. IsRow(on, "running", doc.version, doc.allowance, doc.dispatch, doc.outcome)
      BY <1>2, StateSet DEF PlanStates
    <3> HIDE DEF on
    <3>4. IsRow(new, "running", doc.version, most, doc.dispatch, doc.outcome)
      BY <1>2, <3>2, <3>3, AllowanceSet DEF IsRow
    <3> QED BY <1>2, <2>4, <3>4 DEF ControlledTo, PlanStates
  <2> QED BY <2>1, <2>2, <2>3, <2>4
<1>4. PICK st, al : IsRow(new, st, doc.version, al, doc.dispatch, doc.outcome) /\ ControlledTo(p, action, count, st, al)
  BY <1>3
<1>5. row = [new EXCEPT !.version = new.version + 1]
  OBVIOUS
<1> HIDE DEF new, row
<1>6. IsRow(row, st, doc.version + 1, al, doc.dispatch, doc.outcome)
  <2>1. /\ new \in PlanRows /\ new.state = st /\ new.version = doc.version /\ new.allowance = al
        /\ new.dispatch = doc.dispatch /\ new.outcome = doc.outcome
    BY <1>4 DEF IsRow
  <2>2. new.version + 1 \in Nat /\ new.version + 1 = doc.version + 1
    BY <1>2, <2>1
  <2>3. IsRow(row, new.state, new.version + 1, new.allowance, new.dispatch, new.outcome)
    BY <1>5, <2>1, <2>2, VersionSet
  <2> QED BY <2>1, <2>2, <2>3
<1> QED BY <1>1, <1>4, <1>6, RowReplaced

(* A plan changes its state and its version.                               *)
LEMMA VersionRow ==
    ASSUME RecoveryTypes, NEW p \in Plans, NEW st \in PlanStates
    PROVE  IsRow([plan[p] EXCEPT !.state = st, !.version = @ + 1], st, plan[p].version + 1, plan[p].allowance,
                 plan[p].dispatch, plan[p].outcome)
<1> DEFINE row == [plan[p] EXCEPT !.state = st, !.version = @ + 1]
<1> DEFINE moved == [plan[p] EXCEPT !.state = st]
<1>1. IsRow(moved, st, plan[p].version, plan[p].allowance, plan[p].dispatch, plan[p].outcome)
  BY RowTyped, StateSet
<1>2. row = [moved EXCEPT !.version = plan[p].version + 1]
  BY RowTyped DEF PlanRows
<1> HIDE DEF row, moved
<1>3. IsRow(row, st, plan[p].version + 1, plan[p].allowance, plan[p].dispatch, plan[p].outcome)
  BY <1>1, <1>2, RowTyped, VersionSet DEF IsRow
<1> QED BY <1>3 DEF row

(* An item is blocked, or not, as its plan is paused.                      *)
LEMMA BlockRow ==
    ASSUME RecoveryTypes, NEW p \in Plans, NEW f \in Failures, NEW d \in Dispatch,
           plan' = [plan EXCEPT ![p].state = "paused", ![p].version = @ + 1, ![p].dispatch[f] = d]
    PROVE  RowStep(p, "paused", plan[p].version + 1, plan[p].allowance, [plan[p].dispatch EXCEPT ![f] = d], plan[p].outcome)
<1> DEFINE row == [plan[p] EXCEPT !.state = "paused", !.version = @ + 1, !.dispatch[f] = d]
<1> DEFINE moved == [plan[p] EXCEPT !.state = "paused", !.version = @ + 1]
<1> DEFINE di == [plan[p].dispatch EXCEPT ![f] = d]
<1>1. plan' = [plan EXCEPT ![p] = row]
  BY DEF RecoveryTypes
<1>2. IsRow(moved, "paused", plan[p].version + 1, plan[p].allowance, plan[p].dispatch, plan[p].outcome)
  BY VersionRow DEF PlanStates
<1>3. row = [moved EXCEPT !.dispatch[f] = d]
  OBVIOUS
<1>4. di \in [Failures -> Dispatch]
  BY RowTyped
<1> HIDE DEF row, moved
<1>5. row = [moved EXCEPT !.dispatch = di]
  BY <1>2, <1>3 DEF IsRow, PlanRows
<1> HIDE DEF di
<1>6. IsRow(row, "paused", plan[p].version + 1, plan[p].allowance, di, plan[p].outcome)
  BY <1>2, <1>4, <1>5, DispatchSet DEF IsRow
<1>7. RowStep(p, "paused", plan[p].version + 1, plan[p].allowance, di, plan[p].outcome)
  BY <1>1, <1>6, RowReplaced
<1> QED BY <1>7 DEF di

(* An item gets a new dispatch and a new outcome.                          *)
LEMMA ItemRow ==
    ASSUME RecoveryTypes, NEW p \in Plans, NEW f \in Failures, NEW d \in Dispatch, NEW o \in Outcome,
           plan' = [plan EXCEPT ![p].dispatch[f] = d, ![p].outcome[f] = o]
    PROVE  RowStep(p, plan[p].state, plan[p].version, plan[p].allowance, [plan[p].dispatch EXCEPT ![f] = d],
                   [plan[p].outcome EXCEPT ![f] = o])
<1> DEFINE row == [plan[p] EXCEPT !.dispatch[f] = d, !.outcome[f] = o]
<1> DEFINE moved == [plan[p] EXCEPT !.dispatch[f] = d]
<1> DEFINE di == [plan[p].dispatch EXCEPT ![f] = d]
<1> DEFINE ou == [plan[p].outcome EXCEPT ![f] = o]
<1>1. plan' = [plan EXCEPT ![p] = row]
  BY DEF RecoveryTypes
<1>2. di \in [Failures -> Dispatch] /\ ou \in [Failures -> Outcome] /\ plan[p] \in PlanRows
  BY RowTyped
<1>3. moved = [plan[p] EXCEPT !.dispatch = di] /\ row = [moved EXCEPT !.outcome[f] = o]
  OBVIOUS
<1> HIDE DEF row, moved, di
<1>4. IsRow(moved, plan[p].state, plan[p].version, plan[p].allowance, di, plan[p].outcome)
  BY <1>2, <1>3, DispatchSet
<1>5. row = [moved EXCEPT !.outcome = ou]
  BY <1>3, <1>4 DEF IsRow, PlanRows
<1> HIDE DEF ou
<1>6. IsRow(row, plan[p].state, plan[p].version, plan[p].allowance, di, ou)
  BY <1>2, <1>4, <1>5, OutcomeSet DEF IsRow
<1>7. RowStep(p, plan[p].state, plan[p].version, plan[p].allowance, di, ou)
  BY <1>1, <1>6, RowReplaced
<1> QED BY <1>7 DEF di, ou

(* A plan is settled.                                                      *)
LEMMA SettleRow ==
    ASSUME RecoveryTypes, NEW p \in Plans, NEW st \in PlanStates,
           plan' = [plan EXCEPT ![p].version = @ + 1, ![p].state = st]
    PROVE  RowStep(p, st, plan[p].version + 1, plan[p].allowance, plan[p].dispatch, plan[p].outcome)
<1> DEFINE row == [plan[p] EXCEPT !.version = @ + 1, !.state = st]
<1> DEFINE moved == [plan[p] EXCEPT !.version = plan[p].version + 1]
<1>1. plan' = [plan EXCEPT ![p] = row]
  BY DEF RecoveryTypes
<1>2. row = [moved EXCEPT !.state = st]
  OBVIOUS
<1>3. IsRow(moved, plan[p].state, plan[p].version + 1, plan[p].allowance, plan[p].dispatch, plan[p].outcome)
  <2>1. plan[p] \in PlanRows /\ plan[p].version + 1 \in Nat
    BY RowTyped
  <2> QED BY <2>1, VersionSet
<1> HIDE DEF row, moved
<1>4. IsRow(row, st, plan[p].version + 1, plan[p].allowance, plan[p].dispatch, plan[p].outcome)
  BY <1>2, <1>3, StateSet DEF IsRow
<1> QED BY <1>1, <1>4, RowReplaced

(* A row keeps what no step changes.                                       *)
LEMMA RowSame == ASSUME RecoveryTypes, plan' = plan PROVE plan' \in [Plans -> PlanRows]
BY DEF RecoveryTypes

-----------------------------------------------------------------------------
(* The replicas, field by field.                                           *)

IsLoop(rec, pc, at, it, re, ch) ==
    /\ rec \in LoopRecords /\ rec.pc = pc /\ rec.at = at /\ rec.item = it /\ rec.read = re /\ rec.change = ch

(* What a replica has read.                                                *)
LEMMA ReadingIntro ==
    ASSUME NEW S \in SUBSET Failures, NEW g \in [S -> Dispatch]
    PROVE  g \in Readings
BY DEF Readings

(* It is about failures.                                                   *)
LEMMA ReadingElim ==
    ASSUME NEW g \in Readings
    PROVE  DOMAIN g \subseteq Failures /\ g \in [DOMAIN g -> Dispatch]
BY DEF Readings

(* One item less to look at.                                               *)
LEMMA ReadingLess ==
    ASSUME NEW g \in Readings, NEW f
    PROVE  /\ Restrict(g, DOMAIN g \ {f}) \in Readings /\ DOMAIN Restrict(g, DOMAIN g \ {f}) = DOMAIN g \ {f}
           /\ \A e \in DOMAIN g \ {f} : Restrict(g, DOMAIN g \ {f})[e] = g[e]
<1>1. DOMAIN g \ {f} \in SUBSET Failures /\ g \in [DOMAIN g -> Dispatch]
  BY ReadingElim
<1>2. Restrict(g, DOMAIN g \ {f}) \in [DOMAIN g \ {f} -> Dispatch]
  BY <1>1 DEF Restrict
<1>3. Restrict(g, DOMAIN g \ {f}) \in Readings
  BY <1>1, <1>2, ReadingIntro
<1> QED BY <1>2, <1>3 DEF Restrict

(* A replica that waits for its next tick.                                 *)
LEMMA IdleLoop == IsLoop(Idle, "idle", None, None, <<>>, Idle.change) /\ Idle.change \in Change
<1>1. <<>> \in Readings
  <2>1. <<>> \in [{} -> Dispatch]
    OBVIOUS
  <2> QED BY <2>1, ReadingIntro
<1>2. Idle.change \in Change
  BY DEF Idle, Change
<1>3. Idle \in LoopRecords
  BY <1>1, <1>2 DEF Idle, LoopRecords, LoopSteps
<1> QED BY <1>2, <1>3 DEF Idle, IsLoop

(* A replica with one field changed.                                       *)
LEMMA PcSet ==
    ASSUME NEW rec \in LoopRecords, NEW pc \in LoopSteps
    PROVE  IsLoop([rec EXCEPT !.pc = pc], pc, rec.at, rec.item, rec.read, rec.change)
BY DEF LoopRecords, IsLoop

(* For a plan.                                                             *)
LEMMA AtSet ==
    ASSUME NEW rec \in LoopRecords, NEW at \in Plans
    PROVE  IsLoop([rec EXCEPT !.at = at], rec.pc, at, rec.item, rec.read, rec.change)
BY DEF LoopRecords, IsLoop

(* With the version it has read.                                           *)
LEMMA NumberSet ==
    ASSUME NEW rec \in LoopRecords, NEW ve \in Nat
    PROVE  IsLoop([rec EXCEPT !.version = ve], rec.pc, rec.at, rec.item, rec.read, rec.change)
BY DEF LoopRecords, IsLoop

(* For an item.                                                            *)
LEMMA ItemSet ==
    ASSUME NEW rec \in LoopRecords, NEW it \in Failures \cup {None}
    PROVE  IsLoop([rec EXCEPT !.item = it], rec.pc, rec.at, it, rec.read, rec.change)
BY DEF LoopRecords, IsLoop

(* With what it has read.                                                  *)
LEMMA ReadSet ==
    ASSUME NEW rec \in LoopRecords, NEW re \in Readings
    PROVE  IsLoop([rec EXCEPT !.read = re], rec.pc, rec.at, rec.item, re, rec.change)
BY DEF LoopRecords, IsLoop

(* With what it found.                                                     *)
LEMMA ChangeSet ==
    ASSUME NEW rec \in LoopRecords, NEW ch \in Change
    PROVE  IsLoop([rec EXCEPT !.change = ch], rec.pc, rec.at, rec.item, rec.read, ch)
BY DEF LoopRecords, IsLoop

(* With an error that may pass.                                            *)
LEMMA RetryableSet ==
    ASSUME NEW rec \in LoopRecords, NEW rt \in BOOLEAN
    PROVE  IsLoop([rec EXCEPT !.retryable = rt], rec.pc, rec.at, rec.item, rec.read, rec.change)
BY DEF LoopRecords, IsLoop

(* The plan is to be read again.                                           *)
LEMMA RereadLoop ==
    ASSUME NEW p \in Plans
    PROVE  IsLoop([Idle EXCEPT !.pc = "reread", !.at = p], "reread", p, None, <<>>, Idle.change)
<1> DEFINE a == [Idle EXCEPT !.pc = "reread"]
<1> DEFINE b == [a EXCEPT !.at = p]
<1>1. [Idle EXCEPT !.pc = "reread", !.at = p] = b
  OBVIOUS
<1>2. IsLoop(a, "reread", None, None, <<>>, Idle.change)
  BY IdleLoop, PcSet DEF IsLoop, LoopSteps
<1> HIDE DEF a
<1>3. IsLoop(b, "reread", p, None, <<>>, Idle.change)
  BY <1>2, AtSet DEF IsLoop
<1> QED BY <1>1, <1>3

(* An item is to be dispatched.                                            *)
LEMMA PreflightLoop ==
    ASSUME NEW p \in Plans, NEW f \in Failures, NEW ve \in Nat
    PROVE  IsLoop([Idle EXCEPT !.pc = "preflight", !.at = p, !.item = f, !.version = ve], "preflight", p, f, <<>>, Idle.change)
<1> DEFINE a == [Idle EXCEPT !.pc = "preflight"]
<1> DEFINE b == [a EXCEPT !.at = p]
<1> DEFINE c == [b EXCEPT !.item = f]
<1> DEFINE d == [c EXCEPT !.version = ve]
<1>1. [Idle EXCEPT !.pc = "preflight", !.at = p, !.item = f, !.version = ve] = d
  OBVIOUS
<1>2. IsLoop(a, "preflight", None, None, <<>>, Idle.change)
  BY IdleLoop, PcSet DEF IsLoop, LoopSteps
<1> HIDE DEF a
<1>3. IsLoop(b, "preflight", p, None, <<>>, Idle.change)
  BY <1>2, AtSet DEF IsLoop
<1> HIDE DEF b
<1>4. IsLoop(c, "preflight", p, f, <<>>, Idle.change)
  BY <1>3, ItemSet DEF IsLoop
<1> HIDE DEF c
<1>5. IsLoop(d, "preflight", p, f, <<>>, Idle.change)
  BY <1>4, NumberSet DEF IsLoop
<1> QED BY <1>1, <1>5

(* The item is not fit.                                                    *)
LEMMA BlockLoop ==
    ASSUME NEW me \in LoopRecords, NEW rt \in BOOLEAN
    PROVE  IsLoop([me EXCEPT !.pc = "block", !.retryable = rt], "block", me.at, me.item, me.read, me.change)
<1> DEFINE a == [me EXCEPT !.pc = "block"]
<1> DEFINE b == [a EXCEPT !.retryable = rt]
<1>1. [me EXCEPT !.pc = "block", !.retryable = rt] = b
  OBVIOUS
<1>2. IsLoop(a, "block", me.at, me.item, me.read, me.change)
  BY PcSet DEF LoopSteps
<1> HIDE DEF a
<1>3. IsLoop(b, "block", me.at, me.item, me.read, me.change)
  BY <1>2, RetryableSet DEF IsLoop
<1> QED BY <1>1, <1>3

(* The intent is committed.                                                *)
LEMMA SendLoop ==
    ASSUME NEW me \in LoopRecords
    PROVE  IsLoop([me EXCEPT !.pc = "send", !.version = 0], "send", me.at, me.item, me.read, me.change)
<1> DEFINE a == [me EXCEPT !.pc = "send"]
<1> DEFINE b == [a EXCEPT !.version = 0]
<1>1. [me EXCEPT !.pc = "send", !.version = 0] = b
  OBVIOUS
<1>2. IsLoop(a, "send", me.at, me.item, me.read, me.change)
  BY PcSet DEF LoopSteps
<1> HIDE DEF a
<1>3. IsLoop(b, "send", me.at, me.item, me.read, me.change)
  BY <1>2, NumberSet DEF IsLoop
<1> QED BY <1>1, <1>3

(* The answer is there.                                                    *)
LEMMA RecordLoop ==
    ASSUME NEW me \in LoopRecords, NEW ch \in Change
    PROVE  IsLoop([me EXCEPT !.pc = "record", !.change = ch], "record", me.at, me.item, me.read, ch)
<1> DEFINE a == [me EXCEPT !.pc = "record"]
<1> DEFINE b == [a EXCEPT !.change = ch]
<1>1. [me EXCEPT !.pc = "record", !.change = ch] = b
  OBVIOUS
<1>2. IsLoop(a, "record", me.at, me.item, me.read, me.change)
  BY PcSet DEF LoopSteps
<1> HIDE DEF a
<1>3. IsLoop(b, "record", me.at, me.item, me.read, ch)
  BY <1>2, ChangeSet DEF IsLoop
<1> QED BY <1>1, <1>3

(* The open items are read.                                                *)
LEMMA ObserveLoop ==
    ASSUME NEW me \in LoopRecords, NEW re \in Readings
    PROVE  IsLoop([me EXCEPT !.pc = "observe", !.read = re], "observe", me.at, me.item, re, me.change)
<1> DEFINE a == [me EXCEPT !.pc = "observe"]
<1> DEFINE b == [a EXCEPT !.read = re]
<1>1. [me EXCEPT !.pc = "observe", !.read = re] = b
  OBVIOUS
<1>2. IsLoop(a, "observe", me.at, me.item, me.read, me.change)
  BY PcSet DEF LoopSteps
<1> HIDE DEF a
<1>3. IsLoop(b, "observe", me.at, me.item, re, me.change)
  BY <1>2, ReadSet DEF IsLoop
<1> QED BY <1>1, <1>3

(* An open item was looked at.                                             *)
LEMMA NoteLoop ==
    ASSUME NEW me \in LoopRecords, NEW f \in Failures, NEW ch \in Change
    PROVE  IsLoop([me EXCEPT !.pc = "note", !.item = f, !.change = ch], "note", me.at, f, me.read, ch)
<1> DEFINE a == [me EXCEPT !.pc = "note"]
<1> DEFINE b == [a EXCEPT !.item = f]
<1> DEFINE c == [b EXCEPT !.change = ch]
<1>1. [me EXCEPT !.pc = "note", !.item = f, !.change = ch] = c
  OBVIOUS
<1>2. IsLoop(a, "note", me.at, me.item, me.read, me.change)
  BY PcSet DEF LoopSteps
<1> HIDE DEF a
<1>3. IsLoop(b, "note", me.at, f, me.read, me.change)
  BY <1>2, ItemSet DEF IsLoop
<1> HIDE DEF b
<1>4. IsLoop(c, "note", me.at, f, me.read, ch)
  BY <1>3, ChangeSet DEF IsLoop
<1> QED BY <1>1, <1>4

(* What was seen is written, and the next item is looked at.               *)
LEMMA NotedLoop ==
    ASSUME NEW me \in LoopRecords, NEW re \in Readings
    PROVE  IsLoop([me EXCEPT !.pc = "observe", !.item = None, !.change = Idle.change, !.read = re],
                  "observe", me.at, None, re, Idle.change)
<1> DEFINE a == [me EXCEPT !.pc = "observe"]
<1> DEFINE b == [a EXCEPT !.item = None]
<1> DEFINE c == [b EXCEPT !.change = Idle.change]
<1> DEFINE d == [c EXCEPT !.read = re]
<1>1. [me EXCEPT !.pc = "observe", !.item = None, !.change = Idle.change, !.read = re] = d
  OBVIOUS
<1>2. IsLoop(a, "observe", me.at, me.item, me.read, me.change)
  BY PcSet DEF LoopSteps
<1> HIDE DEF a
<1>3. IsLoop(b, "observe", me.at, None, me.read, me.change)
  BY <1>2, ItemSet DEF IsLoop
<1> HIDE DEF b
<1>4. IsLoop(c, "observe", me.at, None, me.read, Idle.change)
  BY <1>3, IdleLoop, ChangeSet DEF IsLoop
<1> HIDE DEF c
<1>5. IsLoop(d, "observe", me.at, None, re, Idle.change)
  BY <1>4, ReadSet DEF IsLoop
<1> QED BY <1>1, <1>5

-----------------------------------------------------------------------------
(* What no step takes back.                                                *)

RowsStable ==
    \A p \in Plans :
        /\ Saved(p) => plan'[p].state \notin {"none", "previewed"}
        /\ \A f \in Failures :
              /\ plan[p].dispatch[f] \in SentStates => plan'[p].dispatch[f] \in SentStates
              /\ plan[p].dispatch[f] = "accepted" => plan'[p].dispatch[f] = "accepted"
              /\ plan[p].outcome[f] \in Terminal => plan'[p].outcome[f] = plan[p].outcome[f]

ArrivalsStable ==
    \A f \in Failures :
        Arrived(f) => /\ posts'[f] = 1 /\ f \notin wire' /\ service'[f] # "dead"
                      /\ event[f] # "old" => event'[f] = event[f]

(* What is known of a failure stays true.                                  *)
LEMMA BackedKept ==
    ASSUME ArrivalsStable, NEW f \in Failures, NEW o, Backed(f, o)
    PROVE  Backed(f, o)'
BY DEF ArrivalsStable, Backed, Arrived

(* So does what a replica holds that takes no step.                        *)
LEMMA LoopKept ==
    ASSUME SendInv, RowsStable, ArrivalsStable, NEW me \in LoopRecords, LoopFits(me),
           me.pc = "send" => posts'[me.item] = posts[me.item]
    PROVE  LoopFits(me)'
<1>1. me.pc # "idle" => me.at \in Plans /\ Saved(me.at) /\ Items(me.at) \subseteq Failures
  BY ItemsOfPlan DEF LoopFits
<1>2. me.pc # "idle" => me.at \in Plans /\ Saved(me.at)'
  BY <1>1 DEF RowsStable, Saved
<1>3. me.pc \in {"preflight", "block", "claim", "send", "answer", "record", "note"} => me.item \in Items(me.at)
  BY DEF LoopFits
<1>4. me.pc \in {"send", "answer", "record", "note"} => plan'[me.at].dispatch[me.item] \in SentStates
  BY <1>1, <1>3 DEF LoopFits, RowsStable
<1>5. me.pc = "send" => posts'[me.item] = 0
  BY DEF LoopFits
<1>6. ASSUME me.pc \in {"observe", "note"}, NEW f \in DOMAIN me.read
      PROVE  /\ f \in Items(me.at) /\ plan'[me.at].dispatch[f] \in SentStates
             /\ me.read[f] = "accepted" => Arrived(f)'
  <2>1. f \in Items(me.at) /\ plan[me.at].dispatch[f] \in SentStates /\ (me.read[f] = "accepted" => Arrived(f))
    BY <1>6 DEF LoopFits
  <2>2. f \in Failures /\ me.at \in Plans
    BY <1>1, <1>6, <2>1
  <2>3. plan'[me.at].dispatch[f] \in SentStates
    BY <2>1, <2>2 DEF RowsStable
  <2>4. Arrived(f) => Arrived(f)'
    BY <2>2 DEF ArrivalsStable, Arrived
  <2> QED BY <2>1, <2>3, <2>4
<1>7. ASSUME me.pc \in {"record", "note"}
      PROVE  /\ me.change.dispatch \in {Keep, "unknown", "accepted"}
             /\ me.change.dispatch = "accepted" => Arrived(me.item)'
             /\ Backed(me.item, me.change.outcome)'
  <2>1. /\ me.change.dispatch \in {Keep, "unknown", "accepted"} /\ (me.change.dispatch = "accepted" => Arrived(me.item))
        /\ Backed(me.item, me.change.outcome)
    BY <1>7 DEF LoopFits
  <2>2. me.item \in Failures
    BY <1>1, <1>3, <1>7
  <2>3. Arrived(me.item) => Arrived(me.item)'
    BY <2>2 DEF ArrivalsStable, Arrived
  <2>4. Backed(me.item, me.change.outcome)'
    BY <2>1, <2>2, BackedKept
  <2> QED BY <2>1, <2>3, <2>4
<1> QED BY <1>2, <1>3, <1>4, <1>5, <1>6, <1>7 DEF LoopFits

(* And what a row says that does not change.                               *)
LEMMA RowKept ==
    ASSUME SendInv, ArrivalsStable, NEW p \in Plans, plan'[p] = plan[p]
    PROVE  RowFits(p)'
<1> SUFFICES ASSUME NEW f \in Failures
             PROVE  /\ plan'[p].dispatch[f] \in {"pending", "blocked"} => plan'[p].outcome[f] = "not_requested"
                    /\ plan'[p].dispatch[f] = "accepted" => Arrived(f)'
                    /\ Backed(f, plan[p].outcome[f])'
                    /\ ~Saved(p)' \/ f \notin Items(p) => plan'[p].dispatch[f] = "pending"
  BY DEF RowFits
<1>1. /\ plan[p].dispatch[f] \in {"pending", "blocked"} => plan[p].outcome[f] = "not_requested"
      /\ plan[p].dispatch[f] = "accepted" => Arrived(f)
      /\ Backed(f, plan[p].outcome[f])
      /\ ~Saved(p) \/ f \notin Items(p) => plan[p].dispatch[f] = "pending"
  BY DEF SendInv, RowFits
<1>2. Arrived(f) => Arrived(f)'
  BY DEF ArrivalsStable, Arrived
<1>3. Backed(f, plan[p].outcome[f])'
  <2>1. Backed(f, plan[p].outcome[f])
    BY <1>1
  <2> QED BY <2>1 DEF Backed, ArrivalsStable, Arrived
<1> QED BY <1>1, <1>2, <1>3 DEF Saved, Backed

(* A step that takes nothing back keeps the invariant when it leaves the   *)
(* rows, the calls and the replica that took it in order.                  *)
LEMMA Combined ==
    ASSUME SendInv, RecoveryTypes', RowsStable, ArrivalsStable, ClaimsApart', OneSender',
           \A p \in Plans : RowFits(p)', \A f \in Failures : PostFits(f)',
           \A q \in Replicas : \/ LoopFits(replica[q])'
                               \/ /\ replica'[q] = replica[q]
                                  /\ replica[q].pc = "send" => posts'[replica[q].item] = posts[replica[q].item]
    PROVE  SendInv'
<1>1. ASSUME NEW q \in Replicas, replica'[q] = replica[q],
             replica[q].pc = "send" => posts'[replica[q].item] = posts[replica[q].item]
      PROVE  LoopFits(replica[q])'
  <2>1. PICK me : me = replica[q]
    OBVIOUS
  <2>2. me \in LoopRecords /\ LoopFits(me)
    BY <2>1 DEF SendInv, RecoveryTypes
  <2>3. LoopFits(me)'
    BY <1>1, <2>1, <2>2, LoopKept
  <2> QED BY <1>1, <2>1, <2>3 DEF LoopFits, Saved, Backed, Arrived
<1> QED BY <1>1 DEF SendInv

(* A step that leaves the calls alone.                                     *)
LEMMA CallsSame ==
    ASSUME SendInv, RowsStable, UNCHANGED <<wire, posts, service, event>>
    PROVE  /\ ArrivalsStable
           /\ wire' \subseteq Failures /\ posts' \in [Failures -> Nat]
           /\ service' \in [Failures -> {"dead", "sent", "gone"}]
           /\ event' \in [Failures -> {"old", "completed", "failed"}]
           /\ \A f \in Failures : PostFits(f)'
<1>1. ArrivalsStable
  BY DEF ArrivalsStable, Arrived
<1>2. ASSUME NEW f \in Failures PROVE PostFits(f)'
  <2>1. PostFits(f)
    BY DEF SendInv
  <2>2. posts'[f] > 0 => \E p \in Plans : f \in Items(p) /\ plan'[p].dispatch[f] \in SentStates
    BY <2>1 DEF PostFits, RowsStable
  <2> QED BY <2>1, <2>2 DEF PostFits, Arrived
<1> QED BY <1>1, <1>2 DEF SendInv, RecoveryTypes

(* A step of a replica that changes only what the replica holds.           *)
LEMMA LoopOnly ==
    ASSUME SendInv, NEW r \in Replicas, NEW rec \in LoopRecords, LoopFits(rec), rec.pc # "send",
           replica' = [replica EXCEPT ![r] = rec], UNCHANGED <<plan, wire, posts, service, event>>
    PROVE  SendInv' /\ RowsStable
<1>1. RowsStable
  BY DEF RowsStable, Saved
<1>2. /\ ArrivalsStable /\ \A f \in Failures : PostFits(f)'
  BY <1>1, CallsSame
<1>3. /\ replica' \in [Replicas -> LoopRecords] /\ replica'[r] = rec /\ \A q \in Replicas \ {r} : replica'[q] = replica[q]
      /\ replica \in [Replicas -> LoopRecords] /\ plan \in [Plans -> PlanRows]
  BY DEF SendInv, RecoveryTypes
<1>4. RecoveryTypes'
  BY <1>1, <1>3, CallsSame DEF RecoveryTypes
<1>5. ClaimsApart'
  BY DEF SendInv, ClaimsApart, Saved
<1>6. OneSender'
  BY <1>3 DEF SendInv, OneSender
<1>7. \A p \in Plans : RowFits(p)'
  BY <1>2, RowKept
<1>8. LoopFits(replica[r])'
  BY <1>3 DEF LoopFits, Saved, Backed, Arrived
<1>9. \A q \in Replicas : \/ LoopFits(replica[q])'
                          \/ /\ replica'[q] = replica[q]
                             /\ replica[q].pc = "send" => posts'[replica[q].item] = posts[replica[q].item]
  BY <1>3, <1>8
<1> QED BY <1>1, <1>2, <1>4, <1>5, <1>6, <1>7, <1>9, Combined

(* A step of a replica that writes a plan.                                 *)
LEMMA PlanAndLoop ==
    ASSUME SendInv, NEW r \in Replicas, NEW rec \in LoopRecords, LoopFits(rec)', rec.pc # "send",
           replica' = [replica EXCEPT ![r] = rec], UNCHANGED <<wire, posts, service, event>>,
           plan' \in [Plans -> PlanRows], RowsStable, ClaimsApart', \A p \in Plans : RowFits(p)'
    PROVE  SendInv'
<1>2. /\ ArrivalsStable /\ \A f \in Failures : PostFits(f)'
  BY CallsSame
<1>3. /\ replica' \in [Replicas -> LoopRecords] /\ replica'[r] = rec /\ \A q \in Replicas \ {r} : replica'[q] = replica[q]
      /\ replica \in [Replicas -> LoopRecords]
  BY DEF SendInv, RecoveryTypes
<1>4. RecoveryTypes'
  BY <1>3, CallsSame DEF RecoveryTypes
<1>6. OneSender'
  BY <1>3 DEF SendInv, OneSender
<1>8. LoopFits(replica[r])'
  BY <1>3 DEF LoopFits, Saved, Backed, Arrived
<1>9. \A q \in Replicas : \/ LoopFits(replica[q])'
                          \/ /\ replica'[q] = replica[q]
                             /\ replica[q].pc = "send" => posts'[replica[q].item] = posts[replica[q].item]
  BY <1>3, <1>8
<1> QED BY <1>2, <1>4, <1>6, <1>9, Combined

(* A step of an operator that writes a plan.                               *)
LEMMA PlanOnly ==
    ASSUME SendInv, UNCHANGED <<replica, wire, posts, service, event>>,
           plan' \in [Plans -> PlanRows], RowsStable, ClaimsApart', \A p \in Plans : RowFits(p)'
    PROVE  SendInv'
<1>2. /\ ArrivalsStable /\ \A f \in Failures : PostFits(f)'
  BY CallsSame
<1>3. RecoveryTypes'
  BY CallsSame DEF RecoveryTypes, SendInv
<1>4. OneSender'
  BY DEF SendInv, OneSender
<1>5. \A q \in Replicas : \/ LoopFits(replica[q])'
                          \/ /\ replica'[q] = replica[q]
                             /\ replica[q].pc = "send" => posts'[replica[q].item] = posts[replica[q].item]
  OBVIOUS
<1> QED BY <1>2, <1>3, <1>4, <1>5, Combined

(* A step of a service, or of the calls to it.                             *)
LEMMA CallOnly ==
    ASSUME SendInv, UNCHANGED <<plan, replica>>, ArrivalsStable, posts' = posts,
           wire' \subseteq Failures,
           service' \in [Failures -> {"dead", "sent", "gone"}],
           event' \in [Failures -> {"old", "completed", "failed"}],
           \A f \in Failures : PostFits(f)'
    PROVE  SendInv' /\ RowsStable
<1>1. RowsStable
  BY DEF RowsStable, Saved
<1>2. RecoveryTypes'
  BY DEF RecoveryTypes, SendInv
<1>3. OneSender' /\ ClaimsApart'
  BY DEF SendInv, OneSender, ClaimsApart, Saved
<1>4. \A p \in Plans : RowFits(p)'
  BY RowKept
<1>5. \A q \in Replicas : \/ LoopFits(replica[q])'
                          \/ /\ replica'[q] = replica[q]
                             /\ replica[q].pc = "send" => posts'[replica[q].item] = posts[replica[q].item]
  OBVIOUS
<1> QED BY <1>1, <1>2, <1>3, <1>4, <1>5, Combined

(* What a row may become: nothing is taken back, and it is still true.     *)
RowAdvances(p, st, di, ou) ==
    /\ Saved(p) => st \notin {"none", "previewed"}
    /\ \/ Saved(p) \/ st \in {"none", "previewed"}
       \/ \A q \in Plans : Saved(q) => Items(p) \cap Items(q) = {}
    /\ \A f \in Failures :
          /\ plan[p].dispatch[f] \in SentStates => di[f] \in SentStates
          /\ plan[p].dispatch[f] = "accepted" => di[f] = "accepted"
          /\ plan[p].outcome[f] \in Terminal => ou[f] = plan[p].outcome[f]
          /\ di[f] \in {"pending", "blocked"} => ou[f] = "not_requested"
          /\ di[f] = "accepted" => Arrived(f)
          /\ Backed(f, ou[f])
          /\ st \in {"none", "previewed"} \/ f \notin Items(p) => di[f] = "pending"

(* Such a row is written.                                                  *)
LEMMA RowWritten ==
    ASSUME SendInv, NEW p \in Plans, NEW st, NEW ve, NEW al, NEW di, NEW ou, RowStep(p, st, ve, al, di, ou),
           RowAdvances(p, st, di, ou), UNCHANGED <<wire, posts, service, event>>
    PROVE  plan' \in [Plans -> PlanRows] /\ RowsStable /\ ClaimsApart' /\ \A q \in Plans : RowFits(q)'
<1>1. /\ plan' \in [Plans -> PlanRows] /\ \A q \in Plans \ {p} : plan'[q] = plan[q]
      /\ plan'[p].state = st /\ plan'[p].dispatch = di /\ plan'[p].outcome = ou
  BY DEF RowStep
<1>2. RowsStable
  BY <1>1 DEF RowsStable, RowAdvances, Saved
<1>3. ClaimsApart'
  <2>1. \A q \in Plans : q # p /\ Saved(q)' => Saved(q)
    BY <1>1 DEF Saved
  <2>2. Saved(p)' => Saved(p) \/ \A q \in Plans : Saved(q) => Items(p) \cap Items(q) = {}
    BY <1>1 DEF Saved, RowAdvances
  <2>3. ClaimsApart
    BY DEF SendInv
  <2> QED BY <2>1, <2>2, <2>3 DEF ClaimsApart
<1>4. RowFits(p)'
  <2> SUFFICES ASSUME NEW f \in Failures
               PROVE  /\ plan'[p].dispatch[f] \in {"pending", "blocked"} => plan'[p].outcome[f] = "not_requested"
                      /\ plan'[p].dispatch[f] = "accepted" => Arrived(f)'
                      /\ Backed(f, plan[p].outcome[f])'
                      /\ ~Saved(p)' \/ f \notin Items(p) => plan'[p].dispatch[f] = "pending"
    BY DEF RowFits
  <2>1. /\ di[f] \in {"pending", "blocked"} => ou[f] = "not_requested"
        /\ di[f] = "accepted" => Arrived(f)
        /\ Backed(f, ou[f])
        /\ st \in {"none", "previewed"} \/ f \notin Items(p) => di[f] = "pending"
    BY DEF RowAdvances
  <2>2. Arrived(f)' = Arrived(f)
    BY DEF Arrived
  <2>3. Backed(f, plan[p].outcome[f])'
    BY <1>1, <2>1 DEF Backed, Arrived
  <2> QED BY <1>1, <2>1, <2>2, <2>3 DEF Saved
<1>5. ASSUME NEW q \in Plans, q # p PROVE RowFits(q)'
  <2>1. ArrivalsStable
    BY <1>2, CallsSame
  <2> QED BY <1>1, <1>5, <2>1, RowKept
<1> QED BY <1>1, <1>2, <1>3, <1>4, <1>5

(* The row as it is.                                                       *)
LEMMA RowAsIs ==
    ASSUME SendInv, NEW p \in Plans, NEW st, Saved(p) => st \notin {"none", "previewed"},
           \/ Saved(p) \/ st \in {"none", "previewed"}
           \/ \A q \in Plans : Saved(q) => Items(p) \cap Items(q) = {}
    PROVE  RowAdvances(p, st, plan[p].dispatch, plan[p].outcome)
<1>1. RowFits(p)
  BY DEF SendInv
<1> QED BY <1>1 DEF RowFits, RowAdvances, Saved

(* One item changes.                                                       *)
LEMMA RowWithItem ==
    ASSUME SendInv, NEW p \in Plans, NEW st, st \notin {"none", "previewed"}, Saved(p), NEW f \in Items(p), NEW d, NEW o,
           plan[p].dispatch[f] \in SentStates => d \in SentStates,
           plan[p].dispatch[f] = "accepted" => d = "accepted",
           plan[p].outcome[f] \in Terminal => o = plan[p].outcome[f],
           d \in {"pending", "blocked"} => o = "not_requested",
           d = "accepted" => Arrived(f), Backed(f, o)
    PROVE  RowAdvances(p, st, [plan[p].dispatch EXCEPT ![f] = d], [plan[p].outcome EXCEPT ![f] = o])
<1>1. RowFits(p) /\ f \in Failures
  BY ItemsOfPlan DEF SendInv
<1>2. plan[p].dispatch \in [Failures -> Dispatch] /\ plan[p].outcome \in [Failures -> Outcome]
  BY RowTyped DEF SendInv
<1> DEFINE di == [plan[p].dispatch EXCEPT ![f] = d]
<1> DEFINE ou == [plan[p].outcome EXCEPT ![f] = o]
<1>3. /\ di[f] = d /\ ou[f] = o
      /\ \A e \in Failures \ {f} : di[e] = plan[p].dispatch[e] /\ ou[e] = plan[p].outcome[e]
  BY <1>1, <1>2
<1> HIDE DEF di, ou
<1>4. RowAdvances(p, st, di, ou)
  BY <1>1, <1>3 DEF RowFits, RowAdvances
<1> QED BY <1>4 DEF di, ou

(* preview.                                                                *)
LEMMA SendPreview ==
    ASSUME SendInv, NEW p \in Plans, Preview(p) PROVE SendInv' /\ RowsStable
<1>1. RowStep(p, "previewed", plan[p].version, plan[p].allowance, plan[p].dispatch, plan[p].outcome)
  BY PreviewRow DEF Preview, SendInv, PlanStates
<1>2. RowAdvances(p, "previewed", plan[p].dispatch, plan[p].outcome)
  BY RowAsIs DEF Preview, Saved
<1>3. UNCHANGED <<replica, wire, posts, service, event>>
  BY DEF Preview
<1> QED BY <1>1, <1>2, <1>3, RowWritten, PlanOnly

(* create: the claims keep the plans apart.                                *)
LEMMA SendCreate ==
    ASSUME SendInv, NEW p \in Plans, Create(p) PROVE SendInv' /\ RowsStable
<1>1. RowStep(p, "ready", plan[p].version, plan[p].allowance, plan[p].dispatch, plan[p].outcome)
  BY PreviewRow DEF Create, SendInv, PlanStates
<1>2. RowAdvances(p, "ready", plan[p].dispatch, plan[p].outcome)
  BY RowAsIs DEF Create
<1>3. UNCHANGED <<replica, wire, posts, service, event>>
  BY DEF Create
<1> QED BY <1>1, <1>2, <1>3, RowWritten, PlanOnly

(* Items are counted.                                                      *)
LEMMA UsedCounts ==
    ASSUME NEW p \in Plans, NEW doc
    PROVE  Used(p, doc) \in Nat /\ IsFiniteSet(Items(p))
<1>1. IsFiniteSet(Items(p))
  <2> DEFINE n == Len(Cohort[p])
  <2>1. n \in Nat /\ Items(p) = {Cohort[p][i] : i \in 1..n}
    BY RecoveryAssumption DEF Items, ToSet
  <2>2. IsFiniteSet(1..n)
    BY <2>1, FS_Interval
  <2>3. Cohort[p] \in Surjection(1..n, Items(p))
    BY <2>1, RecoveryAssumption DEF Surjection
  <2> QED BY <2>2, <2>3, FS_Surjection
<1>2. IsFiniteSet({f \in Items(p) : doc.dispatch[f] # "pending"})
  BY <1>1, FS_Subset
<1> QED BY <1>1, <1>2, FS_CardinalityType DEF Used

(* A control.                                                              *)
LEMMA SendControl ==
    ASSUME SendInv, NEW p \in Plans, NEW action \in {"stop", "pause", "resume", "batch"}, NEW count \in Nat, NEW version,
           Control(p, action, count, version)
    PROVE  SendInv' /\ RowsStable
<1>1. PICK st, al : /\ RowStep(p, st, plan[p].version + 1, al, plan[p].dispatch, plan[p].outcome)
                    /\ ControlledTo(p, action, count, st, al)
  BY UsedCounts, ControlRow DEF SendInv
<1>2. RowAdvances(p, st, plan[p].dispatch, plan[p].outcome)
  BY <1>1, RowAsIs DEF ControlledTo, Control
<1>3. UNCHANGED <<replica, wire, posts, service, event>>
  BY DEF Control
<1> QED BY <1>1, <1>2, <1>3, RowWritten, PlanOnly

(* A replica as the invariant has it.                                      *)
LEMMA LoopTyped ==
    ASSUME SendInv, NEW r \in Replicas
    PROVE  /\ replica[r] \in LoopRecords /\ LoopFits(replica[r]) /\ replica[r].read \in Readings
           /\ replica[r].item \in Failures \cup {None} /\ replica[r].change \in Change
           /\ replica[r].pc # "idle" =>
                 /\ replica[r].at \in Plans /\ Saved(replica[r].at) /\ Items(replica[r].at) \subseteq Failures
<1>1. replica[r] \in LoopRecords /\ LoopFits(replica[r])
  BY DEF SendInv, RecoveryTypes
<1>2. replica[r].read \in Readings /\ replica[r].item \in Failures \cup {None} /\ replica[r].change \in Change
  BY <1>1 DEF LoopRecords
<1>3. replica[r].pc # "idle" => replica[r].at \in Plans /\ Saved(replica[r].at)
  BY <1>1 DEF LoopFits
<1> QED BY <1>1, <1>2, <1>3, ItemsOfPlan

(* A replica that is about to read its plan again.                         *)
LEMMA RereadFits ==
    ASSUME NEW p \in Plans, Saved(p)
    PROVE  /\ [Idle EXCEPT !.pc = "reread", !.at = p] \in LoopRecords
           /\ [Idle EXCEPT !.pc = "reread", !.at = p].pc = "reread"
           /\ LoopFits([Idle EXCEPT !.pc = "reread", !.at = p])
BY RereadLoop DEF IsLoop, LoopFits

(* due.                                                                    *)
LEMMA SendDue ==
    ASSUME SendInv, NEW r \in Replicas, NEW p \in Plans, Due(r, p)
    PROVE  SendInv' /\ RowsStable
<1>1. Saved(p) /\ UNCHANGED <<plan, wire, posts, service, event>>
  BY DEF Due
<1>2. CASE NothingDue(p)
  <2>1. replica' = [replica EXCEPT ![r] = [Idle EXCEPT !.pc = "reread", !.at = p]]
    BY <1>2 DEF Due, Set
  <2> QED BY <1>1, <2>1, RereadFits, LoopOnly
<1>3. CASE ~NothingDue(p)
  <2>1. PICK f \in Items(p) :
           replica' = [replica EXCEPT ![r] = [Idle EXCEPT !.pc = "preflight", !.at = p, !.item = f, !.version = plan[p].version]]
    BY <1>3 DEF Due, Set
  <2> DEFINE rec == [Idle EXCEPT !.pc = "preflight", !.at = p, !.item = f, !.version = plan[p].version]
  <2>2. IsLoop(rec, "preflight", p, f, <<>>, Idle.change)
    BY RowTyped, ItemsOfPlan, PreflightLoop DEF SendInv
  <2>3. replica' = [replica EXCEPT ![r] = rec]
    BY <2>1
  <2> HIDE DEF rec
  <2>4. rec \in LoopRecords /\ rec.pc # "send" /\ LoopFits(rec)
    BY <1>1, <2>2 DEF IsLoop, LoopFits
  <2> QED BY <1>1, <2>3, <2>4, LoopOnly
<1> QED BY <1>2, <1>3

(* The failure is inspected.                                               *)
LEMMA SendPreflight ==
    ASSUME SendInv, NEW r \in Replicas, Preflight(r)
    PROVE  SendInv' /\ RowsStable
<1> DEFINE me == replica[r]
<1>1. me.pc = "preflight" /\ UNCHANGED <<plan, wire, posts, service, event>>
  BY DEF Preflight
<1>2. me \in LoopRecords /\ LoopFits(me)
  BY LoopTyped
<1>3. PICK rec : /\ replica' = [replica EXCEPT ![r] = rec]
                 /\ \/ rec = [me EXCEPT !.pc = "claim"]
                    \/ rec = [me EXCEPT !.pc = "block"]
                    \/ \E again \in BOOLEAN : rec = [me EXCEPT !.pc = "block", !.retryable = again]
  BY DEF Preflight, Set
<1> HIDE DEF me
<1>4. \/ IsLoop(rec, "claim", me.at, me.item, me.read, me.change)
      \/ IsLoop(rec, "block", me.at, me.item, me.read, me.change)
  BY <1>2, <1>3, PcSet, BlockLoop DEF LoopSteps
<1>5. rec \in LoopRecords /\ rec.pc # "send" /\ LoopFits(rec)
  BY <1>1, <1>2, <1>4 DEF IsLoop, LoopFits
<1> QED BY <1>1, <1>3, <1>5, LoopOnly

(* A replica gives up.                                                     *)
LEMMA SendAbort ==
    ASSUME SendInv, NEW r \in Replicas, Abort(r)
    PROVE  SendInv' /\ RowsStable
<1>1. replica' = [replica EXCEPT ![r] = Idle] /\ UNCHANGED <<plan, wire, posts, service, event>>
  BY DEF Abort, Set
<1>2. Idle \in LoopRecords /\ Idle.pc # "send" /\ LoopFits(Idle)
  BY IdleLoop DEF IsLoop, LoopFits
<1> QED BY <1>1, <1>2, LoopOnly

(* The answer to a retry: a receipt is only there when the retry arrived.  *)
LEMMA SendAnswer ==
    ASSUME SendInv, NEW r \in Replicas, Answer(r)
    PROVE  SendInv' /\ RowsStable
<1> DEFINE me == replica[r]
<1>1. me.pc = "answer" /\ UNCHANGED <<plan, wire, posts, service, event>>
  BY DEF Answer
<1>2. me \in LoopRecords /\ LoopFits(me) /\ me.item \in Failures
  BY <1>1, LoopTyped DEF LoopFits
<1>3. PICK ch : /\ replica' = [replica EXCEPT ![r] = [me EXCEPT !.pc = "record", !.change = ch]]
                /\ \/ ch = [dispatch |-> "accepted", outcome |-> "pending"] /\ service[me.item] = "sent"
                   \/ ch = [dispatch |-> "unknown", outcome |-> "unknown"]
  BY DEF Answer, Set
<1>4. service[me.item] = "sent" => Arrived(me.item)
  BY <1>2 DEF SendInv, PostFits
<1>5. /\ ch \in Change /\ ch.dispatch \in {"unknown", "accepted"} /\ (ch.dispatch = "accepted" => Arrived(me.item))
      /\ ch.outcome \notin Terminal
  BY <1>3, <1>4 DEF Change, Dispatch, Outcome, Terminal
<1> DEFINE rec == [me EXCEPT !.pc = "record", !.change = ch]
<1>6. IsLoop(rec, "record", me.at, me.item, me.read, ch)
  BY <1>2, <1>5, RecordLoop
<1>7. replica' = [replica EXCEPT ![r] = rec]
  BY <1>3
<1> HIDE DEF me, rec
<1>8. rec \in LoopRecords /\ rec.pc # "send" /\ LoopFits(rec)
  BY <1>1, <1>2, <1>5, <1>6 DEF IsLoop, LoopFits, Backed, Terminal
<1> QED BY <1>1, <1>7, <1>8, LoopOnly

(* The plan is read again.                                                 *)
LEMMA SendReread ==
    ASSUME SendInv, NEW r \in Replicas, Reread(r)
    PROVE  SendInv' /\ RowsStable
<1> DEFINE me == replica[r]
<1> DEFINE doc == plan[me.at]
<1> DEFINE S == {i \in Items(me.at) : Open(doc, i)}
<1> DEFINE re == [f \in S |-> doc.dispatch[f]]
<1> DEFINE rec == [me EXCEPT !.pc = "observe", !.read = re]
<1>1. me.pc = "reread" /\ UNCHANGED <<plan, wire, posts, service, event>> /\ replica' = [replica EXCEPT ![r] = rec]
  BY DEF Reread, Set
<1>2. me \in LoopRecords /\ LoopFits(me) /\ me.at \in Plans /\ Saved(me.at) /\ Items(me.at) \subseteq Failures
  BY <1>1, LoopTyped
<1>3. doc.dispatch \in [Failures -> Dispatch] /\ RowFits(me.at)
  BY <1>2, RowTyped DEF SendInv
<1>4. S \in SUBSET Failures /\ re \in [S -> Dispatch]
  BY <1>2, <1>3
<1>5. re \in Readings /\ DOMAIN re = S
  BY <1>4, ReadingIntro
<1>6. \A f \in DOMAIN re : /\ f \in Items(me.at) /\ plan[me.at].dispatch[f] \in SentStates
                           /\ re[f] = "accepted" => Arrived(f)
  BY <1>2, <1>3, <1>5 DEF Open, RowFits, SentStates
<1> HIDE DEF re
<1>7. IsLoop(rec, "observe", me.at, me.item, re, me.change)
  BY <1>2, <1>5, ObserveLoop
<1> HIDE DEF me, rec
<1>8. rec \in LoopRecords /\ rec.pc # "send" /\ LoopFits(rec)
  BY <1>2, <1>6, <1>7 DEF IsLoop, LoopFits
<1> QED BY <1>1, <1>8, LoopOnly

(* What an observation may say of a failure.                               *)
Honest(f, ch) ==
    /\ ch \in Change /\ ch.dispatch \in {Keep, "unknown", "accepted"}
    /\ ch.dispatch = "accepted" => Arrived(f)
    /\ Backed(f, ch.outcome)

(* What the status of a task that arrived tells.                           *)
LEMMA SeenHonest ==
    ASSUME RecoveryTypes, NEW f \in Failures, Arrived(f), NEW accepted \in {Keep, "accepted"}
    PROVE  Honest(f, Seen(f, accepted))
<1>1. event[f] \in {"old", "completed", "failed"}
  BY DEF RecoveryTypes
<1> DEFINE ch(o) == [dispatch |-> accepted, outcome |-> o]
<1>2. \E o \in {"unknown", "succeeded", "failed", "pending", Keep} :
         /\ Seen(f, accepted) = ch(o)
         /\ o = "succeeded" => event[f] = "completed"
         /\ o = "failed" => event[f] = "failed"
  <2>1. CASE f \in Anonymous
    <3>1. Seen(f, accepted) = ch("unknown")
      BY <2>1 DEF Seen
    <3> QED BY <3>1
  <2>2. CASE f \notin Anonymous /\ event[f] = "completed"
    <3>1. Seen(f, accepted) = ch("succeeded")
      BY <2>2 DEF Seen
    <3> QED BY <2>2, <3>1
  <2>3. CASE f \notin Anonymous /\ event[f] = "failed"
    <3>1. Seen(f, accepted) = ch("failed")
      BY <2>3 DEF Seen
    <3> QED BY <2>3, <3>1
  <2>4. CASE f \notin Anonymous /\ event[f] = "old"
    <3>1. Seen(f, accepted) = ch(IF accepted = Keep THEN Keep ELSE "pending")
      BY <2>4 DEF Seen
    <3> QED BY <3>1 DEF Keep
  <2> QED BY <1>1, <2>1, <2>2, <2>3, <2>4
<1>3. PICK o \in {"unknown", "succeeded", "failed", "pending", Keep} :
         /\ Seen(f, accepted) = ch(o)
         /\ o = "succeeded" => event[f] = "completed"
         /\ o = "failed" => event[f] = "failed"
  BY <1>2
<1>4. ch(o) \in Change /\ ch(o).dispatch = accepted /\ ch(o).outcome = o
  BY DEF Change, Dispatch, Outcome, Keep
<1> QED BY <1>3, <1>4 DEF Honest, Backed, Keep

(* An open item is looked at.                                              *)
LEMMA SendObserve ==
    ASSUME SendInv, NEW r \in Replicas, NEW f \in Failures, Observe(r, f)
    PROVE  SendInv' /\ RowsStable
<1> DEFINE me == replica[r]
<1> DEFINE unsure == [dispatch |-> "unknown", outcome |-> "unknown"]
<1> DEFINE known == me.read[f] = "accepted"
<1>1. me.pc = "observe" /\ f \in DOMAIN me.read /\ UNCHANGED <<plan, wire, posts, service, event>>
  BY DEF Observe
<1>2. /\ me \in LoopRecords /\ LoopFits(me) /\ me.at \in Plans /\ Saved(me.at) /\ Items(me.at) \subseteq Failures
      /\ me.read \in Readings /\ RecoveryTypes
  BY <1>1, LoopTyped DEF SendInv
<1>3. \A e \in DOMAIN me.read : /\ e \in Items(me.at) /\ plan[me.at].dispatch[e] \in SentStates
                                /\ me.read[e] = "accepted" => Arrived(e)
  BY <1>1, <1>2 DEF LoopFits
<1>4. service[f] = "sent" => Arrived(f)
  BY DEF SendInv, PostFits
<1>5. \/ replica' = [replica EXCEPT ![r] = [me EXCEPT !.read = Restrict(@, DOMAIN @ \ {f})]]
      \/ \E ch : /\ replica' = [replica EXCEPT ![r] = [me EXCEPT !.pc = "note", !.item = f, !.change = ch]]
                 /\ \/ ch = Seen(f, "accepted") /\ service[f] = "sent"
                    \/ ch = unsure
                    \/ ch = Seen(f, Keep) /\ known
                    \/ ch = [dispatch |-> Keep, outcome |-> "unknown"]
                    \/ ch = [dispatch |-> Keep, outcome |-> Keep]
  BY DEF Observe, Set
<1>6. CASE replica' = [replica EXCEPT ![r] = [me EXCEPT !.read = Restrict(@, DOMAIN @ \ {f})]]
  <2> DEFINE re == Restrict(me.read, DOMAIN me.read \ {f})
  <2> DEFINE rec == [me EXCEPT !.read = re]
  <2>1. re \in Readings /\ DOMAIN re = DOMAIN me.read \ {f} /\ \A e \in DOMAIN re : re[e] = me.read[e]
    BY <1>2, ReadingLess
  <2>2. replica' = [replica EXCEPT ![r] = rec]
    BY <1>6
  <2> HIDE DEF re
  <2>3. IsLoop(rec, "observe", me.at, me.item, re, me.change)
    BY <1>1, <1>2, <2>1, ReadSet
  <2> HIDE DEF me, rec
  <2>4. rec \in LoopRecords /\ rec.pc # "send" /\ LoopFits(rec)
    BY <1>2, <1>3, <2>1, <2>3 DEF IsLoop, LoopFits
  <2> QED BY <1>1, <2>2, <2>4, LoopOnly
<1>7. CASE \E ch : /\ replica' = [replica EXCEPT ![r] = [me EXCEPT !.pc = "note", !.item = f, !.change = ch]]
                   /\ \/ ch = Seen(f, "accepted") /\ service[f] = "sent"
                      \/ ch = unsure
                      \/ ch = Seen(f, Keep) /\ known
                      \/ ch = [dispatch |-> Keep, outcome |-> "unknown"]
                      \/ ch = [dispatch |-> Keep, outcome |-> Keep]
  <2>1. PICK ch : /\ replica' = [replica EXCEPT ![r] = [me EXCEPT !.pc = "note", !.item = f, !.change = ch]]
                  /\ \/ ch = Seen(f, "accepted") /\ service[f] = "sent"
                     \/ ch = unsure
                     \/ ch = Seen(f, Keep) /\ known
                     \/ ch = [dispatch |-> Keep, outcome |-> "unknown"]
                     \/ ch = [dispatch |-> Keep, outcome |-> Keep]
    BY <1>7
  <2>2. Honest(f, ch)
    <3>1. /\ Honest(f, unsure) /\ Honest(f, [dispatch |-> Keep, outcome |-> "unknown"])
          /\ Honest(f, [dispatch |-> Keep, outcome |-> Keep])
      BY DEF Honest, Backed, Change, Dispatch, Outcome, Keep
    <3>2. known => Arrived(f)
      BY <1>1, <1>3
    <3> QED BY <1>2, <1>4, <2>1, <3>1, <3>2, SeenHonest
  <2> DEFINE rec == [me EXCEPT !.pc = "note", !.item = f, !.change = ch]
  <2>3. IsLoop(rec, "note", me.at, f, me.read, ch)
    BY <1>2, <2>2, NoteLoop DEF Honest
  <2>4. replica' = [replica EXCEPT ![r] = rec]
    BY <2>1
  <2> HIDE DEF me, rec
  <2>5. rec \in LoopRecords /\ rec.pc # "send" /\ LoopFits(rec)
    BY <1>1, <1>2, <1>3, <2>2, <2>3 DEF IsLoop, LoopFits, Honest
  <2> QED BY <1>1, <2>4, <2>5, LoopOnly
<1> QED BY <1>5, <1>6, <1>7

(* The item is not fit: it is blocked, or its plan only paused.            *)
LEMMA SendBlock ==
    ASSUME SendInv, NEW r \in Replicas, Block(r)
    PROVE  SendInv' /\ RowsStable
<1>0. PICK me : me = replica[r]
  OBVIOUS
<1> DEFINE p == me.at
<1> DEFINE f == me.item
<1> DEFINE rec == [Idle EXCEPT !.pc = "reread", !.at = p]
<1>1. me.pc = "block" /\ replica' = [replica EXCEPT ![r] = rec] /\ UNCHANGED <<wire, posts, service, event>>
  BY <1>0 DEF Block, Set
<1>2. p \in Plans /\ Saved(p) /\ f \in Items(p) /\ f \in Failures /\ RecoveryTypes
  BY <1>0, <1>1, LoopTyped DEF LoopFits, SendInv
<1>3. rec \in LoopRecords /\ rec.pc # "send" /\ LoopFits(rec)
  BY <1>2, RereadFits
<1>4. CASE plan[p].state = "running" /\ plan[p].dispatch[f] = "pending"
  <2> DEFINE d == IF me.retryable THEN plan[p].dispatch[f] ELSE "blocked"
  <2>1. plan' = [plan EXCEPT ![p].state = "paused", ![p].version = @ + 1, ![p].dispatch[f] = d]
    <3>1. plan' = [plan EXCEPT ![p].state = "paused", ![p].version = @ + 1,
                               ![p].dispatch[f] = IF me.retryable THEN @ ELSE "blocked"]
      BY <1>0, <1>4 DEF Block
    <3> QED BY <1>2, <3>1 DEF RecoveryTypes
  <2>2. d \in Dispatch /\ d \in {"pending", "blocked"}
    BY <1>4 DEF Dispatch
  <2> HIDE DEF d
  <2>3. RowStep(p, "paused", plan[p].version + 1, plan[p].allowance, [plan[p].dispatch EXCEPT ![f] = d], plan[p].outcome)
    BY <1>2, <2>1, <2>2, BlockRow
  <2>4. plan[p].outcome[f] = "not_requested" /\ plan[p].outcome \in [Failures -> Outcome]
    BY <1>2, <1>4, RowTyped DEF SendInv, RowFits
  <2>5. RowAdvances(p, "paused", [plan[p].dispatch EXCEPT ![f] = d], [plan[p].outcome EXCEPT ![f] = "not_requested"])
    BY <1>2, <1>4, <2>2, <2>4, RowWithItem DEF SentStates, Terminal, Backed
  <2>6. [plan[p].outcome EXCEPT ![f] = "not_requested"] = plan[p].outcome
    BY <1>2, <2>4
  <2>7. plan' \in [Plans -> PlanRows] /\ RowsStable /\ ClaimsApart' /\ \A q \in Plans : RowFits(q)'
    BY <1>1, <1>2, <2>3, <2>5, <2>6, RowWritten
  <2>8. LoopFits(rec)'
    <3>1. IsLoop(rec, "reread", p, None, <<>>, Idle.change)
      BY <1>2, RereadLoop
    <3>2. plan'[p].state \notin {"none", "previewed"}
      BY <1>2, <2>7 DEF RowsStable
    <3> QED BY <1>2, <3>1, <3>2 DEF IsLoop, LoopFits, Saved
  <2> QED BY <1>1, <1>3, <2>7, <2>8, PlanAndLoop
<1>5. CASE ~(plan[p].state = "running" /\ plan[p].dispatch[f] = "pending")
  <2>1. plan' = plan
    BY <1>0, <1>5 DEF Block
  <2> QED BY <1>1, <1>3, <2>1, LoopOnly
<1> QED BY <1>4, <1>5

(* A pending item of a saved plan has not been sent, and nobody else is    *)
(* about to send it.                                                       *)
LEMMA PendingUnsent ==
    ASSUME SendInv, NEW p \in Plans, Saved(p), NEW f \in Items(p), plan[p].dispatch[f] = "pending"
    PROVE  posts[f] = 0 /\ \A q \in Replicas : replica[q].pc = "send" => replica[q].item # f
<1>1. f \in Failures /\ posts[f] \in Nat
  BY ItemsOfPlan DEF SendInv, RecoveryTypes
<1>2. ASSUME NEW q \in Plans, f \in Items(q), plan[q].dispatch[f] \in SentStates PROVE FALSE
  <2>1. Saved(q)
    BY <1>1, <1>2 DEF SendInv, RowFits, SentStates
  <2>2. q = p
    BY <1>2, <2>1 DEF SendInv, ClaimsApart
  <2> QED BY <1>2, <2>2 DEF SentStates
<1>3. posts[f] = 0
  <2>1. PostFits(f)
    BY <1>1 DEF SendInv
  <2> QED BY <1>1, <1>2, <2>1 DEF PostFits
<1>4. ASSUME NEW q \in Replicas, replica[q].pc = "send", replica[q].item = f PROVE FALSE
  <2>1. /\ replica[q].at \in Plans /\ f \in Items(replica[q].at) /\ plan[replica[q].at].dispatch[f] \in SentStates
    BY <1>4, LoopTyped DEF LoopFits
  <2> QED BY <1>2, <2>1
<1> QED BY <1>3, <1>4

(* The intent is committed.                                                *)
LEMMA SendClaim ==
    ASSUME SendInv, NEW r \in Replicas, Claim(r)
    PROVE  SendInv' /\ RowsStable
<1>0. PICK me : me = replica[r]
  OBVIOUS
<1> DEFINE p == me.at
<1> DEFINE f == me.item
<1>1. me.pc = "claim" /\ UNCHANGED <<wire, posts, service, event>>
  BY <1>0 DEF Claim
<1>2. /\ p \in Plans /\ Saved(p) /\ f \in Items(p) /\ f \in Failures /\ RecoveryTypes
      /\ me \in LoopRecords
  BY <1>0, <1>1, LoopTyped DEF LoopFits, SendInv
<1>3. CASE plan' = plan /\ replica' = [replica EXCEPT ![r] = [Idle EXCEPT !.pc = "reread", !.at = p]]
  BY <1>1, <1>2, <1>3, RereadFits, LoopOnly
<1>4. CASE /\ plan[p].dispatch[f] = "pending" /\ plan[p].state = "running"
           /\ plan' = [plan EXCEPT ![p].dispatch[f] = "dispatching", ![p].outcome[f] = "unknown"]
           /\ replica' = [replica EXCEPT ![r] = [me EXCEPT !.pc = "send", !.version = 0]]
  <2> DEFINE rec == [me EXCEPT !.pc = "send", !.version = 0]
  <2>1. posts[f] = 0 /\ \A q \in Replicas : replica[q].pc = "send" => replica[q].item # f
    BY <1>2, <1>4, PendingUnsent
  <2>2. RowStep(p, plan[p].state, plan[p].version, plan[p].allowance, [plan[p].dispatch EXCEPT ![f] = "dispatching"],
                [plan[p].outcome EXCEPT ![f] = "unknown"])
    BY <1>2, <1>4, ItemRow DEF Dispatch, Outcome
  <2>3. plan[p].outcome[f] = "not_requested"
    BY <1>2, <1>4 DEF SendInv, RowFits
  <2>4. RowAdvances(p, plan[p].state, [plan[p].dispatch EXCEPT ![f] = "dispatching"], [plan[p].outcome EXCEPT ![f] = "unknown"])
    BY <1>2, <1>4, <2>3, RowWithItem DEF SentStates, Terminal, Backed
  <2>5. plan' \in [Plans -> PlanRows] /\ RowsStable /\ ClaimsApart' /\ \A q \in Plans : RowFits(q)'
    BY <1>1, <1>2, <2>2, <2>4, RowWritten
  <2>6. IsLoop(rec, "send", p, f, me.read, me.change)
    BY <1>2, SendLoop
  <2>7. replica' = [replica EXCEPT ![r] = rec]
    BY <1>4
  <2> HIDE DEF rec
  <2>8. /\ replica' \in [Replicas -> LoopRecords] /\ replica'[r] = rec /\ \A q \in Replicas \ {r} : replica'[q] = replica[q]
    BY <1>2, <2>6, <2>7 DEF RecoveryTypes, IsLoop
  <2>9. plan'[p].dispatch[f] \in SentStates /\ Saved(p)'
    <3>1. plan'[p].dispatch = [plan[p].dispatch EXCEPT ![f] = "dispatching"] /\ plan'[p].state = "running"
      BY <1>4, <2>2 DEF RowStep
    <3>2. plan[p].dispatch \in [Failures -> Dispatch]
      BY <1>2, RowTyped
    <3> QED BY <1>2, <3>1, <3>2 DEF SentStates, Saved
  <2>10. LoopFits(replica[r])'
    BY <1>1, <1>2, <2>1, <2>6, <2>8, <2>9 DEF LoopFits, IsLoop, Saved
  <2>11. OneSender'
    BY <2>1, <2>6, <2>8 DEF SendInv, OneSender, IsLoop
  <2>12. ArrivalsStable /\ \A e \in Failures : PostFits(e)'
    BY <1>1, <2>5, CallsSame
  <2>13. RecoveryTypes'
    BY <1>1, <2>5, <2>8, CallsSame DEF RecoveryTypes
  <2>14. \A q \in Replicas : \/ LoopFits(replica[q])'
                             \/ /\ replica'[q] = replica[q]
                                /\ replica[q].pc = "send" => posts'[replica[q].item] = posts[replica[q].item]
    BY <1>1, <2>8, <2>10
  <2> QED BY <2>5, <2>11, <2>12, <2>13, <2>14, Combined
<1> QED BY <1>0, <1>3, <1>4 DEF Claim, Set

(* _item_change on an item that was sent.                                  *)
LEMMA ItemChanged ==
    ASSUME SendInv, NEW p \in Plans, Saved(p), NEW f \in Items(p), plan[p].dispatch[f] \in SentStates, NEW ch, Honest(f, ch),
           ItemChange(p, f, ch), UNCHANGED <<wire, posts, service, event>>
    PROVE  plan' \in [Plans -> PlanRows] /\ RowsStable /\ ClaimsApart' /\ \A q \in Plans : RowFits(q)'
<1>1. RecoveryTypes /\ f \in Failures
  BY ItemsOfPlan DEF SendInv
<1>2. CASE plan' = plan
  <2>1. RowsStable
    BY <1>2 DEF RowsStable, Saved
  <2>2. ArrivalsStable
    BY <2>1, CallsSame
  <2>3. ClaimsApart'
    BY <1>2 DEF SendInv, ClaimsApart, Saved
  <2> QED BY <1>1, <1>2, <2>1, <2>2, <2>3, RowKept, RowSame
<1>3. CASE ~(plan' = plan)
  <2> DEFINE d == Updated(plan[p].dispatch[f], ch.dispatch)
  <2> DEFINE o == Updated(plan[p].outcome[f], ch.outcome)
  <2>1. /\ plan[p].outcome[f] \notin Terminal /\ ~(ch.dispatch = "unknown" /\ plan[p].dispatch[f] = "accepted")
        /\ plan' = [plan EXCEPT ![p].dispatch[f] = Updated(@, ch.dispatch), ![p].outcome[f] = Updated(@, ch.outcome)]
    BY <1>3 DEF ItemChange
  <2>2. plan' = [plan EXCEPT ![p].dispatch[f] = d, ![p].outcome[f] = o]
    BY <1>1, <2>1 DEF RecoveryTypes
  <2>3. plan[p].dispatch[f] \in Dispatch /\ plan[p].outcome[f] \in Outcome
    BY <1>1, RowTyped
  <2>4. ch.dispatch \in {Keep, "unknown", "accepted"} /\ ch.outcome \in Outcome \cup {Keep}
    BY DEF Honest, Change
  <2>5. /\ d \in Dispatch /\ d \in SentStates /\ (plan[p].dispatch[f] = "accepted" => d = "accepted")
        /\ d = "accepted" => plan[p].dispatch[f] = "accepted" \/ ch.dispatch = "accepted"
    BY <2>1, <2>3, <2>4 DEF Updated, SentStates, Dispatch, Keep
  <2>6. o \in Outcome /\ (o = plan[p].outcome[f] \/ o = ch.outcome)
    BY <2>3, <2>4 DEF Updated
  <2> HIDE DEF d, o
  <2>7. Arrived(f) \/ d # "accepted"
    BY <1>1, <2>5 DEF SendInv, RowFits, Honest
  <2>8. Backed(f, o)
    BY <1>1, <2>6 DEF SendInv, RowFits, Honest
  <2>9. RowStep(p, plan[p].state, plan[p].version, plan[p].allowance, [plan[p].dispatch EXCEPT ![f] = d], [plan[p].outcome EXCEPT ![f] = o])
    BY <1>1, <2>2, <2>5, <2>6, ItemRow
  <2>10. RowAdvances(p, plan[p].state, [plan[p].dispatch EXCEPT ![f] = d], [plan[p].outcome EXCEPT ![f] = o])
    BY <2>1, <2>5, <2>7, <2>8, RowWithItem DEF Saved, SentStates
  <2> QED BY <2>9, <2>10, RowWritten
<1> QED BY <1>2, <1>3

(* The answer is written.                                                  *)
LEMMA SendRecord ==
    ASSUME SendInv, NEW r \in Replicas, Record(r)
    PROVE  SendInv' /\ RowsStable
<1>0. PICK me : me = replica[r]
  OBVIOUS
<1> DEFINE p == me.at
<1> DEFINE f == me.item
<1> DEFINE rec == [Idle EXCEPT !.pc = "reread", !.at = p]
<1>1. /\ me.pc = "record" /\ UNCHANGED <<wire, posts, service, event>> /\ ItemChange(p, f, me.change)
      /\ replica' = [replica EXCEPT ![r] = rec]
  BY <1>0 DEF Record, Set
<1>2. /\ p \in Plans /\ Saved(p) /\ f \in Items(p) /\ plan[p].dispatch[f] \in SentStates /\ Honest(f, me.change)
  BY <1>0, <1>1, LoopTyped DEF LoopFits, Honest
<1>3. plan' \in [Plans -> PlanRows] /\ RowsStable /\ ClaimsApart' /\ \A q \in Plans : RowFits(q)'
  BY <1>1, <1>2, ItemChanged
<1>4. rec \in LoopRecords /\ rec.pc # "send" /\ LoopFits(rec)'
  <2>1. IsLoop(rec, "reread", p, None, <<>>, Idle.change)
    BY <1>2, RereadLoop
  <2>2. plan'[p].state \notin {"none", "previewed"}
    BY <1>2, <1>3 DEF RowsStable
  <2> QED BY <1>2, <2>1, <2>2 DEF IsLoop, LoopFits, Saved
<1> QED BY <1>1, <1>3, <1>4, PlanAndLoop

(* What was seen is written.                                               *)
LEMMA SendNote ==
    ASSUME SendInv, NEW r \in Replicas, Note(r)
    PROVE  SendInv' /\ RowsStable
<1>0. PICK me : me = replica[r]
  OBVIOUS
<1> DEFINE p == me.at
<1> DEFINE f == me.item
<1> DEFINE re == Restrict(me.read, DOMAIN me.read \ {f})
<1> DEFINE rec == [me EXCEPT !.pc = "observe", !.item = None, !.change = Idle.change, !.read = re]
<1>1. /\ me.pc = "note" /\ UNCHANGED <<wire, posts, service, event>> /\ ItemChange(p, f, me.change)
      /\ replica' = [replica EXCEPT ![r] = rec]
  BY <1>0 DEF Note, Set
<1>2. /\ p \in Plans /\ Saved(p) /\ f \in Items(p) /\ plan[p].dispatch[f] \in SentStates /\ Honest(f, me.change)
      /\ me \in LoopRecords /\ me.read \in Readings /\ Items(p) \subseteq Failures
  BY <1>0, <1>1, LoopTyped DEF LoopFits, Honest
<1>3. \A e \in DOMAIN me.read : /\ e \in Items(p) /\ plan[p].dispatch[e] \in SentStates
                                /\ me.read[e] = "accepted" => Arrived(e)
  BY <1>0, <1>1, LoopTyped DEF LoopFits
<1>4. plan' \in [Plans -> PlanRows] /\ RowsStable /\ ClaimsApart' /\ \A q \in Plans : RowFits(q)'
  BY <1>1, <1>2, ItemChanged
<1>5. re \in Readings /\ DOMAIN re \subseteq DOMAIN me.read /\ \A e \in DOMAIN re : re[e] = me.read[e]
  BY <1>2, ReadingLess
<1> HIDE DEF re
<1>6. IsLoop(rec, "observe", p, None, re, Idle.change)
  BY <1>2, <1>5, NotedLoop
<1> HIDE DEF rec
<1>7. \A e \in DOMAIN re : /\ e \in Items(p) /\ plan'[p].dispatch[e] \in SentStates
                           /\ re[e] = "accepted" => Arrived(e)'
  BY <1>1, <1>2, <1>3, <1>4, <1>5 DEF RowsStable, Arrived
<1>8. rec \in LoopRecords /\ rec.pc # "send" /\ LoopFits(rec)'
  <2>1. plan'[p].state \notin {"none", "previewed"}
    BY <1>2, <1>4 DEF RowsStable
  <2> QED BY <1>2, <1>6, <1>7, <2>1 DEF IsLoop, LoopFits, Saved
<1> QED BY <1>1, <1>4, <1>8, PlanAndLoop

(* settle.                                                                 *)
LEMMA SendSettle ==
    ASSUME SendInv, NEW r \in Replicas, Settle(r)
    PROVE  SendInv' /\ RowsStable
<1>0. PICK me : me = replica[r]
  OBVIOUS
<1> DEFINE p == me.at
<1>1. me.pc = "observe" /\ replica' = [replica EXCEPT ![r] = Idle] /\ UNCHANGED <<wire, posts, service, event>>
  BY <1>0 DEF Settle, Set
<1>2. p \in Plans /\ Saved(p) /\ RecoveryTypes
  BY <1>0, <1>1, LoopTyped DEF SendInv
<1>3. Idle \in LoopRecords /\ Idle.pc # "send" /\ LoopFits(Idle) /\ LoopFits(Idle)'
  BY IdleLoop DEF IsLoop, LoopFits
<1>4. CASE plan' = plan
  BY <1>1, <1>3, <1>4, LoopOnly
<1>5. CASE ~(plan' = plan)
  <2>1. PICK st \in {"completed", "paused"} : plan' = [plan EXCEPT ![p].version = @ + 1, ![p].state = st]
    BY <1>0, <1>5 DEF Settle
  <2>2. RowStep(p, st, plan[p].version + 1, plan[p].allowance, plan[p].dispatch, plan[p].outcome)
    BY <1>2, <2>1, SettleRow DEF PlanStates
  <2>3. RowAdvances(p, st, plan[p].dispatch, plan[p].outcome)
    BY <1>2, RowAsIs
  <2>4. plan' \in [Plans -> PlanRows] /\ RowsStable /\ ClaimsApart' /\ \A q \in Plans : RowFits(q)'
    BY <1>1, <1>2, <2>2, <2>3, RowWritten
  <2> QED BY <1>1, <1>3, <2>4, PlanAndLoop
<1> QED BY <1>4, <1>5

(* The retry is posted, for the first time.                                *)
LEMMA SendSend ==
    ASSUME SendInv, NEW r \in Replicas, Send(r)
    PROVE  SendInv' /\ RowsStable
<1>0. PICK me : me = replica[r]
  OBVIOUS
<1> DEFINE p == me.at
<1> DEFINE f == me.item
<1> DEFINE rec == [me EXCEPT !.pc = "answer"]
<1>1. /\ me.pc = "send" /\ replica' = [replica EXCEPT ![r] = rec] /\ UNCHANGED <<plan, service, event>>
      /\ posts' = [posts EXCEPT ![f] = @ + 1] /\ wire' = wire \cup {f}
  BY <1>0 DEF Send, Set
<1>2. /\ p \in Plans /\ Saved(p) /\ f \in Items(p) /\ f \in Failures /\ plan[p].dispatch[f] \in SentStates /\ posts[f] = 0
      /\ me \in LoopRecords /\ RecoveryTypes /\ PostFits(f)
  BY <1>0, <1>1, LoopTyped DEF LoopFits, SendInv
<1>3. posts' \in [Failures -> Nat] /\ posts'[f] = 1 /\ \A e \in Failures \ {f} : posts'[e] = posts[e]
  BY <1>1, <1>2 DEF RecoveryTypes
<1>4. RowsStable /\ ArrivalsStable
  BY <1>1, <1>2, <1>3 DEF RowsStable, ArrivalsStable, Arrived, Saved
<1>5. IsLoop(rec, "answer", p, f, me.read, me.change)
  BY <1>2, PcSet DEF LoopSteps
<1> HIDE DEF rec
<1>6. /\ replica' \in [Replicas -> LoopRecords] /\ replica'[r] = rec /\ \A q \in Replicas \ {r} : replica'[q] = replica[q]
  BY <1>1, <1>2, <1>5 DEF RecoveryTypes, IsLoop
<1>7. RecoveryTypes'
  BY <1>1, <1>2, <1>3, <1>6 DEF RecoveryTypes
<1>8. ClaimsApart' /\ OneSender'
  BY <1>1, <1>5, <1>6 DEF SendInv, ClaimsApart, OneSender, Saved, IsLoop
<1>9. \A q \in Plans : RowFits(q)'
  BY <1>1, <1>4, RowKept
<1>10. ASSUME NEW e \in Failures PROVE PostFits(e)'
  <2>1. PostFits(e)
    BY DEF SendInv
  <2>2. CASE e = f
    <3>1. service[f] # "sent"
      BY <1>2 DEF PostFits, Arrived
    <3> QED BY <1>1, <1>2, <1>3, <2>2, <3>1 DEF PostFits
  <2>3. CASE e # f
    BY <1>1, <1>3, <2>1, <2>3 DEF PostFits, Arrived
  <2> QED BY <2>2, <2>3
<1>11. LoopFits(replica[r])'
  BY <1>1, <1>2, <1>5, <1>6 DEF LoopFits, IsLoop, Saved
<1>12. ASSUME NEW q \in Replicas, q # r, replica[q].pc = "send" PROVE posts'[replica[q].item] = posts[replica[q].item]
  <2>1. replica[q].item # f
    BY <1>0, <1>1, <1>12 DEF SendInv, OneSender
  <2>2. replica[q].item \in Failures
    BY <1>12, LoopTyped DEF LoopFits
  <2> QED BY <1>3, <2>1, <2>2
<1>13. \A q \in Replicas : \/ LoopFits(replica[q])'
                           \/ /\ replica'[q] = replica[q]
                              /\ replica[q].pc = "send" => posts'[replica[q].item] = posts[replica[q].item]
  BY <1>6, <1>11, <1>12
<1> QED BY <1>4, <1>7, <1>8, <1>9, <1>10, <1>13, Combined

(* The retry arrives.                                                      *)
LEMMA SendArrive ==
    ASSUME SendInv, NEW f \in Failures, Arrive(f)
    PROVE  SendInv' /\ RowsStable
<1>1. /\ f \in wire /\ wire' = wire \ {f} /\ service' = [service EXCEPT ![f] = "sent"] /\ event' = [event EXCEPT ![f] = "old"]
      /\ UNCHANGED <<plan, replica>> /\ posts' = posts
  BY DEF Arrive
<1>2. /\ wire' \subseteq Failures /\ service' \in [Failures -> {"dead", "sent", "gone"}]
      /\ event' \in [Failures -> {"old", "completed", "failed"}]
      /\ service'[f] = "sent" /\ \A e \in Failures \ {f} : service'[e] = service[e] /\ event'[e] = event[e]
  BY <1>1 DEF SendInv, RecoveryTypes
<1>3. ArrivalsStable
  BY <1>1, <1>2 DEF ArrivalsStable, Arrived
<1>4. ASSUME NEW e \in Failures PROVE PostFits(e)'
  <2>1. PostFits(e)
    BY DEF SendInv
  <2> QED BY <1>1, <1>2, <2>1 DEF PostFits, Arrived
<1> QED BY <1>1, <1>2, <1>3, <1>4, CallOnly

(* The retry is lost.                                                      *)
LEMMA SendLose ==
    ASSUME SendInv, NEW f \in Failures, LoseRequest(f)
    PROVE  SendInv' /\ RowsStable
<1>1. wire' = wire \ {f} /\ UNCHANGED <<plan, replica, posts, service, event>>
  BY DEF LoseRequest
<1>2. ArrivalsStable
  BY <1>1 DEF ArrivalsStable, Arrived
<1>3. ASSUME NEW e \in Failures PROVE PostFits(e)'
  <2>1. PostFits(e)
    BY DEF SendInv
  <2> QED BY <1>1, <2>1 DEF PostFits, Arrived
<1>4. /\ wire' \subseteq Failures /\ service' \in [Failures -> {"dead", "sent", "gone"}]
      /\ event' \in [Failures -> {"old", "completed", "failed"}]
  BY <1>1 DEF SendInv, RecoveryTypes
<1> QED BY <1>1, <1>2, <1>3, <1>4, CallOnly

(* The failure is retried past Studio.                                     *)
LEMMA SendForeign ==
    ASSUME SendInv, NEW f \in Failures, Foreign(f)
    PROVE  SendInv' /\ RowsStable
<1>1. service' = [service EXCEPT ![f] = "gone"] /\ UNCHANGED <<plan, replica, posts, wire, event>>
  BY DEF Foreign
<1>2. /\ wire' \subseteq Failures /\ service' \in [Failures -> {"dead", "sent", "gone"}]
      /\ event' \in [Failures -> {"old", "completed", "failed"}]
      /\ service'[f] = "gone" /\ \A e \in Failures \ {f} : service'[e] = service[e]
  BY <1>1 DEF SendInv, RecoveryTypes
<1>3. ArrivalsStable
  BY <1>1, <1>2 DEF ArrivalsStable, Arrived
<1>4. ASSUME NEW e \in Failures PROVE PostFits(e)'
  <2>1. PostFits(e)
    BY DEF SendInv
  <2> QED BY <1>1, <1>2, <2>1 DEF PostFits, Arrived
<1> QED BY <1>1, <1>2, <1>3, <1>4, CallOnly

(* The retried task is done.                                               *)
LEMMA SendFinish ==
    ASSUME SendInv, NEW f \in Failures, Finish(f)
    PROVE  SendInv' /\ RowsStable
<1>1. PICK e \in {"completed", "failed"} : event' = [event EXCEPT ![f] = e]
  BY DEF Finish
<1>2. event[f] = "old" /\ UNCHANGED <<plan, replica, posts, wire, service>>
  BY DEF Finish
<1>3. /\ wire' \subseteq Failures /\ service' \in [Failures -> {"dead", "sent", "gone"}]
      /\ event' \in [Failures -> {"old", "completed", "failed"}] /\ \A g \in Failures \ {f} : event'[g] = event[g]
  BY <1>1, <1>2 DEF SendInv, RecoveryTypes
<1>4. ArrivalsStable
  BY <1>2, <1>3 DEF ArrivalsStable, Arrived
<1>5. ASSUME NEW g \in Failures PROVE PostFits(g)'
  <2>1. PostFits(g)
    BY DEF SendInv
  <2> QED BY <1>2, <2>1 DEF PostFits, Arrived
<1> QED BY <1>2, <1>3, <1>4, <1>5, CallOnly

(* Every step keeps the invariant and takes nothing back.                  *)
LEMMA SendNext ==
    ASSUME SendInv, [Next]_vars
    PROVE  SendInv' /\ RowsStable
<1>1. CASE UNCHANGED vars
  <2>1. UNCHANGED <<plan, replica, wire, posts, service, event>>
    BY <1>1 DEF vars
  <2>2. RowsStable
    BY <2>1 DEF RowsStable, Saved
  <2> QED BY <2>1, <2>2 DEF SendInv, RecoveryTypes, ClaimsApart, OneSender, LoopFits, RowFits, PostFits, Saved, Backed, Arrived
<1>2. ASSUME NEW p \in Plans, NEW v \in 0 .. plan[p].version, NEW a \in {"stop", "pause", "resume"}, Control(p, a, 0, v)
      PROVE  SendInv' /\ RowsStable
  BY <1>2, SendControl
<1>3. ASSUME NEW p \in Plans, NEW v \in 0 .. plan[p].version, NEW n \in Counts, Control(p, "batch", n, v)
      PROVE  SendInv' /\ RowsStable
  <2>1. n \in Nat
    BY RecoveryAssumption
  <2> QED BY <1>3, <2>1, SendControl
<1>4. ASSUME NEW r \in Replicas, Loop(r) PROVE SendInv' /\ RowsStable
  BY <1>4, SendDue, SendPreflight, SendBlock, SendClaim, SendSend, SendAnswer, SendRecord, SendReread, SendObserve,
     SendNote, SendSettle DEF Loop
<1> QED BY <1>1, <1>2, <1>3, <1>4, SendPreview, SendCreate, SendAbort, SendArrive, SendLose, SendForeign, SendFinish DEF Next

(* The invariant holds at the start.                                       *)
LEMMA SendStart == Init => SendInv
<1> SUFFICES ASSUME Init PROVE SendInv
  OBVIOUS
<1>1. Fresh \in PlanRows
  BY DEF Fresh, PlanRows, PlanStates, Dispatch, Outcome
<1>2. RecoveryTypes
  BY <1>1, IdleLoop DEF Init, RecoveryTypes, IsLoop
<1>3. /\ \A p \in Plans : plan[p] = Fresh
      /\ \A r \in Replicas : replica[r] = Idle
      /\ wire = {} /\ \A f \in Failures : posts[f] = 0 /\ service[f] = "dead"
  BY DEF Init
<1>4. ClaimsApart /\ OneSender
  BY <1>3, IdleLoop DEF ClaimsApart, OneSender, Saved, Fresh, IsLoop
<1>5. ASSUME NEW r \in Replicas PROVE LoopFits(replica[r])
  BY <1>3, IdleLoop DEF IsLoop, LoopFits
<1>6. ASSUME NEW p \in Plans PROVE RowFits(p)
  BY <1>3 DEF RowFits, Fresh, Backed
<1>7. ASSUME NEW f \in Failures PROVE PostFits(f)
  BY <1>3 DEF PostFits
<1> QED BY <1>2, <1>4, <1>5, <1>6, <1>7 DEF SendInv

-----------------------------------------------------------------------------
(* What the operators authorized.                                          *)

(* The units one batch request grants.                                     *)
Units(p, v, n) == {p} \X {v} \X (1 .. n)

(* They are as many as the batch asks for.                                 *)
LEMMA UnitsCounted ==
    ASSUME NEW p, NEW v, NEW n \in Nat
    PROVE  IsFiniteSet(Units(p, v, n)) /\ Cardinality(Units(p, v, n)) = n
<1> DEFINE unit == [i \in 1 .. n |-> <<p, v, i>>]
<1>1. unit \in Bijection(1 .. n, Units(p, v, n))
  <2>1. unit \in Injection(1 .. n, Units(p, v, n))
    BY DEF Injection, IsInjective, Units
  <2>2. unit \in Surjection(1 .. n, Units(p, v, n))
    BY DEF Surjection, Units
  <2> QED BY <2>1, <2>2 DEF Bijection
<1>2. IsFiniteSet(1 .. n) /\ Cardinality(1 .. n) = n
  BY FS_Interval
<1> HIDE DEF unit
<1>3. ExistsBijection(1 .. n, Units(p, v, n))
  BY <1>1 DEF ExistsBijection
<1> QED BY <1>2, <1>3, FS_Bijection

(* Sets that have nothing in common.                                       *)
LEMMA ApartCounted ==
    ASSUME NEW S, NEW T, IsFiniteSet(S), IsFiniteSet(T), S \cap T = {}
    PROVE  IsFiniteSet(S \cup T) /\ Cardinality(S \cup T) = Cardinality(S) + Cardinality(T)
<1>1. Cardinality(S) \in Nat /\ Cardinality(T) \in Nat /\ Cardinality({}) = 0
  BY FS_CardinalityType, FS_EmptySet
<1>2. IsFiniteSet(S \cup T) /\ Cardinality(S \cup T) = Cardinality(S) + Cardinality(T) - Cardinality(S \cap T)
  BY FS_Union
<1>3. Cardinality(S \cap T) = Cardinality({})
  BY Zenon
<1> QED BY <1>1, <1>2, <1>3

(* Used items were sent or blocked.                                        *)
LEMMA UsedSplit ==
    ASSUME RecoveryTypes, NEW p \in Plans
    PROVE  /\ IsFiniteSet(SentItems(p)) /\ IsFiniteSet(BlockedItems(p))
           /\ Cardinality(SentItems(p)) \in Nat /\ Cardinality(BlockedItems(p)) \in Nat
           /\ Used(p, plan[p]) = Cardinality(SentItems(p)) + Cardinality(BlockedItems(p))
<1>1. IsFiniteSet(SentItems(p)) /\ IsFiniteSet(BlockedItems(p))
  BY UsedCounts, FS_Subset DEF SentItems, BlockedItems
<1>2. /\ {f \in Items(p) : plan[p].dispatch[f] # "pending"} = SentItems(p) \cup BlockedItems(p)
      /\ SentItems(p) \cap BlockedItems(p) = {}
  BY DEF SentItems, BlockedItems
<1>3. Cardinality(SentItems(p) \cup BlockedItems(p)) = Cardinality(SentItems(p)) + Cardinality(BlockedItems(p))
  BY <1>1, <1>2, ApartCounted
<1> QED BY <1>1, <1>2, <1>3, FS_CardinalityType DEF Used

(* Authority is counted in sets.                                           *)
LEMMA AuthorityCounted ==
    ASSUME AuthorityInv, NEW p \in Plans
    PROVE  IsFiniteSet(Authorized(p)) /\ Cardinality(Authorized(p)) \in Nat
<1>1. IsFiniteSet(Authorized(p))
  BY FS_Subset DEF AuthorityInv, Authorized
<1> QED BY <1>1, FS_CardinalityType

(* A row whose items keep their state, with the same authority.            *)
LEMMA AuthoritySame ==
    ASSUME AuthorityInv, NEW p \in Plans, granted' = granted, plan'[p].allowance = plan[p].allowance,
           SentItems(p)' = SentItems(p), BlockedItems(p)' = BlockedItems(p)
    PROVE  Covered(p)'
BY DEF AuthorityInv, Covered, Authorized

(* The other rows.                                                         *)
LEMMA AuthorityElsewhere ==
    ASSUME AuthorityInv, NEW p \in Plans, plan'[p] = plan[p], Authorized(p)' = Authorized(p)
    PROVE  Covered(p)'
BY DEF AuthorityInv, Covered, SentItems, BlockedItems

(* A step of a row.                                                        *)
LEMMA AuthorityRow ==
    ASSUME AuthorityInv, RecoveryTypes, NEW p \in Plans, NEW st, NEW ve, NEW al, NEW di, NEW ou,
           RowStep(p, st, ve, al, di, ou), ve \in {plan[p].version, plan[p].version + 1}, granted' = granted, Covered(p)'
    PROVE  AuthorityInv'
<1>1. /\ plan' \in [Plans -> PlanRows] /\ \A q \in Plans \ {p} : plan'[q] = plan[q]
      /\ plan'[p].version = ve /\ plan[p].version \in Nat
  BY RowTyped DEF RowStep
<1>2. ASSUME NEW q \in Plans, q # p PROVE Covered(q)'
  BY <1>1, <1>2, AuthorityElsewhere DEF Authorized
<1>3. ASSUME NEW c \in granted PROVE c[2] < plan'[c[1]].version
  <2>1. c[1] \in Plans /\ c[2] \in Nat /\ c[2] < plan[c[1]].version
    BY DEF AuthorityInv
  <2> QED BY <1>1, <2>1
<1> QED BY <1>2, <1>3 DEF AuthorityInv

(* A step that leaves the plans and the grants alone.                      *)
LEMMA AuthorityIdle ==
    ASSUME AuthorityInv, UNCHANGED <<plan, granted>> PROVE AuthorityInv'
BY DEF AuthorityInv, Covered, Authorized, SentItems, BlockedItems

(* A row that changes its state alone.                                     *)
LEMMA AuthorityState ==
    ASSUME AuthorityInv, RecoveryTypes, NEW p \in Plans, NEW st, NEW ve,
           RowStep(p, st, ve, plan[p].allowance, plan[p].dispatch, plan[p].outcome),
           ve \in {plan[p].version, plan[p].version + 1}, granted' = granted
    PROVE  AuthorityInv'
<1>1. Covered(p)'
  BY AuthoritySame DEF RowStep, SentItems, BlockedItems
<1> QED BY <1>1, AuthorityRow

(* A control: only a batch grants, and grants what it adds.                *)
LEMMA AuthorityControl ==
    ASSUME AuthorityInv, SendInv, NEW p \in Plans, NEW action \in {"stop", "pause", "resume", "batch"}, NEW count \in Nat,
           NEW version, Control(p, action, count, version)
    PROVE  AuthorityInv'
<1>1. PICK st, al : /\ RowStep(p, st, plan[p].version + 1, al, plan[p].dispatch, plan[p].outcome)
                    /\ ControlledTo(p, action, count, st, al)
  BY UsedCounts, ControlRow DEF SendInv
<1>2. RecoveryTypes /\ plan[p].version \in Nat /\ plan[p].version = version
  BY RowTyped DEF SendInv, Control
<1>3. CASE action # "batch"
  <2>1. granted' = granted /\ al = plan[p].allowance
    BY <1>1, <1>3 DEF Control, ControlledTo
  <2> QED BY <1>1, <1>2, <2>1, AuthorityState
<1>4. CASE action = "batch"
  <2> DEFINE new == Units(p, version, count)
  <2>1. granted' = granted \cup new
    BY <1>4 DEF Control, Units
  <2>2. IsFiniteSet(new) /\ Cardinality(new) = count
    BY UnitsCounted
  <2>3. \A c \in new : c \in Plans \X Nat \X Nat /\ c[1] = p /\ c[2] = version
    BY <1>2 DEF Units
  <2> HIDE DEF new
  <2>4. IsFiniteSet(granted) /\ granted \subseteq Plans \X Nat \X Nat /\ \A c \in granted : c[2] < plan[c[1]].version
    BY DEF AuthorityInv
  <2>5. IsFiniteSet(granted')
    BY <2>1, <2>2, <2>4, FS_Union
  <2>6. /\ plan' \in [Plans -> PlanRows] /\ \A q \in Plans \ {p} : plan'[q] = plan[q]
        /\ plan'[p].version = plan[p].version + 1 /\ plan'[p].allowance = al /\ plan'[p].dispatch = plan[p].dispatch
    BY <1>1 DEF RowStep
  <2>7. granted' \subseteq Plans \X Nat \X Nat
    BY <2>1, <2>3, <2>4
  <2>8. ASSUME NEW c \in granted' PROVE c[2] < plan'[c[1]].version
    <3>1. CASE c \in new
      BY <1>2, <2>3, <2>6, <3>1
    <3>2. CASE c \in granted
      <4>1. c[1] \in Plans /\ c[2] \in Nat /\ c[2] < plan[c[1]].version
        BY <2>4, <3>2
      <4> QED BY <1>2, <2>6, <4>1
    <3> QED BY <2>1, <3>1, <3>2
  <2>9. ASSUME NEW q \in Plans, q # p PROVE Covered(q)'
    <3>1. Authorized(q)' = Authorized(q)
      BY <2>1, <2>3, <2>9 DEF Authorized
    <3> QED BY <2>6, <2>9, <3>1, AuthorityElsewhere
  <2>10. Covered(p)'
    <3>1. Authorized(p)' = Authorized(p) \cup new
      BY <2>1, <2>3 DEF Authorized
    <3>2. Authorized(p) \cap new = {}
      BY <1>2, <2>3, <2>4 DEF Authorized
    <3>3. IsFiniteSet(Authorized(p)) /\ Cardinality(Authorized(p)) \in Nat
      BY AuthorityCounted
    <3>4. Cardinality(Authorized(p)') = Cardinality(Authorized(p)) + count
      BY <2>2, <3>1, <3>2, <3>3, ApartCounted
    <3>5. SentItems(p)' = SentItems(p) /\ BlockedItems(p)' = BlockedItems(p)
      BY <2>6 DEF SentItems, BlockedItems
    <3>6. /\ Cardinality(SentItems(p)) \in Nat /\ Cardinality(BlockedItems(p)) \in Nat
          /\ Used(p, plan[p]) = Cardinality(SentItems(p)) + Cardinality(BlockedItems(p))
      BY <1>2, UsedSplit
    <3>7. al \in Nat /\ al <= Used(p, plan[p]) + count
      BY <1>1, <1>4 DEF ControlledTo
    <3>8. Cardinality(SentItems(p)) <= Cardinality(Authorized(p))
      BY DEF AuthorityInv, Covered
    <3> QED BY <2>6, <3>3, <3>4, <3>5, <3>6, <3>7, <3>8 DEF Covered
  <2> QED BY <2>5, <2>7, <2>8, <2>9, <2>10 DEF AuthorityInv
<1> QED BY <1>3, <1>4

(* An item is blocked: the allowance it used is not for another one.       *)
LEMMA AuthorityBlock ==
    ASSUME AuthorityInv, SendInv, NEW r \in Replicas, Block(r)
    PROVE  AuthorityInv'
<1>0. PICK me : me = replica[r]
  OBVIOUS
<1> DEFINE p == me.at
<1> DEFINE f == me.item
<1>1. me.pc = "block" /\ granted' = granted
  BY <1>0 DEF Block
<1>2. p \in Plans /\ Saved(p) /\ f \in Items(p) /\ f \in Failures /\ RecoveryTypes
  BY <1>0, <1>1, LoopTyped DEF LoopFits, SendInv
<1>3. CASE plan' = plan
  BY <1>1, <1>3, AuthorityIdle
<1>4. CASE ~(plan' = plan)
  <2> DEFINE d == IF me.retryable THEN plan[p].dispatch[f] ELSE "blocked"
  <2>1. plan[p].dispatch[f] = "pending" /\ plan' = [plan EXCEPT ![p].state = "paused", ![p].version = @ + 1, ![p].dispatch[f] = d]
    <3>1. /\ plan[p].dispatch[f] = "pending"
          /\ plan' = [plan EXCEPT ![p].state = "paused", ![p].version = @ + 1,
                                  ![p].dispatch[f] = IF me.retryable THEN @ ELSE "blocked"]
      BY <1>0, <1>4 DEF Block
    <3> QED BY <1>2, <3>1 DEF RecoveryTypes
  <2>2. d \in Dispatch /\ d \in {"pending", "blocked"}
    BY <2>1 DEF Dispatch
  <2> HIDE DEF d
  <2>3. RowStep(p, "paused", plan[p].version + 1, plan[p].allowance, [plan[p].dispatch EXCEPT ![f] = d], plan[p].outcome)
    BY <1>2, <2>1, <2>2, BlockRow
  <2>4. /\ plan'[p].dispatch[f] = d /\ \A e \in Failures \ {f} : plan'[p].dispatch[e] = plan[p].dispatch[e]
        /\ plan'[p].allowance = plan[p].allowance /\ plan' \in [Plans -> PlanRows]
    BY <1>2, <2>3, RowTyped DEF RowStep
  <2>5. Items(p) \subseteq Failures
    BY <1>2, ItemsOfPlan
  <2>6. SentItems(p)' = SentItems(p) /\ BlockedItems(p) \subseteq BlockedItems(p)'
    BY <2>1, <2>2, <2>4, <2>5 DEF SentItems, BlockedItems
  <2>7. /\ Cardinality(BlockedItems(p)) <= Cardinality(BlockedItems(p)') /\ Cardinality(BlockedItems(p)') \in Nat
        /\ Cardinality(BlockedItems(p)) \in Nat
    <3>1. IsFiniteSet(BlockedItems(p)')
      BY <1>2, UsedCounts, FS_Subset DEF BlockedItems
    <3> QED BY <2>6, <3>1, FS_Subset, FS_CardinalityType
  <2>8. Covered(p)'
    <3>1. Authorized(p)' = Authorized(p) /\ Cardinality(Authorized(p)) \in Nat
      BY <1>1, <1>2, AuthorityCounted DEF Authorized
    <3>2. /\ Cardinality(SentItems(p)) <= Cardinality(Authorized(p))
          /\ plan[p].allowance <= Cardinality(Authorized(p)) + Cardinality(BlockedItems(p)) /\ plan[p].allowance \in Nat
      BY <1>2, RowTyped DEF AuthorityInv, Covered
    <3> QED BY <2>4, <2>6, <2>7, <3>1, <3>2 DEF Covered
  <2> QED BY <1>1, <1>2, <2>3, <2>8, AuthorityRow
<1> QED BY <1>3, <1>4

(* An intent is committed only while the allowance lasts.                  *)
LEMMA AuthorityClaim ==
    ASSUME AuthorityInv, SendInv, NEW r \in Replicas, Claim(r)
    PROVE  AuthorityInv'
<1>0. PICK me : me = replica[r]
  OBVIOUS
<1> DEFINE p == me.at
<1> DEFINE f == me.item
<1>1. me.pc = "claim" /\ granted' = granted
  BY <1>0 DEF Claim
<1>2. p \in Plans /\ Saved(p) /\ f \in Items(p) /\ f \in Failures /\ RecoveryTypes
  BY <1>0, <1>1, LoopTyped DEF LoopFits, SendInv
<1>3. CASE plan' = plan
  BY <1>1, <1>3, AuthorityIdle
<1>4. CASE ~(plan' = plan)
  <2>1. /\ plan[p].dispatch[f] = "pending" /\ Used(p, plan[p]) < plan[p].allowance
        /\ plan' = [plan EXCEPT ![p].dispatch[f] = "dispatching", ![p].outcome[f] = "unknown"]
    BY <1>0, <1>4 DEF Claim
  <2>2. RowStep(p, plan[p].state, plan[p].version, plan[p].allowance, [plan[p].dispatch EXCEPT ![f] = "dispatching"],
                [plan[p].outcome EXCEPT ![f] = "unknown"])
    BY <1>2, <2>1, ItemRow DEF Dispatch, Outcome
  <2>3. /\ plan'[p].dispatch[f] = "dispatching" /\ \A e \in Failures \ {f} : plan'[p].dispatch[e] = plan[p].dispatch[e]
        /\ plan'[p].allowance = plan[p].allowance /\ plan[p].allowance \in Nat
    BY <1>2, <2>2, RowTyped DEF RowStep
  <2>4. Items(p) \subseteq Failures
    BY <1>2, ItemsOfPlan
  <2>5. SentItems(p)' = SentItems(p) \cup {f} /\ BlockedItems(p)' = BlockedItems(p) /\ f \notin SentItems(p)
    BY <1>2, <2>1, <2>3, <2>4 DEF SentItems, BlockedItems
  <2>6. /\ Cardinality(SentItems(p)) \in Nat /\ Cardinality(BlockedItems(p)) \in Nat /\ IsFiniteSet(SentItems(p))
        /\ Used(p, plan[p]) = Cardinality(SentItems(p)) + Cardinality(BlockedItems(p))
    BY <1>2, UsedSplit
  <2>7. Cardinality(SentItems(p)') = Cardinality(SentItems(p)) + 1
    BY <2>5, <2>6, FS_AddElement
  <2>8. Covered(p)'
    <3>1. Authorized(p)' = Authorized(p) /\ Cardinality(Authorized(p)) \in Nat
      BY <1>1, <1>2, AuthorityCounted DEF Authorized
    <3>2. plan[p].allowance <= Cardinality(Authorized(p)) + Cardinality(BlockedItems(p))
      BY <1>2 DEF AuthorityInv, Covered
    <3> QED BY <2>1, <2>3, <2>5, <2>6, <2>7, <3>1, <3>2 DEF Covered
  <2> QED BY <1>1, <1>2, <2>2, <2>8, AuthorityRow
<1> QED BY <1>3, <1>4

(* What becomes of an item that was sent needs no authority.               *)
LEMMA AuthorityItem ==
    ASSUME AuthorityInv, SendInv, NEW p \in Plans, NEW f \in Items(p), plan[p].dispatch[f] \in SentStates, NEW ch, Honest(f, ch),
           ItemChange(p, f, ch), granted' = granted
    PROVE  AuthorityInv'
<1>1. RecoveryTypes /\ f \in Failures /\ Items(p) \subseteq Failures
  BY ItemsOfPlan DEF SendInv
<1>2. CASE plan' = plan
  BY <1>2, AuthorityIdle
<1>3. CASE ~(plan' = plan)
  <2> DEFINE d == Updated(plan[p].dispatch[f], ch.dispatch)
  <2> DEFINE o == Updated(plan[p].outcome[f], ch.outcome)
  <2>1. plan' = [plan EXCEPT ![p].dispatch[f] = Updated(@, ch.dispatch), ![p].outcome[f] = Updated(@, ch.outcome)]
    BY <1>3 DEF ItemChange
  <2>2. plan' = [plan EXCEPT ![p].dispatch[f] = d, ![p].outcome[f] = o]
    BY <1>1, <2>1 DEF RecoveryTypes
  <2>3. plan[p].dispatch[f] \in Dispatch /\ plan[p].outcome[f] \in Outcome
    BY <1>1, RowTyped
  <2>4. ch.dispatch \in {Keep, "unknown", "accepted"} /\ ch.outcome \in Outcome \cup {Keep}
    BY DEF Honest, Change
  <2>5. d \in Dispatch /\ d \in SentStates /\ o \in Outcome
    BY <2>3, <2>4 DEF Updated, SentStates, Dispatch, Keep
  <2> HIDE DEF d, o
  <2>6. RowStep(p, plan[p].state, plan[p].version, plan[p].allowance, [plan[p].dispatch EXCEPT ![f] = d], [plan[p].outcome EXCEPT ![f] = o])
    BY <1>1, <2>2, <2>5, ItemRow
  <2>7. /\ plan'[p].dispatch[f] = d /\ \A e \in Failures \ {f} : plan'[p].dispatch[e] = plan[p].dispatch[e]
        /\ plan'[p].allowance = plan[p].allowance
    BY <1>1, <2>6, RowTyped DEF RowStep
  <2>8. SentItems(p)' = SentItems(p) /\ BlockedItems(p)' = BlockedItems(p)
    BY <1>1, <2>5, <2>7 DEF SentItems, BlockedItems, SentStates
  <2>9. Covered(p)'
    BY <2>7, <2>8, AuthoritySame
  <2> QED BY <1>1, <2>6, <2>9, AuthorityRow
<1> QED BY <1>2, <1>3

(* The answer, or an observation, is written.                              *)
LEMMA AuthorityWrite ==
    ASSUME AuthorityInv, SendInv, NEW r \in Replicas, Record(r) \/ Note(r)
    PROVE  AuthorityInv'
<1>0. PICK me : me = replica[r]
  OBVIOUS
<1>1. me.pc \in {"record", "note"} /\ granted' = granted /\ ItemChange(me.at, me.item, me.change)
  BY <1>0 DEF Record, Note
<1>2. me.at \in Plans /\ me.item \in Items(me.at) /\ plan[me.at].dispatch[me.item] \in SentStates /\ Honest(me.item, me.change)
  BY <1>0, <1>1, LoopTyped DEF LoopFits, Honest
<1> QED BY <1>1, <1>2, AuthorityItem

(* settle.                                                                 *)
LEMMA AuthoritySettle ==
    ASSUME AuthorityInv, SendInv, NEW r \in Replicas, Settle(r)
    PROVE  AuthorityInv'
<1>0. PICK me : me = replica[r]
  OBVIOUS
<1> DEFINE p == me.at
<1>1. me.pc = "observe" /\ granted' = granted
  BY <1>0 DEF Settle
<1>2. p \in Plans /\ RecoveryTypes
  BY <1>0, <1>1, LoopTyped DEF SendInv
<1>3. CASE plan' = plan
  BY <1>1, <1>3, AuthorityIdle
<1>4. CASE ~(plan' = plan)
  <2>1. PICK st \in {"completed", "paused"} : plan' = [plan EXCEPT ![p].version = @ + 1, ![p].state = st]
    BY <1>0, <1>4 DEF Settle
  <2>2. RowStep(p, st, plan[p].version + 1, plan[p].allowance, plan[p].dispatch, plan[p].outcome)
    BY <1>2, <2>1, SettleRow DEF PlanStates
  <2> QED BY <1>1, <1>2, <2>2, AuthorityState
<1> QED BY <1>3, <1>4

(* Every step keeps the authority.                                         *)
LEMMA AuthorityNext ==
    ASSUME AuthorityInv, SendInv, [Next]_vars
    PROVE  AuthorityInv'
<1>1. CASE UNCHANGED vars
  BY <1>1, AuthorityIdle DEF vars
<1>2. ASSUME NEW p \in Plans, Preview(p) \/ Create(p) PROVE AuthorityInv'
  <2>1. PICK st \in {"previewed", "ready"} : plan' = [plan EXCEPT ![p].state = st]
    BY <1>2 DEF Preview, Create
  <2>2. granted' = granted
    BY <1>2 DEF Preview, Create
  <2>3. RecoveryTypes
    BY DEF SendInv
  <2>4. RowStep(p, st, plan[p].version, plan[p].allowance, plan[p].dispatch, plan[p].outcome)
    BY <2>1, <2>3, PreviewRow DEF PlanStates
  <2> QED BY <2>2, <2>3, <2>4, AuthorityState
<1>3. ASSUME NEW p \in Plans, NEW v \in 0 .. plan[p].version, NEW a \in {"stop", "pause", "resume"}, Control(p, a, 0, v)
      PROVE  AuthorityInv'
  BY <1>3, AuthorityControl
<1>4. ASSUME NEW p \in Plans, NEW v \in 0 .. plan[p].version, NEW n \in Counts, Control(p, "batch", n, v)
      PROVE  AuthorityInv'
  <2>1. n \in Nat
    BY RecoveryAssumption
  <2> QED BY <1>4, <2>1, AuthorityControl
<1>5. ASSUME NEW r \in Replicas, Loop(r) \/ Abort(r) PROVE AuthorityInv'
  <2>1. CASE \/ (\E p \in Plans : Due(r, p)) \/ Preflight(r) \/ Send(r) \/ Answer(r) \/ Reread(r)
             \/ (\E f \in Failures : Observe(r, f)) \/ Abort(r)
    <3>1. UNCHANGED <<plan, granted>>
      BY <2>1 DEF Due, Preflight, Send, Answer, Reread, Observe, Abort
    <3> QED BY <3>1, AuthorityIdle
  <2> QED BY <1>5, <2>1, AuthorityBlock, AuthorityClaim, AuthorityWrite, AuthoritySettle DEF Loop
<1>6. ASSUME NEW f \in Failures, Arrive(f) \/ LoseRequest(f) \/ Foreign(f) \/ Finish(f) PROVE AuthorityInv'
  <2>1. UNCHANGED <<plan, granted>>
    BY <1>6 DEF Arrive, LoseRequest, Foreign, Finish
  <2> QED BY <2>1, AuthorityIdle
<1> QED BY <1>1, <1>2, <1>3, <1>4, <1>5, <1>6 DEF Next

(* Nothing is authorized and nothing allowed at the start.                 *)
LEMMA AuthorityStart == Init => AuthorityInv
<1> SUFFICES ASSUME Init PROVE AuthorityInv
  OBVIOUS
<1>1. granted = {} /\ \A p \in Plans : plan[p] = Fresh
  BY DEF Init
<1>2. IsFiniteSet({}) /\ Cardinality({}) = 0
  BY FS_EmptySet
<1>3. ASSUME NEW p \in Plans PROVE Covered(p)
  <2>1. SentItems(p) = {} /\ BlockedItems(p) = {} /\ Authorized(p) = {}
    BY <1>1, ItemsOfPlan DEF SentItems, BlockedItems, Authorized, Fresh
  <2> QED BY <1>1, <1>2, <2>1 DEF Covered, Fresh
<1> QED BY <1>1, <1>2, <1>3 DEF AuthorityInv

(* No failure is sent twice, whatever replicas, repeated controls, lost    *)
(* answers and crashes there are (the intent is committed before _dispatch *)
(* posts), and no plan sends more than the batches authorized that counted.*)
THEOREM SendingIsSound == Spec => []SendingSound
<1>1. Init => SendInv /\ AuthorityInv
  BY SendStart, AuthorityStart
<1>2. SendInv /\ AuthorityInv /\ [Next]_vars => (SendInv /\ AuthorityInv)'
  BY SendNext, AuthorityNext
<1>3. ASSUME SendInv, AuthorityInv PROVE SendingSound
  <2>1. SentOnce
    BY <1>3 DEF SendInv, SentOnce, PostFits
  <2>2. WithinAuthority
    BY <1>3 DEF AuthorityInv, WithinAuthority, Covered, SentItems, Authorized
  <2> QED BY <2>1, <2>2 DEF SendingSound
<1> QED BY <1>1, <1>2, <1>3, PTL DEF Spec

(* What a report says has happened did happen, and no late answer and no   *)
(* other replica's observation takes it back (_item_change).               *)
THEOREM ReportIsSound == Spec => ReportSound
<1>1. Init => SendInv
  BY SendStart
<1>2. SendInv /\ [Next]_vars => SendInv'
  BY SendNext
<1>3. ASSUME SendInv PROVE ReportTrue
  <2>1. \A p \in Plans : RowFits(p) /\ Items(p) \subseteq Failures
    BY <1>3, ItemsOfPlan DEF SendInv
  <2> QED BY <2>1 DEF ReportTrue, RowFits, Backed, Arrived
<1>4. ASSUME SendInv, [Next]_vars
      PROVE  [\A p \in Plans : \A f \in Items(p) :
                /\ plan[p].outcome[f] \in Terminal => plan'[p].outcome[f] = plan[p].outcome[f]
                /\ plan[p].dispatch[f] = "accepted" => plan'[p].dispatch[f] = "accepted"]_vars
  <2>1. RowsStable
    BY <1>4, SendNext
  <2> QED BY <2>1, ItemsOfPlan DEF RowsStable
<1> QED BY <1>1, <1>2, <1>3, <1>4, PTL DEF Spec, ReportSound, ObservedIsFinal
=============================================================================
