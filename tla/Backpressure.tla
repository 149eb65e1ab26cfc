----------------------------- MODULE Backpressure -----------------------------
(* The pressure snapshot of a service: collectors run side by side, at most  *)
(* a few at a time, and the collector of queues inspects its queues the same *)
(* way inside.  A source that fails must not hide another.                   *)
EXTENDS Naturals, Sequences, FiniteSets, SequencesExt

CONSTANTS
    NoData,             \* an inspection or a provider that failed
    Collectors,         \* the collectors in order, "queues", "workers" and "dlq"
    QueueNames,         \* QueueNames[i]: the queues in order, where collector i is one of queues
    CollectorLimit,     \* max_concurrency of the snapshot
    QueueLimit,         \* max_concurrency of a collector of queues
    WarningDepth, CriticalDepth

ASSUME PressureAssumption ==
    /\ Collectors \in Seq({"queues", "workers", "dlq"})
    /\ QueueNames \in [DOMAIN Collectors -> Seq(STRING)]
    /\ {CollectorLimit, QueueLimit} \subseteq Nat \ {0}
    /\ {WarningDepth, CriticalDepth} \subseteq Nat

(* The map over the collectors, 0, and the one inside each collector of     *)
(* queues.                                                                  *)
Maps == {0} \union {i \in DOMAIN Collectors : Collectors[i] = "queues"}

VARIABLES
    mapped,         \* mapped[m]: a map_bounded, [step, next, running, results]
    answered,       \* what each collector was answered, by queue where it is one of queues
    pressure        \* the signals returned; NoData before

pressureVars == <<mapped, answered, pressure>>

Items(m) == IF m = 0 THEN Collectors ELSE QueueNames[m]
Limit(m) == IF m = 0 THEN CollectorLimit ELSE QueueLimit
NoMap == [step |-> "none", next |-> 1, running |-> {}, results |-> <<>>]

PressureInit ==
    /\ mapped = [m \in Maps |-> NoMap]
    /\ answered = [i \in DOMAIN Collectors |->
                       IF Collectors[i] = "queues" THEN [j \in DOMAIN QueueNames[i] |-> NoData] ELSE NoData]
    /\ pressure = NoData

-----------------------------------------------------------------------------
(* map_bounded: the tasks created take the items in turn; each puts its    *)
(* result in the place of its item and takes the next.                     *)
Taken(m, state) ==
    LET free == Limit(m) - Cardinality(state.running)
        left == Len(Items(m)) + 1 - state.next
        n == IF free < left THEN free ELSE left
    IN  [state EXCEPT !.next = @ + n, !.running = @ \union state.next..(state.next + n - 1)]

Opened(m) == Taken(m, [step |-> "run", next |-> 1, running |-> {}, results |-> [i \in DOMAIN Items(m) |-> <<>>]])

(* Seeded fault: results in the order they come in.                        *)
MutantReturned(m, i, result) ==
    Taken(m, [mapped[m] EXCEPT !.running = @ \ {i},
                  !.results = SubSeq(@, 2, Len(@)) \o <<result>>])
Returned(m, i, result) ==
    Taken(m, [mapped[m] EXCEPT !.running = @ \ {i}, !.results = [@ EXCEPT ![i] = result]])

MapComplete(state) == state.running = {} /\ state.next > Len(state.results)

-----------------------------------------------------------------------------
Signal(kind, scope, severity) == [kind |-> kind, scope |-> scope, severity |-> severity]

(* severity_for_thresholds                                                 *)
Severity(value) ==
    IF value >= CriticalDepth THEN "critical" ELSE IF value >= WarningDepth THEN "warning" ELSE "normal"

(* QueuePressureCollector on one queue.                                    *)
QueueSignals(queue, answer) ==
    IF answer = NoData THEN <<Signal("queue_inspection_unavailable", queue, "unknown")>>
    ELSE <<Signal("queue_depth_high", queue, Severity(answer.depth))>>
         \o (IF answer.consumers = 0 THEN <<Signal("consumer_count_zero", queue, "critical")>> ELSE <<>>)

(* WorkerHealthPressureCollector: up to two signals of each worker.        *)
OneWorker(w) ==
    (IF w.stale \/ ~w.running
     THEN <<Signal(IF w.stale THEN "worker_heartbeat_stale" ELSE "worker_not_running", "worker", "warning")>>
     ELSE <<>>)
    \o (IF w.expired THEN <<Signal("lease_expiry_rate_high", "worker", "warning")>> ELSE <<>>)
WorkerSignals(workers) ==
    IF workers = <<>> THEN <<Signal("worker_count_zero", "workers", "unknown")>>
    ELSE FlattenSeq([i \in DOMAIN workers |-> OneWorker(workers[i])])

(* DLQPressureCollector, with one dead-letter queue.                       *)
DlqSignals(answer) == <<Signal("dlq_growth_high", "dlq", Severity(answer))>>

Unavailable(collector) == <<Signal("pressure_collector_unavailable", collector, "unknown")>>

-----------------------------------------------------------------------------
(* A snapshot is asked for.                                                *)
AskSnapshot ==
    /\ mapped[0].step = "none"
    /\ mapped' = [mapped EXCEPT ![0] = Opened(0)]
    /\ UNCHANGED <<answered, pressure>>

Under(i, collector) == i \in mapped[0].running /\ Collectors[i] = collector

(* A collector of queues begins its own map.                               *)
BeginQueues(i) ==
    /\ Under(i, "queues") /\ mapped[i].step = "none"
    /\ mapped' = [mapped EXCEPT ![i] = Opened(i)]
    /\ UNCHANGED <<answered, pressure>>

QueueAnswers == {NoData} \union [depth : 0..CriticalDepth, consumers : 0..1]
InspectQueue(i, j) ==
    /\ Collectors[i] = "queues" /\ mapped[i].step = "run" /\ j \in mapped[i].running
    /\ \E answer \in QueueAnswers :
           /\ mapped' = [mapped EXCEPT ![i] = Returned(i, j, QueueSignals(QueueNames[i][j], answer))]
           /\ answered' = [answered EXCEPT ![i] = [@ EXCEPT ![j] = answer]]
    /\ UNCHANGED pressure

Collected(i, signals) == mapped' = [mapped EXCEPT ![0] = Returned(0, i, signals)]

QueuesCollected(i) ==
    /\ Under(i, "queues") /\ mapped[i].step = "run" /\ MapComplete(mapped[i])
    /\ Collected(i, FlattenSeq(mapped[i].results))
    /\ UNCHANGED <<answered, pressure>>

WorkerAnswers == {NoData, <<>>} \union {<<w>> : w \in [stale : BOOLEAN, running : BOOLEAN, expired : BOOLEAN]}
WorkersCollected(i) ==
    /\ Under(i, "workers")
    /\ \E answer \in WorkerAnswers :
           /\ Collected(i, IF answer = NoData THEN Unavailable("workers") ELSE WorkerSignals(answer))
           /\ answered' = [answered EXCEPT ![i] = answer]
    /\ UNCHANGED pressure

DlqCollected(i) ==
    /\ Under(i, "dlq")
    /\ \E answer \in {NoData} \union 0..CriticalDepth :
           /\ Collected(i, IF answer = NoData THEN Unavailable("dlq") ELSE DlqSignals(answer))
           /\ answered' = [answered EXCEPT ![i] = answer]
    /\ UNCHANGED pressure

(* gather returns and the batches are put together.                        *)
SnapshotDone ==
    /\ mapped[0].step = "run" /\ MapComplete(mapped[0])
    /\ pressure' = FlattenSeq(mapped[0].results)
    /\ mapped' = [m \in Maps |-> [mapped[m] EXCEPT !.step = "done"]]
    /\ UNCHANGED answered

(* The request is cancelled: every task of every map is cancelled and      *)
(* awaited before the error leaves.                                        *)
CancelSnapshot ==
    /\ mapped[0].step = "run"
    /\ mapped' = [m \in Maps |-> [NoMap EXCEPT !.step = "done"]]
    /\ UNCHANGED <<answered, pressure>>

PressureNext ==
    \/ AskSnapshot \/ SnapshotDone \/ CancelSnapshot
    \/ \E i \in DOMAIN Collectors :
           \/ BeginQueues(i) \/ QueuesCollected(i) \/ WorkersCollected(i) \/ DlqCollected(i)
           \/ \E j \in DOMAIN QueueNames[i] : InspectQueue(i, j)

PressureSpec == PressureInit /\ [][PressureNext]_pressureVars

-----------------------------------------------------------------------------
(* Whatever order the collectors and inspections end in, and whichever of  *)
(* them fail, a snapshot lists what each source said or that it was not    *)
(* available, each queue of each collector in the order configured; and    *)
(* no map has more than its limit under way.                               *)
Expected(i) ==
    CASE Collectors[i] = "queues" ->
            FlattenSeq([j \in DOMAIN QueueNames[i] |-> QueueSignals(QueueNames[i][j], answered[i][j])])
      [] Collectors[i] = "workers" ->
            IF answered[i] = NoData THEN Unavailable("workers") ELSE WorkerSignals(answered[i])
      [] Collectors[i] = "dlq" -> IF answered[i] = NoData THEN Unavailable("dlq") ELSE DlqSignals(answered[i])

PressureReported ==
    /\ pressure # NoData => pressure = FlattenSeq([i \in DOMAIN Collectors |-> Expected(i)])
    /\ \A m \in Maps : Cardinality(mapped[m].running) <= Limit(m)
=============================================================================
