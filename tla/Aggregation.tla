----------------------------- MODULE Aggregation -----------------------------
(* AggregationConsumer: status events of child tasks, routed by a hash of    *)
(* the parent to the queues of the workers that serve its shard, handled    *)
(* with retries.  A worker handles as many events at once as its prefetch;  *)
(* an error in one gives all of them back.                                  *)
EXTENDS Naturals, FiniteSets, StudioValues

CONSTANTS
    Children,               \* the child events
    Malformed,              \* those whose body or envelope is invalid
    Shards, ShardOf,        \* ShardOf[e]: the shard of the event's parent
    AggregationQueues,      \* queues, each a set of shards
    AggregationRetries,     \* max_retries of the retry policy
    AggregationPrefetch,
    MaxAggregationFaults    \* bound on broken connections and failed calls

ASSUME AggregationAssumption ==
    /\ Malformed \subseteq Children /\ ShardOf \in [Children -> Shards] /\ AggregationQueues \subseteq SUBSET Shards
    /\ AggregationRetries \in Nat /\ AggregationPrefetch \in Nat \ {0}
    /\ MaxAggregationFaults \in Nat

VARIABLES
    retryPolicyGiven,
    declaredQueues, \* queues a worker has declared and bound
    publications,   \* publications[e, q]: copies of the event made for the queue
    copies,         \* messages: number, event, queue, retry attempt, place, step of their handling
    unpublished,
    reachedQueues,  \* <<event, queue>> of the publication
    aggregated,     \* <<event, queue>> whose handler succeeded
    handlerFailures, \* handlerFailures[e, q]: failed handler calls
    dlqRecords,     \* <<event, queue>> with a record in the DLQ store
    aggregationFaults

aggregationVars == <<retryPolicyGiven, publications, declaredQueues, copies, unpublished, reachedQueues, aggregated, handlerFailures, dlqRecords, aggregationFaults>>

Copy(e, q, attempt, place) ==
    [n |-> publications[<<e, q>>] + 1, event |-> e, queue |-> q, attempt |-> attempt, place |-> place, step |-> "none"]

AggregationInit ==
    /\ retryPolicyGiven \in BOOLEAN /\ publications = [x \in Children \X AggregationQueues |-> 0]
    /\ declaredQueues = {} /\ copies = {} /\ unpublished = Children /\ reachedQueues = {} /\ aggregated = {}
    /\ handlerFailures = [x \in Children \X AggregationQueues |-> 0] /\ dlqRecords = {} /\ aggregationFaults = 0

Without(c) == copies \ {c}
At(c, step) == [c EXCEPT !.step = step]
Held(q) == {c \in copies : c.queue = q /\ c.place = "held"}
Key(c) == <<c.event, c.queue>>
Published(c) == publications' = [publications EXCEPT ![Key(c)] = @ + 1]

-----------------------------------------------------------------------------
(* ensure_aggregation_queue: a queue is named for its shards and bound to  *)
(* each of their keys; publish_aggregation_status reaches those that exist.*)
DeclareQueue(q) ==
    /\ q \notin declaredQueues /\ declaredQueues' = declaredQueues \cup {q}
    /\ UNCHANGED <<retryPolicyGiven, publications, copies, unpublished, reachedQueues, aggregated, handlerFailures, dlqRecords, aggregationFaults>>
PublishAggregation(e) ==
    LET bound == {q \in declaredQueues : ShardOf[e] \in q}     \* keys agg.<shard>
    IN  /\ e \in unpublished /\ unpublished' = unpublished \ {e}
        /\ copies' = copies \cup {Copy(e, q, 0, "ready") : q \in bound}
        /\ reachedQueues' = reachedQueues \cup {<<e, q>> : q \in bound}
        /\ publications' = [x \in DOMAIN publications |-> IF x[1] = e /\ x[2] \in bound THEN 1 ELSE publications[x]]
        /\ UNCHANGED <<retryPolicyGiven, declaredQueues, aggregated, handlerFailures, dlqRecords, aggregationFaults>>

(* The worker of the queue takes a message; what it cannot read goes to    *)
(* the dead-letter queue, or is rejected when nothing is retried.          *)
Receive(c) ==
    /\ c.place = "ready" /\ Cardinality(Held(c.queue)) < AggregationPrefetch
    /\ copies' = Without(c) \cup {At([c EXCEPT !.place = "held"],
                    IF c.event \notin Malformed THEN "handler" ELSE IF retryPolicyGiven THEN "dead" ELSE "reject")}
    /\ UNCHANGED <<retryPolicyGiven, publications, declaredQueues, unpublished, reachedQueues, aggregated, handlerFailures, dlqRecords, aggregationFaults>>

HandlerSucceeds(c) ==
    /\ c.step = "handler" /\ aggregated' = aggregated \cup {Key(c)} /\ copies' = Without(c) \cup {At(c, "ack")}
    /\ UNCHANGED <<retryPolicyGiven, publications, declaredQueues, unpublished, reachedQueues, handlerFailures, dlqRecords, aggregationFaults>>
HandlerFails(c) ==
    /\ c.step = "handler" /\ handlerFailures[Key(c)] < AggregationRetries + 1 + MaxAggregationFaults
    /\ handlerFailures' = [handlerFailures EXCEPT ![Key(c)] = @ + 1]
    /\ copies' = Without(c) \cup {At(c, IF ~retryPolicyGiven THEN "reject"
                                        ELSE IF c.attempt < AggregationRetries THEN "retry" ELSE "dead")}
    /\ UNCHANGED <<retryPolicyGiven, publications, declaredQueues, unpublished, reachedQueues, aggregated, dlqRecords, aggregationFaults>>

(* Seeded fault: acknowledged before the retry is published.               *)
MutantPublishRetry(c) == c.step = "retry" /\ copies' = Without(c)
(* _publish_retry, then the status, which may fail, and the ack.           *)
PublishRetry(c) ==
    c.step = "retry" /\ copies' = Without(c) \cup {At(c, "ack"), Copy(c.event, c.queue, c.attempt + 1, "retry")}
PublishRetryAction(c) ==
    /\ PublishRetry(c) /\ Published(c)
    /\ UNCHANGED <<retryPolicyGiven, declaredQueues, unpublished, reachedQueues, aggregated, handlerFailures, dlqRecords, aggregationFaults>>
PublishDead(c) ==
    /\ c.step = "dead" /\ copies' = Without(c) \cup {At(c, "record"), Copy(c.event, c.queue, c.attempt, "dead")}
    /\ Published(c)
    /\ UNCHANGED <<retryPolicyGiven, declaredQueues, unpublished, reachedQueues, aggregated, handlerFailures, dlqRecords, aggregationFaults>>
(* _persist_dlq_record reports an error of the store and goes on.          *)
PersistRecord(c, stored) ==
    /\ c.step = "record" /\ copies' = Without(c) \cup {At(c, "ack")}
    /\ dlqRecords' = IF stored THEN dlqRecords \cup {Key(c)} ELSE dlqRecords
    /\ UNCHANGED <<retryPolicyGiven, publications, declaredQueues, unpublished, reachedQueues, aggregated, handlerFailures, aggregationFaults>>
AckOrReject(c) ==
    /\ c.step \in {"ack", "reject"} /\ copies' = Without(c)
    /\ UNCHANGED <<retryPolicyGiven, publications, declaredQueues, unpublished, reachedQueues, aggregated, handlerFailures, dlqRecords, aggregationFaults>>

(* The retry queue hands a message back to the queue it came from.         *)
RetryDelayOver(c) ==
    /\ c.place = "retry" /\ copies' = Without(c) \cup {[c EXCEPT !.place = "ready"]}
    /\ UNCHANGED <<retryPolicyGiven, publications, declaredQueues, unpublished, reachedQueues, aggregated, handlerFailures, dlqRecords, aggregationFaults>>

(* A call fails, the worker dies or is cancelled: its channel closes and   *)
(* the broker gives back all it held.                                      *)
ChannelCloses(q) ==
    /\ Held(q) # {} /\ aggregationFaults < MaxAggregationFaults /\ aggregationFaults' = aggregationFaults + 1
    /\ copies' = {IF c \in Held(q) THEN [c EXCEPT !.place = "ready", !.step = "none"] ELSE c : c \in copies}
    /\ UNCHANGED <<retryPolicyGiven, publications, declaredQueues, unpublished, reachedQueues, aggregated, handlerFailures, dlqRecords>>

AggregationNext ==
    \/ \E q \in AggregationQueues : DeclareQueue(q) \/ ChannelCloses(q)
    \/ \E e \in Children : PublishAggregation(e)
    \/ \E c \in copies : \/ Receive(c) \/ HandlerSucceeds(c) \/ HandlerFails(c) \/ PublishRetryAction(c) \/ PublishDead(c)
                         \/ \E stored \in BOOLEAN : PersistRecord(c, stored)
                         \/ AckOrReject(c) \/ RetryDelayOver(c)

AggregationSpec == AggregationInit /\ [][AggregationNext]_aggregationVars

-----------------------------------------------------------------------------
(* Every event that reached the queue of a worker is still on its way      *)
(* there, was aggregated, or is in the dead-letter queue after the handler *)
(* failed as often as the policy allows; without a policy one failed call  *)
(* may drop it.  It never comes back to a queue it was not routed to, and  *)
(* every record in the store has its message.                              *)
AggregationKept ==
    /\ \A x \in reachedQueues :
         \/ x \in aggregated \/ \E c \in copies : Key(c) = x
         \/ ~retryPolicyGiven /\ (x[1] \in Malformed \/ handlerFailures[x] > 0)
    /\ \A c \in copies : /\ Key(c) \in reachedQueues
                         /\ c.place = "dead" /\ c.event \notin Malformed => handlerFailures[Key(c)] > AggregationRetries
    /\ \A x \in dlqRecords : \E c \in copies : Key(c) = x /\ c.place = "dead"
=============================================================================
