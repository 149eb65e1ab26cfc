---------------------------- MODULE TaskConsumer ----------------------------
(* The path of a task message through relayna's TaskConsumer               *)
(* (src/relayna/consumer/task_consumer.py), the RabbitMQ queues it uses    *)
(* and the Redis task lease around the handler.                            *)
(*                                                                         *)
(* A worker is one handler slot of a consumer: it holds at most one        *)
(* delivery at a time.  Every await that changes state another party can   *)
(* see (publish, ack, reject, lease command) is a step of its own, so that *)
(* a crash, a cancellation, a broker error or a lost channel can fall      *)
(* between any two of them.  Status publications are left out: the code    *)
(* swallows their errors, so they never influence the path of a message.   *)
EXTENDS Naturals, FiniteSets

CONSTANTS
    Workers,        \* handler slots
    Tasks,          \* task ids
    Owners,         \* lease owner ids
    Owner,          \* lease_owner_id of each worker; it defaults to consumer_name,
                    \* so several workers may share one
    NoOwner,        \* an absent lease key
    Submissions,    \* what the producers publish, each once: [kind, items]
    Retrying,       \* workers whose consumer has a retry policy (the others pass None)
    MaxRetries,     \* retry_policy.max_retries
    FailureAction,  \* per worker "reject" or "requeue", used without a retry policy
    LeaseEnabled,   \* lease_policy.enabled and a lease_store is configured
    MaxManual,      \* bound: manual retries a handler asks for along one chain
    MaxFaults       \* bound: crashes, cancellations, errors, lost channels, late heartbeats

ASSUME OwnerAssumption == NoOwner \notin Owners /\ Owner \in [Workers -> Owners]

(* "bad" is a body that is not JSON, fails envelope validation, or is a    *)
(* batch mixing task types in a routed topology.                           *)
Kinds == {"task", "batch", "bad"}

ASSUME SubmissionAssumption ==
    \A s \in Submissions :
        /\ s \in [kind : Kinds, items : SUBSET Tasks]
        /\ s.items # {}
        /\ s.kind # "batch" => \E t \in Tasks : s.items = {t}

ASSUME BoundAssumption ==
    /\ MaxRetries \in Nat
    /\ MaxManual \in Nat
    /\ MaxFaults \in Nat
    /\ Retrying \subseteq Workers
    /\ LeaseEnabled \in BOOLEAN
    /\ FailureAction \in [Workers -> {"reject", "requeue"}]

(* A published message: attempt is the x-relayna-retry-attempt header and  *)
(* manual the x-relayna-manual-retry-count header.                         *)
Message == [id : Nat, kind : Kinds, items : SUBSET Tasks, attempt : Nat, manual : Nat]

NoMessage == [id |-> 0, kind |-> "bad", items |-> {}, attempt |-> 0, manual |-> 0]

VARIABLES
    unsent,     \* submissions no producer has published yet
    lastId,     \* ids given to messages so far
    tasksQ,     \* messages ready in the tasks queue
    retryQ,     \* messages waiting in the delayed retry queue
    dlq,        \* messages in the dead-letter queue
    records,    \* task ids with a dead-letter record in the Redis DLQ store
    pc,         \* where each worker is in _handle_message
    msg,        \* the message each worker handles
    held,       \* whether the broker still counts that delivery as unacked
    todo,       \* batch items not fanned out yet
    after,      \* what _process_task_with_lease does once its finally block ends
    lease,      \* owner stored under each task's lease key
    completed,  \* history: tasks whose handler returned normally
    dropped,    \* history: tasks rejected without requeue
    failed,     \* history: <<task, manual, attempt>> whose processing raised
    late,       \* history: tasks whose lease expired under a live holder
    faults      \* faults injected so far

queues == <<tasksQ, retryQ, dlq>>
history == <<completed, dropped, failed, late>>
vars == <<unsent, lastId, queues, records, pc, msg, held, todo, after, lease, history, faults>>

PCs == {"idle", "received", "bury", "fanout", "acquire", "handler", "manual", "failed",
        "retried", "buried", "persisted", "release", "delete", "ack", "raised"}

TypeOK ==
    /\ unsent \subseteq Submissions
    /\ lastId \in Nat
    /\ tasksQ \subseteq Message
    /\ retryQ \subseteq Message
    /\ dlq \subseteq Message
    /\ records \subseteq Tasks
    /\ pc \in [Workers -> PCs]
    /\ msg \in [Workers -> Message]
    /\ held \in [Workers -> BOOLEAN]
    /\ todo \in [Workers -> SUBSET Tasks]
    /\ after \in [Workers -> {"ack", "done", "raise"}]
    /\ lease \in [Tasks -> Owners \cup {NoOwner}]
    /\ completed \subseteq Tasks
    /\ dropped \subseteq Tasks
    /\ failed \subseteq Tasks \X Nat \X Nat
    /\ late \subseteq Tasks
    /\ faults \in Nat

Init ==
    /\ unsent = Submissions
    /\ lastId = 0
    /\ tasksQ = {} /\ retryQ = {} /\ dlq = {}
    /\ records = {}
    /\ pc = [w \in Workers |-> "idle"]
    /\ msg = [w \in Workers |-> NoMessage]
    /\ held = [w \in Workers |-> FALSE]
    /\ todo = [w \in Workers |-> {}]
    /\ after = [w \in Workers |-> "done"]
    /\ lease = [t \in Tasks |-> NoOwner]
    /\ completed = {} /\ dropped = {} /\ failed = {} /\ late = {}
    /\ faults = 0

-----------------------------------------------------------------------------
(* Seeded fault: the budget is compared with <=, one attempt too many.     *)
MutantDecideOffByOne(w, attempt) ==
    IF w \notin Retrying THEN FailureAction[w]
    ELSE IF attempt <= MaxRetries THEN "retry" ELSE "dead_letter"

(* StaticRetryDecisionPolicy.decide: what to do with a failed attempt.     *)
Decide(w, attempt) ==
    IF w \notin Retrying THEN FailureAction[w]
    ELSE IF attempt < MaxRetries THEN "retry" ELSE "dead_letter"

(* A copy of m as publish_raw_to_queue sends it: a new broker message with *)
(* these retry headers.                                                    *)
Copy(m, attempt, manual) ==
    [id |-> lastId + 1, kind |-> m.kind, items |-> m.items, attempt |-> attempt, manual |-> manual]

Goto(w, label) == pc' = [pc EXCEPT ![w] = label]

(* The slot is free again: the message reference is gone.                  *)
Free(w) ==
    /\ Goto(w, "idle")
    /\ msg' = [msg EXCEPT ![w] = NoMessage]
    /\ held' = [held EXCEPT ![w] = FALSE]
    /\ todo' = [todo EXCEPT ![w] = {}]
    /\ after' = [after EXCEPT ![w] = "done"]

(* The worker is between a successful lease acquire and the release.       *)
InLease(w) ==
    /\ LeaseEnabled
    /\ msg[w].kind = "task"
    /\ pc[w] \in {"handler", "manual", "failed", "retried", "buried", "persisted",
                  "release", "delete"}

(* _process_task_with_lease is over: _handle_message_impl acks, has nothing *)
(* left to do, or the exception leaves the consume loop.                   *)
Proceed(w, how, stillHeld) ==
    IF how = "done" THEN Free(w)
    ELSE /\ Goto(w, IF how = "ack" THEN "ack" ELSE "raised")
         /\ held' = [held EXCEPT ![w] = stillHeld]
         /\ after' = [after EXCEPT ![w] = how]
         /\ UNCHANGED <<msg, todo>>

(* _process_task returned or raised: with a lease, the finally block of    *)
(* _process_task_with_lease runs first.                                    *)
Leave(w, how, stillHeld) ==
    IF InLease(w)
    THEN /\ Goto(w, "release")
         /\ held' = [held EXCEPT ![w] = stillHeld]
         /\ after' = [after EXCEPT ![w] = how]
         /\ UNCHANGED <<msg, todo>>
    ELSE Proceed(w, how, stillHeld)

-----------------------------------------------------------------------------
(* A producer publishes a task, a batch or a body consumers cannot parse.  *)
Submit(s) ==
    /\ s \in unsent
    /\ unsent' = unsent \ {s}
    /\ lastId' = lastId + 1
    /\ tasksQ' = tasksQ \cup {Copy(s, 0, 0)}
    /\ UNCHANGED <<retryQ, dlq, records, pc, msg, held, todo, after, lease, history, faults>>

(* The broker delivers a ready message to a free slot.                     *)
Deliver(w, m) ==
    /\ pc[w] = "idle"
    /\ m \in tasksQ
    /\ tasksQ' = tasksQ \ {m}
    /\ msg' = [msg EXCEPT ![w] = m]
    /\ held' = [held EXCEPT ![w] = TRUE]
    /\ Goto(w, "received")
    /\ UNCHANGED <<unsent, lastId, retryQ, dlq, records, todo, after, lease, history, faults>>

(* The retry queue's message TTL ran out: the broker dead-letters the      *)
(* message back to the source queue.                                       *)
RetryDelayElapsed(m) ==
    /\ m \in retryQ
    /\ retryQ' = retryQ \ {m}
    /\ tasksQ' = tasksQ \cup {m}
    /\ UNCHANGED <<unsent, lastId, dlq, records, pc, msg, held, todo, after, lease, history, faults>>

(* _handle_message_impl up to _process_task_with_lease: what the body is.  *)
Parse(w) ==
    /\ pc[w] = "received"
    /\ \/ /\ msg[w].kind = "task"
          /\ Goto(w, IF LeaseEnabled THEN "acquire" ELSE "handler")
          /\ UNCHANGED todo
       \/ /\ msg[w].kind = "batch" /\ w \in Retrying
          /\ Goto(w, "fanout")
          /\ todo' = [todo EXCEPT ![w] = msg[w].items]
       \/ /\ msg[w].kind = "bad" /\ w \in Retrying
          /\ Goto(w, "bury")
          /\ UNCHANGED todo
    /\ UNCHANGED <<unsent, lastId, queues, records, msg, held, after, lease, history, faults>>

(* Without a retry policy a body that is no task is rejected for good.     *)
RejectUnusable(w) ==
    /\ pc[w] = "received"
    /\ msg[w].kind # "task" /\ w \notin Retrying
    /\ held[w]
    /\ dropped' = dropped \cup msg[w].items
    /\ Free(w)
    /\ UNCHANGED <<unsent, lastId, queues, records, lease, completed, failed, late, faults>>

(* Seeded fault: the item is published but not ticked off.                 *)
MutantFanOutTwice(w, t) ==
    /\ pc[w] = "fanout"
    /\ t \in todo[w]
    /\ lastId < 4
    /\ lastId' = lastId + 1
    /\ tasksQ' = tasksQ \cup {Copy([kind |-> "task", items |-> {t}], 0, 0)}
    /\ \/ UNCHANGED todo
       \/ todo' = [todo EXCEPT ![w] = @ \ {t}]
    /\ UNCHANGED <<unsent, retryQ, dlq, records, pc, msg, held, after, lease, history, faults>>

(* One publish_task call of _handle_batch_message; map_bounded runs them   *)
(* concurrently, hence in any order.  The items carry no retry headers.    *)
FanOut(w, t) ==
    /\ pc[w] = "fanout"
    /\ t \in todo[w]
    /\ todo' = [todo EXCEPT ![w] = @ \ {t}]
    /\ lastId' = lastId + 1
    /\ tasksQ' = tasksQ \cup {Copy([kind |-> "task", items |-> {t}], 0, 0)}
    /\ UNCHANGED <<unsent, retryQ, dlq, records, pc, msg, held, after, lease, history, faults>>

(* Seeded fault: the batch is acked before its items are published.        *)
MutantAckBatchEarly(w) ==
    /\ pc[w] = "fanout"
    /\ held[w]
    /\ Free(w)
    /\ UNCHANGED <<unsent, lastId, queues, records, lease, history, faults>>

(* The batch message is acked once every item is published.                *)
AckBatch(w) ==
    /\ pc[w] = "fanout"
    /\ todo[w] = {}
    /\ held[w]
    /\ Free(w)
    /\ UNCHANGED <<unsent, lastId, queues, records, lease, history, faults>>

TaskOf(w) == CHOOSE t \in Tasks : msg[w].items = {t}

(* Seeded fault: the lease key is SET without NX.                          *)
MutantAcquireWithoutNX(w) ==
    /\ pc[w] = "acquire"
    /\ lease' = [lease EXCEPT ![TaskOf(w)] = Owner[w]]
    /\ Goto(w, "handler")
    /\ UNCHANGED <<unsent, lastId, queues, records, msg, held, todo, after, history, faults>>

(* lease_store.acquire succeeds: SET NX on the lease key.                  *)
AcquireLease(w) ==
    /\ pc[w] = "acquire"
    /\ lease[TaskOf(w)] = NoOwner
    /\ lease' = [lease EXCEPT ![TaskOf(w)] = Owner[w]]
    /\ Goto(w, "handler")
    /\ UNCHANGED <<unsent, lastId, queues, records, msg, held, todo, after, history, faults>>

(* The key exists: the delivery goes back to the queue.                    *)
LeaseConflict(w) ==
    /\ pc[w] = "acquire"
    /\ lease[TaskOf(w)] # NoOwner
    /\ held[w]
    /\ tasksQ' = tasksQ \cup {msg[w]}
    /\ Free(w)
    /\ UNCHANGED <<unsent, lastId, retryQ, dlq, records, lease, history, faults>>

(* The handler returns; the completed status is published best effort.     *)
HandlerReturns(w) ==
    /\ pc[w] = "handler"
    /\ completed' = completed \cup msg[w].items
    /\ Leave(w, "ack", held[w])
    /\ UNCHANGED <<unsent, lastId, queues, records, lease, dropped, failed, late, faults>>

(* The handler called context.manual_retry.                                *)
HandlerAsksManualRetry(w) ==
    /\ pc[w] = "handler"
    /\ msg[w].manual < MaxManual
    /\ Goto(w, "manual")
    /\ UNCHANGED <<unsent, lastId, queues, records, msg, held, todo, after, lease, history, faults>>

(* Seeded fault: a manual retry takes one attempt off instead of starting  *)
(* over.                                                                   *)
MutantManualKeepsAttempt(w) ==
    /\ pc[w] = "manual"
    /\ lastId' = lastId + 1
    /\ tasksQ' = tasksQ \cup {[Copy(msg[w], 0, msg[w].manual + 1) EXCEPT !.attempt = msg[w].attempt - 1]}
    /\ Leave(w, "ack", held[w])
    /\ UNCHANGED <<unsent, retryQ, dlq, records, lease, history, faults>>

(* _publish_manual_retry_request: the task is published again with the     *)
(* manual count raised and the retry-attempt header removed.               *)
PublishManualRetry(w) ==
    /\ pc[w] = "manual"
    /\ lastId' = lastId + 1
    /\ tasksQ' = tasksQ \cup {Copy(msg[w], 0, msg[w].manual + 1)}
    /\ Leave(w, "ack", held[w])
    /\ UNCHANGED <<unsent, retryQ, dlq, records, lease, history, faults>>

(* The handler, or the manual-retry publish inside the same try, raises.   *)
HandlerRaises(w) ==
    /\ pc[w] \in {"handler", "manual"}
    /\ failed' = failed \cup {<<TaskOf(w), msg[w].manual, msg[w].attempt>>}
    /\ Goto(w, "failed")
    /\ UNCHANGED <<unsent, lastId, queues, records, msg, held, todo, after, lease, completed, dropped, late, faults>>

(* No retry policy: the failed delivery is rejected, back to the queue     *)
(* only with FailureAction.REQUEUE.                                        *)
RejectFailed(w) ==
    /\ pc[w] = "failed"
    /\ Decide(w, msg[w].attempt) \in {"reject", "requeue"}
    /\ held[w]
    /\ IF FailureAction[w] = "requeue"
       THEN tasksQ' = tasksQ \cup {msg[w]} /\ UNCHANGED dropped
       ELSE dropped' = dropped \cup msg[w].items /\ UNCHANGED tasksQ
    /\ Leave(w, "done", FALSE)
    /\ UNCHANGED <<unsent, lastId, retryQ, dlq, records, lease, completed, failed, late, faults>>

(* _publish_retry: a copy with the next attempt goes to the retry queue.   *)
PublishRetry(w) ==
    /\ pc[w] = "failed"
    /\ Decide(w, msg[w].attempt) = "retry"
    /\ lastId' = lastId + 1
    /\ retryQ' = retryQ \cup {Copy(msg[w], msg[w].attempt + 1, msg[w].manual)}
    /\ Goto(w, "retried")
    /\ UNCHANGED <<unsent, tasksQ, dlq, records, msg, held, todo, after, lease, history, faults>>

(* _publish_dead_letter: the copy goes to the dead-letter queue, for an    *)
(* exhausted task or for a body that is no task.                           *)
PublishDeadLetter(w) ==
    /\ \/ pc[w] = "failed" /\ Decide(w, msg[w].attempt) = "dead_letter"
       \/ pc[w] = "bury"
    /\ lastId' = lastId + 1
    /\ dlq' = dlq \cup {Copy(msg[w], msg[w].attempt, msg[w].manual)}
    /\ Goto(w, "buried")
    /\ UNCHANGED <<unsent, tasksQ, retryQ, records, msg, held, todo, after, lease, history, faults>>

(* _persist_dlq_record: its errors are swallowed, the record may be absent.*)
PersistDLQRecord(w) ==
    /\ pc[w] = "buried"
    /\ \/ records' = records \cup msg[w].items
       \/ UNCHANGED records
    /\ Goto(w, "persisted")
    /\ UNCHANGED <<unsent, lastId, queues, msg, held, todo, after, lease, history, faults>>

(* Seeded fault: the failed delivery is acked before its copy is published.*)
MutantAckBeforePublish(w) ==
    /\ pc[w] \in {"failed", "retried", "persisted"}
    /\ held[w]
    /\ Leave(w, "done", FALSE)
    /\ UNCHANGED <<unsent, lastId, queues, records, lease, history, faults>>

(* The original delivery is acked after its copy is safe elsewhere.        *)
AckRelocated(w) ==
    /\ pc[w] \in {"retried", "persisted"}
    /\ held[w]
    /\ Leave(w, "done", FALSE)
    /\ UNCHANGED <<unsent, lastId, queues, records, lease, history, faults>>

(* Seeded fault: the release waits for a lease that is no longer ours.     *)
MutantReleaseInsists(w) ==
    /\ pc[w] = "release"
    /\ lease[TaskOf(w)] = Owner[w]
    /\ Goto(w, "delete")
    /\ UNCHANGED <<unsent, lastId, queues, records, msg, held, todo, after, lease, history, faults>>

(* release: GET the lease; it is left alone unless it carries our owner id.*)
ReleaseRead(w) ==
    /\ pc[w] = "release"
    /\ IF lease[TaskOf(w)] = Owner[w]
       THEN Goto(w, "delete") /\ UNCHANGED <<msg, held, todo, after>>
       ELSE Proceed(w, after[w], held[w])
    /\ UNCHANGED <<unsent, lastId, queues, records, lease, history, faults>>

(* release: the pipeline deletes the key, whoever owns it by now.          *)
ReleaseDelete(w) ==
    /\ pc[w] = "delete"
    /\ lease' = [lease EXCEPT ![TaskOf(w)] = NoOwner]
    /\ Proceed(w, after[w], held[w])
    /\ UNCHANGED <<unsent, lastId, queues, records, history, faults>>

(* _handle_message_impl acks a processed delivery after the lease release. *)
AckProcessed(w) ==
    /\ pc[w] = "ack"
    /\ held[w]
    /\ Free(w)
    /\ UNCHANGED <<unsent, lastId, queues, records, lease, history, faults>>

-----------------------------------------------------------------------------
(* The broker takes an unacked delivery back.                              *)
Requeued(w) == IF held[w] THEN {msg[w]} ELSE {}

(* ack or reject on a delivery the broker has taken back raises.           *)
StaleDelivery(w) ==
    /\ ~held[w]
    /\ \/ pc[w] \in {"retried", "persisted", "ack"}
       \/ pc[w] = "fanout" /\ todo[w] = {}
       \/ pc[w] = "received" /\ msg[w].kind # "task" /\ w \notin Retrying
       \/ pc[w] = "acquire" /\ lease[TaskOf(w)] # NoOwner
       \/ pc[w] = "failed" /\ Decide(w, msg[w].attempt) \in {"reject", "requeue"}
    /\ Leave(w, "raise", FALSE)
    /\ UNCHANGED <<unsent, lastId, queues, records, lease, history, faults>>

(* run_forever: the exception left the iterator and the channel is closed. *)
CloseChannel(w) ==
    /\ pc[w] = "raised"
    /\ tasksQ' = tasksQ \cup Requeued(w)
    /\ Free(w)
    /\ UNCHANGED <<unsent, lastId, retryQ, dlq, records, lease, history, faults>>

Fault == faults < MaxFaults /\ faults' = faults + 1

(* A broker or Redis call raises, or the worker's task is cancelled.       *)
Interrupt(w) ==
    /\ pc[w] \notin {"idle", "raised", "release", "delete"}
    /\ Leave(w, "raise", held[w])
    /\ Fault
    /\ UNCHANGED <<unsent, lastId, queues, records, lease, history>>

(* Awaiting a failed heartbeat task, or the release itself, raises: the    *)
(* lease key stays and the exception replaces the result.                  *)
ReleaseRaises(w) ==
    /\ pc[w] \in {"release", "delete"}
    /\ Proceed(w, "raise", held[w])
    /\ Fault
    /\ UNCHANGED <<unsent, lastId, queues, records, lease, history>>

(* acquire: the SET NX took the key, then the index pipeline raised before *)
(* the worker entered the block that releases it.                          *)
AcquireRaises(w) ==
    /\ pc[w] = "acquire"
    /\ lease[TaskOf(w)] = NoOwner
    /\ lease' = [lease EXCEPT ![TaskOf(w)] = Owner[w]]
    /\ Proceed(w, "raise", held[w])
    /\ Fault
    /\ UNCHANGED <<unsent, lastId, queues, records, history>>

(* The process dies.  Its lease stays until its TTL.                       *)
Crash(w) ==
    /\ pc[w] # "idle"
    /\ tasksQ' = tasksQ \cup Requeued(w)
    /\ Free(w)
    /\ Fault
    /\ UNCHANGED <<unsent, lastId, retryQ, dlq, records, lease, history>>

(* The channel is lost under a running handler: the broker requeues the    *)
(* delivery while the worker goes on with it.                              *)
LoseChannel(w) ==
    /\ held[w]
    /\ tasksQ' = tasksQ \cup {msg[w]}
    /\ held' = [held EXCEPT ![w] = FALSE]
    /\ Fault
    /\ UNCHANGED <<unsent, lastId, retryQ, dlq, records, pc, msg, todo, after, lease, history>>

(* Some live worker heartbeats the lease of t under its owner id.          *)
Heartbeated(t) == \E w \in Workers : InLease(w) /\ msg[w].items = {t} /\ Owner[w] = lease[t]

(* The lease key expires: always when nobody heartbeats it, and as a fault *)
(* when the heartbeats come too late.                                      *)
ExpireOrphan(t) ==
    /\ lease[t] # NoOwner
    /\ ~Heartbeated(t)
    /\ lease' = [lease EXCEPT ![t] = NoOwner]
    /\ UNCHANGED <<unsent, lastId, queues, records, pc, msg, held, todo, after, history, faults>>

ExpireUnderOwner(t) ==
    /\ lease[t] # NoOwner
    /\ Heartbeated(t)
    /\ lease' = [lease EXCEPT ![t] = NoOwner]
    /\ late' = late \cup {t}
    /\ Fault
    /\ UNCHANGED <<unsent, lastId, queues, records, pc, msg, held, todo, after,
                   completed, dropped, failed>>

-----------------------------------------------------------------------------
(* What a worker's own code does next once it has a delivery.              *)
WorkerStep(w) ==
    \/ Parse(w) \/ RejectUnusable(w)
    \/ \E t \in Tasks : FanOut(w, t)
    \/ AckBatch(w)
    \/ AcquireLease(w) \/ LeaseConflict(w)
    \/ HandlerReturns(w) \/ HandlerAsksManualRetry(w) \/ PublishManualRetry(w)
    \/ HandlerRaises(w) \/ RejectFailed(w)
    \/ PublishRetry(w) \/ PublishDeadLetter(w) \/ PersistDLQRecord(w)
    \/ AckRelocated(w)
    \/ ReleaseRead(w) \/ ReleaseDelete(w)
    \/ AckProcessed(w)
    \/ StaleDelivery(w) \/ CloseChannel(w)

FaultStep(w) ==
    \/ Interrupt(w) \/ ReleaseRaises(w) \/ AcquireRaises(w) \/ Crash(w) \/ LoseChannel(w)

Next ==
    \/ \E s \in Submissions : Submit(s)
    \/ \E w \in Workers : \E m \in tasksQ : Deliver(w, m)
    \/ \E m \in retryQ : RetryDelayElapsed(m)
    \/ \E w \in Workers : WorkerStep(w)
    \/ \E w \in Workers : FaultStep(w)
    \/ \E t \in Tasks : ExpireOrphan(t) \/ ExpireUnderOwner(t)

Spec == Init /\ [][Next]_vars

(* A ready message of t reaches some free slot.                            *)
DeliverTask(t) == \E w \in Workers : \E m \in tasksQ : t \in m.items /\ Deliver(w, m)

(* The event loop runs every worker (weak fairness); the queue is FIFO, so *)
(* a ready message is not passed over for ever though the slots are        *)
(* sometimes all busy (strong fairness); the broker's and Redis's timers   *)
(* fire.  Producers, faults and late heartbeats are never forced.          *)
Fairness ==
    /\ \A w \in Workers : WF_vars(WorkerStep(w))
    /\ \A t \in Tasks : SF_vars(DeliverTask(t))
    /\ WF_vars(\E m \in retryQ : RetryDelayElapsed(m))
    /\ \A t \in Tasks : WF_vars(ExpireOrphan(t))

FairSpec == Spec /\ Fairness

-----------------------------------------------------------------------------
Submitted == UNION {s.items : s \in Submissions \ unsent}

Queued == tasksQ \cup retryQ \cup dlq

(* The tasks only this worker's delivery stands for: nothing has been      *)
(* published for them yet and the broker will hand them out again if the   *)
(* delivery is given up.                                                   *)
Carried(w) ==
    IF ~held[w] \/ pc[w] \in {"idle", "retried", "buried", "persisted", "ack"}
                \/ (pc[w] \in {"release", "delete"} /\ after[w] = "ack")
    THEN {}
    ELSE IF pc[w] = "fanout" THEN todo[w] ELSE msg[w].items

(* No submitted task is ever lost, whatever crash, cancellation, broker or *)
(* Redis error or channel loss falls between two awaits of                 *)
(* _handle_message: it is in a queue, in the care of a worker whose        *)
(* delivery is still unacked, processed, or rejected - which only a worker *)
(* without a retry policy does.  This is what publishing before acking     *)
(* buys.                                                                   *)
NoTaskLost ==
    \A t \in Submitted :
        \/ \E m \in Queued : t \in m.items
        \/ \E w \in Workers : t \in Carried(w)
        \/ t \in completed
        \/ t \in dropped /\ Retrying # Workers

(* A task is dead-lettered only after its whole retry budget: processing   *)
(* raised once for every attempt 0..MaxRetries since the last manual       *)
(* retry, and no message ever carries an attempt beyond MaxRetries.        *)
DeadLetterExhausted ==
    /\ \A m \in dlq : m.kind = "task" =>
          /\ m.attempt = MaxRetries
          /\ \A t \in m.items : \A k \in 0 .. MaxRetries : <<t, m.manual, k>> \in failed
    /\ \A m \in Queued : m.attempt <= MaxRetries

(* Duplicates come from faults alone: while nothing has crashed, raised or *)
(* expired, each submitted task has exactly one copy that can still be     *)
(* processed, or one outcome, although every relocation publishes the new  *)
(* copy before acking the old one.                                         *)
SingleCopyWithoutFaults ==
    faults = 0 =>
        \A t \in Submitted :
            Cardinality({m \in Queued : t \in m.items})
            + Cardinality({w \in Workers : t \in Carried(w)})
            + (IF t \in completed \cup dropped THEN 1 ELSE 0) = 1

(* The task lease keeps two workers from running the handler of one task   *)
(* at the same time, even when a lost channel made the broker deliver the  *)
(* message twice, as long as the lease never expired under its holder.     *)
LeaseExcludes ==
    \A w1, w2 \in Workers :
        InLease(w1) /\ InLease(w2) /\ msg[w1].items = msg[w2].items /\ w1 # w2
            => msg[w1].items \subseteq late

(* A dead-letter record in Redis is backed by a message in the dead-letter *)
(* queue: the record is written after the publish.                         *)
RecordHasMessage ==
    \A t \in records : \E m \in dlq : t \in m.items

(* A task some ready or delayed message, or some worker, still stands for. *)
Open ==
    {t \in Tasks : \/ \E m \in tasksQ \cup retryQ : t \in m.items
                  \/ \E w \in Workers : pc[w] # "idle" /\ t \in msg[w].items}

Outcome ==
    [t \in Tasks |->
        {o \in {"completed", "dead_lettered", "dropped"} :
            \/ o = "completed" /\ t \in completed
            \/ o = "dead_lettered" /\ \E m \in dlq : t \in m.items
            \/ o = "dropped" /\ t \in dropped}]

Delivery == INSTANCE TaskDelivery WITH asked <- Submitted, open <- Open, outcome <- Outcome

(* The consumer implements the at-least-once contract of TaskDelivery: the *)
(* last copy of a task disappears only after an outcome, even when the     *)
(* worker that drops it lost its delivery to the broker earlier.           *)
DeliveryContract == Delivery!Spec

(* With a retry policy every message is worked off: once producers and     *)
(* faults cease, all queues but the dead-letter queue drain, every slot    *)
(* becomes free and no lease is left behind, although leases left by       *)
(* crashed workers bounce deliveries back to the queue until they expire.  *)
Drains ==
    <>[](/\ tasksQ = {} /\ retryQ = {}
         /\ \A w \in Workers : pc[w] = "idle"
         /\ \A t \in Tasks : lease[t] = NoOwner)

(* Both: tasks are dead-lettered after their last attempt, message first.  *)
DeadLetterSound == DeadLetterExhausted /\ RecordHasMessage
=============================================================================
