-------------------------- MODULE WorkflowConsumer --------------------------
(* WorkflowConsumer (src/relayna/consumer/workflow_consumer.py) on the     *)
(* queue of one workflow stage, with the dedup keys and in-flight entries  *)
(* of RedisWorkflowContractStore and the lease of each stage message.      *)
(*                                                                         *)
(* A worker is one handler slot.  Every await that others can see is a     *)
(* step; the two round trips of a lease release are one here, module       *)
(* TaskLeaseStore takes them apart.  Status publications, observations and *)
(* the dead-letter record, whose errors are swallowed, are left out.       *)
EXTENDS Naturals, FiniteSets

CONSTANTS
    Workers,
    Messages,       \* stage messages, each published once under its message_id
    Signatures,     \* dedup signatures
    Signature,      \* signature of each message: task, action and key fields
    Suspect,        \* messages that may be unusable
    Retrying,       \* workers with an effective retry policy
    MaxRetries,     \* its max_retries
    Dedup,          \* the stage has dedup_key_fields
    LeaseEnabled,   \* lease_policy.enabled and a lease_store is configured
    SlowRetry,      \* delay_ms outlasts the cleanup of the worker that retried
    NoCopy,         \* a worker without a message
    MaxFaults       \* bound: crashes, errors, cancellations, lost channels

ASSUME WorkflowAssumption ==
    /\ Signature \in [Messages -> Signatures]
    /\ Suspect \subseteq Messages /\ Retrying \subseteq Workers
    /\ MaxRetries \in Nat /\ MaxFaults \in Nat
    /\ {Dedup, LeaseEnabled, SlowRetry} \subseteq BOOLEAN

(* A message in the broker: id tells copies apart, attempt is its header,  *)
(* never more than max_retries.                                            *)
Copies == [id : Nat, body : Messages, attempt : 0 .. MaxRetries]

ASSUME NoCopyAssumption == NoCopy \notin Copies

VARIABLES
    unusable,             \* never changes: what is no JSON, no envelope, or breaks
                          \* the contract of the stage
    unsent,
    queue, retryQ,        \* ready and delayed copies
    dlq,                  \* bodies in the dead-letter queue
    dedup,                \* signatures whose dedup key is set
    inflight,             \* signatures in the in-flight hash of the task
    mortal,               \* that hash has a TTL
    leases,               \* messages whose lease key is set
    pc, msg,              \* per worker: control state, its copy
    held,                 \* workers whose delivery the broker still waits for
    after,                \* per worker: what follows the finally block
    settled,              \* history: bodies handled, or rejected without requeue
    lonely,               \* history: bodies turned away, before any fault, as
                          \* duplicates of nothing
    faults

broker == <<unusable, unsent, queue, retryQ, dlq>>
redis == <<dedup, inflight, mortal, leases>>
control == <<pc, msg, held, after>>
history == <<settled, lonely>>
vars == <<broker, redis, control, history, faults>>

Steps == {"idle", "dedup", "mark", "expire", "undo", "acquire", "handler",
          "failed", "turned", "clear", "release", "unlease", "ack", "raised"}

TypeOK ==
    /\ unusable \subseteq Suspect
    /\ unsent \subseteq Messages /\ dlq \subseteq Messages
    /\ queue \subseteq Copies /\ retryQ \subseteq Copies
    /\ dedup \subseteq Signatures /\ inflight \subseteq Signatures /\ leases \subseteq Messages
    /\ mortal \in BOOLEAN /\ (inflight = {} => ~mortal)
    /\ pc \in [Workers -> Steps]
    /\ msg \in [Workers -> Copies \cup {NoCopy}]
    /\ \A w \in Workers : pc[w] = "idle" <=> msg[w] = NoCopy
    /\ held \subseteq Workers
    /\ after \in [Workers -> {"ack", "done", "raise", "conflict"}]
    /\ settled \subseteq Messages /\ lonely \subseteq Messages
    /\ faults \in 0 .. MaxFaults

Init ==
    /\ unusable \in SUBSET Suspect
    /\ unsent = Messages
    /\ queue = {} /\ retryQ = {} /\ dlq = {}
    /\ dedup = {} /\ inflight = {} /\ mortal = FALSE /\ leases = {}
    /\ pc = [w \in Workers |-> "idle"]
    /\ msg = [w \in Workers |-> NoCopy]
    /\ held = {}
    /\ after = [w \in Workers |-> "done"]
    /\ settled = {} /\ lonely = {}
    /\ faults = 0

Body(w) == msg[w].body
Key(w) == Signature[Body(w)]

(* An id no copy in a queue or with a worker carries.                      *)
FreshId ==
    LET live == queue \cup retryQ \cup {msg[w] : w \in {v \in Workers : msg[v] # NoCopy}}
    IN  CHOOSE i \in 1 .. Cardinality(live) + 1 : \A m \in live : m.id # i

Goto(w, step) == pc' = [pc EXCEPT ![w] = step]

Free(w) ==
    /\ Goto(w, "idle")
    /\ msg' = [msg EXCEPT ![w] = NoCopy]
    /\ held' = held \ {w}
    /\ after' = [after EXCEPT ![w] = "done"]

(* The handler's try block is left: its finally block runs, then how.      *)
Finally(w, how) ==
    /\ Goto(w, IF Dedup THEN "clear" ELSE "unlease")
    /\ after' = [after EXCEPT ![w] = how]
    /\ UNCHANGED msg

(* After the finally block: the ack, nothing, or the exception.            *)
Proceed(w) ==
    IF after[w] = "done" THEN Free(w)
    ELSE /\ Goto(w, IF after[w] = "ack" THEN "ack" ELSE "raised")
         /\ UNCHANGED <<msg, held, after>>

-----------------------------------------------------------------------------
(* publish_workflow_message: the message enters the stage queue.           *)
Submit(b) ==
    /\ b \in unsent
    /\ unsent' = unsent \ {b}
    /\ queue' = queue \cup {[id |-> FreshId, body |-> b, attempt |-> 0]}
    /\ UNCHANGED <<unusable, retryQ, dlq, redis, control, history, faults>>

(* What parsing, the envelope and the contract decide: an unusable message *)
(* is turned away, one of a stage with dedup keys goes to the contract     *)
(* store, then to the lease.                                               *)
Validated(b) ==
    IF b \in unusable THEN "turned"
    ELSE IF Dedup THEN "dedup" ELSE IF LeaseEnabled THEN "acquire" ELSE "handler"

(* A free slot receives a message and validates it, which nobody sees.     *)
Deliver(w, m) ==
    /\ pc[w] = "idle" /\ m \in queue
    /\ queue' = queue \ {m}
    /\ msg' = [msg EXCEPT ![w] = m]
    /\ held' = held \cup {w}
    /\ Goto(w, Validated(m.body))
    /\ UNCHANGED <<unusable, unsent, retryQ, dlq, redis, after, history, faults>>

(* The worker that retried m is still in its finally block.                *)
Retrier(w, m) == pc[w] \in {"clear", "release", "unlease"} /\ Body(w) = m.body

RetryDelayElapsed(m) ==
    /\ m \in retryQ
    /\ SlowRetry => \A w \in Workers : ~Retrier(w, m)
    /\ retryQ' = retryQ \ {m}
    /\ queue' = queue \cup {m}
    /\ UNCHANGED <<unusable, unsent, dlq, redis, control, history, faults>>

(* The worker is between taking the dedup key and giving it back.          *)
HasKey(w) ==
    /\ Dedup
    /\ pc[w] \in {"mark", "expire", "undo", "acquire", "handler", "failed", "clear", "release"}

(* Some other worker is at work on another message with this signature.    *)
Twin(w) ==
    \E v \in Workers \ {w} :
        /\ HasKey(v)
        /\ Key(v) = Key(w) /\ Body(v) # Body(w)

(* Seeded fault: the dedup key is SET without NX.                          *)
MutantDedupWithoutNX(w) ==
    /\ pc[w] = "dedup"
    /\ dedup' = dedup \cup {Key(w)} /\ Goto(w, "mark")
    /\ UNCHANGED <<broker, inflight, mortal, leases, msg, held, after, history, faults>>

(* acquire_dedup: SET NX.  A set key makes the message a duplicate.        *)
AcquireDedup(w) ==
    /\ pc[w] = "dedup"
    /\ dedup' = dedup \cup {Key(w)}
    /\ IF Key(w) \in dedup
       THEN /\ Goto(w, "turned")
            /\ lonely' = IF Twin(w) \/ faults > 0 THEN lonely ELSE lonely \cup {Body(w)}
       ELSE Goto(w, "mark") /\ UNCHANGED lonely
    /\ UNCHANGED <<broker, inflight, mortal, leases, msg, held, after, settled, faults>>

(* mark_inflight: HSET ...                                                 *)
MarkInflight(w) ==
    /\ pc[w] = "mark"
    /\ inflight' = inflight \cup {Key(w)}
    /\ Goto(w, "expire")
    /\ UNCHANGED <<broker, dedup, mortal, leases, msg, held, after, history, faults>>

(* ... and EXPIRE, which does nothing if the hash is gone.                 *)
ExpireMark(w) ==
    /\ pc[w] = "expire"
    /\ mortal' = (inflight # {})
    /\ Goto(w, IF LeaseEnabled THEN "acquire" ELSE "handler")
    /\ UNCHANGED <<broker, dedup, inflight, leases, msg, held, after, history, faults>>

(* mark_inflight raised: the dedup key is released before the exception    *)
(* leaves the consumer.                                                    *)
UndoDedup(w) ==
    /\ pc[w] = "undo"
    /\ dedup' = dedup \ {Key(w)}
    /\ Goto(w, "raised")
    /\ UNCHANGED <<broker, inflight, mortal, leases, msg, held, after, history, faults>>

(* Without a retry policy an unusable or duplicate message is rejected ... *)
RejectTurned(w) ==
    /\ pc[w] = "turned" /\ w \notin Retrying /\ w \in held
    /\ settled' = settled \cup {Body(w)}
    /\ Free(w)
    /\ UNCHANGED <<broker, redis, lonely, faults>>

(* ... with one it is dead-lettered as it is, and acked.                   *)
BuryTurned(w) ==
    /\ pc[w] = "turned" /\ w \in Retrying
    /\ dlq' = dlq \cup {Body(w)}
    /\ Goto(w, "ack")
    /\ UNCHANGED <<unusable, unsent, queue, retryQ, redis, msg, held, after, history, faults>>

AcquireLease(w) ==
    /\ pc[w] = "acquire" /\ Body(w) \notin leases
    /\ leases' = leases \cup {Body(w)}
    /\ Goto(w, "handler")
    /\ UNCHANGED <<broker, dedup, inflight, mortal, msg, held, after, history, faults>>

(* A lease conflict gives the delivery back first and cleans up after.     *)
LeaseConflict(w) ==
    /\ pc[w] = "acquire" /\ Body(w) \in leases /\ w \in held
    /\ queue' = queue \cup {msg[w]}
    /\ held' = held \ {w}
    /\ IF Dedup
       THEN Goto(w, "clear") /\ after' = [after EXCEPT ![w] = "conflict"] /\ UNCHANGED msg
       ELSE Goto(w, "idle") /\ msg' = [msg EXCEPT ![w] = NoCopy] /\ UNCHANGED after
    /\ UNCHANGED <<unusable, unsent, retryQ, dlq, redis, history, faults>>

HandlerReturns(w) ==
    /\ pc[w] = "handler"
    /\ settled' = settled \cup {Body(w)}
    /\ Finally(w, "ack") /\ UNCHANGED held
    /\ UNCHANGED <<broker, redis, lonely, faults>>

(* The handler raises, or runs into the timeout of the stage.              *)
HandlerFails(w) ==
    /\ pc[w] = "handler"
    /\ Goto(w, "failed")
    /\ UNCHANGED <<broker, redis, msg, held, after, history, faults>>

(* decide_retry: REJECT without a policy.                                  *)
RejectFailed(w) ==
    /\ pc[w] = "failed" /\ w \notin Retrying /\ w \in held
    /\ settled' = settled \cup {Body(w)}
    /\ held' = held \ {w}
    /\ Finally(w, "done")
    /\ UNCHANGED <<broker, redis, lonely, faults>>

(* decide_retry: RETRY, a copy goes to the retry queue ...                 *)
PublishRetry(w) ==
    /\ pc[w] = "failed" /\ w \in Retrying
    /\ msg[w].attempt < MaxRetries
    /\ retryQ' = retryQ \cup {[id |-> FreshId, body |-> Body(w), attempt |-> msg[w].attempt + 1]}
    /\ Finally(w, "ack")
    /\ UNCHANGED <<unusable, unsent, queue, dlq, redis, held, history, faults>>

(* ... or DEAD_LETTER.                                                     *)
PublishDeadLetter(w) ==
    /\ pc[w] = "failed" /\ w \in Retrying
    /\ msg[w].attempt >= MaxRetries
    /\ dlq' = dlq \cup {Body(w)}
    /\ Finally(w, "ack")
    /\ UNCHANGED <<unusable, unsent, queue, retryQ, redis, held, history, faults>>

-----------------------------------------------------------------------------
(* _cleanup_dedup_state: clear_inflight ...                                *)
ClearInflight(w) ==
    /\ pc[w] = "clear"
    /\ inflight' = inflight \ {Key(w)}
    /\ mortal' = (mortal /\ inflight' # {})
    /\ Goto(w, "release")
    /\ UNCHANGED <<broker, dedup, leases, msg, held, after, history, faults>>

(* Seeded fault: the dedup key is left to its TTL.                         *)
MutantKeyKept(w) ==
    /\ pc[w] = "release"
    /\ UNCHANGED dedup
    /\ IF after[w] = "conflict" THEN Free(w)
       ELSE Goto(w, "unlease") /\ UNCHANGED <<msg, held, after>>
    /\ UNCHANGED <<broker, inflight, mortal, leases, history, faults>>

(* ... and release_dedup: DEL of the key.                                  *)
ReleaseDedup(w) ==
    /\ pc[w] = "release"
    /\ dedup' = dedup \ {Key(w)}
    /\ IF after[w] = "conflict" THEN Free(w)
       ELSE Goto(w, "unlease") /\ UNCHANGED <<msg, held, after>>
    /\ UNCHANGED <<broker, inflight, mortal, leases, history, faults>>

(* The heartbeat is cancelled and the lease released.                      *)
ReleaseLease(w) ==
    /\ pc[w] = "unlease"
    /\ leases' = leases \ {Body(w)}
    /\ Proceed(w)
    /\ UNCHANGED <<broker, dedup, inflight, mortal, history, faults>>

(* run_forever acks what _handle_message returned True for.                *)
Ack(w) ==
    /\ pc[w] = "ack" /\ w \in held
    /\ Free(w)
    /\ UNCHANGED <<broker, redis, history, faults>>

(* An ack or reject of a delivery the broker took back raises.  Only after *)
(* the handler does the finally block run.                                 *)
StaleDelivery(w) ==
    /\ w \notin held
    /\ \/ /\ \/ pc[w] = "ack"
             \/ pc[w] = "turned" /\ w \notin Retrying
             \/ pc[w] = "acquire" /\ Body(w) \in leases
          /\ Goto(w, "raised") /\ UNCHANGED <<msg, after>>
       \/ pc[w] = "failed" /\ w \notin Retrying /\ Finally(w, "raise")
    /\ UNCHANGED <<broker, redis, held, history, faults>>

Returned(w) == IF w \in held THEN {msg[w]} ELSE {}

(* The exception left run_forever's iterator: the channel is closed.       *)
CloseChannel(w) ==
    /\ pc[w] = "raised"
    /\ queue' = queue \cup Returned(w)
    /\ Free(w)
    /\ UNCHANGED <<unusable, unsent, retryQ, dlq, redis, history, faults>>

-----------------------------------------------------------------------------
Fault == faults < MaxFaults /\ faults' = faults + 1

(* A call raises, or the task is cancelled.  Before the try block nothing  *)
(* is cleaned up, except that a failing mark_inflight releases the key; a  *)
(* cancellation, which is no Exception, skips that and the rest of finally.*)
Interrupt(w) ==
    /\ Fault
    /\ \/ pc[w] \in Steps \ {"idle", "handler", "failed", "raised"}
          /\ Goto(w, "raised") /\ UNCHANGED <<msg, after>>
       \/ pc[w] \in {"mark", "expire"} /\ Goto(w, "undo") /\ UNCHANGED <<msg, after>>
       \/ pc[w] \in {"handler", "failed"} /\ Finally(w, "raise")
    /\ UNCHANGED <<broker, redis, held, history>>

(* clear_inflight or release_dedup raises: the error is swallowed.         *)
CleanupFails(w) ==
    /\ Fault
    /\ \/ pc[w] = "clear" /\ Goto(w, "release") /\ UNCHANGED <<msg, held, after>>
       \/ /\ pc[w] = "release"
          /\ IF after[w] = "conflict" THEN Free(w)
             ELSE Goto(w, "unlease") /\ UNCHANGED <<msg, held, after>>
    /\ UNCHANGED <<broker, redis, history>>

Crash(w) ==
    /\ pc[w] # "idle"
    /\ Fault
    /\ queue' = queue \cup Returned(w)
    /\ Free(w)
    /\ UNCHANGED <<unusable, unsent, retryQ, dlq, redis, history>>

LoseChannel(w) ==
    /\ w \in held
    /\ Fault
    /\ queue' = queue \cup {msg[w]}
    /\ held' = held \ {w}
    /\ UNCHANGED <<unusable, unsent, retryQ, dlq, redis, pc, msg, after, history>>

HasLease(w) ==
    /\ LeaseEnabled /\ after[w] # "conflict"
    /\ pc[w] \in {"handler", "failed", "clear", "release", "unlease"}

(* What nobody holds any more expires in the end; heartbeats keep the      *)
(* leases, and the TTL of the dedup keys (a day) outlasts any handler.     *)
ExpireKey(s) ==
    /\ s \in dedup
    /\ ~\E w \in Workers : HasKey(w) /\ Key(w) = s
    /\ dedup' = dedup \ {s}
    /\ UNCHANGED <<broker, inflight, mortal, leases, control, history, faults>>

ExpireInflight ==
    /\ mortal
    /\ ~\E w \in Workers : HasKey(w)
    /\ inflight' = {} /\ mortal' = FALSE
    /\ UNCHANGED <<broker, dedup, leases, control, history, faults>>

(* Seeded fault: leases are stored without a TTL.                          *)
MutantLeaseForever(b) ==
    /\ b \in leases /\ leases = {}
    /\ UNCHANGED vars

ExpireLease(b) ==
    /\ b \in leases
    /\ ~\E w \in Workers : HasLease(w) /\ Body(w) = b
    /\ leases' = leases \ {b}
    /\ UNCHANGED <<broker, dedup, inflight, mortal, control, history, faults>>

WorkerStep(w) ==
    \/ AcquireDedup(w) \/ MarkInflight(w) \/ ExpireMark(w) \/ UndoDedup(w)
    \/ RejectTurned(w) \/ BuryTurned(w) \/ AcquireLease(w) \/ LeaseConflict(w)
    \/ HandlerReturns(w) \/ HandlerFails(w) \/ RejectFailed(w)
    \/ PublishRetry(w) \/ PublishDeadLetter(w)
    \/ ClearInflight(w) \/ ReleaseDedup(w) \/ ReleaseLease(w)
    \/ Ack(w) \/ StaleDelivery(w) \/ CloseChannel(w)

Next ==
    \/ \E b \in Messages : Submit(b) \/ ExpireLease(b)
    \/ ExpireInflight \/ \E s \in Signatures : ExpireKey(s)
    \/ \E m \in retryQ : RetryDelayElapsed(m)
    \/ \E w \in Workers :
          \/ \E m \in queue : Deliver(w, m)
          \/ WorkerStep(w) \/ Interrupt(w) \/ CleanupFails(w) \/ Crash(w) \/ LoseChannel(w)

Spec == Init /\ [][Next]_vars

DeliverBody(b) == \E w \in Workers : \E m \in queue : m.body = b /\ Deliver(w, m)

(* Workers run, the queue hands its messages to free slots in turn, and    *)
(* delays and TTLs elapse.  Producers and faults are never forced.         *)
Fairness ==
    /\ \A w \in Workers : WF_vars(WorkerStep(w))
    /\ \A b \in Messages : SF_vars(DeliverBody(b)) /\ WF_vars(ExpireLease(b))
    /\ WF_vars(ExpireInflight) /\ \A s \in Signatures : WF_vars(ExpireKey(s))
    /\ WF_vars(\E m \in retryQ : RetryDelayElapsed(m))

FairSpec == Spec /\ Fairness

-----------------------------------------------------------------------------
(* The dedup key keeps two workers from running handlers for the same      *)
(* signature together, whatever was redelivered, retried or cleaned up.    *)
DedupExcludes ==
    Dedup => \A v, w \in Workers :
        v # w /\ pc[v] = "handler" /\ pc[w] = "handler" => Key(v) # Key(w)

(* Without faults a message is turned away as a duplicate only while some  *)
(* other message with its signature is being worked on: no message, and no *)
(* retry of it, runs into a key it left behind itself.                     *)
OnlyDuplicatesTurnedAway == lonely = {}

(* A stage message is never lost: it is in a queue, with a worker whose    *)
(* delivery is unacked, handled, dead-lettered, or rejected by a worker    *)
(* that has no retry policy.                                               *)
NoMessageLost ==
    \A b \in Messages \ unsent :
        \/ \E m \in queue \cup retryQ : m.body = b
        \/ \E w \in held : Body(w) = b
        \/ b \in dlq \cup settled

(* Everything comes to rest: queues drain, workers become free, and no     *)
(* dedup key or lease is left.  An in-flight entry stays behind only when  *)
(* its worker was stopped between the HSET and the EXPIRE of mark_inflight.*)
ComesToRest ==
    <>[](/\ queue = {} /\ retryQ = {} /\ \A w \in Workers : pc[w] = "idle"
         /\ dedup = {} /\ leases = {} /\ (inflight = {} \/ ~mortal))

(* Both: no message is lost, and none is turned away for its own key.      *)
MessagesKept == TypeOK /\ NoMessageLost /\ OnlyDuplicatesTurnedAway
=============================================================================
